-------------------------- MODULE MCSpiProgrammer --------------------------
(* Images of up to two words; none holds the terminator at any alignment.    *)
EXTENDS SpiProgrammer
MCByte   == 0 .. 255
MCImages == {<<>>, << <<1, 2, 3, 4>>, <<255, 255, 1, 0>> >>, << <<177, 179, 0, 255>> >>}
MCPartial == {85}

ASSUME Careful == CarefulHost
============================================================================
