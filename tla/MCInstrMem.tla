---------------------------- MODULE MCInstrMem ----------------------------
(* Two addresses, words of one byte lane with two values.                   *)
EXTENDS InstrMem
MCByte == 0 .. 1
============================================================================
