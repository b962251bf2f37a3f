----------------------------- MODULE MCDataMem -----------------------------
(* Two byte lanes, so that partial writes matter; the boot word is one that  *)
(* the SRAM may hold too.                                                    *)
EXTENDS DataMem
MCByte == 0 .. 1
MCBootWords == {[l \in Lanes |-> 1]}
============================================================================
