---------------------------- MODULE MCBootFlow ----------------------------
(* A host that opens sessions at any edge, resets at any time.               *)
EXTENDS BootFlow
============================================================================
