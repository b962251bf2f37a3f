----------------------------- MODULE MCQspiXip -----------------------------
(* A flash of three words, a window of two, words of one lane that tell the    *)
(* addresses apart.                                                          *)
EXTENDS QspiXip
MCAddr  == 0 .. 1
MCByte  == 0 .. 2
MCFlash == [a \in 0 .. 2 |-> [l \in Lanes |-> a]]
============================================================================
