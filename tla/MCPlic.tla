------------------------------- MODULE MCPlic -------------------------------
(* Two sources below a tree of four leaves.                                  *)
EXTENDS Plic
============================================================================
