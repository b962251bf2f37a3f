--------------------------- MODULE MCTraceCompare ----------------------------
EXTENDS TraceCompare

CONSTANT MaxRows

(* No write, one write, two writes of one register and of two.                *)
MCRows ==
  {<<>>, <<<<"sp", 0>>>>, <<<<"sp", 1>>>>, <<<<"gp", 1>>>>,
   <<<<"sp", 1>>, <<"sp", 0>>>>, <<<<"sp", 1>>, <<"gp", 0>>>>}

MCTraces == UNION {[1..n -> MCRows] : n \in 0..MaxRows}
==============================================================================
