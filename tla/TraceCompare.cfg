\* Every pair of traces of up to MaxRows rows over six rows.
SPECIFICATION CompareSpec
CONSTANTS
  Regs = {"sp", "gp"}
  Values = {0, 1}
  MaxRows = 3
  Traces <- MCTraces
INVARIANTS VerdictExact
\* The comparison ends.
CHECK_DEADLOCK FALSE
