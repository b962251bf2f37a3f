\* Two invocations with one output directory and one fault.
SPECIFICATION Spec
CONSTANTS
  Regs = {"a0", "a1"}
  Values <- MCValues
  Tests <- MCTests
  Directed <- MCDirected
  BatchSize = 2
  IssList <- MCIssList
  Execution <- MCExecution
  Options <- MCOptions
  StartSeed = 5
  MaxInvocations = 2
  MaxFaults = 1
  None = None
INVARIANTS TypeOK ReportComplete
PROPERTIES VerdictsReproducible VerdictOfExecutions
\* The last invocation ends.
CHECK_DEADLOCK FALSE
