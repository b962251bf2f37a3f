\* The coverage run over two files of up to three and two rows.
CONSTANTS
  TraceFiles <- mcTraceFiles
  Registers <- mcRegisters
  supported_isa <- mcIsa
  RegValues = {0, 1, 2}
SPECIFICATION CovSpec
INVARIANTS CovTypeOK CoverpointsFed CountedAsItself AssembledRowsAccepted RowsAsExecuted
PROPERTIES OperandsAreArchitectural HazardsRecorded
\* The run ends with its report or with an exception.
CHECK_DEADLOCK FALSE
