SPECIFICATION LiveSpec
CONSTANTS
  Byte <- MCByte
  Images <- MCImages
  Partial <- MCPartial
  HighTimes = {2, 4}
  LowTimes = {2, 4}
  AddrSpace = 2
  Reprogram = FALSE
  Nothing = Nothing
INVARIANTS ImageLoaded ConfigAsSent SessionStatus
PROPERTIES ImplementsStatus Released
