SPECIFICATION LiveSpec
CONSTANTS
  Addr = {a0, a1}
  Lanes = {l0}
  Byte <- MCByte
  Ops = {"Get"}
  Outstanding = 2
  HostReady = {TRUE, FALSE}
  Disciplined = TRUE
  Nothing = Nothing
INVARIANT EveryReadTracked
PROPERTIES ImplementsMemory Served
