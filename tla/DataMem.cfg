SPECIFICATION LiveSpec
CONSTANTS
  Addr = {a0, boot}
  BootAddr = boot
  Lanes = {l0, l1}
  Byte <- MCByte
  BootWords <- MCBootWords
  Ops = {"Get", "Put"}
  Outstanding = 2
  HostReady = {TRUE, FALSE}
  Nothing = Nothing
INVARIANT EveryReadTracked
PROPERTIES ImplementsMemory Served
