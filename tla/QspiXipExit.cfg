SPECIFICATION LiveSpec
CONSTANTS
  Addr <- MCAddr
  Lanes = {l0}
  Byte <- MCByte
  Ops = {"Get"}
  Outstanding = 2
  HostReady = {TRUE, FALSE}
  Nothing = Nothing
  Flash <- MCFlash
  FlashSize = 3
  Bases = {0, 2}
  Dummies = {1, 10}
  EndsXip = TRUE
PROPERTY Served
