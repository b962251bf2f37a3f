SPECIFICATION PlicLiveSpec
CONSTANTS
  Levels = 2
  NumSrc = 3
  MAX_PRIO = 1
INVARIANTS ClaimSound ActiveAccounted
PROPERTIES HighestFirst Delivered
