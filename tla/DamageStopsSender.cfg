SPECIFICATION FairSpec
CONSTANTS
  WritesMayFail = FALSE
  SeqSpace = 6
  MAX_WINDOW_SIZE = 3
  WrapHigh = 3
  WrapLow = 3
  Capacity = 3
  Reordering = FALSE
  FaultKinds = {"damage"}
  MaxFaults = 2
  Blocks = 4
  LastTimeouts = 5
  TimelyNetwork = TRUE
PROPERTIES
  SenderEnds
