SPECIFICATION FairSpec
CONSTANTS
  WritesMayFail = FALSE
  SeqSpace = 6
  MAX_WINDOW_SIZE = 3
  WrapHigh = 3
  WrapLow = 3
  Capacity = 3
  Reordering = FALSE
  FaultKinds = {"lose", "duplicate"}
  MaxFaults = 4
  Blocks = 7
  LastTimeouts = 1
  TimelyNetwork = TRUE
INVARIANTS
  TimersCoverSent
  NeverStuck
PROPERTIES
  SenderEnds
  ReceiverEnds
