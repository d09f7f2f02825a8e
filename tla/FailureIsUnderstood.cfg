SPECIFICATION Spec
CONSTANTS
  WritesMayFail = FALSE
  SeqSpace = 4
  MAX_WINDOW_SIZE = 2
  WrapHigh = 2
  WrapLow = 2
  Capacity = 5
  Reordering = FALSE
  FaultKinds = {"lose"}
  MaxFaults = 5
  Blocks = 4
  LastTimeouts = 5
  TimelyNetwork = TRUE
PROPERTIES
  FailureIsUnderstood
