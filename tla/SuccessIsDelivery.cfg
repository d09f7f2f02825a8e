SPECIFICATION Spec
CONSTANTS
  WritesMayFail = FALSE
  SeqSpace = 6
  MAX_WINDOW_SIZE = 3
  WrapHigh = 3
  WrapLow = 3
  Capacity = 3
  Reordering = TRUE
  FaultKinds = {}
  MaxFaults = 0
  Blocks = 7
  LastTimeouts = 1
  TimelyNetwork = TRUE
INVARIANTS
  SuccessIsDelivery
