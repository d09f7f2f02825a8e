SPECIFICATION Spec
CONSTANTS
  WritesMayFail = FALSE
  SeqSpace = 6
  MAX_WINDOW_SIZE = 3
  WrapHigh = 3
  WrapLow = 3
  Capacity = 3
  Reordering = TRUE
  FaultKinds = {"lose", "damage", "duplicate"}
  MaxFaults = 1
  Blocks = 3
  LastTimeouts = 1
  TimelyNetwork = FALSE
INVARIANTS
  SuccessIsDelivery
  ReceivedSuccessfully
  AcknowledgedIsWritten
