SPECIFICATION Spec
CONSTANTS
  WritesMayFail = TRUE
  SeqSpace = 6
  MAX_WINDOW_SIZE = 3
  WrapHigh = 3
  WrapLow = 3
  Capacity = 1
  Reordering = FALSE
  MaxFaults = 0
  FaultKinds = {}
  Payloads = {0, 1}
  MaxOutput = 2
INVARIANTS
  TypeOK
  NoDuplicateBuffered
  BufferedAhead
  WindowAccurate
  NeverZeroWindow
CHECK_DEADLOCK FALSE
