SPECIFICATION Spec
CONSTANTS
  WritesMayFail = FALSE
  SeqSpace = 4
  MAX_WINDOW_SIZE = 2
  WrapHigh = 2
  WrapLow = 2
  Capacity = 2
  Reordering = FALSE
  FaultKinds = {"lose", "damage", "duplicate"}
  MaxFaults = 3
  Blocks = 5
  LastTimeouts = 1
  TimelyNetwork = FALSE
INVARIANTS
  TypeOK
  KeepsTheRest
  LastComesLast
  NoLapMistaken
  AcknowledgedIsWritten
PROPERTIES
  AcksAdvance
  ImplementsReliableTransfer
