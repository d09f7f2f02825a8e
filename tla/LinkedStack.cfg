SPECIFICATION Spec
CONSTANTS
  SeqSpace = 4
  MAX_WINDOW_SIZE = 2
  WrapHigh = 2
  WrapLow = 2
  Tags = {0, 1}
  MaxNodes = 3
INVARIANTS
  RingWellFormed
  LookupsAgree
PROPERTIES
  ImplementsStack
