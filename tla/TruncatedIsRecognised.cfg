SPECIFICATION Spec
CONSTANTS
  MAX_PAYLOAD_SIZE = 2
  Bytes = {0, 1}
  Seqnums = {0, 1}
  MaxTampering = 1
INVARIANTS
  TruncatedIsRecognised
CHECK_DEADLOCK FALSE
