SPECIFICATION Spec
CONSTANTS
  SeqSpace = 4
  MAX_WINDOW_SIZE = 2
  WrapHigh = 2
  WrapLow = 2
  MAX_PAYLOAD_SIZE = 2
  Bytes = {"a", "b", "c"}
  Senders = {"s1", "s2"}
  Receivers = {"r1", "r2"}
  Files <- MCFiles
  MaxFailures = 1
  Attached <- MCAttached
  Unknown = {"-x", "-1"}
  Numbers <- MCNumbers
  Hosts <- MCHosts
  Starts <- MCStarts
  PortSpace = 4
  QueueSize = 2
  MaxDamages = 1
INVARIANTS
  ReaderTypeOK
  NumberedInOrder
  CarriesInput
  StartedAsAsked
  AcceptsItsPeer
  GivesUpOnlyWhenDisturbed
CHECK_DEADLOCK FALSE
