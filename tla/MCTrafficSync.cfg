SPECIFICATION FairSpec
CONSTANTS
  MaxRequest = 3
  Chunk = 2
  ReqSizes = {1}
  RespSizes = {1, 2, 3}
  Pipelining = FALSE
  Hooks = {"ssl", "answer", "terminate"}
  Faults = {"backend", "shutdown", "health"}
  StackBound = 4
INVARIANTS
  TypeOK
  NoStaleDeadline
  Pairing
PROPERTIES
  C2sStopsS2c
  ShutdownUnblocks
  ResponseDelivered
CHECK_DEADLOCK FALSE
