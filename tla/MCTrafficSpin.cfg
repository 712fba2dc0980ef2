SPECIFICATION FairSpec
CONSTANTS
  MaxRequest = 1
  Chunk = 3
  ReqSizes = {1}
  RespSizes = {1}
  Pipelining = FALSE
  Hooks = {}
  Faults = {"backend"}
  StackBound = 2
PROPERTIES
  S2cStopsC2s
CHECK_DEADLOCK FALSE
