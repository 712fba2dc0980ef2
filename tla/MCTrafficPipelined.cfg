SPECIFICATION Spec
CONSTANTS
  MaxRequest = 2
  Chunk = 2
  ReqSizes = {1, 2}
  RespSizes = {1, 3}
  Pipelining = TRUE
  Hooks = {}
  Faults = {"backend", "shutdown", "health"}
  StackBound = 3
INVARIANTS
  RelayedInOrder
  OrderInv
CHECK_DEADLOCK FALSE
