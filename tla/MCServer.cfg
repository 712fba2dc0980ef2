SPECIFICATION FairSpec
CONSTANTS
  Conn = {c1, c2}
  PoolSize = 1
  EnableTicker = TRUE
  Faults = {"listen", "address", "tls", "accept", "proxy", "connect"}
INVARIANTS
  TypeOK
  CleanFinish
PROPERTIES
  StopExits
CHECK_DEADLOCK FALSE
