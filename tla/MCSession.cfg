SPECIFICATION FairSpec
CONSTANTS
  Owner = {o1, o2}
  Methods = {"trust", "cleartext", "md5", "sasl", "other"}
  MaxQueries = 3
  MaxLeft = 3
  Retries = 1
  Faults = {"dial", "refuse", "scram", "close"}
  None = None
INVARIANTS
  TypeOK
  PooledIdle
  NoCrossTalk
PROPERTIES
  HandshakeReturns
CHECK_DEADLOCK FALSE
