SPECIFICATION Spec
CONSTANTS
  p1 = p1
  p2 = p2
  n1 = n1
  n2 = n2
  n3 = n3
  Node = {n1, n2, n3}
  Proxies <- MCProxies
  Weight <- MCWeight
  Order <- MCOrder
  Source = {s1}
  Scenarios <- MCScenarios
  Modulus = 3
  MaxLog = 3
  SnapshotThreshold = 2
  None = None
INVARIANTS
  ReplicasAgree
  WeightedShare
  RoundRobinCycles
  ShareInv
PROPERTIES
  Sticky
CHECK_DEADLOCK FALSE
