SPECIFICATION Spec
CONSTANTS
  Conn = {n1, n2, n3}
  Client = {c1, c2}
  Port = {p1, p2}
  InitialClients = {c1, c2}
  Cap = 2
  Startup = FALSE
  Faults = {}
  HealthChecks = FALSE
  ShutdownCalls = 0
  Rank <- MCRank
  Nil = Nil
  NoID = NoID
  NoConn = NoConn
SYMMETRY Symmetry
INVARIANT
  ConnectAssignsOrFails
CHECK_DEADLOCK FALSE
