SPECIFICATION BackgroundSpec
CONSTANTS
  Conn = {n1}
  Client = {c1, c2}
  Port = {p1, p2}
  InitialClients = {c1, c2}
  Cap = 2
  Startup = TRUE
  Faults = {"dial", "resolve", "reset"}
  HealthChecks = TRUE
  ShutdownCalls = 1
  Rank <- MCRank
  Nil = Nil
  NoID = NoID
  NoConn = NoConn
INVARIANTS
  TypeOK
  IInv
PROPERTIES
  LeaseSpec
  ShutdownReturns
  DeadClientRemoved
CHECK_DEADLOCK FALSE
