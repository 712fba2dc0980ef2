SPECIFICATION FairSpec
CONSTANTS
  p1 = p1
  p2 = p2
  p3 = p3
  None = None
  Order <- MCOrder
  Request = {r1}
  Requires <- MCRequires
  Signals <- MCSignals
  Default = "passthrough"
  Reload = TRUE
  Faults = {"start", "restart", "dispense", "ping", "call", "action"}
  MaxCrashes = 1
INVARIANTS
  NoGhostHook
  CalledOnce
  VerdictDecides
  IInv
PROPERTIES
  RunReturns
  ReloadRestores
CHECK_DEADLOCK FALSE
