SPECIFICATION FairSpec
CONSTANTS
  n1 = n1
  Node = {n1, n2}
  Bootstrap = n1
  Configured <- MCConfigured
  Leavers = {n2}
  MaxLog = 4
  MaxFaults = 1
  None = None
INVARIANTS
  VoterAnnounced
  PeersInv
PROPERTIES
  GhostsVanish
CHECK_DEADLOCK FALSE
