SPECIFICATION Spec
CONSTANTS
  Owner = {o1, o2}
  Methods = {"trust"}
  MaxQueries = 2
  MaxLeft = 2
  Retries = 0
  Faults = {}
  None = None
INVARIANTS
  ResetMakesReusable
