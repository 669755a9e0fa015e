SPECIFICATION Spec
CONSTANTS
  Decls = {"a", "b"}
  Plan <- TwoPlans
  NetDecls = {"a"}
  MaxGen = 3
  MaxPid = 3
  MaxWs = 1
  MaxCrashes = 0
  MaxFaults = 1
  MaxExits = 0
  CrashAt <- AllLabels
  FaultAt <- PublishFaults
  LostAt = {}
  None = None
INVARIANTS
  Settled
