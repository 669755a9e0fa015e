SPECIFICATION FairSpec
CONSTANTS
  Decls = {"a", "b"}
  Plan <- TwoPlans
  NetDecls = {"a"}
  MaxGen = 2
  MaxPid = 3
  MaxWs = 1
  MaxCrashes = 1
  MaxFaults = 1
  MaxExits = 1
  CrashAt <- RecoverableCrash
  FaultAt <- BeforeCommit
  LostAt = {"u.create", "u.stop"}
  None = None
INVARIANTS
  Settled
  RunsAsRecorded
  HandoffExact
PROPERTIES
  Settles
