SPECIFICATION InspectSpec
CONSTANTS
  Decls = {"a", "b"}
  Plan <- TwoPlans
  NetDecls = {"a"}
  MaxGen = 3
  MaxPid = 3
  MaxWs = 1
  MaxCrashes = 2
  MaxFaults = 0
  MaxExits = 0
  CrashAt <- AllLabels
  FaultAt = {}
  LostAt = {}
  None = None
INVARIANTS
  TypeOK
  Recoverable
  Settled
  RunsAsRecorded
  CurrentInspectable
  AttributionIsExact
PROPERTIES
  AtomicAuthority
