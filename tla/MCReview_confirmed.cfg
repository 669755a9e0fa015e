SPECIFICATION ReviewSpec
CONSTANTS
  Procs = {p1, p2}
  Ops = {"up", "down", "destroy", "inspect"}
  MaxInode = 3
  Plans = {"a", "b"}
  Mounts = {"m", "n"}
  Targets <- MCTargets
  MaxGen = 3
  MaxWs = 2
  MaxFlips = 1
  None = None
INVARIANTS
  ReviewTypeOK
  SoleMutator
  AppliedAsReviewed
PROPERTIES
  RefusalLeavesNoTrace
CHECK_DEADLOCK FALSE
