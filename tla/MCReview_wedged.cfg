SPECIFICATION ReviewSpec
CONSTANTS
  Procs = {p1}
  Ops = {"up", "down", "destroy", "inspect"}
  MaxInode = 1
  Plans = {"a", "b"}
  Mounts = {"m", "n"}
  Targets <- MCTargets
  MaxGen = 2
  MaxWs = 0
  MaxFlips = 0
  None = None
INVARIANTS
  NotWedged
CHECK_DEADLOCK FALSE
