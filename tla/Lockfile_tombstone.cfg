SPECIFICATION Spec
CONSTANTS
  Procs = {p1, p2, p3}
  Ops = {"up", "down", "destroy", "inspect"}
  MaxInode = 3
INVARIANTS
  SoleMutator
CHECK_DEADLOCK FALSE
