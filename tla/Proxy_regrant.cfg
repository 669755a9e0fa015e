SPECIFICATION Spec
CONSTANTS
  Conns = {c1}
  Dests = {d1}
  GrantDests = {d1}
  MaxConnections = 1
  MaxAdm = 2
INVARIANTS
  TunnelsAllowed
