SPECIFICATION FairSpec
CONSTANTS
  Conns = {c1, c2}
  Dests = {d1, d2}
  GrantDests = {d1}
  MaxConnections = 2
  MaxAdm = 2
INVARIANTS
  TypeOK
  TunnelsAdmitted
PROPERTIES
  RetainedTunnelsSurvive
  WithdrawnTunnelsEnd
