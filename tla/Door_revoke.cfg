SPECIFICATION DoorFairSpec
CONSTANTS
  Kinds = {"listener", "connection", "path"}
  MaxProc = 3
  Sizes = {1, 3}
  MaxEvents = 1
  MaxBytes = 2
  MaxOpened = 2
  Conns = {c1, c2}
  Dests = {d1}
  GrantDests = {}
  MaxConnections = 2
  MaxAdm = 1
INVARIANTS
  DoorTypeOK
  NoTunnelAfterRevoke
  JoinedIsIdle
  EvidenceAccounts
  PinnedInWorld
  NothingLeaks
  ConnectionHandedOver
PROPERTIES
  EgressJoins
CHECK_DEADLOCK FALSE
