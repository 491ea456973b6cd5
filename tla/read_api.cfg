CONSTANTS
  c1 = c1
  c2 = c2
  i1 = i1
  i2 = i2
  s1 = s1
  s2 = s2
  big = big
  None = None
  Broken = Broken
  Unread = Unread
  Clients = {c1, c2}
  Instances = {i1, i2}
  Snapshots = {s1, s2, big}
  ScannedAt <- MCScannedAt
  Large = {big}
  MaxWrites = 2
  MaxRequests = 3
  MaxFaults = 1
  Faults = {"store", "chunks", "pointer", "rollback", "context", "replace"}
SPECIFICATION Safety
SYMMETRY Symmetry
CHECK_DEADLOCK FALSE
INVARIANTS
  TypeOK
  ConfirmedCopiesAreCurrent
  BurstCostsOneRead
PROPERTIES
  ReadersAreServed
  AlarmsAreReal
