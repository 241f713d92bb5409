SPECIFICATION Spec
CONSTANTS
  c1 = c1
  c2 = c2
  u1 = u1
  u2 = u2
  u3 = u3
  d1 = d1
  d2 = d2
  Client = {c1, c2}
  SnapshotId = {u1, u2, u3}
  Listing <- MCListing
  Absent = Absent
  ListLengths = {3, 5}
  PageSizes = {1, 2}
  MaxIdsPerSnapshot = 4
  MaxSnapshots = 2
  MaxSnapshotsPerClient = 2
  MaxTotalIds = 7
  MaxTotalIdsPerClient = 6
  Ttl = 2
  TicksPerSecond = 2
  MaxTime = 2
SYMMETRY Symmetry
INVARIANTS LimitsHold NoGap
PROPERTIES ExpiryHolds OnlyOwnerDisplaces
CHECK_DEADLOCK FALSE
