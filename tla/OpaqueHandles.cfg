\* Each share holds exactly one largest answer.
SPECIFICATION MCSpec
CONSTANTS
  c1 = c1
  c2 = c2
  Client = {c1, c2}
  Call = {k1, k2}
  None = None
  Capacity = 6
  CapacityPerProfile = 3
  MaxResults = 1
  Ttl = 1
  PagingTtl = 1
  MaxTime = 1
SYMMETRY MCSymmetry
INVARIANTS ShareReserved ContinuationBacked
PROPERTIES DerivedNeverOutlives
