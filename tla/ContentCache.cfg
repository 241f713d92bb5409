\* Three clients, whole documents and pages, and limits of which each can bind.
CONSTANTS
  Client = {c1, c2, c3}
  Document = {d1}
  Call = {k1, k2}
  None = None
  Version = {v1, v2}
  Size <- MCSize
  Length <- MCShort
  MaxChars = 1
  MaxEntries = 2
  MaxEntriesPerClient = 1
  MaxBytes = 3
  Ttl = 1
  CursorTtl = 0
  MaxRevision = 1
  MaxTime = 2
  MaxSetBack = 1
SPECIFICATION Spec
SYMMETRY MCSymmetry
INVARIANT CacheLimits
PROPERTY HitIsOwnAndFresh
