\* One client and two calls, whole documents that push pages out of the cache and the
\* other way round, and cursors that outlive cached texts.
CONSTANTS
  Client = {c1}
  Document = {d1}
  Call = {k1, k2}
  None = None
  Version = {v1, v2}
  Size <- MCSize
  Length <- MCLength
  MaxChars = 1
  MaxEntries = 2
  MaxEntriesPerClient = 2
  MaxBytes = 2
  Ttl = 1
  CursorTtl = 1
  MaxRevision = 2
  MaxTime = 2
  MaxSetBack = 0
SPECIFICATION Spec
SYMMETRY MCSymmetry
INVARIANTS ServedIsProven ChunksAddUp FilesRemoved
