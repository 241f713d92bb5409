\* One client and one call suffice to leave a text behind.
CONSTANTS
  Client = {c1}
  Document = {d1}
  Call = {k1}
  None = None
  Version = {v1}
  Size <- MCSize
  Length <- MCLength
  MaxChars = 2
  MaxEntries = 2
  MaxEntriesPerClient = 2
  MaxBytes = 3
  Ttl = 1
  CursorTtl = 2
  MaxRevision = 1
  MaxTime = 2
  MaxSetBack = 0
SPECIFICATION Spec
SYMMETRY MCSymmetry
INVARIANT DeletedOnExpiry
