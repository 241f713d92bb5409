\* Two files of two records each besides the active one, clock set forth and back.
CONSTANTS
  Absent = Absent
  MaxFiles = 3
  MaxFileBytes = 5
  RecordBytes = 2
  MaxAge = 2
  MaxPending = 2
  MaxRecords = 4
  MaxTime = 2
SPECIFICATION Spec
INVARIANT SegmentsWhole
PROPERTIES TrailKept WritesEnd
