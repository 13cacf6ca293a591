SPECIFICATION Spec
CONSTANTS
  Rooms = {r1}
  Own = Own
  Writers = {w1, w2}
  NoOne = NoOne
  Trees = {"pdu","key","todevice"}
  TimelineLimit = 1
  MaxCount = 5
  MaxLoadErrors = 1
  MaxCrashes = 1
SYMMETRY Symmetry
INVARIANTS NoPduSkipped CacheIsLatest OnlyRacingRowsAreSkipped
CONSTRAINT Bounded
