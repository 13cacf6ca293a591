SPECIFICATION Spec
CONSTANTS
  Rooms = {r1}
  Own = Own
  Writers = {w1, w2}
  NoOne = NoOne
  Trees = {"todevice"}
  TimelineLimit = 1
  MaxCount = 2
  MaxLoadErrors = 0
  MaxCrashes = 0
INVARIANT OnlyReceivedEventsAreRemoved
