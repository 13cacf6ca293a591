SPECIFICATION Spec
CONSTANTS
  Root = Root
  r0 = r0
  r1 = r1
  r2 = r2
  l1 = l1
  l2 = l2
  Remote = {r0, r1, r2}
  Local = {l1, l2}
  Invites = {l2}
  Direct = {r1}
  Time <- EqualTimes
  RemotePrev <- Chain
  StateEvents = {Root, l1, r1}
  Bans <- BanOfR2
  Tasks = {t1, t2}
  NoTask = NoTask
  NoCount = NoCount
  NoState = NoState
  PrevLimit = 1
  MaxFetch = 1
  MaxErrors = 1
  MaxReceived = 2
  MaxCrashes = 1
SYMMETRY Symmetry
INVARIANTS StateEventsExist OnlyTornRowsRepeat SoftFailedStaysOut PrevEventsComeFirst RoomKeepsALeaf
CHECK_DEADLOCK FALSE
