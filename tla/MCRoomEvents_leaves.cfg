SPECIFICATION Spec
CONSTANTS
  Root = Root
  r0 = r0
  r1 = r1
  r2 = r2
  l1 = l1
  l2 = l2
  Remote = {r1, r2}
  Local = {l1}
  Invites = {}
  Direct = {}
  Time <- Times
  RemotePrev <- ShortChain
  StateEvents = {Root, l1, r1}
  Bans <- BanOfR2
  Tasks = {t1, t2}
  NoTask = NoTask
  NoCount = NoCount
  NoState = NoState
  PrevLimit = 1
  MaxFetch = 1
  MaxErrors = 1
  MaxReceived = 2
  MaxCrashes = 0
INVARIANT EveryEndIsALeaf
CHECK_DEADLOCK FALSE
