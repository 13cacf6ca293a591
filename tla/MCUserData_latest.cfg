SPECIFICATION Spec
CONSTANTS
  Requests = {t1, t2}
  Types = {"m.tag"}
  Tags = {u1}
  Slots <- MCSlots
  Longer <- MCLonger
  Txns = {x1}
  FirstCount = 6
  MaxOps = 3
  MaxCrashes = 0
INVARIANT LatestBackupIsNewest
CHECK_DEADLOCK FALSE
