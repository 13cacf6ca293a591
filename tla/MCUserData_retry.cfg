SPECIFICATION Spec
CONSTANTS
  Requests = {t1, t2}
  Types = {"m.tag"}
  Tags = {u1}
  Slots <- MCSlots
  Longer <- MCLonger
  Txns = {x1}
  FirstCount = 1
  MaxOps = 2
  MaxCrashes = 0
INVARIANT RetryIsNoop
CHECK_DEADLOCK FALSE
