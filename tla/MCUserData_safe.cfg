SPECIFICATION Spec
CONSTANTS
  Requests = {t1, t2}
  Types = {"m.tag", "im.config"}
  Tags = {u1}
  Slots <- MCSlots
  Longer <- MCLonger
  Txns = {x1}
  FirstCount = 1
  MaxOps = 4
  MaxCrashes = 1
INVARIANTS AccountDataIsFound BackedUpKeysKept OneEventPerTransaction
SYMMETRY RequestSymmetry
CHECK_DEADLOCK FALSE
