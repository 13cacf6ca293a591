SPECIFICATION Spec
CONSTANTS
  Requests = {q1, q2}
  Rooms = {r0, r1, r2, r3}
  AdminRoom = r0
  OldRoom = r1
  Aliases = {a0, a1, a2}
  AdminAlias = a0
  OldAlias = a1
  None = None
  MaxOps = 2
  MaxCrashes = 1
INVARIANT UpgradeCopiesTheState
PROPERTY RequestsEnd
CHECK_DEADLOCK FALSE
