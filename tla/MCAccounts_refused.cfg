SPECIFICATION Spec
CONSTANTS
  Users = {alice}
  Remote = {}
  Devices = {d1}
  FirstDevice = d1
  Registered = {alice}
  Bridged = {}
  InRoom = {alice}
  Room = room
  OneTimeKeys = {1}
  Tasks = {t1}
  None = none
  MaxOps = 1
  MaxCrashes = 0
INVARIANT UploadedKeysAnnounced
CHECK_DEADLOCK FALSE
