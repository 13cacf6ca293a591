SPECIFICATION Spec
CONSTANTS
  Users = {alice, erin}
  Remote = {bob}
  Devices = {d1, d2}
  FirstDevice = d1
  Registered = {alice}
  Bridged = {erin}
  InRoom = {alice, bob}
  Room = room
  OneTimeKeys = {1}
  Tasks = {t1, t2}
  None = none
  MaxOps = 2
  MaxCrashes = 1
SYMMETRY Symmetry
INVARIANTS TokenOfADeviceWorks TokensAndDevicesAgree KeyChangesAnnounced OneTimeKeysGivenOnce
CHECK_DEADLOCK FALSE
