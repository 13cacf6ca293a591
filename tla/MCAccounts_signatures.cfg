SPECIFICATION Spec
CONSTANTS
  Users = {alice, carol}
  Remote = {bob}
  Devices = {d1}
  FirstDevice = d1
  Registered = {alice, carol}
  Bridged = {}
  InRoom = {alice, bob}
  Room = room
  OneTimeKeys = {1}
  Tasks = {t1}
  None = none
  MaxOps = 3
  MaxCrashes = 0
PROPERTY SignaturesKept
CHECK_DEADLOCK FALSE
