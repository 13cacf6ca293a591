SPECIFICATION Spec
CONSTANTS
  bot = bot  alice = alice  bob = bob  mallory = mallory  far = far
  LocalUsers = {bot, alice, bob}
  RemoteUsers = {mallory}
  Us = us
  Home <- HomeOfMallory
  Bot = bot
  Mods = {bot, alice}
  Ignores <- BobIgnoresMallory
  Bridged = {bob}
  Tagged = {alice}
  Allowed = {bob}
  Rooms <- AllRooms
  Disputed = {bob}
  Tasks = {t1, t2}
  NoTask = none
  MaxOps = 2
  MaxCrashes = 1
SYMMETRY Symmetry
INVARIANTS OneTreeAtRest RowsAgreeWithState CountsAgreeAtRest AdminRoomKeepsMembers
PROPERTY EveryServerIsTold
CHECK_DEADLOCK FALSE
