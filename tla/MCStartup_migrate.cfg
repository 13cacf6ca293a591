SPECIFICATION Spec
CONSTANTS
  Items = {1, 2}
  Locals = {alice, dan}
  Active = alice
  Far = {mallory}
  Bot = bot
  MaxCrashes = 2
INVARIANTS LayoutMatchesVersion MigrationsLoseNothing AdminRoomIsWhole
PROPERTY EventuallyServing
CHECK_DEADLOCK FALSE
