SPECIFICATION Spec
CONSTANTS
  Items = {1, 2}
  Locals = {alice, dan}
  Active = alice
  Far = {mallory}
  Bot = bot
  MaxCrashes = 1
INVARIANT AdminRoomAfterFirstRun
CHECK_DEADLOCK FALSE
