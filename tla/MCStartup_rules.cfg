SPECIFICATION Spec
CONSTANTS
  Items = {1, 2}
  Locals = {alice, dan}
  Active = alice
  Far = {mallory}
  Bot = bot
  MaxCrashes = 0
PROPERTY ServesInTheEnd
CHECK_DEADLOCK FALSE
