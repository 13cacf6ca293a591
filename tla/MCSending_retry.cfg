SPECIFICATION Spec
CONSTANTS
  Servers = {s1}
  Appservices = {}
  Pushers = {}
  MaxKey = 2
  Rooms = {1}
  BatchLimit = 2
  InitialLimit = 1
  EduLimit = 1
  MaxRequests = 1
  MaxFailures = 1
  MaxCrashes = 0
  MaxDbErrors = 0
  MaxEdus = 1
PROPERTIES
  RetryIsThePreviousTransaction
CHECK_DEADLOCK FALSE
