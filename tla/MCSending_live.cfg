SPECIFICATION FairSpec
CONSTANTS
  Servers = {s1}
  Appservices = {}
  Pushers = {p1}
  MaxKey = 2
  Rooms = {}
  BatchLimit = 1
  InitialLimit = 1
  EduLimit = 1
  MaxRequests = 1
  MaxFailures = 1
  MaxCrashes = 0
  MaxDbErrors = 0
  MaxEdus = 0
PROPERTIES
  RequestEventuallyHandled
CHECK_DEADLOCK FALSE
