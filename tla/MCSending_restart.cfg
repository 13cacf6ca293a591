SPECIFICATION FairSpec
CONSTANTS
  Servers = {s1}
  Appservices = {}
  Pushers = {}
  MaxKey = 2
  Rooms = {}
  BatchLimit = 1
  InitialLimit = 1
  EduLimit = 1
  MaxRequests = 1
  MaxFailures = 0
  MaxCrashes = 1
  MaxDbErrors = 0
  MaxEdus = 0
PROPERTIES
  UnfinishedRequestsAreRetried
CHECK_DEADLOCK FALSE
