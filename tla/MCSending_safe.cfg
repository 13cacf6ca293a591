SPECIFICATION Spec
CONSTANTS
  Servers = {s1}
  Appservices = {}
  Pushers = {}
  MaxKey = 3
  Rooms = {1, 2}
  BatchLimit = 2
  InitialLimit = 1
  EduLimit = 1
  MaxRequests = 1
  MaxFailures = 1
  MaxCrashes = 1
  MaxDbErrors = 1
  MaxEdus = 2
INVARIANTS
  NothingLost
  OneTransactionPerDestination
  NothingDroppedAtStart
PROPERTIES
  RetryRepeatsPersistedRequests
  ReceiptSentAtMostOnce
CHECK_DEADLOCK FALSE
