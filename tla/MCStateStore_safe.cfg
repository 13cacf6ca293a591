SPECIFICATION Spec
CONSTANTS
  Rooms = {r1}
  Users = {alice}
  Viewers = {alice}
  Visibilities = {"world", "invited"}
  Memberships = {"join"}
  Readers = {reader}
  Outliers = {101, 102}
  OutlierAuth <- MCOutlierAuth
  Layers = 1
  Buckets = 2
  MaxEvents = 3
  MaxAgain = 1
  MaxReads = 1
  MaxWalks = 2
  EventsWithWalks = 2
  MaxCrashes = 1
  MaxOps = 5
INVARIANTS AuthChainsClosed StatesLoadExactly StateIsThere VisibilityFromState
CHECK_DEADLOCK FALSE
