SPECIFICATION Spec
CONSTANTS
  Rooms = {r1, r2}
  Users = {alice}
  Viewers = {alice}
  Visibilities = {"world", "shared", "invited", "joined"}
  Memberships = {"invite", "join", "leave"}
  Readers = {}
  Outliers = {}
  OutlierAuth <- NoOutliers
  Layers = 3
  Buckets = 2
  MaxEvents = 3
  MaxAgain = 0
  MaxReads = 0
  MaxWalks = 0
  EventsWithWalks = 0
  MaxCrashes = 0
  MaxOps = 3
INVARIANT StateIsFound
CHECK_DEADLOCK FALSE
