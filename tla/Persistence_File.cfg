\* Two ids, a restart anywhere, a write that fails, under the fairness of the
\* goroutines.
CONSTANTS
  c1 = c1
  c2 = c2
  p1 = p1
  p2 = p2
  Conns = {c1, c2}
  Pids = {p1, p2}
  PidOf <- OnePlayerEach
  DataTypes = {13}
  Achievement = 200
  PrepareTypes = {}
  MetaTypes = {13}
  Slots = {}
  InitialValues = {}
  RateValues = {}
  OwnIdsOnly = TRUE
  MaxId = 2
  MaxRatings = 0
  MaxRestarts = 1
  MaxFailures = 1
SPECIFICATION FairPSpec
INVARIANTS
  PTypeOK
  CleanIsSaved
  IdsAboveTable
PROPERTIES
  ObjectsReachFile
  DeletionsReachFile
