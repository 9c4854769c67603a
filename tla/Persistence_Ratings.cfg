\* Ratings that arrive while the flusher encodes.
CONSTANTS
  c1 = c1
  c2 = c2
  p1 = p1
  p2 = p2
  Conns = {c1, c2}
  Pids = {p1, p2}
  PidOf <- OnePlayerEach
  DataTypes = {13}
  Achievement = 200
  PrepareTypes = {}
  MetaTypes = {13}
  Slots = {2, 3}
  InitialValues = {0}
  RateValues = {1}
  OwnIdsOnly = TRUE
  MaxId = 1
  MaxRatings = 2
  MaxRestarts = 0
  MaxFailures = 0
SPECIFICATION PSpec
INVARIANTS
  FileRatingsAgree
