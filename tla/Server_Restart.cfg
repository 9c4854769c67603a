\* Two players, one dataId that may be handed out again after a restart, one HTTP
\* request at a time, careful clients.
CONSTANTS
  c1 = c1
  c2 = c2
  p1 = p1
  p2 = p2
  h1 = h1
  nobody = nobody
  Conns = {c1, c2}
  Pids = {p1, p2}
  PidOf <- OnePlayerEach
  DataTypes = {13, 14}
  Achievement = 200
  PrepareTypes = {13}
  MetaTypes = {14}
  Slots = {}
  InitialValues = {}
  RateValues = {}
  OwnIdsOnly = TRUE
  MaxId = 1
  MaxRatings = 0
  Requests = {h1}
  Nobody = nobody
  MaxTokens = 2
  Careful = TRUE
  MaxRestarts = 2
  MaxFailures = 0
SPECIFICATION SSpec
INVARIANTS
  BlobIsOwn
  NobodyFindsOwn
