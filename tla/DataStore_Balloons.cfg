\* Two players, one connection each, four ids between them: one may post, replace
\* and delete while the other is anywhere in a handler.
CONSTANTS
  c1 = c1
  c2 = c2
  p1 = p1
  p2 = p2
  Conns = {c1, c2}
  Pids = {p1, p2}
  PidOf <- OnePlayerEach
  DataTypes = {13, 14, 15}
  Achievement = 200
  PrepareTypes = {14}
  MetaTypes = {13, 15}
  Slots = {}
  InitialValues = {}
  RateValues = {}
  OwnIdsOnly = TRUE
  MaxId = 4
  MaxRatings = 0
SPECIFICATION Spec
INVARIANTS
  TypeOK
  FreshIds
  OneActive
PROPERTIES
  NoResurrection
  ReplacesOlder
  ImplementsBoard
