\* Two players rate two objects in either of the slots Odyssey reads, append to and
\* clear their buffer queues, and complete and delete any object.
CONSTANTS
  c1 = c1
  c2 = c2
  p1 = p1
  p2 = p2
  x = x
  y = y
  Conns = {c1, c2}
  Pids = {p1, p2}
  PidOf <- OnePlayerEach
  DataTypes = {13}
  Achievement = 200
  PrepareTypes = {}
  MetaTypes = {13}
  Slots = {2, 3}
  InitialValues = {5}
  RateValues = {1}
  OwnIdsOnly = FALSE
  MaxId = 2
  MaxRatings = 2
  BufferSlots = {1, 129}
  Bytes = {x, y}
  MaxBuffers = 2
SPECIFICATION BSpec
INVARIANTS
  RatingsAgree
  BuffersReadBack
PROPERTIES
  NoResurrection
