\* Up to three balloons and stats records of one player, complete or not, posted to a
\* slot, as not persistent, or before slots were, in one clock tick or two, queried by
\* the player and another.
CONSTANTS
  p1 = p1
  p2 = p2
  nil = nil
  before = before
  Pids = {p1, p2}
  DataTypes = {13, 200}
  Achievement = 200
  Slots = {0, 1}
  NotPersistent = 65535
  BeforeSlots = before
  NoSlot = nil
  SetCounts = {0, 2, 4}
  MaxId = 3
  MaxTime = 2
  MaxResults = 2
  Records <- RecordsOfOne
SPECIFICATION Spec
INVARIANTS
  EveryMatchOnce
  NoGhosts
  PagesLevel
  StatsAreNewest
  PersistenceIsNewest
  NewestKept
