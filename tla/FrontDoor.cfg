\* Two logins of a console, tokens and bare PIDs; two players, an interval of 2,
\* a lifetime of 4 and a timeout of 1; two connections and three calls; two
\* callers of a cache whose entries live for 3 with a timeout of 2.
CONSTANTS
  Logins = {l1, l2}
  Accounts = {a1, a2}
  Nsas = {n1}
  Nobody = nobody
  Anonymous = anonymous
  RequireAccount = TRUE
  RequireSignedToken = TRUE
  Players = {p1, p2}
  Interval = 2
  TTL = 4
  ReportTimeout = 1
  Conns = {c1, c2}
  Pids = {q1, q2}
  Methods = {m1}
  MaxEvents = 2
  MaxCalls = 3
  Callers = {r1, r2}
  Values = {v1, v2}
  Placeholder = placeholder
  Nothing = nothing
  Lifetime = 3
  LookupTimeout = 2
SPECIFICATION FDSpec
INVARIANTS
  TypesOK
  OnlyAccounts
  KeptOnline
  ReportsAreRecent
  StatsAddUp
  CountsAgree
  BoundedStale
PROPERTIES
  EntriesExpire
