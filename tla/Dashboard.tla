------------------------------ MODULE Dashboard ------------------------------
(***************************************************************************)
(* The statistics of the dashboard (src/dashboard.go): noteRMC, which the   *)
(* OnRMC hook of the secure server runs for every call before its handler,  *)
(* and buildStats, which answers /api/stats.  The numbers live under        *)
(* different locks (rmcTotal is an atomic, playerMeta is under metaMu, the  *)
(* events and method counts are under eventsMu), so that an answer is put   *)
(* together from moments that calls lie between.                            *)
(*                                                                         *)
(* Times, addresses, names and the list of balloons are left out.           *)
(***************************************************************************)
EXTENDS Integers, Sequences, FiniteSets, Functions

CONSTANTS
  Conns,      \* connections to the secure server
  Pids,       \* players
  Methods,    \* RMC methods
  MaxEvents,  \* the most events kept, 100 in the code
  MaxCalls    \* bound: calls

ASSUME DashboardAssumption ==
  /\ IsFiniteSet(Conns) /\ IsFiniteSet(Methods)
  /\ MaxEvents \in Nat \ {0} /\ MaxCalls \in Nat

VARIABLES
  connected,      \* connection -> its player, for the connections the endpoint lists
  hook,           \* connection -> the noteRMC in progress
  rmcTotal,       \* calls noted
  calls,          \* playerMeta: player -> Calls, for the players that called
  sessionsSeen,
  peakConnected,
  events,         \* the latest calls, oldest first
  methodCount,    \* method -> calls
  stats           \* the buildStats in progress

dashboardVars == <<connected, hook, rmcTotal, calls, sessionsSeen, peakConnected, events,
          methodCount, stats>>

-----------------------------------------------------------------------------
Steps == {"idle", "meta", "event"}

NoHook == [pc |-> "idle", pid |-> 0, method |-> 0]

\* players: the players with a connection; conns: their connections; the other
\* fields are the sums and counters read so far.
NoStats == [pc |-> "idle", players |-> {}, conns |-> 0, known |-> 0, calls |-> 0,
            sessions |-> 0, peak |-> 0, methods |-> 0]

DashboardInit ==
  /\ connected = [c \in {} |-> c]
  /\ hook = [c \in Conns |-> NoHook]
  /\ rmcTotal = 0
  /\ calls = [p \in {} |-> p]
  /\ sessionsSeen = 0
  /\ peakConnected = 0
  /\ events = <<>>
  /\ methodCount = [m \in Methods |-> 0]
  /\ stats = NoStats

-----------------------------------------------------------------------------
(* Connections *)

\* A connection has its player from its first packet on.
Connect(c) ==
  \E p \in Pids :
    /\ c \notin DOMAIN connected /\ hook[c] = NoHook
    /\ connected' = [d \in DOMAIN connected \cup {c} |-> IF d = c THEN p ELSE connected[d]]
    /\ UNCHANGED <<hook, rmcTotal, calls, sessionsSeen, peakConnected, events,
                   methodCount, stats>>

\* The client leaves, or the reaper or the dashboard ends the connection; a call
\* in progress goes on.
Disconnect(c) ==
  /\ c \in DOMAIN connected
  /\ connected' = Restrict(connected, DOMAIN connected \ {c})
  /\ UNCHANGED <<hook, rmcTotal, calls, sessionsSeen, peakConnected, events,
                 methodCount, stats>>

-----------------------------------------------------------------------------
(* noteRMC *)

\* atomic.AddInt64(&rmcTotal, 1)
NoteTotal(c) ==
  \E m \in Methods :
    /\ c \in DOMAIN connected /\ hook[c].pc = "idle"
    /\ rmcTotal < MaxCalls
    /\ rmcTotal' = rmcTotal + 1
    /\ hook' = [hook EXCEPT ![c] = [pc |-> "meta", pid |-> connected[c], method |-> m]]
    /\ UNCHANGED <<connected, calls, sessionsSeen, peakConnected, events, methodCount,
                   stats>>

\* Mutant: the first call of a player only makes the entry.
MutNoteMeta(c) ==
  LET p == hook[c].pid
      new == p \notin DOMAIN calls
  IN  /\ hook[c].pc = "meta"
      /\ calls' = [q \in DOMAIN calls \cup {p} |->
                     IF q = p THEN (IF new THEN 0 ELSE calls[q] + 1) ELSE calls[q]]
      /\ sessionsSeen' = IF new THEN sessionsSeen + 1 ELSE sessionsSeen
      /\ hook' = [hook EXCEPT ![c].pc = "event"]
      /\ UNCHANGED <<connected, rmcTotal, peakConnected, events, methodCount, stats>>

\* The critical section of metaMu
NoteMeta(c) ==
  LET p == hook[c].pid
      new == p \notin DOMAIN calls
  IN  /\ hook[c].pc = "meta"
      /\ calls' = [q \in DOMAIN calls \cup {p} |->
                     IF q = p THEN (IF new THEN 1 ELSE calls[q] + 1) ELSE calls[q]]
      /\ sessionsSeen' = IF new THEN sessionsSeen + 1 ELSE sessionsSeen
      /\ hook' = [hook EXCEPT ![c].pc = "event"]
      /\ UNCHANGED <<connected, rmcTotal, peakConnected, events, methodCount, stats>>

\* Mutant: the oldest call is dropped one call too late.
MutTrim(s) == IF Len(s) > MaxEvents + 1 THEN Tail(s) ELSE s

\* events[len(events)-100:]: one more than MaxEvents at most
Trim(s) == IF Len(s) > MaxEvents THEN Tail(s) ELSE s

\* The critical section of eventsMu; the handler of the call comes after it.
NoteEvent(c) ==
  /\ hook[c].pc = "event"
  /\ events' = Trim(Append(events, [pid |-> hook[c].pid, method |-> hook[c].method]))
  /\ methodCount' = [methodCount EXCEPT ![hook[c].method] = @ + 1]
  /\ hook' = [hook EXCEPT ![c] = NoHook]
  /\ UNCHANGED <<connected, rmcTotal, calls, sessionsSeen, peakConnected, stats>>

-----------------------------------------------------------------------------
(* buildStats *)

\* endpoint.SnapshotConnections; a player with two connections is listed once.
StatsConns ==
  /\ stats.pc = "idle"
  /\ stats' = [NoStats EXCEPT !.pc = "meta", !.players = Range(connected),
                              !.conns = Cardinality(DOMAIN connected)]
  /\ UNCHANGED <<connected, hook, rmcTotal, calls, sessionsSeen, peakConnected, events,
                 methodCount>>

\* Mutant: the peak is read before it is raised.
MutStatsMeta ==
  /\ stats.pc = "meta"
  /\ peakConnected' = IF stats.conns > peakConnected THEN stats.conns ELSE peakConnected
  /\ stats' = [stats EXCEPT !.pc = "events", !.known = Cardinality(DOMAIN calls),
                            !.calls = SumFunction(calls), !.sessions = sessionsSeen,
                            !.peak = peakConnected]
  /\ UNCHANGED <<connected, hook, rmcTotal, calls, sessionsSeen, events, methodCount>>

\* The critical section of metaMu
StatsMeta ==
  /\ stats.pc = "meta"
  /\ peakConnected' = IF stats.conns > peakConnected THEN stats.conns ELSE peakConnected
  /\ stats' = [stats EXCEPT !.pc = "events", !.known = Cardinality(DOMAIN calls),
                            !.calls = SumFunction(calls), !.sessions = sessionsSeen,
                            !.peak = peakConnected']
  /\ UNCHANGED <<connected, hook, rmcTotal, calls, sessionsSeen, events, methodCount>>

\* The critical section of eventsMu, after the names of the players were asked for
StatsEvents ==
  /\ stats.pc = "events"
  /\ stats' = [stats EXCEPT !.pc = "total", !.methods = SumFunction(methodCount)]
  /\ UNCHANGED <<connected, hook, rmcTotal, calls, sessionsSeen, peakConnected, events,
                 methodCount>>

\* atomic.LoadInt64(&rmcTotal), after the list of balloons was made, and the answer
StatsTotal ==
  /\ stats.pc = "total"
  /\ stats' = NoStats
  /\ UNCHANGED <<connected, hook, rmcTotal, calls, sessionsSeen, peakConnected, events,
                 methodCount>>

DashboardNext ==
  \/ \E c \in Conns :
       Connect(c) \/ Disconnect(c) \/ NoteTotal(c) \/ NoteMeta(c) \/ NoteEvent(c)
  \/ StatsConns \/ StatsMeta \/ StatsEvents \/ StatsTotal

DashboardSpec == DashboardInit /\ [][DashboardNext]_dashboardVars

-----------------------------------------------------------------------------
(* Properties *)

DashboardTypeOK ==
  /\ DOMAIN connected \subseteq Conns /\ connected \in [DOMAIN connected -> Pids]
  /\ hook \in [Conns -> [pc : Steps, pid : Pids \cup {0}, method : Methods \cup {0}]]
  /\ rmcTotal \in 0..MaxCalls
  /\ DOMAIN calls \subseteq Pids /\ calls \in [DOMAIN calls -> Nat]
  /\ sessionsSeen \in Nat /\ peakConnected \in Nat
  /\ events \in Seq([pid : Pids, method : Methods]) /\ Len(events) <= MaxEvents
  /\ methodCount \in [Methods -> Nat]
  /\ stats \in [pc : {"idle", "meta", "events", "total"}, players : SUBSET Pids, conns : Nat,
               known : Nat, calls : Nat, sessions : Nat, peak : Nat, methods : Nat]

\* An answer adds up, although its numbers are read one lock after the other
\* while calls go on: no more calls of players, and no more calls of methods,
\* than calls in total, which is counted first and read last; no more players
\* listed than the peak; and a session for each player that is known to call.
StatsAddUp ==
  stats.pc = "total" =>
    /\ stats.calls <= rmcTotal
    /\ stats.methods <= rmcTotal
    /\ Cardinality(stats.players) <= stats.peak
    /\ stats.known <= stats.sessions

\* The calls that are being noted and have come to step pc
At(pc) == {c \in Conns : hook[c].pc = pc}

EventsOfMethod(m) == {i \in DOMAIN events : events[i].method = m}

EventsOfPlayer(p) == {i \in DOMAIN events : events[i].pid = p}

\* The three counts of calls differ by the calls that are being noted and by
\* nothing else, and until the oldest are dropped the events are the calls that
\* the methods count; no method and no player has more events than calls.
CountsAgree ==
  /\ rmcTotal = SumFunction(calls) + Cardinality(At("meta"))
  /\ rmcTotal = SumFunction(methodCount) + Cardinality(At("meta")) + Cardinality(At("event"))
  /\ Len(events) = IF SumFunction(methodCount) < MaxEvents
                   THEN SumFunction(methodCount) ELSE MaxEvents
  /\ \A m \in Methods : Cardinality(EventsOfMethod(m)) <= methodCount[m]
  /\ \A i \in DOMAIN events :
       LET p == events[i].pid
       IN  p \in DOMAIN calls /\ Cardinality(EventsOfPlayer(p)) <= calls[p]

=============================================================================
