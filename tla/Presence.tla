------------------------------- MODULE Presence -------------------------------
(***************************************************************************)
(* The presence reporter (src/presence.go): presSeen says when each player *)
(* last called (the OnRMC hook of main.go), and a goroutine reports the     *)
(* players seen in the last presenceTTL to the account server, every        *)
(* presenceInterval, "so it keeps them ONLINE via its TTL".                 *)
(*                                                                         *)
(* Times are kept as ages, which PresenceTick advances together, so that the model  *)
(* runs forever.  The goroutine wakes when its sleep is over, and a report  *)
(* takes no longer than the HTTP client's timeout.                          *)
(***************************************************************************)
EXTENDS Integers, Functions

CONSTANTS
  Players,   \* players
  Interval,  \* presenceInterval
  TTL,       \* presenceTTL
  ReportTimeout  \* of the HTTP client

ASSUME PresenceAssumption ==
  Interval \in Nat \ {0} /\ TTL \in Nat \ {0} /\ ReportTimeout \in Nat

VARIABLES
  presSeen,  \* player -> the age of the entry, at most TTL
  reporter,  \* the goroutine: asleep, or posting a batch; and for how long
  quiet,     \* observer: how long ago each player last called
  active,    \* observer: for how long each player's entry has been younger than TTL
  told,      \* observer: how long ago a report that named the player was accepted
  fine       \* observer: how long ago a report last failed

observers == <<quiet, active, told, fine>>
presenceVars == <<presSeen, reporter, observers>>

-----------------------------------------------------------------------------
\* The observers count up to here.
Horizon == TTL + Interval + 2 * ReportTimeout + 1

Aged(age, limit) == IF age < limit THEN age + 1 ELSE age

Asleep == [pc |-> "sleep", since |-> 0, batch |-> {}]

PresenceInit ==
  /\ presSeen = [p \in {} |-> p]
  /\ reporter = Asleep
  /\ quiet = [p \in Players |-> Horizon]
  /\ active = [p \in Players |-> 0]
  /\ told = [p \in Players |-> Horizon]
  /\ fine = Horizon

Fresh(p) == p \in DOMAIN presSeen /\ presSeen[p] < TTL

\* notePresenceSeen, for a player whose PID is known
NotePresenceSeen(p) ==
  /\ presSeen' = [q \in DOMAIN presSeen \cup {p} |-> IF q = p THEN 0 ELSE presSeen[q]]
  /\ quiet' = [quiet EXCEPT ![p] = 0]
  /\ UNCHANGED <<reporter, active, told, fine>>

\* Mutant: entries that are too old are reported once more before they go.
MutActivePIDs == DOMAIN presSeen

\* Mutant: the interval is taken for the lifetime.
MutActiveInterval == {p \in DOMAIN presSeen : presSeen[p] < Interval}

\* activePIDs, under presMu
ActivePIDs == {p \in DOMAIN presSeen : Fresh(p)}

\* Mutant: nothing is deleted.
MutReport ==
  /\ reporter.pc = "sleep" /\ reporter.since = Interval
  /\ presSeen' = presSeen
  /\ reporter' = IF ActivePIDs = {} THEN Asleep
                 ELSE [pc |-> "post", since |-> 0, batch |-> ActivePIDs]
  /\ UNCHANGED observers

\* The sleep is over; with no one to report, the next begins.
Report ==
  /\ reporter.pc = "sleep" /\ reporter.since = Interval
  /\ presSeen' = Restrict(presSeen, {p \in DOMAIN presSeen : Fresh(p)})
  /\ reporter' = IF ActivePIDs = {} THEN Asleep
                 ELSE [pc |-> "post", since |-> 0, batch |-> ActivePIDs]
  /\ UNCHANGED observers

\* The account server takes the report.
Accepted ==
  /\ reporter.pc = "post"
  /\ reporter' = Asleep
  /\ told' = [p \in Players |-> IF p \in reporter.batch THEN 0 ELSE told[p]]
  /\ UNCHANGED <<presSeen, quiet, active, fine>>

\* It does not, or it does and its answer is lost; neither is repeated.
Failed ==
  /\ reporter.pc = "post"
  /\ reporter' = Asleep
  /\ \E taken \in BOOLEAN :
       told' = [p \in Players |-> IF taken /\ p \in reporter.batch THEN 0 ELSE told[p]]
  /\ fine' = 0
  /\ UNCHANGED <<presSeen, quiet, active>>

\* A unit of time passes.
PresenceTick ==
  /\ IF reporter.pc = "sleep" THEN reporter.since < Interval ELSE reporter.since < ReportTimeout
  /\ reporter' = [reporter EXCEPT !.since = @ + 1]
  /\ presSeen' = [p \in DOMAIN presSeen |-> Aged(presSeen[p], TTL)]
  /\ quiet' = [p \in Players |-> Aged(quiet[p], Horizon)]
  /\ active' = [p \in Players |->
                  IF p \in DOMAIN presSeen /\ presSeen[p] + 1 < TTL
                  THEN Aged(active[p], Horizon) ELSE 0]
  /\ told' = [p \in Players |-> Aged(told[p], Horizon)]
  /\ fine' = Aged(fine, Horizon)

Reporting == Report \/ Accepted \/ Failed \/ PresenceTick

PresenceNext == Reporting \/ \E p \in Players : NotePresenceSeen(p)

PresenceSpec == PresenceInit /\ [][PresenceNext]_presenceVars

\* Time passes and the goroutine runs; no player need call.
PresenceFairSpec == PresenceSpec /\ WF_presenceVars(Reporting)

-----------------------------------------------------------------------------
(* Properties *)

Ages == 0..Horizon

PresenceTypeOK ==
  /\ DOMAIN presSeen \subseteq Players /\ presSeen \in [DOMAIN presSeen -> 0..TTL]
  /\ reporter \in [pc : {"sleep", "post"}, since : Nat, batch : SUBSET Players]
  /\ reporter.since <= (IF reporter.pc = "sleep" THEN Interval ELSE ReportTimeout)
  /\ quiet \in [Players -> Ages] /\ active \in [Players -> Ages] /\ told \in [Players -> Ages]
  /\ fine \in Ages

\* A player who keeps calling at least every presenceTTL stays reported: later
\* than one interval and two timeouts after the first call there is a report that
\* names the player in every interval and timeout, unless one failed.  This is
\* 35s in the code, which the lifetime of presence at the account server must
\* exceed ("so it keeps them ONLINE via its TTL", presence.go:2).
KeptOnline ==
  \A p \in Players :
    active[p] > Interval + 2 * ReportTimeout /\ fine > Interval + 2 * ReportTimeout
      => told[p] <= Interval + ReportTimeout

\* A player who stopped calling is not reported again: what a report names are
\* calls no older than presenceTTL and the time the report takes.
ReportsAreRecent ==
  reporter.pc = "post" => \A p \in reporter.batch : quiet[p] < TTL + reporter.since

\* presSeen does not grow for good: an entry that is too old is deleted, or the
\* player calls again.
EntriesExpire ==
  \A p \in Players : (p \in DOMAIN presSeen /\ ~ Fresh(p)) ~> (p \notin DOMAIN presSeen \/ Fresh(p))

=============================================================================
