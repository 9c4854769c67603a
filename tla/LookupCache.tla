----------------------------- MODULE LookupCache -----------------------------
(***************************************************************************)
(* A lookup at the account server behind a cache with a lifetime: dispName  *)
(* (src/dashboard.go) for the names the dashboard and the balloons show,    *)
(* avatarJPEG (src/avatar.go) for profile pictures.  Both look the key up   *)
(* under the cache's lock, ask without it, and store what they got under it *)
(* with the time of storing; a request that fails gives a placeholder, and  *)
(* that is stored as well.  The module follows one key.                     *)
(*                                                                         *)
(* Times are kept as ages, which CacheTick advances together.                    *)
(***************************************************************************)
EXTENDS Integers

CONSTANTS
  Callers,      \* goroutines that look the key up
  Values,       \* names or pictures the account may have
  Placeholder,  \* "Player-<pid>", or the grey picture
  Nothing,      \* no value
  Lifetime,     \* nameCacheTTL, avatarCacheTTL
  LookupTimeout       \* of the HTTP client

ASSUME CacheAssumption ==
  /\ Placeholder \notin Values /\ Nothing \notin Values /\ Placeholder # Nothing
  /\ Lifetime \in Nat \ {0} /\ LookupTimeout \in Nat

VARIABLES
  truth,    \* the value at the account server
  held,     \* observer: how long ago the account had each value last, and, for the
            \* placeholder, how long ago a request failed last
  cache,    \* the entry of the key: value and age
  lookup    \* per caller: the step it is at, for how long, and what it was answered

cacheVars == <<truth, held, cache, lookup>>

-----------------------------------------------------------------------------
\* Ages count up to here.
Far == Lifetime + LookupTimeout + 1

Results == Values \cup {Placeholder}

Older(age) == IF age < Far THEN age + 1 ELSE age

Idle == [pc |-> "idle", since |-> 0, val |-> Nothing]

Empty == [val |-> Nothing, age |-> Far]

CacheInit ==
  /\ truth \in Values
  /\ held = [v \in Results |-> IF v = truth THEN 0 ELSE Far]
  /\ cache = Empty
  /\ lookup = [c \in Callers |-> Idle]

\* The player changes the name or the picture.
Change ==
  /\ truth' \in Values \ {truth}
  /\ held' = [held EXCEPT ![truth'] = 0]
  /\ UNCHANGED <<cache, lookup>>

Valid == cache.val # Nothing /\ cache.age < Lifetime

\* Mutant: a hit renews the entry.
MutHit(c) ==
  /\ lookup[c].pc = "idle"
  /\ Valid
  /\ cache' = [cache EXCEPT !.age = 0]
  /\ UNCHANGED <<truth, held, lookup>>

\* The entry is young enough: it is returned.
Hit(c) ==
  /\ lookup[c].pc = "idle"
  /\ Valid
  /\ UNCHANGED cacheVars

Miss(c) ==
  /\ lookup[c].pc = "idle"
  /\ ~ Valid
  /\ lookup' = [lookup EXCEPT ![c] = [Idle EXCEPT !.pc = "ask"]]
  /\ UNCHANGED <<truth, held, cache>>

\* The account server reads the value it answers with.
Answer(c) ==
  /\ lookup[c].pc = "ask"
  /\ lookup' = [lookup EXCEPT ![c].pc = "store", ![c].val = truth]
  /\ UNCHANGED <<truth, held, cache>>

\* The request fails, or the answer has no value or cannot be decoded.
Fail(c) ==
  /\ lookup[c].pc \in {"ask", "store"}
  /\ lookup[c].val # Placeholder
  /\ lookup' = [lookup EXCEPT ![c].pc = "store", ![c].val = Placeholder]
  /\ held' = [held EXCEPT ![Placeholder] = 0]
  /\ UNCHANGED <<truth, cache>>

\* The answer arrives and is stored; a later lookup may have stored meanwhile.
Store(c) ==
  /\ lookup[c].pc = "store"
  /\ cache' = [val |-> lookup[c].val, age |-> 0]
  /\ lookup' = [lookup EXCEPT ![c] = Idle]
  /\ UNCHANGED <<truth, held>>

\* A unit of time passes; no request takes longer than the timeout.
CacheTick ==
  /\ \A c \in Callers : lookup[c].pc # "idle" => lookup[c].since < LookupTimeout
  /\ held' = [v \in Results |-> IF v = truth THEN 0 ELSE Older(held[v])]
  /\ cache' = [cache EXCEPT !.age = Older(@)]
  /\ lookup' = [c \in Callers |->
                  IF lookup[c].pc = "idle" THEN lookup[c]
                  ELSE [lookup[c] EXCEPT !.since = @ + 1]]
  /\ UNCHANGED truth

Look(c) == Hit(c) \/ Miss(c) \/ Answer(c) \/ Fail(c) \/ Store(c)

CacheNext == Change \/ CacheTick \/ \E c \in Callers : Look(c)

CacheSpec == CacheInit /\ [][CacheNext]_cacheVars

-----------------------------------------------------------------------------
(* Properties *)

CacheTypeOK ==
  /\ truth \in Values
  /\ held \in [Results -> 0..Far]
  /\ cache \in [val : Results \cup {Nothing}, age : 0..Far]
  /\ lookup \in [Callers -> [pc : {"idle", "ask", "store"}, since : 0..LookupTimeout,
                             val : Results \cup {Nothing}]]

\* Whatever the cache returns was the account's value less than a lifetime and a
\* timeout ago; and it is the placeholder only if a request failed that recently.
\* Callers that miss together store in any order, so that an older answer may
\* replace a newer one and a failure an answer, but none older than this.
BoundedStale == Valid => held[cache.val] < Lifetime + LookupTimeout

=============================================================================
