---------------------------- MODULE FrontDoor_proofs ----------------------------
(***************************************************************************)
(* Proofs about the parts around the object table: Login, Presence,         *)
(* LookupCache and Dashboard, and about the run that takes them in turn.    *)
(***************************************************************************)
EXTENDS MCFrontDoor, FoldTheorems

-----------------------------------------------------------------------------
(* Login: a console plays only as an account it was linked to, and nobody   *)
(* plays without an account where one is required and proven.               *)
(* OnlyAccounts is about logins that are in; what makes it inductive is     *)
(* that links, cached links and logins on their way in came from a link.    *)

OnTheWay(l) == login[l].pc \in {"store", "check", "in"}

LinkInv ==
  /\ \A n \in Nsas : linked[n] # Nobody => <<n, linked[n]>> \in everLinked
  /\ \A n \in Nsas : nsaCache[n] # Nobody => <<n, nsaCache[n]>> \in everLinked
  /\ \A l \in Logins :
       OnTheWay(l) /\ login[l].user.kind = "nsa"
         => <<login[l].user.nsa, login[l].pid>> \in everLinked
  /\ \A l \in Logins : OnTheWay(l) /\ RequireAccount /\ RequireSignedToken => login[l].pid \in Accounts
  /\ \A l \in Logins : login[l].pc \in {"ask", "store"} => login[l].user.kind = "nsa"

LInv == LoginTypeOK /\ LinkInv

-----------------------------------------------------------------------------
\* The fields of a user name: which there are depends on its kind.
LEMMA UserFields ==
  ASSUME NEW user \in Users
  PROVE  /\ user.kind \in {"token", "pid", "nsa", "name"}
         /\ user.kind = "token" => user.pid \in Accounts
         /\ user.kind = "pid" => user.pid \in Accounts \cup {Anonymous}
         /\ user.kind = "pid" /\ user.proven => user.pid \in Accounts
         /\ user.kind = "nsa" => user.nsa \in Nsas
<1>1. CASE user \in [kind : {"token"}, pid : Accounts]
  BY <1>1
<1>2. CASE user \in [kind : {"pid"}, pid : Accounts, proven : {TRUE}]
  BY <1>2
<1>3. CASE user \in [kind : {"pid"}, pid : Accounts \cup {Anonymous}, proven : {FALSE}]
  <2>1. user.kind = "pid" /\ user.pid \in Accounts \cup {Anonymous} /\ user.proven \in {FALSE}
    BY <1>3
  <2>2. ~ user.proven
    BY <2>1, Zenon
  <2> QED
    BY <2>1, <2>2
<1>4. CASE user \in [kind : {"nsa"}, nsa : Nsas] \cup {[kind |-> "name"]}
  BY <1>4
<1> QED
  BY <1>1, <1>2, <1>3, <1>4 DEF Users

\* The program starts with no login and no cached link.
LEMMA LInvInit == LoginInit => LInv
<1> SUFFICES ASSUME LoginInit PROVE LInv
  OBVIOUS
<1>1. NoLogin \in [pc : {"idle", "resolve", "ask", "store", "check", "in", "refused"},
                   user : Users, pid : Accounts \cup {Nobody, Anonymous}]
  BY DEF NoLogin, Users
<1>2. LoginTypeOK
  BY <1>1 DEF LoginInit, LoginTypeOK
<1>3. \A n \in Nsas : linked[n] # Nobody => <<n, linked[n]>> \in everLinked
  BY DEF LoginInit
<1>4. \A n \in Nsas : nsaCache[n] # Nobody => <<n, nsaCache[n]>> \in everLinked
  BY DEF LoginInit
<1>5. \A l \in Logins : ~ OnTheWay(l) /\ login[l].pc \notin {"ask", "store"}
  BY DEF LoginInit, NoLogin, OnTheWay
<1> QED
  BY <1>2, <1>3, <1>4, <1>5 DEF LInv, LinkInv

\* The step of a login to pc with an account pid keeps what is known of logins,
\* if pid is known of itself; links and the cache stay.
LEMMA GotoStep ==
  ASSUME LInv, NEW l \in Logins, UNCHANGED <<linked, mayPlay, everLinked, nsaCache>>,
         NEW pc \in {"ask", "store", "check", "in", "refused"},
         NEW pid \in Accounts \cup {Nobody, Anonymous},
         Goto(l, pc, pid),
         pc \in {"store", "check", "in"} =>
           /\ login[l].user.kind = "nsa" => <<login[l].user.nsa, pid>> \in everLinked
           /\ RequireAccount /\ RequireSignedToken => pid \in Accounts,
         pc \in {"ask", "store"} => login[l].user.kind = "nsa"
  PROVE  LInv'
<1>1. login' = [login EXCEPT ![l] = [@ EXCEPT !.pc = pc, !.pid = pid]]
  BY DEF Goto, LInv, LoginTypeOK
<1>2. LoginTypeOK'
  BY <1>1 DEF LInv, LoginTypeOK
<1>3. \A k \in Logins : k # l => login'[k] = login[k]
  BY <1>1 DEF LInv, LoginTypeOK
<1>4. login'[l].pc = pc /\ login'[l].pid = pid /\ login'[l].user = login[l].user
  BY <1>1 DEF LInv, LoginTypeOK
<1>5. LinkInv'
  BY <1>3, <1>4 DEF LInv, LinkInv, OnTheWay
<1> QED
  BY <1>2, <1>5 DEF LInv

\* The account server's steps: a new link is recorded, an old one not forgotten.
LEMMA RelinkStep == LInv /\ Relink => LInv'
<1> SUFFICES ASSUME LInv, Relink PROVE LInv'
  OBVIOUS
<1>1. PICK n \in Nsas, p \in Accounts \cup {Nobody} :
        /\ linked' = [linked EXCEPT ![n] = p]
        /\ everLinked' = everLinked \cup ({<<n, p>>} \cap (Nsas \X Accounts))
        /\ UNCHANGED <<mayPlay, nsaCache, login>>
  BY DEF Relink
<1>2. LoginTypeOK'
  BY <1>1 DEF LInv, LoginTypeOK
<1>3. everLinked \subseteq everLinked'
  BY <1>1
<1>4. \A m \in Nsas : linked'[m] # Nobody => <<m, linked'[m]>> \in everLinked'
  BY <1>1 DEF LInv, LoginTypeOK, LinkInv
<1>5. LinkInv'
  BY <1>1, <1>3, <1>4 DEF LInv, LinkInv, OnTheWay
<1> QED
  BY <1>2, <1>5 DEF LInv

\* A new login knows nothing yet.
LEMMA BeginStep == ASSUME LInv, NEW l \in Logins, Begin(l) PROVE LInv'
<1>1. PICK user \in Users :
        login' = [login EXCEPT ![l] = [pc |-> "resolve", user |-> user, pid |-> Nobody]]
  BY DEF Begin
<1>2. UNCHANGED <<linked, mayPlay, everLinked, nsaCache>>
  BY DEF Begin
<1>3. LoginTypeOK'
  <2>1. [pc |-> "resolve", user |-> user, pid |-> Nobody] \in
          [pc : {"idle", "resolve", "ask", "store", "check", "in", "refused"},
           user : Users, pid : Accounts \cup {Nobody, Anonymous}]
    OBVIOUS
  <2> QED
    BY <1>1, <1>2, <2>1 DEF LInv, LoginTypeOK
<1>4. \A k \in Logins : k # l => login'[k] = login[k]
  BY <1>1 DEF LInv, LoginTypeOK
<1>5. login'[l].pc = "resolve"
  BY <1>1 DEF LInv, LoginTypeOK
<1>6. LinkInv'
  BY <1>2, <1>4, <1>5 DEF LInv, LinkInv, OnTheWay
<1> QED
  BY <1>3, <1>6 DEF LInv

\* The answer of the account server is cached as it was given.
LEMMA StoreNsaStep == ASSUME LInv, NEW l \in Logins, StoreNsa(l) PROVE LInv'
<1>1. login[l].user.kind = "nsa" /\ login[l].user.nsa \in Nsas
  BY UserFields DEF LInv, LoginTypeOK, LinkInv, StoreNsa
<1>2. <<login[l].user.nsa, login[l].pid>> \in everLinked
  BY <1>1 DEF LInv, LinkInv, OnTheWay, StoreNsa
<1>3. login[l].pid \in Accounts
  BY <1>2 DEF LInv, LoginTypeOK
<1>4. login' = [login EXCEPT ![l] = [@ EXCEPT !.pc = "check"]]
  BY DEF StoreNsa, LInv, LoginTypeOK
<1>5. LoginTypeOK'
  BY <1>1, <1>3, <1>4 DEF LInv, LoginTypeOK, StoreNsa
<1>6. \A k \in Logins : k # l => login'[k] = login[k]
  BY <1>4 DEF LInv, LoginTypeOK
<1>7. login'[l].pc = "check" /\ login'[l].pid = login[l].pid
        /\ login'[l].user = login[l].user
  BY <1>4 DEF LInv, LoginTypeOK
<1>8. \A n \in Nsas : nsaCache'[n] # Nobody => <<n, nsaCache'[n]>> \in everLinked
  BY <1>1, <1>2 DEF LInv, LoginTypeOK, LinkInv, StoreNsa
<1>9. UNCHANGED <<linked, everLinked>>
  BY DEF StoreNsa
<1>10. LinkInv'
  <2>1. ASSUME NEW k \in Logins
        PROVE  /\ OnTheWay(k)' /\ login'[k].user.kind = "nsa"
                    => <<login'[k].user.nsa, login'[k].pid>> \in everLinked
               /\ OnTheWay(k)' /\ RequireAccount /\ RequireSignedToken
                    => login'[k].pid \in Accounts
               /\ login'[k].pc \in {"ask", "store"} => login'[k].user.kind = "nsa"
    <3>1. CASE k = l
      BY <1>2, <1>3, <1>7, <3>1 DEF OnTheWay
    <3>2. CASE k # l
      BY <1>6, <3>2 DEF LInv, LinkInv, OnTheWay
    <3> QED
      BY <3>1, <3>2
  <2> QED
    BY <1>8, <1>9, <2>1 DEF LInv, LinkInv
<1> QED
  BY <1>5, <1>10 DEF LInv

\* Every step of a login keeps LInv: each goes on with an account it got from the
\* user name, the cache or the account server.
LEMMA ResolveUserStep == ASSUME LInv, NEW l \in Logins, ResolveUser(l) PROVE LInv'
<1> DEFINE user == login[l].user
<1>1. user \in Users /\ login[l].pid \in Accounts \cup {Nobody, Anonymous}
  BY DEF LInv, LoginTypeOK
<1>2. /\ user.kind = "token" => user.pid \in Accounts
      /\ user.kind = "pid" => user.pid \in Accounts \cup {Anonymous}
      /\ user.kind = "pid" /\ user.proven => user.pid \in Accounts
      /\ user.kind = "nsa" => user.nsa \in Nsas
  BY <1>1, UserFields
<1>3. ASSUME Begin(l) PROVE LInv'
  BY <1>3, BeginStep
<1>4. ASSUME ByToken(l) PROVE LInv'
  BY <1>2, <1>4, GotoStep DEF ByToken
<1>5. ASSUME ByPid(l) PROVE LInv'
  <2>1. CASE RequireSignedToken /\ ~ user.proven
    BY <1>5, <2>1, GotoStep DEF ByPid, Refuse
  <2>2. CASE ~ (RequireSignedToken /\ ~ user.proven)
    BY <1>2, <1>5, <2>2, GotoStep DEF ByPid
  <2> QED
    BY <2>1, <2>2
<1>6. ASSUME ByName(l) PROVE LInv'
  <2>1. CASE RequireAccount
    BY <1>6, <2>1, GotoStep DEF ByName, Refuse
  <2>2. CASE ~ RequireAccount
    BY <1>6, <2>2, GotoStep DEF ByName
  <2> QED
    BY <2>1, <2>2
<1>7. ASSUME ByNsa(l) PROVE LInv'
  <2>1. CASE nsaCache[user.nsa] # Nobody
    <3>1. <<user.nsa, nsaCache[user.nsa]>> \in everLinked
      BY <1>2, <1>7, <2>1 DEF ByNsa, LInv, LinkInv
    <3>2. nsaCache[user.nsa] \in Accounts
      BY <3>1 DEF LInv, LoginTypeOK
    <3> QED
      BY <1>7, <2>1, <3>1, <3>2, GotoStep DEF ByNsa
  <2>2. CASE nsaCache[user.nsa] = Nobody
    BY <1>7, <2>2, GotoStep DEF ByNsa
  <2> QED
    BY <2>1, <2>2
<1>8. ASSUME AskNsa(l) PROVE LInv'
  <2> DEFINE p == linked[user.nsa]
  <2>1. user.kind = "nsa"
    BY <1>8 DEF AskNsa, LInv, LinkInv
  <2>2. CASE p = Nobody
    BY <1>8, <2>2, GotoStep DEF AskNsa, Refuse
  <2>3. CASE p # Nobody
    <3>1. <<user.nsa, p>> \in everLinked
      BY <1>2, <2>1, <2>3 DEF LInv, LinkInv
    <3>2. p \in Accounts
      BY <3>1 DEF LInv, LoginTypeOK
    <3> QED
      BY <1>8, <2>1, <2>3, <3>1, <3>2, GotoStep DEF AskNsa
  <2> QED
    BY <2>2, <2>3
<1>9. ASSUME AskNsaFails(l) PROVE LInv'
  BY <1>9, GotoStep DEF AskNsaFails, Refuse
<1>10. ASSUME StoreNsa(l) PROVE LInv'
  BY <1>10, StoreNsaStep
<1>11. ASSUME Check(l) PROVE LInv'
  <2>1. /\ user.kind = "nsa" => <<user.nsa, login[l].pid>> \in everLinked
        /\ RequireAccount /\ RequireSignedToken => login[l].pid \in Accounts
    BY <1>11 DEF Check, LInv, LinkInv, OnTheWay
  <2>2. CASE login[l].pid \in mayPlay
    BY <1>1, <1>11, <2>1, <2>2, GotoStep DEF Check
  <2>3. CASE login[l].pid \notin mayPlay
    BY <1>11, <2>3, GotoStep DEF Check, Refuse
  <2> QED
    BY <2>2, <2>3
<1>12. ASSUME CheckFails(l) PROVE LInv'
  <2>1. /\ user.kind = "nsa" => <<user.nsa, login[l].pid>> \in everLinked
        /\ RequireAccount /\ RequireSignedToken => login[l].pid \in Accounts
    BY <1>12 DEF CheckFails, LInv, LinkInv, OnTheWay
  <2> QED
    BY <1>1, <1>12, <2>1, GotoStep DEF CheckFails
<1> QED
  BY <1>3, <1>4, <1>5, <1>6, <1>7, <1>8, <1>9, <1>10, <1>11, <1>12 DEF ResolveUser

-----------------------------------------------------------------------------
\* LInv is inductive.
LEMMA LInvStep == LInv /\ [LoginNext]_loginVars => LInv'
<1> SUFFICES ASSUME LInv, [LoginNext]_loginVars PROVE LInv'
  OBVIOUS
<1>1. ASSUME Relink PROVE LInv'
  BY <1>1, RelinkStep
<1>2. ASSUME Permit PROVE LInv'
  BY <1>2 DEF Permit, LInv, LoginTypeOK, LinkInv, OnTheWay
<1>3. ASSUME NEW l \in Logins, ResolveUser(l) PROVE LInv'
  BY <1>3, ResolveUserStep
<1>4. ASSUME UNCHANGED loginVars PROVE LInv'
  BY <1>4 DEF loginVars, LInv, LoginTypeOK, LinkInv, OnTheWay
<1> QED
  BY <1>1, <1>2, <1>3, <1>4 DEF LoginNext

\* The states of a login are those LoginTypeOK allows, whatever the account server
\* does while resolveUser runs.
THEOREM LoginTypes == LoginSpec => []LoginTypeOK
<1>1. LInv => LoginTypeOK
  BY DEF LInv
<1> QED
  BY LInvInit, LInvStep, <1>1, PTL DEF LoginSpec

\* A console plays only as an account it was linked to (gates.go: "fail-closed on
\* an unverifiable NSA identity"), and with NEXTENDO_REQUIRE_ACCOUNT and
\* NEXTENDO_REQUIRE_SIGNED_TOKEN nobody plays without an account.
THEOREM AccountsOnly == LoginSpec => []OnlyAccounts
<1>1. LInv => OnlyAccounts
  BY DEF LInv, LinkInv, OnTheWay, OnlyAccounts
<1> QED
  BY LInvInit, LInvStep, <1>1, PTL DEF LoginSpec

-----------------------------------------------------------------------------
(* LookupCache: how stale a name or a picture can be, for any number of     *)
(* callers that store their answers in any order.  BoundedStale is about an *)
(* entry that is still valid.  It is inductive with two more facts: an      *)
(* answer on its way is no older than its request, and an entry, valid or   *)
(* not, no older than its age and one request.                              *)

AnswersAreRecent ==
  \A c \in Callers :
    lookup[c].pc = "store" =>
      lookup[c].val \in Results /\ held[lookup[c].val] <= lookup[c].since

EntryIsRecent ==
  cache.val # Nothing => held[cache.val] <= cache.age + LookupTimeout

CInv == CacheTypeOK /\ held[truth] = 0 /\ AnswersAreRecent /\ EntryIsRecent

-----------------------------------------------------------------------------
\* Placeholder is no value of an account, and neither is Nothing.
LEMMA NothingIsNoResult == Nothing \notin Results /\ Values \subseteq Results
BY CacheAssumption DEF Results

\* The counters of ages.
LEMMA CacheAgesGrow ==
  /\ Far \in Nat
  /\ \A age \in 0..Far : Older(age) \in 0..Far /\ Older(age) <= age + 1 /\ age <= Older(age)
  /\ \A age \in 0..Far : Older(age) = age + 1 \/ Older(age) = Far
BY CacheAssumption DEF Far, Older

\* The cache starts empty.
LEMMA CInvInit == CacheInit => CInv
<1> SUFFICES ASSUME CacheInit PROVE CInv
  OBVIOUS
<1> USE NothingIsNoResult, CacheAgesGrow
<1>1. held \in [Results -> 0..Far] /\ held[truth] = 0
  BY DEF CacheInit
<1>2. \A c \in Callers : lookup[c] = Idle
  BY DEF CacheInit
<1>3. CacheTypeOK
  BY <1>1, CacheAssumption DEF CacheInit, CacheTypeOK, Idle, Empty
<1>4. AnswersAreRecent
  BY <1>2 DEF AnswersAreRecent, Idle
<1>5. EntryIsRecent
  BY DEF EntryIsRecent, CacheInit, Empty
<1> QED
  BY <1>1, <1>3, <1>4, <1>5 DEF CInv

\* A new name or picture makes nothing older.
LEMMA ChangeStep == CInv /\ Change => CInv'
<1> SUFFICES ASSUME CInv, Change PROVE CInv'
  OBVIOUS
<1> USE NothingIsNoResult, CacheAgesGrow
<1>1. truth' \in Values /\ held' \in [Results -> 0..Far] /\ held'[truth'] = 0
  BY DEF CInv, CacheTypeOK, Change
<1>2. \A v \in Results : held'[v] <= held[v]
  BY DEF CInv, CacheTypeOK, Change
<1>3. CacheTypeOK'
  BY <1>1 DEF CInv, CacheTypeOK, Change
<1>4. AnswersAreRecent'
  BY <1>1, <1>2 DEF CInv, CacheTypeOK, AnswersAreRecent, Change
<1>5. EntryIsRecent'
  BY <1>1, <1>2, CacheAssumption DEF CInv, CacheTypeOK, EntryIsRecent, Change
<1> QED
  BY <1>1, <1>3, <1>4, <1>5 DEF CInv

\* A lookup that misses, is answered or fails leaves the entry alone.
LEMMA AskStep ==
  ASSUME CInv, NEW c \in Callers, Miss(c) \/ Answer(c) \/ Fail(c)
  PROVE  CInv'
<1> USE NothingIsNoResult, CacheAgesGrow
<1>1. UNCHANGED <<truth, cache>>
  BY DEF Miss, Answer, Fail
<1>2. held' \in [Results -> 0..Far] /\ \A v \in Results : held'[v] <= held[v]
  <2>1. CASE Fail(c)
    BY <2>1 DEF Fail, CInv, CacheTypeOK
  <2>2. CASE Miss(c) \/ Answer(c)
    BY <2>2 DEF Miss, Answer, CInv, CacheTypeOK
  <2> QED
    BY <2>1, <2>2
<1>3. held'[truth'] = 0
  BY <1>1, <1>2 DEF CInv, CacheTypeOK
<1>4. \A d \in Callers : d # c => lookup'[d] = lookup[d]
  BY DEF Miss, Answer, Fail, CInv, CacheTypeOK
<1>5. /\ lookup'[c].pc \in {"ask", "store"}
      /\ lookup'[c].pc = "store" =>
           lookup'[c].val \in Results /\ held'[lookup'[c].val] <= lookup'[c].since
  BY CacheAssumption DEF Miss, Answer, Fail, Idle, CInv, CacheTypeOK, Results
<1>6. CacheTypeOK'
  <2>1. lookup' \in [Callers -> [pc : {"idle", "ask", "store"}, since : 0..LookupTimeout,
                               val : Results \cup {Nothing}]]
    BY CacheAssumption DEF Miss, Answer, Fail, Idle, CInv, CacheTypeOK, Results
  <2> QED
    BY <1>1, <1>2, <2>1 DEF CInv, CacheTypeOK
<1>7. AnswersAreRecent'
  BY <1>2, <1>4, <1>5 DEF CInv, CacheTypeOK, AnswersAreRecent
<1>8. EntryIsRecent'
  BY <1>1, <1>2, CacheAssumption DEF CInv, CacheTypeOK, EntryIsRecent
<1> QED
  BY <1>3, <1>6, <1>7, <1>8 DEF CInv

\* What is stored is as recent as the answer was.
LEMMA StoreStep == ASSUME CInv, NEW c \in Callers, Store(c) PROVE CInv'
<1> USE NothingIsNoResult, CacheAgesGrow
<1>1. /\ lookup[c].val \in Results /\ held[lookup[c].val] <= lookup[c].since
      /\ lookup[c].since \in 0..LookupTimeout
  BY DEF CInv, CacheTypeOK, AnswersAreRecent, Store
<1>2. cache' = [val |-> lookup[c].val, age |-> 0] /\ UNCHANGED <<truth, held>>
  BY DEF Store
<1>3. \A d \in Callers : lookup'[d] = IF d = c THEN Idle ELSE lookup[d]
  BY DEF Store, CInv, CacheTypeOK
<1>4. CacheTypeOK'
  <2>1. lookup' \in [Callers -> [pc : {"idle", "ask", "store"}, since : 0..LookupTimeout,
                               val : Results \cup {Nothing}]]
    BY CacheAssumption DEF Store, Idle, CInv, CacheTypeOK
  <2> QED
    BY <1>1, <1>2, <2>1 DEF CInv, CacheTypeOK
<1>5. AnswersAreRecent'
  BY <1>2, <1>3 DEF CInv, AnswersAreRecent, Idle
<1>6. EntryIsRecent'
  BY <1>1, <1>2, CacheAssumption DEF EntryIsRecent, CInv, CacheTypeOK
<1> QED
  BY <1>2, <1>4, <1>5, <1>6 DEF CInv

\* Time passes for the values, the entry and the requests alike.
LEMMA TickStep == CInv /\ CacheTick => CInv'
<1> SUFFICES ASSUME CInv, CacheTick PROVE CInv'
  OBVIOUS
<1> USE NothingIsNoResult, CacheAgesGrow
<1>1. /\ truth' = truth /\ held'[truth] = 0 /\ held' \in [Results -> 0..Far]
      /\ \A v \in Results : held'[v] <= held[v] + 1
  BY DEF CInv, CacheTypeOK, CacheTick
<1>2. cache' = [val |-> cache.val, age |-> Older(cache.age)]
  BY DEF CInv, CacheTypeOK, CacheTick
<1>3. \A c \in Callers :
        lookup'[c] = IF lookup[c].pc = "idle" THEN lookup[c]
                     ELSE [pc |-> lookup[c].pc, since |-> lookup[c].since + 1,
                           val |-> lookup[c].val]
  BY DEF CInv, CacheTypeOK, CacheTick
<1>4. CacheTypeOK'
  <2>1. \A c \in Callers : lookup'[c] \in [pc : {"idle", "ask", "store"},
                               since : 0..LookupTimeout, val : Results \cup {Nothing}]
    BY <1>3, CacheAssumption DEF CInv, CacheTypeOK, CacheTick
  <2>2. lookup' \in [Callers -> [pc : {"idle", "ask", "store"}, since : 0..LookupTimeout,
                               val : Results \cup {Nothing}]]
    BY <2>1 DEF CacheTick
  <2> QED
    BY <1>1, <1>2, <2>2 DEF CInv, CacheTypeOK
<1>5. AnswersAreRecent'
  <2> SUFFICES ASSUME NEW c \in Callers, lookup'[c].pc = "store"
               PROVE  lookup'[c].val \in Results /\ held'[lookup'[c].val] <= lookup'[c].since
    BY DEF AnswersAreRecent
  <2>1. /\ lookup[c].pc = "store" /\ lookup'[c].val = lookup[c].val
        /\ lookup'[c].since = lookup[c].since + 1
    <3>1. lookup[c].pc # "idle"
      <4>1. lookup[c].pc = "idle" => lookup'[c] = lookup[c]
        BY <1>3
      <4> QED
        BY <4>1
    <3>2. lookup'[c] = [pc |-> lookup[c].pc, since |-> lookup[c].since + 1,
                        val |-> lookup[c].val]
      BY <1>3, <3>1
    <3> QED
      BY <3>2
  <2>2. /\ lookup[c].val \in Results /\ held[lookup[c].val] <= lookup[c].since
        /\ lookup[c].since \in Nat
    BY <2>1, CacheAssumption DEF CInv, CacheTypeOK, AnswersAreRecent
  <2> QED
    BY <1>1, <2>1, <2>2 DEF CInv, CacheTypeOK
<1>6. EntryIsRecent'
  <2> SUFFICES ASSUME cache'.val # Nothing
               PROVE  held'[cache'.val] <= cache'.age + LookupTimeout
    BY DEF EntryIsRecent
  <2>1. /\ cache.val \in Results /\ cache'.val = cache.val
        /\ cache'.age = Older(cache.age) /\ cache.age \in 0..Far
    BY <1>2 DEF CInv, CacheTypeOK
  <2>2. held[cache.val] <= cache.age + LookupTimeout
    BY <1>2 DEF CInv, EntryIsRecent
  <2>3. held[cache.val] \in 0..Far /\ held'[cache.val] \in 0..Far
    BY <1>1, <2>1 DEF CInv, CacheTypeOK
  <2> QED
    BY <1>1, <2>1, <2>2, <2>3, CacheAssumption
<1> QED
  BY <1>1, <1>4, <1>5, <1>6 DEF CInv

-----------------------------------------------------------------------------
\* CInv is inductive.
LEMMA CInvStep == CInv /\ [CacheNext]_cacheVars => CInv'
<1> SUFFICES ASSUME CInv, [CacheNext]_cacheVars PROVE CInv'
  OBVIOUS
<1>1. ASSUME Change PROVE CInv'
  BY <1>1, ChangeStep
<1>2. ASSUME CacheTick PROVE CInv'
  BY <1>2, TickStep
<1>3. ASSUME UNCHANGED cacheVars PROVE CInv'
  BY <1>3 DEF cacheVars, CInv, CacheTypeOK, AnswersAreRecent, EntryIsRecent
<1>4. ASSUME NEW c \in Callers, Look(c) PROVE CInv'
  <2>1. ASSUME Hit(c) PROVE CInv'
    BY <1>3, <2>1 DEF Hit
  <2>2. ASSUME Miss(c) \/ Answer(c) \/ Fail(c) PROVE CInv'
    BY <2>2, AskStep
  <2>3. ASSUME Store(c) PROVE CInv'
    BY <2>3, StoreStep
  <2> QED
    BY <1>4, <2>1, <2>2, <2>3 DEF Look
<1> QED
  BY <1>1, <1>2, <1>3, <1>4 DEF CacheNext

\* The entry, the requests and the ages are those CacheTypeOK allows; no request
\* outlasts the timeout of the HTTP client.
THEOREM CacheTypes == CacheSpec => []CacheTypeOK
<1>1. CInv => CacheTypeOK
  BY DEF CInv
<1> QED
  BY CInvInit, CInvStep, <1>1, PTL DEF CacheSpec

\* dispName and avatarJPEG return nothing older than the lifetime of an entry and
\* the timeout of a request, however the stores of concurrent callers are ordered.
THEOREM CacheIsRecent == CacheSpec => []BoundedStale
<1>1. CInv => BoundedStale
  <2> SUFFICES ASSUME CInv, Valid PROVE held[cache.val] < Lifetime + LookupTimeout
    BY DEF BoundedStale
  <2>1. /\ held[cache.val] <= cache.age + LookupTimeout
        /\ cache.age \in 0..Far /\ cache.age < Lifetime /\ cache.val \in Results
    BY DEF CInv, CacheTypeOK, EntryIsRecent, Valid
  <2>2. held[cache.val] \in 0..Far
    BY <2>1 DEF CInv, CacheTypeOK
  <2> QED
    BY <2>1, <2>2, CacheAgesGrow, CacheAssumption
<1> QED
  BY CInvInit, CInvStep, <1>1, PTL DEF CacheSpec

-----------------------------------------------------------------------------
(* Presence: who keeps calling is reported at least every interval and      *)
(* timeout, and who stopped is not.  The argument follows the goroutine: a  *)
(* report names whoever was active when it began, so that a player who is   *)
(* missing from it has been active for no longer than it has run; and while *)
(* the goroutine sleeps, whoever was active when the last report began was  *)
(* told when it ended.                                                      *)

\* An entry that is young enough dates from the last call, and a player without
\* one is not active.
EntriesInv ==
  \A p \in Players :
    /\ Fresh(p) => quiet[p] <= presSeen[p]
    /\ ~ Fresh(p) => active[p] = 0

SleepInv ==
  reporter.pc = "sleep" =>
    \A p \in Players :
      active[p] > reporter.since + ReportTimeout /\ fine > reporter.since
        => told[p] <= reporter.since

PostInv ==
  reporter.pc = "post" =>
    \A p \in Players :
      /\ p \notin reporter.batch => active[p] <= reporter.since
      /\ active[p] > Interval + ReportTimeout + reporter.since
           /\ fine > Interval + reporter.since
             => told[p] <= Interval + reporter.since

RInv == PresenceTypeOK /\ EntriesInv /\ SleepInv /\ PostInv /\ ReportsAreRecent

-----------------------------------------------------------------------------
\* The counters of ages.
LEMMA AgesGrow ==
  /\ Horizon \in Nat
  /\ \A limit \in Nat : \A age \in 0..limit :
       /\ Aged(age, limit) \in 0..limit /\ Aged(age, limit) <= age + 1
       /\ Aged(age, limit) = IF age < limit THEN age + 1 ELSE limit
BY PresenceAssumption DEF Horizon, Aged

\* At the start no one has called and no one is reported.
LEMMA RInvInit == PresenceInit => RInv
<1> SUFFICES ASSUME PresenceInit PROVE RInv
  OBVIOUS
<1>1. PresenceTypeOK
  BY AgesGrow, PresenceAssumption DEF PresenceInit, PresenceTypeOK, Asleep, Ages
<1>2. EntriesInv
  BY DEF PresenceInit, EntriesInv, Fresh
<1>3. SleepInv
  BY PresenceAssumption DEF PresenceInit, SleepInv, Asleep
<1>4. PostInv /\ ReportsAreRecent
  BY DEF PresenceInit, PostInv, ReportsAreRecent, Asleep
<1> QED
  BY <1>1, <1>2, <1>3, <1>4 DEF RInv

\* A call makes the entry and the last call equally recent.
LEMMA NoteStep == ASSUME RInv, NEW p \in Players, NotePresenceSeen(p) PROVE RInv'
<1>1. /\ DOMAIN presSeen' = DOMAIN presSeen \cup {p}
      /\ presSeen'[p] = 0 /\ quiet'[p] = 0
      /\ \A q \in DOMAIN presSeen : q # p => presSeen'[q] = presSeen[q]
      /\ \A q \in Players : q # p => quiet'[q] = quiet[q]
      /\ UNCHANGED <<reporter, active, told, fine>>
  BY DEF NotePresenceSeen, RInv, PresenceTypeOK
<1>2. PresenceTypeOK'
  <2>1. presSeen' \in [DOMAIN presSeen' -> 0..TTL] /\ DOMAIN presSeen' \subseteq Players
    BY PresenceAssumption DEF NotePresenceSeen, RInv, PresenceTypeOK
  <2>2. quiet' \in [Players -> Ages]
    BY AgesGrow DEF NotePresenceSeen, RInv, PresenceTypeOK, Ages
  <2> QED
    BY <1>1, <2>1, <2>2 DEF RInv, PresenceTypeOK
<1>3. EntriesInv'
  BY <1>1, PresenceAssumption DEF RInv, EntriesInv, Fresh
<1>4. SleepInv' /\ PostInv'
  BY <1>1 DEF RInv, SleepInv, PostInv
<1>5. ReportsAreRecent'
  <2> SUFFICES ASSUME reporter'.pc = "post", NEW q \in reporter'.batch
               PROVE  quiet'[q] < TTL + reporter'.since
    BY DEF ReportsAreRecent
  <2>1. q \in Players /\ reporter.since \in Nat
    BY <1>1 DEF RInv, PresenceTypeOK
  <2> QED
    BY <1>1, <2>1, PresenceAssumption DEF RInv, ReportsAreRecent
<1> QED
  BY <1>2, <1>3, <1>4, <1>5 DEF RInv

\* activePIDs: what is deleted was not fresh, and everyone who is fresh is named.
LEMMA ReportStep == RInv /\ Report => RInv'
<1> SUFFICES ASSUME RInv, Report PROVE RInv'
  OBVIOUS
<1>1. /\ DOMAIN presSeen' = {p \in DOMAIN presSeen : Fresh(p)}
      /\ \A p \in DOMAIN presSeen' : presSeen'[p] = presSeen[p]
      /\ UNCHANGED <<quiet, active, told, fine>>
  BY DEF Report, Restrict, observers
<1>2. \A p \in Players : Fresh(p)' <=> Fresh(p)
  BY <1>1 DEF Fresh
<1>3. /\ reporter.pc = "sleep" /\ reporter.since = Interval
      /\ reporter' = IF ActivePIDs = {} THEN Asleep
                     ELSE [pc |-> "post", since |-> 0, batch |-> ActivePIDs]
  BY DEF Report
<1>4. \A p \in Players : p \in ActivePIDs <=> Fresh(p)
  BY DEF ActivePIDs, Fresh
<1>5. ActivePIDs \subseteq Players
  BY DEF ActivePIDs, RInv, PresenceTypeOK
<1>6. PresenceTypeOK'
  <2>1. presSeen' \in [DOMAIN presSeen' -> 0..TTL] /\ DOMAIN presSeen' \subseteq Players
    BY <1>1 DEF Report, Restrict, RInv, PresenceTypeOK
  <2>2. /\ reporter' \in [pc : {"sleep", "post"}, since : Nat, batch : SUBSET Players]
        /\ reporter'.since = 0
    BY <1>3, <1>5 DEF Asleep
  <2> QED
    BY <1>1, <2>1, <2>2, PresenceAssumption DEF RInv, PresenceTypeOK
<1>7. EntriesInv'
  <2> SUFFICES ASSUME NEW p \in Players
               PROVE  /\ Fresh(p)' => quiet'[p] <= presSeen'[p]
                      /\ ~ Fresh(p)' => active'[p] = 0
    BY DEF EntriesInv
  <2>1. Fresh(p) => p \in DOMAIN presSeen' /\ presSeen'[p] = presSeen[p]
    BY <1>1 DEF Fresh
  <2> QED
    BY <1>1, <1>2, <2>1 DEF RInv, EntriesInv
<1>8. CASE ActivePIDs = {}
  <2>1. \A p \in Players : active'[p] = 0
    BY <1>1, <1>4, <1>8 DEF RInv, EntriesInv
  <2>2. reporter' = Asleep
    BY <1>3, <1>8
  <2>3. SleepInv'
    BY <2>1, <2>2, PresenceAssumption DEF SleepInv, Asleep
  <2>4. PostInv' /\ ReportsAreRecent'
    BY <2>2 DEF PostInv, ReportsAreRecent, Asleep
  <2> QED
    BY <1>6, <1>7, <2>3, <2>4 DEF RInv
<1>9. CASE ActivePIDs # {}
  <2>1. reporter' = [pc |-> "post", since |-> 0, batch |-> ActivePIDs]
    BY <1>3, <1>9
  <2>2. SleepInv'
    BY <2>1 DEF SleepInv
  <2>3. PostInv'
    <3> SUFFICES ASSUME NEW p \in Players
                 PROVE  /\ p \notin ActivePIDs => active'[p] <= 0
                        /\ active'[p] > Interval + ReportTimeout + 0 /\ fine' > Interval + 0
                             => told'[p] <= Interval + 0
      BY <2>1 DEF PostInv
    <3>1. p \notin ActivePIDs => active[p] = 0
      BY <1>4 DEF RInv, EntriesInv
    <3>2. active[p] > Interval + ReportTimeout /\ fine > Interval => told[p] <= Interval
      BY <1>3 DEF RInv, SleepInv
    <3> QED
      BY <1>1, <3>1, <3>2, PresenceAssumption
  <2>4. ReportsAreRecent'
    <3> SUFFICES ASSUME NEW p \in ActivePIDs PROVE quiet'[p] < TTL + 0
      BY <2>1 DEF ReportsAreRecent
    <3>1. p \in Players /\ Fresh(p) /\ presSeen[p] < TTL /\ presSeen[p] \in 0..TTL
      BY <1>4, <1>5 DEF Fresh, RInv, PresenceTypeOK
    <3>2. quiet[p] <= presSeen[p] /\ quiet[p] \in Nat
      BY <3>1, AgesGrow DEF RInv, EntriesInv, PresenceTypeOK, Ages
    <3> QED
      BY <1>1, <3>1, <3>2, PresenceAssumption
  <2> QED
    BY <1>6, <1>7, <2>2, <2>3, <2>4 DEF RInv
<1> QED
  BY <1>8, <1>9

\* After a report was accepted, whoever it did not name became active since.
LEMMA AcceptedStep == RInv /\ Accepted => RInv'
<1> SUFFICES ASSUME RInv, Accepted PROVE RInv'
  OBVIOUS
<1>1. /\ reporter.pc = "post" /\ reporter' = Asleep
      /\ told' = [p \in Players |-> IF p \in reporter.batch THEN 0 ELSE told[p]]
      /\ UNCHANGED <<presSeen, quiet, active, fine>>
  BY DEF Accepted
<1>2. PresenceTypeOK'
  BY <1>1, AgesGrow, PresenceAssumption DEF RInv, PresenceTypeOK, Asleep, Ages
<1>3. EntriesInv'
  BY <1>1 DEF RInv, EntriesInv, Fresh
<1>4. SleepInv'
  <2> SUFFICES ASSUME NEW p \in Players, active'[p] > 0 + ReportTimeout
               PROVE  told'[p] <= 0
    BY <1>1 DEF SleepInv, Asleep
  <2>1. active[p] > ReportTimeout /\ reporter.since <= ReportTimeout /\ reporter.since \in Nat
    BY <1>1, PresenceAssumption DEF RInv, PresenceTypeOK
  <2>2. p \in reporter.batch
    BY <1>1, <2>1, AgesGrow, PresenceAssumption DEF RInv, PostInv, PresenceTypeOK, Ages
  <2> QED
    BY <1>1, <2>2
<1>5. PostInv' /\ ReportsAreRecent'
  BY <1>1 DEF PostInv, ReportsAreRecent, Asleep
<1> QED
  BY <1>2, <1>3, <1>4, <1>5 DEF RInv

\* After a report failed nothing is claimed until the next.
LEMMA FailedStep == RInv /\ Failed => RInv'
<1> SUFFICES ASSUME RInv, Failed PROVE RInv'
  OBVIOUS
<1>1. /\ reporter' = Asleep /\ fine' = 0
      /\ UNCHANGED <<presSeen, quiet, active>>
  BY DEF Failed
<1>2. told' \in [Players -> Ages]
  <2>1. PICK taken \in BOOLEAN :
          told' = [p \in Players |-> IF taken /\ p \in reporter.batch THEN 0 ELSE told[p]]
    BY DEF Failed
  <2> QED
    BY <2>1, AgesGrow DEF RInv, PresenceTypeOK, Ages
<1>3. PresenceTypeOK'
  BY <1>1, <1>2, AgesGrow, PresenceAssumption DEF RInv, PresenceTypeOK, Asleep, Ages
<1>4. EntriesInv'
  BY <1>1 DEF RInv, EntriesInv, Fresh
<1>5. SleepInv' /\ PostInv' /\ ReportsAreRecent'
  BY <1>1 DEF SleepInv, PostInv, ReportsAreRecent, Asleep
<1> QED
  BY <1>3, <1>4, <1>5 DEF RInv

\* Time passes for everyone alike.
LEMMA PresenceTickStep == RInv /\ PresenceTick => RInv'
<1> SUFFICES ASSUME RInv, PresenceTick PROVE RInv'
  OBVIOUS
<1>1. /\ reporter'.pc = reporter.pc /\ reporter'.batch = reporter.batch
      /\ reporter'.since = reporter.since + 1 /\ reporter.since \in Nat
      /\ reporter' \in [pc : {"sleep", "post"}, since : Nat, batch : SUBSET Players]
      /\ reporter'.since <= (IF reporter'.pc = "sleep" THEN Interval ELSE ReportTimeout)
  BY PresenceAssumption DEF PresenceTick, RInv, PresenceTypeOK
<1>2. /\ DOMAIN presSeen' = DOMAIN presSeen
      /\ \A p \in DOMAIN presSeen :
           /\ presSeen[p] \in 0..TTL
           /\ presSeen'[p] = Aged(presSeen[p], TTL) /\ presSeen'[p] \in 0..TTL
           /\ presSeen'[p] = IF presSeen[p] < TTL THEN presSeen[p] + 1 ELSE TTL
  BY AgesGrow, PresenceAssumption DEF PresenceTick, RInv, PresenceTypeOK
<1>3. \A p \in Players :
        /\ quiet[p] \in Ages /\ quiet'[p] \in Ages /\ quiet'[p] <= quiet[p] + 1
        /\ told[p] \in Ages /\ told'[p] \in Ages /\ told'[p] <= told[p] + 1
  BY AgesGrow DEF PresenceTick, RInv, PresenceTypeOK, Ages
<1>4. fine \in Ages /\ fine' \in Ages /\ fine' <= fine + 1
  BY AgesGrow DEF PresenceTick, RInv, PresenceTypeOK, Ages
<1>5. \A p \in Players :
        /\ active[p] \in Ages /\ active'[p] \in Ages /\ active'[p] <= active[p] + 1
        /\ active'[p] = 0 \/ (p \in DOMAIN presSeen /\ presSeen[p] + 1 < TTL)
  <2>1. \A p \in Players : active[p] \in 0..Horizon
    BY DEF RInv, PresenceTypeOK, Ages
  <2> QED
    BY <2>1, AgesGrow DEF PresenceTick, Ages
<1>6. ASSUME NEW p \in Players
       PROVE  /\ quiet[p] \in Nat /\ quiet'[p] \in Nat /\ quiet'[p] <= quiet[p] + 1
              /\ told[p] \in Nat /\ told'[p] \in Nat /\ told'[p] <= told[p] + 1
              /\ active[p] \in Nat /\ active'[p] \in Nat /\ active'[p] <= active[p] + 1
              /\ fine \in Nat /\ fine' \in Nat /\ fine' <= fine + 1
  <2>1. Ages \subseteq Nat
    BY AgesGrow DEF Ages
  <2> HIDE DEF Ages
  <2> QED
    BY <1>3, <1>4, <1>5, <2>1
<1>7. PresenceTypeOK'
  <2>1. presSeen' \in [DOMAIN presSeen' -> 0..TTL] /\ DOMAIN presSeen' \subseteq Players
    BY <1>2 DEF PresenceTick, RInv, PresenceTypeOK
  <2>2. quiet' \in [Players -> Ages] /\ active' \in [Players -> Ages] /\ told' \in [Players -> Ages]
    BY <1>3, <1>5 DEF PresenceTick
  <2> QED
    BY <1>1, <1>4, <2>1, <2>2 DEF PresenceTypeOK
<1>8. EntriesInv'
  <2> SUFFICES ASSUME NEW p \in Players
               PROVE  /\ Fresh(p)' => quiet'[p] <= presSeen'[p]
                      /\ ~ Fresh(p)' => active'[p] = 0
    BY DEF EntriesInv
  <2>1. ASSUME Fresh(p)' PROVE quiet'[p] <= presSeen'[p]
    <3>1. /\ p \in DOMAIN presSeen /\ presSeen'[p] < TTL /\ presSeen[p] \in 0..TTL
          /\ presSeen'[p] = presSeen[p] + 1
      BY <1>2, <2>1, PresenceAssumption DEF Fresh
    <3>2. quiet[p] <= presSeen[p]
      BY <3>1, PresenceAssumption DEF Fresh, RInv, EntriesInv
    <3> QED
      BY <1>6, <3>1, <3>2
  <2>2. ASSUME ~ Fresh(p)' PROVE active'[p] = 0
    <3>1. ~ (p \in DOMAIN presSeen /\ presSeen[p] + 1 < TTL)
      BY <1>2, <2>2, PresenceAssumption DEF Fresh
    <3> QED
      BY <1>5, <3>1
  <2> QED
    BY <2>1, <2>2
<1>9. SleepInv'
  <2> SUFFICES ASSUME reporter.pc = "sleep", NEW p \in Players,
                      active'[p] > reporter.since + 1 + ReportTimeout, fine' > reporter.since + 1
               PROVE  told'[p] <= reporter.since + 1
    BY <1>1 DEF SleepInv
  <2>1. active[p] > reporter.since + ReportTimeout /\ fine > reporter.since
    BY <1>1, <1>6, PresenceAssumption
  <2>2. told[p] <= reporter.since
    BY <2>1 DEF RInv, SleepInv
  <2> QED
    BY <1>1, <1>6, <2>2
<1>10. PostInv'
  <2> SUFFICES ASSUME reporter.pc = "post", NEW p \in Players
               PROVE  /\ p \notin reporter.batch => active'[p] <= reporter.since + 1
                      /\ active'[p] > Interval + ReportTimeout + (reporter.since + 1)
                           /\ fine' > Interval + (reporter.since + 1)
                             => told'[p] <= Interval + (reporter.since + 1)
    BY <1>1 DEF PostInv
  <2>1. /\ p \notin reporter.batch => active[p] <= reporter.since
        /\ active[p] > Interval + ReportTimeout + reporter.since
             /\ fine > Interval + reporter.since
               => told[p] <= Interval + reporter.since
    BY DEF RInv, PostInv
  <2> QED
    BY <1>1, <1>6, <2>1, PresenceAssumption
<1>11. ReportsAreRecent'
  <2> SUFFICES ASSUME reporter.pc = "post", NEW p \in reporter.batch
               PROVE  quiet'[p] < TTL + (reporter.since + 1)
    BY <1>1 DEF ReportsAreRecent
  <2>1. p \in Players /\ quiet[p] < TTL + reporter.since
    BY DEF RInv, PresenceTypeOK, ReportsAreRecent
  <2> QED
    BY <1>1, <1>6, <2>1, PresenceAssumption
<1> QED
  BY <1>7, <1>8, <1>9, <1>10, <1>11 DEF RInv

-----------------------------------------------------------------------------
\* RInv is inductive.
LEMMA RInvStep == RInv /\ [PresenceNext]_presenceVars => RInv'
<1> SUFFICES ASSUME RInv, [PresenceNext]_presenceVars PROVE RInv'
  OBVIOUS
<1>1. ASSUME UNCHANGED presenceVars PROVE RInv'
  BY <1>1 DEF presenceVars, observers, RInv, PresenceTypeOK, EntriesInv, Fresh, SleepInv,
              PostInv, ReportsAreRecent
<1>2. ASSUME NEW p \in Players, NotePresenceSeen(p) PROVE RInv'
  BY <1>2, NoteStep
<1> QED
  BY <1>1, <1>2, ReportStep, AcceptedStep, FailedStep, PresenceTickStep
     DEF PresenceNext, Reporting

\* The entries, the goroutine and the ages are those PresenceTypeOK allows; a sleep
\* takes no longer than the interval, a report no longer than the timeout.
THEOREM PresenceTypes == PresenceSpec => []PresenceTypeOK
<1>1. RInv => PresenceTypeOK
  BY DEF RInv
<1> QED
  BY RInvInit, RInvStep, <1>1, PTL DEF PresenceSpec

\* A player who stopped calling is not kept online: a report (startPresenceReporter)
\* names calls no older than presenceTTL and the time the report takes.
THEOREM NoOldReports == PresenceSpec => []ReportsAreRecent
<1>1. RInv => ReportsAreRecent
  BY DEF RInv
<1> QED
  BY RInvInit, RInvStep, <1>1, PTL DEF PresenceSpec

\* A player who keeps calling is named by a report in every interval and timeout,
\* unless one failed, whenever the calls come.
THEOREM KeepsOnline == PresenceSpec => []KeptOnline
<1>1. RInv => KeptOnline
  <2> SUFFICES ASSUME RInv, NEW p \in Players, active[p] > Interval + 2 * ReportTimeout,
                      fine > Interval + 2 * ReportTimeout
               PROVE  told[p] <= Interval + ReportTimeout
    BY DEF KeptOnline
  <2>1. /\ reporter.since \in Nat /\ reporter.pc \in {"sleep", "post"}
        /\ reporter.since <= (IF reporter.pc = "sleep" THEN Interval ELSE ReportTimeout)
        /\ active[p] \in Nat /\ fine \in Nat /\ told[p] \in Nat
    BY AgesGrow DEF RInv, PresenceTypeOK, Ages
  <2>2. CASE reporter.pc = "sleep"
    <3>1. active[p] > reporter.since + ReportTimeout /\ fine > reporter.since
      BY <2>1, <2>2, PresenceAssumption
    <3>2. told[p] <= reporter.since
      BY <2>2, <3>1 DEF RInv, SleepInv
    <3> QED
      BY <2>1, <2>2, <3>2, PresenceAssumption
  <2>3. CASE reporter.pc = "post"
    <3>1. /\ active[p] > Interval + ReportTimeout + reporter.since
          /\ fine > Interval + reporter.since
      BY <2>1, <2>3, PresenceAssumption
    <3>2. told[p] <= Interval + reporter.since
      BY <2>3, <3>1 DEF RInv, PostInv
    <3> QED
      BY <2>1, <2>3, <3>2, PresenceAssumption
  <2> QED
    BY <2>1, <2>2, <2>3
<1> QED
  BY RInvInit, RInvStep, <1>1, PTL DEF PresenceSpec

-----------------------------------------------------------------------------
(* Dashboard: the counts of calls, and the answer that is put together from *)
(* them.  A sum over the players or the methods changes by one at a time    *)
(* (FoldTheorems); what ties the sums together are the calls being noted.    *)

\* A call that is being noted is one of a player, for a method.
HookInv ==
  \A c \in Conns : hook[c].pc # "idle" => hook[c].pid \in Pids /\ hook[c].method \in Methods

DashboardTyped == DashboardTypeOK /\ HookInv

SessionsInv == IsFiniteSet(DOMAIN calls) /\ sessionsSeen = Cardinality(DOMAIN calls)

TotalsInv ==
  /\ rmcTotal = SumFunction(calls) + Cardinality(At("meta"))
  /\ rmcTotal = SumFunction(methodCount) + Cardinality(At("meta")) + Cardinality(At("event"))

LengthInv ==
  Len(events) = IF SumFunction(methodCount) < MaxEvents
                THEN SumFunction(methodCount) ELSE MaxEvents

MethodInv == \A m \in Methods : Cardinality(EventsOfMethod(m)) <= methodCount[m]

\* The calls of p that its entry counts and the events do not have yet
NotedFor(p) == {c \in Conns : hook[c].pc = "event" /\ hook[c].pid = p}

PlayerInv ==
  \A p \in Pids :
    /\ EventsOfPlayer(p) # {} => p \in DOMAIN calls
    /\ NotedFor(p) # {} => p \in DOMAIN calls
    /\ p \in DOMAIN calls =>
         Cardinality(EventsOfPlayer(p)) + Cardinality(NotedFor(p)) <= calls[p]

\* What buildStats has read bounds what there is from below.
AnswerInv ==
  /\ IsFiniteSet(stats.players)
  /\ stats.pc = "meta" => Cardinality(stats.players) <= stats.conns
  /\ stats.pc \in {"events", "total"} =>
       /\ stats.calls <= SumFunction(calls)
       /\ Cardinality(stats.players) <= stats.peak
       /\ stats.known <= stats.sessions
  /\ stats.pc = "total" => stats.methods <= SumFunction(methodCount)

DInv ==
  /\ DashboardTyped /\ SessionsInv /\ TotalsInv /\ LengthInv
  /\ MethodInv /\ PlayerInv /\ AnswerInv

-----------------------------------------------------------------------------
\* t is s with e after it, and without its oldest event if s is full.
Takes(s, e, t) ==
  /\ Len(t) \in Nat \ {0} /\ t[Len(t)] = e
  /\ \/ /\ Len(s) < MaxEvents /\ Len(t) = Len(s) + 1
        /\ \A i \in 1..Len(s) : t[i] = s[i]
     \/ /\ Len(s) = MaxEvents /\ Len(t) = MaxEvents
        /\ \A i \in 1..(Len(s) - 1) : t[i] = s[i + 1]

\* This is what Trim makes of an append.
LEMMA TrimStep ==
  ASSUME NEW S, NEW s \in Seq(S), Len(s) <= MaxEvents, NEW e \in S
  PROVE  Trim(Append(s, e)) \in Seq(S) /\ Takes(s, e, Trim(Append(s, e)))
<1>0. PICK t : t = Trim(Append(s, e))
  OBVIOUS
<1> SUFFICES t \in Seq(S) /\ Takes(s, e, t)
  BY <1>0
<1>1. /\ Append(s, e) \in Seq(S) /\ Len(Append(s, e)) = Len(s) + 1 /\ Len(s) \in Nat
      /\ \A i \in 1..Len(s) : Append(s, e)[i] = s[i]
      /\ Append(s, e)[Len(s) + 1] = e
  OBVIOUS
<1>2. CASE Len(s) < MaxEvents
  <2>1. t = Append(s, e)
    BY <1>0, <1>1, <1>2, DashboardAssumption DEF Trim
  <2> QED
    BY <1>1, <1>2, <2>1 DEF Takes
<1>3. CASE Len(s) = MaxEvents
  <2> DEFINE a == Append(s, e)
  <2>1. t = Tail(a)
    BY <1>0, <1>1, <1>3, DashboardAssumption DEF Trim
  <2>2. a # <<>> /\ a \in Seq(S) /\ Len(a) = Len(s) + 1
    BY <1>1
  <2> HIDE DEF a
  <2>3. t \in Seq(S) /\ Len(t) = Len(s) /\ \A i \in 1..Len(s) : t[i] = a[i + 1]
    BY <1>1, <2>1, <2>2
  <2> QED
    BY <1>1, <1>3, <2>3, DashboardAssumption DEF a, Takes
<1>4. Len(s) < MaxEvents \/ Len(s) = MaxEvents
  BY <1>1, DashboardAssumption
<1> QED
  BY <1>2, <1>3, <1>4

\* The positions of the events of a kind
Hits(s, kind) == {i \in DOMAIN s : s[i] \in kind}

\* There are no more of them than events.
LEMMA HitsFinite ==
  ASSUME NEW S, NEW s \in Seq(S), NEW kind
  PROVE  IsFiniteSet(Hits(s, kind)) /\ Cardinality(Hits(s, kind)) \in Nat
<1>1. Hits(s, kind) \subseteq 1..Len(s) /\ Len(s) \in Nat
  BY DEF Hits
<1>2. IsFiniteSet(1..Len(s))
  BY <1>1, FS_Interval
<1>3. IsFiniteSet(Hits(s, kind))
  BY <1>1, <1>2, FS_Subset
<1> QED
  BY <1>3, FS_CardinalityType

\* One more event adds at most one to its kind and none to another.
LEMMA HitsStep ==
  ASSUME NEW S, NEW s \in Seq(S), Len(s) <= MaxEvents, NEW e \in S, NEW kind
  PROVE  /\ Hits(Trim(Append(s, e)), kind) # {} => Hits(s, kind) # {} \/ e \in kind
         /\ Cardinality(Hits(Trim(Append(s, e)), kind))
              <= Cardinality(Hits(s, kind)) + (IF e \in kind THEN 1 ELSE 0)
<1>1. PICK t : t = Trim(Append(s, e))
  OBVIOUS
<1>2. t \in Seq(S) /\ Takes(s, e, t)
  BY <1>1, TrimStep
<1>3. /\ t \in Seq(S) /\ Len(t) \in Nat \ {0} /\ t[Len(t)] = e
      /\ \/ /\ Len(s) < MaxEvents /\ Len(t) = Len(s) + 1
            /\ \A i \in 1..Len(s) : t[i] = s[i]
         \/ /\ Len(s) = MaxEvents /\ Len(t) = MaxEvents
            /\ \A i \in 1..(Len(s) - 1) : t[i] = s[i + 1]
  BY <1>2 DEF Takes
<1>4. /\ IsFiniteSet(Hits(s, kind)) /\ Cardinality(Hits(s, kind)) \in Nat
      /\ IsFiniteSet(Hits(t, kind))
  BY <1>3, HitsFinite
<1>5. Len(s) \in Nat /\ DOMAIN s = 1..Len(s) /\ DOMAIN t = 1..Len(t)
  BY <1>3
<1>6. \A i : i \in Hits(t, kind) <=> i \in 1..Len(t) /\ t[i] \in kind
  BY <1>5 DEF Hits
<1>7. MaxEvents \in Nat
  BY DashboardAssumption
<1>8. ASSUME Len(s) < MaxEvents PROVE Len(s) # MaxEvents
  BY <1>7, <1>8
<1> DEFINE old == {i \in Hits(t, kind) : i < Len(t)}
<1>9. /\ IsFiniteSet(old) /\ Cardinality(old) <= Cardinality(Hits(s, kind))
      /\ old # {} => Hits(s, kind) # {}
  <2>1. CASE Len(s) < MaxEvents
    <3>1. Len(s) # MaxEvents
      BY <1>8, <2>1
    <3>2. Len(t) = Len(s) + 1 /\ \A j \in 1..Len(s) : t[j] = s[j]
      BY <1>3, <3>1
    <3>3. ASSUME NEW i \in old PROVE i \in Hits(s, kind)
      <4>1. i \in 1..Len(t) /\ i < Len(t) /\ t[i] \in kind
        BY <1>6
      <4>2. i \in 1..Len(s)
        BY <1>5, <3>2, <4>1
      <4> QED
        BY <1>5, <3>2, <4>1, <4>2 DEF Hits
    <3> HIDE DEF old
    <3> QED
      BY <1>4, <3>3, FS_Subset
  <2>2. CASE Len(s) = MaxEvents
    <3> DEFINE f == [i \in old |-> i + 1]
    <3>1. \A i \in old : i + 1 \in Hits(s, kind) /\ i \in Int
      BY <1>3, <1>5, <2>2 DEF Hits
    <3>2. f \in Injection(old, Hits(s, kind))
      BY <3>1 DEF Injection, IsInjective
    <3> HIDE DEF f, old
    <3>3. IsFiniteSet(old) /\ Cardinality(old) <= Cardinality(Hits(s, kind))
      BY <1>4, <3>2, FS_Injection
    <3> QED
      BY <3>1, <3>3
  <2>3. Len(s) < MaxEvents \/ Len(s) = MaxEvents
    BY <1>3
  <2> HIDE DEF old
  <2> QED
    BY <2>1, <2>2, <2>3
<1>10. Hits(t, kind) = IF e \in kind THEN old \cup {Len(t)} ELSE old
  <2>1. \A i \in Hits(t, kind) : i < Len(t) \/ i = Len(t)
    BY <1>3, <1>6
  <2>2. Len(t) \in Hits(t, kind) <=> e \in kind
    BY <1>3, <1>6
  <2> QED
    BY <2>1, <2>2
<1>11. Len(t) \notin old
  BY <1>3
<1> HIDE DEF old
<1>12. /\ IsFiniteSet(old) /\ Cardinality(old) \in Nat
      /\ Cardinality(old \cup {Len(t)}) = Cardinality(old) + 1
  BY <1>9, <1>11, FS_AddElement, FS_CardinalityType
<1>13. Cardinality(Hits(t, kind)) <= Cardinality(Hits(s, kind)) + (IF e \in kind THEN 1 ELSE 0)
  BY <1>4, <1>9, <1>10, <1>12
<1>14. Hits(t, kind) # {} => Hits(s, kind) # {} \/ e \in kind
  BY <1>9, <1>10
<1> QED
  BY <1>1, <1>13, <1>14

-----------------------------------------------------------------------------
\* A call adds one to the sum, whether it is the first of its player or not.
LEMMA SumOneMoreCall ==
  ASSUME NEW f, NEW g, NEW p, IsFiniteSet(DOMAIN f), \A x \in DOMAIN f : f[x] \in Nat,
         DOMAIN g = DOMAIN f \cup {p}, \A x \in DOMAIN f \ {p} : g[x] = f[x],
         g[p] = IF p \in DOMAIN f THEN f[p] + 1 ELSE 1
  PROVE  SumFunction(f) \in Int /\ SumFunction(g) = SumFunction(f) + 1
<1> DEFINE S == DOMAIN f
<1>1. SumFunction(f) \in Int
  BY SumType DEF SumFunction
<1>2. CASE p \in S
  <2>1. DOMAIN g = DOMAIN f /\ p \in DOMAIN f /\ g[p] = f[p] + 1
    BY <1>2
  <2>2. ASSUME NEW x \in DOMAIN f PROVE f[x] \in Int /\ g[x] \in Int
    BY <2>1
  <2>3. SumFunction(g) = SumFunction(f) + g[p] - f[p]
    BY <2>1, <2>2, SumChange
  <2> QED
    BY <1>1, <2>1, <2>3
<1>3. CASE p \notin S
  <2>1. SumFunctionOnSet(g, S) = SumFunctionOnSet(f, S)
    BY <1>3, SumSame
  <2>2. SumFunctionOnSet(g, S \cup {p}) = g[p] + SumFunctionOnSet(g, S)
    <3>1. \A x \in S \cup {p} : g[x] \in Int
      BY <1>3
    <3> HIDE DEF S
    <3> QED
      BY <1>3, <3>1, SumOneMore DEF S
  <2> QED
    BY <1>1, <1>3, <2>1, <2>2 DEF SumFunction
<1> QED
  BY <1>2, <1>3, <1>1

\* An element of a sequence
LEMMA SeqElement == ASSUME NEW S, NEW s \in Seq(S), NEW i \in DOMAIN s PROVE s[i] \in S
OBVIOUS

\* The events of a method and of a player are of a kind.
LEMMA EventKinds ==
  ASSUME NEW s \in Seq([pid : Pids, method : Methods])
  PROVE  /\ \A m : {i \in DOMAIN s : s[i].method = m} = Hits(s, [pid : Pids, method : {m}])
         /\ \A p : {i \in DOMAIN s : s[i].pid = p} = Hits(s, [pid : {p}, method : Methods])
         /\ \A kind : Cardinality(Hits(s, kind)) \in Nat
<1>1. \A i \in DOMAIN s : s[i] \in [pid : Pids, method : Methods]
  BY SeqElement
<1>2. \A m : {i \in DOMAIN s : s[i].method = m} = Hits(s, [pid : Pids, method : {m}])
  BY <1>1 DEF Hits
<1>3. \A p : {i \in DOMAIN s : s[i].pid = p} = Hits(s, [pid : {p}, method : Methods])
  BY <1>1 DEF Hits
<1> QED
  BY <1>2, <1>3, HitsFinite

\* They can be counted.
LEMMA EventsFinite ==
  ASSUME DashboardTyped
  PROVE  /\ \A m : Cardinality(EventsOfMethod(m)) \in Nat
         /\ \A p : Cardinality(EventsOfPlayer(p)) \in Nat
<1>1. events \in Seq([pid : Pids, method : Methods])
  BY DEF DashboardTyped, DashboardTypeOK
<1>2. \A m : EventsOfMethod(m) = Hits(events, [pid : Pids, method : {m}])
  BY <1>1, EventKinds DEF EventsOfMethod
<1>3. \A p : EventsOfPlayer(p) = Hits(events, [pid : {p}, method : Methods])
  BY <1>1, EventKinds DEF EventsOfPlayer
<1>4. \A kind : Cardinality(Hits(events, kind)) \in Nat
  BY <1>1, EventKinds
<1> QED
  BY <1>2, <1>3, <1>4

\* Of a function to the natural numbers
LEMMA SumIsNat ==
  ASSUME NEW f, IsFiniteSet(DOMAIN f), \A x \in DOMAIN f : f[x] \in Nat
  PROVE  SumFunction(f) \in Nat
BY SumNat DEF SumFunction

-----------------------------------------------------------------------------
\* What the invariant says of the types, for the steps below
LEMMA DashboardFacts ==
  ASSUME DInv
  PROVE  /\ IsFiniteSet(DOMAIN calls) /\ IsFiniteSet(DOMAIN methodCount)
         /\ SumFunction(calls) \in Nat /\ SumFunction(methodCount) \in Nat
         /\ \A pc : IsFiniteSet(At(pc)) /\ Cardinality(At(pc)) \in Nat
         /\ \A p : IsFiniteSet(NotedFor(p)) /\ Cardinality(NotedFor(p)) \in Nat
         /\ rmcTotal \in Nat
<1>1. IsFiniteSet(DOMAIN calls) /\ IsFiniteSet(DOMAIN methodCount)
  BY DashboardAssumption DEF DInv, SessionsInv, DashboardTyped, DashboardTypeOK
<1>2. /\ \A x \in DOMAIN calls : calls[x] \in Nat
      /\ \A x \in DOMAIN methodCount : methodCount[x] \in Nat
  BY DEF DInv, DashboardTyped, DashboardTypeOK
<1>3. SumFunction(calls) \in Nat /\ SumFunction(methodCount) \in Nat
  BY <1>1, <1>2, SumIsNat
<1>4. ASSUME NEW S \in SUBSET Conns PROVE IsFiniteSet(S) /\ Cardinality(S) \in Nat
  BY DashboardAssumption, FS_Subset, FS_CardinalityType
<1>5. \A pc : IsFiniteSet(At(pc)) /\ Cardinality(At(pc)) \in Nat
  BY <1>4 DEF At
<1>6. \A p : IsFiniteSet(NotedFor(p)) /\ Cardinality(NotedFor(p)) \in Nat
  BY <1>4 DEF NotedFor
<1>7. rmcTotal \in Nat
  BY DashboardAssumption DEF DInv, DashboardTyped, DashboardTypeOK
<1> QED
  BY <1>1, <1>3, <1>5, <1>6, <1>7

\* The program starts with no connection and no call.
LEMMA DInvInit == DashboardInit => DInv
<1> SUFFICES ASSUME DashboardInit PROVE DInv
  OBVIOUS
<1>1. DOMAIN calls = {} /\ events = <<>> /\ Len(events) = 0
  BY DEF DashboardInit
<1>2. At("meta") = {} /\ At("event") = {}
  BY DEF DashboardInit, At, NoHook
<1>3. Cardinality({}) = 0 /\ IsFiniteSet({})
  BY FS_EmptySet
<1>4. SumFunction(calls) = 0
  BY <1>1, SumEmpty DEF SumFunction
<1>5. SumFunction(methodCount) = 0
  BY SumZero, DashboardAssumption DEF SumFunction, DashboardInit
<1>6. DashboardTyped
  BY <1>1, DashboardAssumption
     DEF DashboardInit, DashboardTyped, DashboardTypeOK, HookInv, NoHook, NoStats, Steps
<1>7. SessionsInv /\ TotalsInv /\ LengthInv
  <2>1. /\ Cardinality(At("meta")) = 0 /\ Cardinality(At("event")) = 0
        /\ Cardinality(DOMAIN calls) = 0 /\ IsFiniteSet(DOMAIN calls)
    BY <1>1, <1>2, <1>3
  <2>2. rmcTotal = 0 /\ sessionsSeen = 0
    BY DEF DashboardInit
  <2> QED
    BY <1>1, <1>4, <1>5, <2>1, <2>2, DashboardAssumption
       DEF SessionsInv, TotalsInv, LengthInv
<1>8. MethodInv
  <2>1. \A m : EventsOfMethod(m) = {}
    BY <1>1 DEF EventsOfMethod
  <2>2. \A m \in Methods : Cardinality(EventsOfMethod(m)) = 0 /\ methodCount[m] = 0
    BY <1>3, <2>1 DEF DashboardInit
  <2> QED
    BY <2>2 DEF MethodInv
<1>9. PlayerInv
  <2>1. \A p : EventsOfPlayer(p) = {} /\ NotedFor(p) = {}
    BY <1>1 DEF EventsOfPlayer, NotedFor, DashboardInit, NoHook
  <2> QED
    BY <1>1, <2>1 DEF PlayerInv
<1>10. AnswerInv
  BY <1>3 DEF AnswerInv, DashboardInit, NoStats
<1> QED
  BY <1>6, <1>7, <1>8, <1>9, <1>10 DEF DInv

-----------------------------------------------------------------------------
\* Connections come and go without a call being counted.
LEMMA ConnectionStep ==
  ASSUME DInv, NEW c \in Conns, Connect(c) \/ Disconnect(c)
  PROVE  DInv'
<1>1. UNCHANGED <<hook, rmcTotal, calls, sessionsSeen, peakConnected, events, methodCount,
                  stats>>
  BY DEF Connect, Disconnect
<1>2. DOMAIN connected' \subseteq Conns /\ connected' \in [DOMAIN connected' -> Pids]
  <2>1. CASE Connect(c)
    BY <2>1 DEF Connect, DInv, DashboardTyped, DashboardTypeOK
  <2>2. CASE Disconnect(c)
    BY <2>2 DEF Disconnect, Restrict, DInv, DashboardTyped, DashboardTypeOK
  <2> QED
    BY <2>1, <2>2
<1>3. DashboardTyped'
  BY <1>1, <1>2 DEF DInv, DashboardTyped, DashboardTypeOK, HookInv
<1>4. SessionsInv' /\ TotalsInv' /\ LengthInv' /\ AnswerInv'
  BY <1>1 DEF DInv, SessionsInv, TotalsInv, LengthInv, AnswerInv, At
<1>5. MethodInv' /\ PlayerInv'
  BY <1>1 DEF DInv, MethodInv, PlayerInv, EventsOfMethod, EventsOfPlayer, NotedFor
<1> QED
  BY <1>3, <1>4, <1>5 DEF DInv

\* A step of buildStats reads, and raises the peak.
LEMMA StatsStep ==
  ASSUME DInv, StatsConns \/ StatsMeta \/ StatsEvents \/ StatsTotal
  PROVE  DInv'
<1>1. UNCHANGED <<connected, hook, rmcTotal, calls, sessionsSeen, events, methodCount>>
  BY DEF StatsConns, StatsMeta, StatsEvents, StatsTotal
<1>2. SessionsInv' /\ TotalsInv' /\ LengthInv' /\ MethodInv' /\ PlayerInv' /\ HookInv'
  BY <1>1 DEF DInv, DashboardTyped, SessionsInv, TotalsInv, LengthInv, MethodInv, PlayerInv,
              HookInv, At, EventsOfMethod, EventsOfPlayer, NotedFor
<1> DEFINE Stats == [pc : {"idle", "meta", "events", "total"}, players : SUBSET Pids,
                     conns : Nat, known : Nat, calls : Nat, sessions : Nat, peak : Nat,
                     methods : Nat]
<1>3. stats \in Stats /\ peakConnected \in Nat /\ sessionsSeen \in Nat
  BY DEF DInv, DashboardTyped, DashboardTypeOK
<1>4. /\ SumFunction(calls) \in Nat /\ SumFunction(methodCount) \in Nat
      /\ \A pc : Cardinality(At(pc)) \in Nat
  BY DashboardFacts
<1>6. stats' \in Stats /\ peakConnected' \in Nat /\ AnswerInv'
  <2>1. CASE StatsConns
    <3>1. IsFiniteSet(DOMAIN connected) /\ Range(connected) \subseteq Pids
      BY DashboardAssumption, FS_Subset DEF DInv, DashboardTyped, DashboardTypeOK, Range
    <3>2. Cardinality(DOMAIN connected) \in Nat
      BY <3>1, FS_CardinalityType
    <3>3. /\ IsFiniteSet(Range(connected))
          /\ Cardinality(Range(connected)) <= Cardinality(DOMAIN connected)
      <4>1. connected \in Surjection(DOMAIN connected, Range(connected))
        BY DEF DInv, DashboardTyped, DashboardTypeOK, Surjection, Range
      <4> QED
        BY <3>1, <4>1, FS_Surjection
    <3>4. /\ stats'.pc = "meta" /\ stats'.players = Range(connected)
          /\ stats'.conns = Cardinality(DOMAIN connected)
          /\ stats' \in Stats /\ peakConnected' = peakConnected
      BY <2>1, <3>1, <3>2 DEF StatsConns, NoStats
    <3> QED
      BY <1>3, <3>3, <3>4 DEF AnswerInv
  <2>2. CASE StatsMeta
    <3>1. /\ Cardinality(stats.players) <= stats.conns
          /\ Cardinality(DOMAIN calls) = sessionsSeen
      BY <2>2 DEF StatsMeta, DInv, AnswerInv, SessionsInv
    <3>2. peakConnected' \in Nat /\ stats.conns <= peakConnected' /\ stats.conns \in Nat
      BY <1>3, <2>2 DEF StatsMeta
    <3>3. /\ stats'.pc = "events" /\ stats'.players = stats.players
          /\ stats'.calls = SumFunction(calls) /\ stats'.known = Cardinality(DOMAIN calls)
          /\ stats'.sessions = sessionsSeen /\ stats'.peak = peakConnected'
          /\ stats' \in Stats
      BY <1>3, <1>4, <2>2, <3>1, <3>2 DEF StatsMeta
    <3>4. IsFiniteSet(stats.players) /\ Cardinality(stats.players) \in Nat
      BY FS_CardinalityType DEF DInv, AnswerInv
    <3>5. Cardinality(stats.players) <= peakConnected'
      BY <3>1, <3>2, <3>4
    <3> QED
      BY <1>1, <1>3, <1>4, <3>1, <3>3, <3>4, <3>5 DEF AnswerInv
  <2>3. CASE StatsEvents
    <3>1. stats' = [stats EXCEPT !.pc = "total", !.methods = SumFunction(methodCount)]
      BY <2>3 DEF StatsEvents
    <3>2. /\ stats.pc = "events" /\ peakConnected' = peakConnected
      BY <2>3 DEF StatsEvents
    <3>3. /\ stats'.pc = "total" /\ stats'.methods = SumFunction(methodCount)
          /\ stats'.calls = stats.calls /\ stats'.players = stats.players
          /\ stats'.known = stats.known /\ stats'.sessions = stats.sessions
          /\ stats'.peak = stats.peak /\ stats' \in Stats
      BY <1>3, <1>4, <3>1
    <3> QED
      BY <1>1, <1>3, <1>4, <3>2, <3>3 DEF DInv, AnswerInv
  <2>4. CASE StatsTotal
    <3>1. stats' = NoStats /\ peakConnected' = peakConnected
      BY <2>4 DEF StatsTotal
    <3> QED
      BY <1>3, <3>1, FS_EmptySet DEF NoStats, AnswerInv
  <2> QED
    BY <2>1, <2>2, <2>3, <2>4
<1>7. DashboardTyped'
  BY <1>1, <1>2, <1>6 DEF DInv, DashboardTyped, DashboardTypeOK
<1> QED
  BY <1>2, <1>6, <1>7 DEF DInv

\* rmcTotal counts a call, and the call is being noted.
LEMMA NoteTotalStep ==
  ASSUME DInv, NEW c \in Conns, NoteTotal(c)
  PROVE  DInv'
<1>1. PICK m \in Methods :
        /\ c \in DOMAIN connected /\ hook[c].pc = "idle" /\ rmcTotal < MaxCalls
        /\ hook' = [hook EXCEPT ![c] = [pc |-> "meta", pid |-> connected[c], method |-> m]]
  BY DEF NoteTotal
<1>2. /\ rmcTotal' = rmcTotal + 1
      /\ UNCHANGED <<connected, calls, sessionsSeen, peakConnected, events, methodCount, stats>>
  BY DEF NoteTotal
<1>3. /\ hook \in [Conns -> [pc : Steps, pid : Pids \cup {0}, method : Methods \cup {0}]]
      /\ connected[c] \in Pids /\ rmcTotal \in Nat /\ MaxCalls \in Nat
  BY <1>1, DashboardAssumption, DashboardFacts DEF DInv, DashboardTyped, DashboardTypeOK
<1>4. /\ hook'[c].pc = "meta" /\ hook'[c].pid \in Pids /\ hook'[c].method \in Methods
      /\ \A d \in Conns \ {c} : hook'[d] = hook[d]
      /\ hook' \in [Conns -> [pc : Steps, pid : Pids \cup {0}, method : Methods \cup {0}]]
  BY <1>1, <1>3 DEF Steps
<1>5. DashboardTyped'
  <2>1. HookInv'
    BY <1>4 DEF DInv, DashboardTyped, HookInv
  <2>2. rmcTotal' \in 0..MaxCalls
    BY <1>1, <1>2, <1>3
  <2> QED
    BY <1>2, <1>4, <2>1, <2>2 DEF DInv, DashboardTyped, DashboardTypeOK
<1>6. /\ Cardinality(At("meta")') = Cardinality(At("meta")) + 1
      /\ At("event")' = At("event")
      /\ Cardinality(At("meta")) \in Nat
  <2>1. /\ c \notin At("meta") /\ At("meta")' = At("meta") \cup {c}
        /\ At("event")' = At("event")
    BY <1>1, <1>4 DEF At
  <2>2. IsFiniteSet(At("meta")) /\ Cardinality(At("meta")) \in Nat
    BY DashboardFacts
  <2> QED
    BY <2>1, <2>2, FS_AddElement
<1>7. TotalsInv'
  <2>1. /\ rmcTotal = SumFunction(calls) + Cardinality(At("meta"))
        /\ rmcTotal = SumFunction(methodCount) + Cardinality(At("meta")) + Cardinality(At("event"))
        /\ SumFunction(calls) \in Nat /\ SumFunction(methodCount) \in Nat
        /\ Cardinality(At("event")) \in Nat
    BY DashboardFacts DEF DInv, TotalsInv
  <2> QED
    BY <1>2, <1>6, <2>1 DEF TotalsInv
<1>8. SessionsInv' /\ LengthInv' /\ AnswerInv' /\ MethodInv'
  BY <1>2 DEF DInv, SessionsInv, LengthInv, AnswerInv, MethodInv, EventsOfMethod
<1>9. PlayerInv'
  <2>1. \A p : NotedFor(p)' = NotedFor(p)
    BY <1>1, <1>4 DEF NotedFor
  <2> QED
    BY <1>2, <2>1 DEF DInv, PlayerInv, EventsOfPlayer
<1> QED
  BY <1>5, <1>7, <1>8, <1>9 DEF DInv

\* The entry of the player counts the call.
LEMMA NoteMetaStep ==
  ASSUME DInv, NEW c \in Conns, NoteMeta(c)
  PROVE  DInv'
<1>1. PICK p : p = hook[c].pid
  OBVIOUS
<1>2. /\ hook[c].pc = "meta" /\ hook' = [hook EXCEPT ![c].pc = "event"]
      /\ sessionsSeen' = IF p \notin DOMAIN calls THEN sessionsSeen + 1 ELSE sessionsSeen
      /\ UNCHANGED <<connected, rmcTotal, peakConnected, events, methodCount, stats>>
  BY <1>1 DEF NoteMeta
<1>3. /\ hook \in [Conns -> [pc : Steps, pid : Pids \cup {0}, method : Methods \cup {0}]]
      /\ p \in Pids /\ calls \in [DOMAIN calls -> Nat] /\ DOMAIN calls \subseteq Pids
  BY <1>1, <1>2 DEF DInv, DashboardTyped, DashboardTypeOK, HookInv
<1>4. /\ DOMAIN calls' = DOMAIN calls \cup {p}
      /\ \A q \in DOMAIN calls \ {p} : calls'[q] = calls[q]
      /\ calls'[p] = IF p \in DOMAIN calls THEN calls[p] + 1 ELSE 1
      /\ calls' \in [DOMAIN calls' -> Nat]
  <2>1. calls' = [q \in DOMAIN calls \cup {p} |->
                    IF q = p THEN (IF p \notin DOMAIN calls THEN 1 ELSE calls[q] + 1) ELSE calls[q]]
    BY <1>1 DEF NoteMeta
  <2> QED
    BY <1>3, <2>1
<1>5. /\ hook'[c].pc = "event" /\ hook'[c].pid = p /\ hook'[c].method = hook[c].method
      /\ \A d \in Conns \ {c} : hook'[d] = hook[d]
      /\ hook' \in [Conns -> [pc : Steps, pid : Pids \cup {0}, method : Methods \cup {0}]]
  BY <1>1, <1>2, <1>3 DEF Steps
<1>6. IsFiniteSet(DOMAIN calls) /\ \A q \in DOMAIN calls : calls[q] \in Nat
  BY <1>3, DashboardFacts
<1>7. SumFunction(calls) \in Nat /\ SumFunction(calls') = SumFunction(calls) + 1
  BY <1>4, <1>6, SumOneMoreCall, DashboardFacts
<1>8. /\ IsFiniteSet(DOMAIN calls')
      /\ Cardinality(DOMAIN calls) \in Nat
      /\ Cardinality(DOMAIN calls') = IF p \in DOMAIN calls THEN Cardinality(DOMAIN calls)
                                      ELSE Cardinality(DOMAIN calls) + 1
  BY <1>4, <1>6, FS_AddElement, FS_CardinalityType
<1>9. SessionsInv'
  BY <1>2, <1>8 DEF DInv, SessionsInv
<1>10. DashboardTyped'
  <2>1. HookInv'
    BY <1>2, <1>3, <1>5 DEF DInv, DashboardTyped, HookInv
  <2>2. sessionsSeen' \in Nat
    BY <1>2 DEF DInv, DashboardTyped, DashboardTypeOK
  <2> QED
    BY <1>2, <1>3, <1>4, <1>5, <2>1, <2>2 DEF DInv, DashboardTyped, DashboardTypeOK
<1>11. /\ Cardinality(At("meta")') = Cardinality(At("meta")) - 1
       /\ Cardinality(At("event")') = Cardinality(At("event")) + 1
       /\ Cardinality(At("meta")) \in Nat /\ Cardinality(At("event")) \in Nat
  <2>1. /\ c \in At("meta") /\ At("meta")' = At("meta") \ {c}
        /\ c \notin At("event") /\ At("event")' = At("event") \cup {c}
    BY <1>2, <1>5 DEF At
  <2>2. /\ IsFiniteSet(At("meta")) /\ IsFiniteSet(At("event"))
        /\ Cardinality(At("meta")) \in Nat /\ Cardinality(At("event")) \in Nat
    BY DashboardFacts
  <2>3. Cardinality(At("meta")') = Cardinality(At("meta")) - 1
    BY <2>1, <2>2, FS_RemoveElement
  <2>4. Cardinality(At("event")') = Cardinality(At("event")) + 1
    BY <2>1, <2>2, FS_AddElement
  <2> QED
    BY <2>2, <2>3, <2>4
<1>12. TotalsInv'
  <2>1. /\ rmcTotal = SumFunction(calls) + Cardinality(At("meta"))
        /\ rmcTotal = SumFunction(methodCount) + Cardinality(At("meta")) + Cardinality(At("event"))
        /\ SumFunction(methodCount) \in Nat
    BY DashboardFacts DEF DInv, TotalsInv
  <2> QED
    BY <1>2, <1>7, <1>11, <2>1 DEF TotalsInv
<1>13. LengthInv' /\ MethodInv'
  BY <1>2 DEF DInv, LengthInv, MethodInv, EventsOfMethod
<1>14. AnswerInv'
  <2>1. stats.calls \in Nat
    BY DEF DInv, DashboardTyped, DashboardTypeOK
  <2> QED
    BY <1>2, <1>7, <2>1 DEF DInv, AnswerInv
<1>15. PlayerInv'
  <2> SUFFICES ASSUME NEW q \in Pids
               PROVE  /\ EventsOfPlayer(q) # {} => q \in DOMAIN calls'
                      /\ NotedFor(q)' # {} => q \in DOMAIN calls'
                      /\ q \in DOMAIN calls' =>
                           Cardinality(EventsOfPlayer(q)) + Cardinality(NotedFor(q)') <= calls'[q]
    BY <1>2 DEF PlayerInv, EventsOfPlayer
  <2>1. /\ EventsOfPlayer(q) # {} => q \in DOMAIN calls
        /\ NotedFor(q) # {} => q \in DOMAIN calls
        /\ q \in DOMAIN calls =>
             Cardinality(EventsOfPlayer(q)) + Cardinality(NotedFor(q)) <= calls[q]
    BY DEF DInv, PlayerInv
  <2>2. /\ IsFiniteSet(NotedFor(q)) /\ Cardinality(NotedFor(q)) \in Nat /\ c \notin NotedFor(q)
        /\ NotedFor(q)' = IF q = p THEN NotedFor(q) \cup {c} ELSE NotedFor(q)
    <3>1. IsFiniteSet(NotedFor(q)) /\ Cardinality(NotedFor(q)) \in Nat
      BY DashboardFacts
    <3>2. /\ c \notin NotedFor(q)
          /\ NotedFor(q)' = IF q = p THEN NotedFor(q) \cup {c} ELSE NotedFor(q)
      BY <1>2, <1>5 DEF NotedFor
    <3> QED
      BY <3>1, <3>2
  <2>3. Cardinality(NotedFor(q)') = Cardinality(NotedFor(q)) + (IF q = p THEN 1 ELSE 0)
    BY <2>2, FS_AddElement
  <2>4. Cardinality(EventsOfPlayer(q)) \in Nat
    BY EventsFinite DEF DInv
  <2>5. CASE q = p
    <3>1. q \in DOMAIN calls'
      BY <1>4, <2>5
    <3>2. CASE q \in DOMAIN calls
      BY <1>3, <1>4, <2>1, <2>2, <2>3, <2>4, <2>5, <3>1, <3>2
    <3>3. CASE q \notin DOMAIN calls
      <4>1. EventsOfPlayer(q) = {} /\ NotedFor(q) = {} /\ Cardinality({}) = 0
        BY <2>1, <3>3, FS_EmptySet
      <4> QED
        BY <1>4, <2>3, <2>5, <3>1, <3>3, <4>1
    <3> QED
      BY <3>2, <3>3
  <2>6. CASE q # p
    BY <1>4, <2>1, <2>2, <2>6
  <2> QED
    BY <2>5, <2>6
<1> QED
  BY <1>9, <1>10, <1>12, <1>13, <1>14, <1>15 DEF DInv

\* The call becomes the latest event and is one of its method.
LEMMA NoteEventStep ==
  ASSUME DInv, NEW c \in Conns, NoteEvent(c)
  PROVE  DInv'
<1>1. PICK p, m : p = hook[c].pid /\ m = hook[c].method
  OBVIOUS
<1>2. /\ hook[c].pc = "event" /\ hook' = [hook EXCEPT ![c] = NoHook]
      /\ events' = Trim(Append(events, [pid |-> p, method |-> m]))
      /\ methodCount' = [methodCount EXCEPT ![m] = @ + 1]
      /\ UNCHANGED <<connected, rmcTotal, calls, sessionsSeen, peakConnected, stats>>
  BY <1>1 DEF NoteEvent
<1>3. /\ hook \in [Conns -> [pc : Steps, pid : Pids \cup {0}, method : Methods \cup {0}]]
      /\ p \in Pids /\ m \in Methods /\ methodCount \in [Methods -> Nat]
      /\ events \in Seq([pid : Pids, method : Methods]) /\ Len(events) <= MaxEvents
  BY <1>1, <1>2 DEF DInv, DashboardTyped, DashboardTypeOK, HookInv
<1>4. /\ hook'[c].pc = "idle" /\ \A d \in Conns \ {c} : hook'[d] = hook[d]
      /\ hook' \in [Conns -> [pc : Steps, pid : Pids \cup {0}, method : Methods \cup {0}]]
  BY <1>2, <1>3 DEF NoHook, Steps
<1> DEFINE Event == [pid : Pids, method : Methods]
<1>5. PICK e : e = [pid |-> p, method |-> m]
  OBVIOUS
<1>6. /\ e \in Event
      /\ \A n : e \in [pid : Pids, method : {n}] <=> n = m
      /\ \A q : e \in [pid : {q}, method : Methods] <=> q = p
  BY <1>3, <1>5
<1>7. events' = Trim(Append(events, e))
  BY <1>2, <1>5
<1> HIDE DEF Event
<1>8. events' \in Seq(Event) /\ Takes(events, e, events')
  BY <1>3, <1>6, <1>7, TrimStep DEF Event
<1>9. /\ methodCount' \in [Methods -> Nat] /\ methodCount'[m] = methodCount[m] + 1
      /\ \A n \in Methods \ {m} : methodCount'[n] = methodCount[n]
  BY <1>2, <1>3
<1>10. SumFunction(methodCount') = SumFunction(methodCount) + 1
  <2>1. SumFunction(methodCount') = SumFunction(methodCount) + methodCount'[m] - methodCount[m]
    <3>1. /\ DOMAIN methodCount = Methods /\ DOMAIN methodCount' = Methods
          /\ IsFiniteSet(DOMAIN methodCount)
      BY <1>3, <1>9, DashboardFacts
    <3>2. \A n \in Methods : methodCount[n] \in Int /\ methodCount'[n] \in Int
      BY <1>3, <1>9
    <3> QED
      BY <1>3, <1>9, <3>1, <3>2, SumChange
  <2>2. SumFunction(methodCount) \in Nat
    BY DashboardFacts
  <2> QED
    BY <1>3, <1>9, <2>1, <2>2
<1>11. DashboardTyped'
  <2>1. HookInv'
    BY <1>4 DEF DInv, DashboardTyped, HookInv
  <2>2. Len(events') <= MaxEvents
    BY <1>3, <1>8, DashboardAssumption DEF Takes
  <2> QED
    BY <1>2, <1>4, <1>8, <1>9, <2>1, <2>2 DEF DInv, DashboardTyped, DashboardTypeOK, Event
<1>12. SessionsInv'
  BY <1>2 DEF DInv, SessionsInv
<1>13. /\ Cardinality(At("event")') = Cardinality(At("event")) - 1
       /\ At("meta")' = At("meta")
       /\ Cardinality(At("meta")) \in Nat /\ Cardinality(At("event")) \in Nat
  <2>1. /\ c \in At("event") /\ At("event")' = At("event") \ {c}
        /\ At("meta")' = At("meta")
    BY <1>2, <1>4 DEF At
  <2>2. /\ IsFiniteSet(At("event"))
        /\ Cardinality(At("meta")) \in Nat /\ Cardinality(At("event")) \in Nat
    BY DashboardFacts
  <2> QED
    BY <2>1, <2>2, FS_RemoveElement
<1>14. TotalsInv'
  <2>1. /\ rmcTotal = SumFunction(calls) + Cardinality(At("meta"))
        /\ rmcTotal = SumFunction(methodCount) + Cardinality(At("meta")) + Cardinality(At("event"))
        /\ SumFunction(methodCount) \in Nat
    BY DashboardFacts DEF DInv, TotalsInv
  <2> QED
    BY <1>2, <1>10, <1>13, <2>1 DEF TotalsInv
<1>15. LengthInv'
  <2>1. SumFunction(methodCount) \in Nat /\ MaxEvents \in Nat
    BY DashboardFacts, DashboardAssumption
  <2>2. Len(events) = IF SumFunction(methodCount) < MaxEvents
                      THEN SumFunction(methodCount) ELSE MaxEvents
    BY DEF DInv, LengthInv
  <2>3. \/ Len(events) < MaxEvents /\ Len(events') = Len(events) + 1
        \/ Len(events) = MaxEvents /\ Len(events') = MaxEvents
    BY <1>8 DEF Takes
  <2> QED
    BY <1>10, <2>1, <2>2, <2>3 DEF LengthInv
<1>16. MethodInv'
  <2> SUFFICES ASSUME NEW n \in Methods
               PROVE  Cardinality(EventsOfMethod(n)') <= methodCount'[n]
    BY DEF MethodInv
  <2>1. PICK kind : kind = [pid : Pids, method : {n}]
    OBVIOUS
  <2>2. EventsOfMethod(n) = Hits(events, kind) /\ EventsOfMethod(n)' = Hits(events', kind)
    BY <1>3, <1>8, <2>1, EventKinds DEF EventsOfMethod, Event
  <2>3. Cardinality(Hits(events, kind)) \in Nat /\ Cardinality(Hits(events', kind)) \in Nat
    BY <1>3, <1>8, EventKinds DEF Event
  <2>4. Cardinality(Hits(events', kind))
          <= Cardinality(Hits(events, kind)) + (IF e \in kind THEN 1 ELSE 0)
    <3>1. events \in Seq(Event)
      BY <1>3 DEF Event
    <3> QED
      BY <1>3, <1>6, <1>7, <3>1, HitsStep
  <2>5. Cardinality(EventsOfMethod(n)) <= methodCount[n] /\ (e \in kind <=> n = m)
    BY <1>6, <2>1 DEF DInv, MethodInv
  <2> QED
    BY <1>3, <1>9, <2>2, <2>3, <2>4, <2>5
<1>17. AnswerInv'
  <2>1. stats.methods \in Nat /\ SumFunction(methodCount) \in Nat
    BY DashboardFacts DEF DInv, DashboardTyped, DashboardTypeOK
  <2> QED
    BY <1>2, <1>10, <2>1 DEF DInv, AnswerInv
<1>18. PlayerInv'
  <2> SUFFICES ASSUME NEW q \in Pids
               PROVE  /\ EventsOfPlayer(q)' # {} => q \in DOMAIN calls
                      /\ NotedFor(q)' # {} => q \in DOMAIN calls
                      /\ q \in DOMAIN calls =>
                           Cardinality(EventsOfPlayer(q)') + Cardinality(NotedFor(q)') <= calls[q]
    BY <1>2 DEF PlayerInv
  <2>1. /\ EventsOfPlayer(q) # {} => q \in DOMAIN calls
        /\ NotedFor(q) # {} => q \in DOMAIN calls
        /\ q \in DOMAIN calls =>
             /\ Cardinality(EventsOfPlayer(q)) + Cardinality(NotedFor(q)) <= calls[q]
             /\ calls[q] \in Nat
    BY DEF DInv, PlayerInv, DashboardTyped, DashboardTypeOK
  <2>2. PICK kind : kind = [pid : {q}, method : Methods]
    OBVIOUS
  <2>3. EventsOfPlayer(q) = Hits(events, kind) /\ EventsOfPlayer(q)' = Hits(events', kind)
    BY <1>3, <1>8, <2>2, EventKinds DEF EventsOfPlayer, Event
  <2>4. Cardinality(Hits(events, kind)) \in Nat /\ Cardinality(Hits(events', kind)) \in Nat
    BY <1>3, <1>8, EventKinds DEF Event
  <2>5. /\ Cardinality(Hits(events', kind))
             <= Cardinality(Hits(events, kind)) + (IF e \in kind THEN 1 ELSE 0)
        /\ Hits(events', kind) # {} => Hits(events, kind) # {} \/ e \in kind
    <3>1. events \in Seq(Event)
      BY <1>3 DEF Event
    <3> QED
      BY <1>3, <1>6, <1>7, <3>1, HitsStep
  <2>6. e \in kind <=> q = p
    BY <1>6, <2>2
  <2>7. /\ IsFiniteSet(NotedFor(q)) /\ Cardinality(NotedFor(q)) \in Nat
        /\ NotedFor(q)' = IF q = p THEN NotedFor(q) \ {c} ELSE NotedFor(q)
        /\ q = p => c \in NotedFor(q)
    BY <1>1, <1>2, <1>4, DashboardFacts DEF NotedFor
  <2>8. q = p => Cardinality(NotedFor(q)') = Cardinality(NotedFor(q)) - 1
    <3>1. q = p => Cardinality(NotedFor(q) \ {c}) = Cardinality(NotedFor(q)) - 1
      BY <2>7, FS_RemoveElement
    <3> QED
      BY <2>7, <3>1
  <2>9. CASE q = p
    <3>1. q \in DOMAIN calls
      BY <2>1, <2>7, <2>9
    <3> QED
      BY <2>1, <2>3, <2>4, <2>5, <2>6, <2>7, <2>8, <2>9, <3>1
  <2>10. CASE q # p
    <3>1. NotedFor(q)' = NotedFor(q)
      BY <2>7, <2>10
    <3>2. /\ Cardinality(EventsOfPlayer(q)') <= Cardinality(EventsOfPlayer(q))
          /\ Cardinality(EventsOfPlayer(q)') \in Nat /\ Cardinality(EventsOfPlayer(q)) \in Nat
          /\ EventsOfPlayer(q)' # {} => EventsOfPlayer(q) # {}
      BY <2>3, <2>4, <2>5, <2>6, <2>10
    <3> QED
      BY <2>1, <2>7, <3>1, <3>2
  <2> QED
    BY <2>9, <2>10
<1> QED
  BY <1>11, <1>12, <1>14, <1>15, <1>16, <1>17, <1>18 DEF DInv

\* DInv is inductive.
LEMMA DInvStep == DInv /\ [DashboardNext]_dashboardVars => DInv'
<1> SUFFICES ASSUME DInv, [DashboardNext]_dashboardVars PROVE DInv'
  OBVIOUS
<1>1. ASSUME UNCHANGED dashboardVars PROVE DInv'
  BY <1>1 DEF dashboardVars, DInv, DashboardTyped, DashboardTypeOK, HookInv, SessionsInv,
              TotalsInv, LengthInv, MethodInv, PlayerInv, AnswerInv, At, NotedFor,
              EventsOfMethod, EventsOfPlayer
<1> QED
  BY <1>1, ConnectionStep, NoteTotalStep, NoteMetaStep, NoteEventStep, StatsStep
     DEF DashboardNext

\* The counters, the hooks and the answer in progress are those DashboardTypeOK allows;
\* no more than the latest MaxEvents calls are kept.
THEOREM DashboardTypes == DashboardSpec => []DashboardTypeOK
<1>1. DInv => DashboardTypeOK
  BY DEF DInv, DashboardTyped
<1> QED
  BY DInvInit, DInvStep, <1>1, PTL DEF DashboardSpec

\* The counts of calls that noteRMC keeps under three locks differ by the calls being
\* noted and by nothing else, for any number of players, connections and methods.
THEOREM CountsStayEqual == DashboardSpec => []CountsAgree
<1>1. DInv => CountsAgree
  <2> SUFFICES ASSUME DInv, NEW i \in DOMAIN events, NEW p, p = events[i].pid
               PROVE  p \in DOMAIN calls /\ Cardinality(EventsOfPlayer(p)) <= calls[p]
    BY DEF DInv, TotalsInv, LengthInv, MethodInv, CountsAgree
  <2>1. p \in Pids
    <3>1. events[i] \in [pid : Pids, method : Methods]
      BY SeqElement DEF DInv, DashboardTyped, DashboardTypeOK
    <3> QED
      BY <3>1
  <2>2. i \in EventsOfPlayer(p)
    BY DEF EventsOfPlayer
  <2>3. /\ p \in DOMAIN calls /\ calls[p] \in Nat
        /\ Cardinality(EventsOfPlayer(p)) + Cardinality(NotedFor(p)) <= calls[p]
    BY <2>1, <2>2 DEF DInv, PlayerInv, DashboardTyped, DashboardTypeOK
  <2>4. Cardinality(EventsOfPlayer(p)) \in Nat /\ Cardinality(NotedFor(p)) \in Nat
    BY EventsFinite, DashboardFacts DEF DInv
  <2> QED
    BY <2>3, <2>4
<1> QED
  BY DInvInit, DInvStep, <1>1, PTL DEF DashboardSpec

\* The answer of buildStats adds up, though calls go on between the locks it takes.
THEOREM AnswersAddUp == DashboardSpec => []StatsAddUp
<1>1. DInv => StatsAddUp
  <2> SUFFICES ASSUME DInv, stats.pc = "total"
               PROVE  /\ stats.calls <= rmcTotal /\ stats.methods <= rmcTotal
                      /\ Cardinality(stats.players) <= stats.peak
                      /\ stats.known <= stats.sessions
    BY DEF StatsAddUp
  <2>1. /\ stats.calls <= SumFunction(calls) /\ stats.methods <= SumFunction(methodCount)
        /\ Cardinality(stats.players) <= stats.peak /\ stats.known <= stats.sessions
        /\ stats.calls \in Nat /\ stats.methods \in Nat
    BY DEF DInv, AnswerInv, DashboardTyped, DashboardTypeOK
  <2>2. /\ rmcTotal = SumFunction(calls) + Cardinality(At("meta"))
        /\ rmcTotal = SumFunction(methodCount) + Cardinality(At("meta")) + Cardinality(At("event"))
    BY DEF DInv, TotalsInv
  <2>3. /\ SumFunction(calls) \in Nat /\ SumFunction(methodCount) \in Nat
        /\ Cardinality(At("meta")) \in Nat /\ Cardinality(At("event")) \in Nat
    BY DashboardFacts
  <2> QED
    BY <2>1, <2>2, <2>3
<1> QED
  BY DInvInit, DInvStep, <1>1, PTL DEF DashboardSpec

-----------------------------------------------------------------------------
(* The run that takes the parts in turn *)

\* A behaviour of MCFrontDoor is one of each part: the part that runs takes its steps
\* and the others stutter.
THEOREM PartsRun == FDSpec => LoginSpec /\ CacheSpec /\ PresenceSpec /\ DashboardSpec
<1>1. FDInit => LoginInit /\ CacheInit /\ PresenceInit /\ DashboardInit
  BY DEF FDInit
<1>2. [FDNext]_frontDoorVars => [LoginNext]_loginVars
  BY DEF FDNext, frontDoorVars
<1>3. [FDNext]_frontDoorVars => [CacheNext]_cacheVars
  BY DEF FDNext, frontDoorVars
<1>4. [FDNext]_frontDoorVars => [PresenceNext]_presenceVars
  BY DEF FDNext, frontDoorVars
<1>5. [FDNext]_frontDoorVars => [DashboardNext]_dashboardVars
  BY DEF FDNext, frontDoorVars
<1> QED
  BY <1>1, <1>2, <1>3, <1>4, <1>5, PTL
     DEF FDSpec, LoginSpec, CacheSpec, PresenceSpec, DashboardSpec

\* The types of all the parts, along the run
THEOREM FrontDoorTypes == FDSpec => []TypesOK
<1>1. LoginTypeOK /\ CacheTypeOK /\ PresenceTypeOK /\ DashboardTypeOK => TypesOK
  BY DEF TypesOK
<1> QED
  BY <1>1, PartsRun, LoginTypes, CacheTypes, PresenceTypes, DashboardTypes, PTL

\* What the run checks of the parts holds along it: who plays, who is reported, how
\* stale a name is, and that the counts of calls and the answers made of them agree.
THEOREM FrontDoorSafe ==
  FDSpec => [](/\ OnlyAccounts /\ KeptOnline /\ ReportsAreRecent
               /\ StatsAddUp /\ CountsAgree /\ BoundedStale)
BY PartsRun, AccountsOnly, KeepsOnline, NoOldReports, AnswersAddUp, CountsStayEqual,
   CacheIsRecent, PTL

=============================================================================
