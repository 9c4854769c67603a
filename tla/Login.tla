-------------------------------- MODULE Login --------------------------------
(***************************************************************************)
(* Who may log in (src/main.go, src/gates.go): resolveUser turns the user   *)
(* name of a LoginEx into the PID of an account, with the help of the       *)
(* account server for a real console (an NSA id, whose account is cached    *)
(* for good in nsaCache), and then asks it if that account may go online    *)
(* now.  Links and permissions change at the account server at any time,    *)
(* and any request to it may fail.                                         *)
(*                                                                         *)
(* An nx2 token is a value that either proves its PID or proves nothing:    *)
(* its signature and expiry are not modelled.                              *)
(***************************************************************************)
EXTENDS Integers

CONSTANTS
  Logins,              \* logins in progress at once
  Accounts,                \* accounts
  Nsas,                \* NSA ids of consoles
  Nobody,              \* no account
  Anonymous,           \* a PID of no account, as anonymousPID makes of a name
  RequireAccount,      \* NEXTENDO_REQUIRE_ACCOUNT
  RequireSignedToken   \* NEXTENDO_REQUIRE_SIGNED_TOKEN

ASSUME LoginAssumption ==
  /\ Nobody \notin Accounts \cup {Anonymous} /\ Anonymous \notin Accounts
  /\ RequireAccount \in BOOLEAN /\ RequireSignedToken \in BOOLEAN

VARIABLES
  linked,    \* the account server: NSA id -> its account, or Nobody
  mayPlay,   \* the account server: the accounts that may go online
  everLinked,\* observer: the pairs of NSA id and account linked so far
  nsaCache,  \* NSA id -> account, or Nobody if there is no entry
  login      \* per login: its step, who asks, and the account found

loginVars == <<linked, mayPlay, everLinked, nsaCache, login>>

-----------------------------------------------------------------------------
\* A user name is a token or a bare PID, with a token that proves it in the extra
\* data or without, the NSA id of a console, or anything else.
Users ==
  [kind : {"token"}, pid : Accounts] \cup
  [kind : {"pid"}, pid : Accounts, proven : {TRUE}] \cup
  [kind : {"pid"}, pid : Accounts \cup {Anonymous}, proven : {FALSE}] \cup
  [kind : {"nsa"}, nsa : Nsas] \cup
  {[kind |-> "name"]}

NoLogin == [pc |-> "idle", user |-> [kind |-> "name"], pid |-> Nobody]

LoginInit ==
  /\ linked \in [Nsas -> Accounts \cup {Nobody}]
  /\ mayPlay \in SUBSET Accounts
  /\ everLinked = {pair \in Nsas \X Accounts : linked[pair[1]] = pair[2]}
  /\ nsaCache = [n \in Nsas |-> Nobody]
  /\ login = [l \in Logins |-> NoLogin]

\* The next step of a login that has found an account, or none yet
Goto(l, pc, pid) == login' = [login EXCEPT ![l].pc = pc, ![l].pid = pid]

Refuse(l) == Goto(l, "refused", Nobody)

-----------------------------------------------------------------------------
(* The account server *)

\* A console is linked to another account, or to none.
Relink ==
  \E n \in Nsas, p \in Accounts \cup {Nobody} :
    /\ linked' = [linked EXCEPT ![n] = p]
    /\ everLinked' = everLinked \cup ({<<n, p>>} \cap (Nsas \X Accounts))
    /\ UNCHANGED <<mayPlay, nsaCache, login>>

\* An account is disabled or enabled, is verified, or is online elsewhere.
Permit ==
  \E p \in Accounts :
    /\ mayPlay' = IF p \in mayPlay THEN mayPlay \ {p} ELSE mayPlay \cup {p}
    /\ UNCHANGED <<linked, everLinked, nsaCache, login>>

-----------------------------------------------------------------------------
(* resolveUser *)

Begin(l) ==
  \E user \in Users :
    /\ login[l].pc \in {"idle", "in", "refused"}
    /\ login' = [login EXCEPT ![l] = [pc |-> "resolve", user |-> user, pid |-> Nobody]]
    /\ UNCHANGED <<linked, mayPlay, everLinked, nsaCache>>

ByToken(l) ==
  LET user == login[l].user
  IN  /\ login[l].pc = "resolve"
      /\ user.kind = "token"
      /\ Goto(l, "check", user.pid)
      /\ UNCHANGED <<linked, mayPlay, everLinked, nsaCache>>

ByPid(l) ==
  LET user == login[l].user
  IN  /\ login[l].pc = "resolve"
      /\ user.kind = "pid"
      /\ IF RequireSignedToken /\ ~ user.proven THEN Refuse(l)
         ELSE Goto(l, "check", user.pid)
      /\ UNCHANGED <<linked, mayPlay, everLinked, nsaCache>>

\* anonymousPID; the account server is not asked.
ByName(l) ==
  /\ login[l].pc = "resolve"
  /\ login[l].user.kind = "name"
  /\ IF RequireAccount THEN Refuse(l) ELSE Goto(l, "in", Anonymous)
  /\ UNCHANGED <<linked, mayPlay, everLinked, nsaCache>>

\* resolveNSAtoPID: the lookup in nsaCache, under its lock
ByNsa(l) ==
  LET user == login[l].user
  IN  /\ login[l].pc = "resolve"
      /\ user.kind = "nsa"
      /\ IF nsaCache[user.nsa] # Nobody THEN Goto(l, "check", nsaCache[user.nsa])
         ELSE Goto(l, "ask", Nobody)
      /\ UNCHANGED <<linked, mayPlay, everLinked, nsaCache>>

\* nsaUnknown: 404 if the console is linked to no account.
AskNsa(l) ==
  LET p == linked[login[l].user.nsa]
  IN  /\ login[l].pc = "ask"
      /\ IF p = Nobody THEN Refuse(l) ELSE Goto(l, "store", p)
      /\ UNCHANGED <<linked, mayPlay, everLinked, nsaCache>>

\* Mutant: a console that cannot be resolved is let on to the online check with
\* its own id, which no account has.
MutAskNsaFails(l) ==
  /\ login[l].pc \in {"ask", "store"}
  /\ Goto(l, "check", Nobody)
  /\ UNCHANGED <<linked, mayPlay, everLinked, nsaCache>>

\* nsaUnreachable: the request fails, or its answer is no account.
AskNsaFails(l) ==
  /\ login[l].pc \in {"ask", "store"}
  /\ Refuse(l)
  /\ UNCHANGED <<linked, mayPlay, everLinked, nsaCache>>

\* The answer arrives and is cached, under the lock.
StoreNsa(l) ==
  /\ login[l].pc = "store"
  /\ nsaCache' = [nsaCache EXCEPT ![login[l].user.nsa] = login[l].pid]
  /\ login' = [login EXCEPT ![l].pc = "check"]
  /\ UNCHANGED <<linked, mayPlay, everLinked>>

\* nextendoOnlineCheck
Check(l) ==
  /\ login[l].pc = "check"
  /\ IF login[l].pid \in mayPlay THEN Goto(l, "in", login[l].pid) ELSE Refuse(l)
  /\ UNCHANGED <<linked, mayPlay, everLinked, nsaCache>>

\* The online check fails open.
CheckFails(l) ==
  /\ login[l].pc = "check"
  /\ Goto(l, "in", login[l].pid)
  /\ UNCHANGED <<linked, mayPlay, everLinked, nsaCache>>

ResolveUser(l) ==
  \/ Begin(l) \/ ByToken(l) \/ ByPid(l) \/ ByName(l)
  \/ ByNsa(l) \/ AskNsa(l) \/ AskNsaFails(l) \/ StoreNsa(l)
  \/ Check(l) \/ CheckFails(l)

LoginNext == Relink \/ Permit \/ \E l \in Logins : ResolveUser(l)

LoginSpec == LoginInit /\ [][LoginNext]_loginVars

-----------------------------------------------------------------------------
(* Properties *)

LoginTypeOK ==
  /\ linked \in [Nsas -> Accounts \cup {Nobody}]
  /\ mayPlay \subseteq Accounts
  /\ everLinked \subseteq Nsas \X Accounts
  /\ nsaCache \in [Nsas -> Accounts \cup {Nobody}]
  /\ login \in [Logins -> [pc : {"idle", "resolve", "ask", "store", "check", "in", "refused"},
                           user : Users, pid : Accounts \cup {Nobody, Anonymous}]]

\* "Fail-closed on an unverifiable NSA identity" and fail-open on the online check
\* do not get in each other's way: a console plays only as an account it was
\* linked to at some time, whichever requests failed and whatever was cached
\* while links changed; and without an account nobody plays if an account and a
\* proof of it are required.
OnlyAccounts ==
  \A l \in Logins :
    login[l].pc = "in" =>
      /\ login[l].user.kind = "nsa" => <<login[l].user.nsa, login[l].pid>> \in everLinked
      /\ RequireAccount /\ RequireSignedToken => login[l].pid \in Accounts

=============================================================================
