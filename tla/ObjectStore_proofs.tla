-------------------------- MODULE ObjectStore_proofs --------------------------
(***************************************************************************)
(* Proofs about ObjectStore, for any number of players, connections and     *)
(* HTTP requests, careful clients or not: the types, and that nobody is     *)
(* credited with a balloon of their own.                                    *)
(*                                                                         *)
(* GetOwner compares the owner and GetMark credits the player later, when   *)
(* the record may be gone.  What carries over is that the id is settled: it *)
(* was handed out and stored, so that no other record will ever have it.    *)
(***************************************************************************)
EXTENDS ObjectStore, DataStore_proofs

\* An id that was handed out and is not about to be inserted
Settled(id) ==
  /\ id \in Ids /\ id < dsNextID
  /\ \A c \in Conns : Inserting(c) => call[c].id # id

Requesters == Pids \cup {Nobody}

OsTypeOK ==
  /\ tokens \subseteq Token
  /\ blob \in [Ids -> {"none", "whole", "cut"} \cup Requests]
  /\ http \in [Requests -> [pc : {"idle", "create", "copy", "open", "send", "owner", "mark"},
                            token : Token \cup {NoToken}]]
  /\ uploaded \subseteq Ids
  /\ found \in [Pids -> SUBSET Ids]

\* A token to download is for a player and a settled id.
ForDownload(token) == token.requester \in Pids /\ Settled(token.id)

\* The id is not, and will not be, an object of player p.
NotOf(id, p) == id \in DOMAIN dsRecords => dsRecords[id].owner # p

FindInv ==
  /\ \A token \in tokens : token.id \in Ids /\ (~ token.upload => ForDownload(token))
  /\ \A h \in Requests :
       /\ http[h].pc # "idle" => http[h].token \in Token
       /\ http[h].pc \in {"open", "send", "owner", "mark"} => ForDownload(http[h].token)
       /\ http[h].pc = "mark" => NotOf(http[h].token.id, http[h].token.requester)
  /\ \A p \in Pids : \A id \in found[p] : Settled(id) /\ NotOf(id, p)

\* A handler in progress is about an object.
NamedInv == \A c \in Conns : ~ Idle(c) => call[c].id \in Ids

OInv == IdInv /\ NamedInv /\ OsTypeOK /\ FindInv

-----------------------------------------------------------------------------
\* A settled id stays settled, and never becomes the id of another record.
LEMMA SettledStays ==
  ASSUME IdInv, [Next]_dsVars, NEW id \in Ids, Settled(id)
  PROVE  /\ Settled(id)'
         /\ id \in DOMAIN dsRecords' =>
              id \in DOMAIN dsRecords /\ dsRecords'[id].owner = dsRecords[id].owner
<1> DEFINE Same == id \in DOMAIN dsRecords' =>
                     id \in DOMAIN dsRecords /\ dsRecords'[id].owner = dsRecords[id].owner
<1>1. /\ TypeInv /\ TypeOK /\ dsNextID \in Int /\ id \in Int
      /\ call \in [Conns -> [pc : Pcs, op : Ops, id : Ids \cup {0},
                             dataType : DataTypes \cup {0}]]
  BY DEF IdInv, TypeInv, TypeOK, Ids
<1>2. id < dsNextID
  BY DEF Settled
<1>3. ASSUME dsNextID' = dsNextID,
             \A d \in Conns : Inserting(d)' => Inserting(d) /\ call'[d].id = call[d].id
      PROVE  Settled(id)'
  BY <1>2, <1>3 DEF Settled
<1>4. ASSUME NEW c \in Conns, NEW op \in {"prepare", "meta"}, NEW type \in DataTypes,
             Allocate(c, op, type)
      PROVE  Settled(id)' /\ Same
  <2>1. /\ dsRecords' = dsRecords /\ dsNextID' = dsNextID + 1
        /\ call'[c].id = dsNextID
        /\ \A d \in Conns \ {c} : call'[d] = call[d]
    BY <1>1, <1>4 DEF Allocate, Enter
  <2> QED
    BY <1>1, <1>2, <2>1 DEF Settled, Inserting
<1>5. ASSUME NEW c \in Conns, Insert(c)
      PROVE  Settled(id)' /\ Same
  <2>1. call[c].id # id
    BY <1>5 DEF Settled, Insert, Inserting
  <2>2. /\ DOMAIN dsRecords' = DOMAIN dsRecords \cup {call[c].id} /\ dsNextID' = dsNextID
        /\ \A i \in DOMAIN dsRecords \ {call[c].id} : dsRecords'[i] = dsRecords[i]
    BY <1>1, <1>5, InsertStep DEF Insert
  <2>3. \A d \in Conns : Inserting(d)' => Inserting(d) /\ call'[d].id = call[d].id
    BY <1>1, <1>5 DEF Insert, Goto, Inserting
  <2>4. Settled(id)'
    BY <1>3, <2>2, <2>3
  <2> QED
    BY <2>1, <2>2, <2>4
<1>6. ASSUME NEW c \in Conns, Mutates(c)
      PROVE  Settled(id)' /\ Same
  <2>1. Shrinks /\ dsNextID' = dsNextID
    BY <1>1, <1>6, MutatesStep
  <2>2. \A d \in Conns : Inserting(d)' => Inserting(d) /\ call'[d].id = call[d].id
    BY <1>1, <1>6, MutatesStep DEF Enter, Inserting
  <2> QED
    BY <1>3, <2>1, <2>2 DEF Shrinks
<1>7. ASSUME NEW c \in Conns, ReplaceOne(c)
      PROVE  Settled(id)' /\ Same
  <2>1. PICK old \in Previous(c) :
          /\ DOMAIN dsRecords' = DOMAIN dsRecords \ {old}
          /\ \A i \in DOMAIN dsRecords' : dsRecords'[i] = dsRecords[i]
          /\ dsNextID' = dsNextID
          /\ Enter(c, "mark", "delete", old, 0)
    BY <1>7, ReplaceOneStep
  <2>2. \A d \in Conns : Inserting(d)' => Inserting(d) /\ call'[d].id = call[d].id
    BY <1>1, <2>1 DEF Enter, Inserting
  <2> QED
    BY <1>3, <2>1, <2>2
<1>8. ASSUME NEW c \in Conns, MarkDirty(c)
      PROVE  Settled(id)' /\ Same
  <2>1. AfterMark[call[c].op] # "insert" \/ call[c].op = "update"
    BY <1>1, <1>8 DEF MarkDirty, TypeInv, CallsOK, CallOK, AfterMark
  <2>2. \A d \in Conns : Inserting(d)' => Inserting(d) /\ call'[d].id = call[d].id
    BY <1>1, <1>8, <2>1 DEF MarkDirty, Answer, Goto, IdleCall, Inserting
  <2> QED
    BY <1>3, <1>8, <2>2 DEF MarkDirty
<1>9. ASSUME NEW c \in Conns, ReplaceNone(c) \/ IssueToken(c) \/ Unlink(c)
      PROVE  Settled(id)' /\ Same
  <2>1. \A d \in Conns : Inserting(d)' => Inserting(d) /\ call'[d].id = call[d].id
    BY <1>1, <1>9 DEF ReplaceNone, IssueToken, Unlink, Answer, IdleCall, Inserting
  <2> QED
    BY <1>3, <1>9, <2>1 DEF ReplaceNone, IssueToken, Unlink
<1>10. ASSUME UNCHANGED dsVars
       PROVE  Settled(id)' /\ Same
  BY <1>10 DEF dsVars, Settled, Inserting
<1>11. Steps
  BY StepCases
<1> QED
  BY <1>4, <1>5, <1>6, <1>7, <1>8, <1>9, <1>10, <1>11 DEF Steps

\* An object that is in the table and not about to be inserted again is settled.
LEMMA TableIsSettled ==
  ASSUME IdInv, NEW id \in DOMAIN dsRecords
  PROVE  Settled(id)
BY DEF IdInv, FreshIds, RecordsBelow, Settled, TypeInv, TypeOK

\* Every handler keeps the id it began with, but for the balloon it replaces.
LEMMA NamedStays ==
  ASSUME IdInv, NamedInv, [Next]_dsVars
  PROVE  NamedInv'
<1>1. /\ TypeInv /\ TypeOK
      /\ call \in [Conns -> [pc : Pcs, op : Ops, id : Ids \cup {0},
                             dataType : DataTypes \cup {0}]]
  BY DEF IdInv, TypeInv, TypeOK
<1>2. ASSUME NEW c \in Conns, \A d \in Conns \ {c} : call'[d] = call[d],
             call'[c].pc # "idle" => call'[c].id \in Ids
      PROVE  NamedInv'
  BY <1>2 DEF NamedInv, Idle
<1>3. ASSUME NEW c \in Conns, NEW op \in {"prepare", "meta"}, NEW type \in DataTypes,
             Allocate(c, op, type)
      PROVE  NamedInv'
  <2>1. dsNextID \in Ids
    BY <1>1, <1>3, BoundAssumption DEF Allocate, TypeOK, Ids
  <2> QED
    BY <1>1, <1>2, <1>3, <2>1 DEF Allocate, Enter
<1>4. ASSUME NEW c \in Conns, Insert(c) PROVE NamedInv'
  BY <1>1, <1>2, <1>4 DEF Insert, Goto, NamedInv, Idle
<1>5. ASSUME NEW c \in Conns, Mutates(c) PROVE NamedInv'
  <2>1. PICK op \in {"update", "delete"}, id \in Ids : Enter(c, "mark", op, id, 0)
    BY <1>1, <1>5, MutatesStep
  <2> QED
    BY <1>1, <1>2, <2>1 DEF Enter
<1>6. ASSUME NEW c \in Conns, ReplaceOne(c) PROVE NamedInv'
  <2>1. PICK old \in Previous(c) : Enter(c, "mark", "delete", old, 0)
    BY <1>6, ReplaceOneStep
  <2>2. old \in Ids
    BY <1>1 DEF Previous, TypeOK
  <2> QED
    BY <1>1, <1>2, <2>1, <2>2 DEF Enter
<1>7. ASSUME NEW c \in Conns, MarkDirty(c) PROVE NamedInv'
  <2>1. call[c].id \in Ids
    BY <1>7 DEF MarkDirty, NamedInv, Idle
  <2>2. \A d \in Conns \ {c} : call'[d] = call[d]
    BY <1>1, <1>7 DEF MarkDirty, Answer, Goto
  <2>3. call'[c].pc # "idle" => call'[c].id \in Ids
    BY <1>1, <1>7, <2>1 DEF MarkDirty, Answer, Goto, IdleCall
  <2> QED
    BY <1>2, <2>2, <2>3
<1>8. ASSUME NEW c \in Conns, ReplaceNone(c) \/ IssueToken(c) \/ Unlink(c) PROVE NamedInv'
  BY <1>1, <1>2, <1>8 DEF ReplaceNone, IssueToken, Unlink, Answer, IdleCall
<1>9. ASSUME UNCHANGED dsVars PROVE NamedInv'
  BY <1>9 DEF dsVars, NamedInv, Idle
<1>10. Steps
  BY StepCases
<1> QED
  BY <1>3, <1>4, <1>5, <1>6, <1>7, <1>8, <1>9, <1>10 DEF Steps

\* At the start there are no tokens, no requests and no finds.
LEMMA OInvInit == OInit => OInv
<1> SUFFICES ASSUME OInit PROVE OInv
  OBVIOUS
<1>1. IdInv
  BY InitIds DEF OInit
<1>2. OsTypeOK
  BY DEF OInit, OsTypeOK, NoRequest
<1>3. FindInv
  BY DEF OInit, FindInv, NoRequest
<1>4. NamedInv
  BY DEF OInit, Init, NamedInv, Idle, IdleCall
<1> QED
  BY <1>1, <1>2, <1>3, <1>4 DEF OInv

\* A step of the table that leaves requests and finds alone and may issue tokens
\* to upload
LEMMA TableStep ==
  ASSUME OInv, [Next]_dsVars, UNCHANGED <<http, uploaded, found>>,
         \A token \in tokens' : token \in tokens \/ (token \in Token /\ token.upload),
         blob' \in [Ids -> {"none", "whole", "cut"} \cup Requests]
  PROVE  OInv'
<1>1. IdInv' /\ NamedInv'
  BY NextIds, NamedStays DEF OInv
<1>2. OsTypeOK'
  BY DEF OInv, OsTypeOK
<1>3. \A id \in Ids : Settled(id) =>
        /\ Settled(id)'
        /\ \A p \in Pids : NotOf(id, p) => NotOf(id, p)'
  BY SettledStays DEF OInv, NotOf
<1>4. \A token : ForDownload(token) => ForDownload(token)'
  BY <1>3 DEF ForDownload, Settled
<1>5. \A token \in tokens' : token.id \in Ids /\ (~ token.upload => ForDownload(token)')
  BY <1>4 DEF OInv, FindInv, Token
<1>6. ASSUME NEW h \in Requests
      PROVE  /\ http'[h].pc # "idle" => http'[h].token \in Token
             /\ http'[h].pc \in {"open", "send", "owner", "mark"} => ForDownload(http[h].token)'
             /\ http'[h].pc = "mark" => NotOf(http[h].token.id, http[h].token.requester)'
  <2>1. PICK token : token = http[h].token
    OBVIOUS
  <2>2. http'[h].pc \in {"open", "send", "owner", "mark"} => ForDownload(token) /\ ForDownload(token)'
    BY <1>4, <2>1 DEF OInv, FindInv
  <2>3. http'[h].pc = "mark" => NotOf(token.id, token.requester)'
    BY <1>3, <2>1, <2>2 DEF OInv, FindInv, ForDownload, Settled
  <2> QED
    BY <2>1, <2>2, <2>3 DEF OInv, FindInv
<1>7. \A p \in Pids : \A id \in found'[p] : Settled(id)' /\ NotOf(id, p)'
  BY <1>3 DEF OInv, FindInv, Settled
<1> QED
  BY <1>1, <1>2, <1>5, <1>6, <1>7 DEF OInv, FindInv

\* A handler does to the object store what the two steps that call it do.
LEMMA HandleStep == ASSUME OInv, NEW c \in Conns, Handle(c) PROVE OInv'
<1>1. [Next]_dsVars
  BY DEF Handle, Next, Request, Continue
<1>2. blob \in [Ids -> {"none", "whole", "cut"} \cup Requests]
  BY DEF OInv, OsTypeOK
<1>3. CASE IssueToken(c) /\ NewObjectToken(call[c].id, Nobody, TRUE)
             /\ UNCHANGED <<blob, http, uploaded, found>>
  <2>1. call[c].id \in Ids
    BY <1>3 DEF IssueToken, OInv, NamedInv, Idle
  <2> DEFINE token == [id |-> call[c].id, requester |-> Nobody, upload |-> TRUE]
  <2>2. token \in Token /\ token.upload
    BY <2>1 DEF Token
  <2>3. tokens' = tokens \cup {token}
    BY <1>3 DEF NewObjectToken
  <2> HIDE DEF token
  <2>4. \A t \in tokens' : t \in tokens \/ (t \in Token /\ t.upload)
    BY <2>2, <2>3
  <2>5. UNCHANGED <<http, uploaded, found>> /\ blob' = blob
    BY <1>3
  <2> QED
    BY <1>1, <1>2, <2>4, <2>5, TableStep
<1>4. CASE Unlink(c) /\ ObjectDelete(call[c].id) /\ UNCHANGED <<tokens, http, uploaded, found>>
  <2>1. blob' \in [Ids -> {"none", "whole", "cut"} \cup Requests]
    BY <1>2, <1>4 DEF ObjectDelete
  <2>2. /\ UNCHANGED <<http, uploaded, found>>
        /\ \A t \in tokens' : t \in tokens \/ (t \in Token /\ t.upload)
    BY <1>4
  <2> QED
    BY <1>1, <2>1, <2>2, TableStep
<1>5. CASE UNCHANGED osVars
  <2>1. /\ UNCHANGED <<http, uploaded, found>> /\ blob' = blob
        /\ \A t \in tokens' : t \in tokens \/ (t \in Token /\ t.upload)
    BY <1>5 DEF osVars
  <2> QED
    BY <1>1, <1>2, <2>1, TableStep
<1> QED
  BY <1>3, <1>4, <1>5 DEF Handle

-----------------------------------------------------------------------------
\* While the table stays as it is, so does what is known of ids.
LEMMA QuietTable ==
  ASSUME OInv, UNCHANGED dsVars
  PROVE  /\ IdInv' /\ NamedInv'
         /\ \A id : Settled(id)' <=> Settled(id)
         /\ \A id, p : NotOf(id, p)' <=> NotOf(id, p)
         /\ \A token : ForDownload(token)' <=> ForDownload(token)
<1>1. IdInv' /\ NamedInv'
  BY NextIds, NamedStays DEF OInv
<1>2. \A id : Settled(id)' <=> Settled(id)
  BY DEF dsVars, Settled, Inserting
<1>3. \A id, p : NotOf(id, p)' <=> NotOf(id, p)
  BY DEF dsVars, NotOf
<1> QED
  BY <1>1, <1>2, <1>3 DEF ForDownload

\* A token is issued for the object of a record, or expires.
LEMMA TokenStep ==
  ASSUME OInv, UNCHANGED <<dsVars, blob, http, uploaded, found>>,
         tokens' \subseteq Token,
         \A token \in tokens' : ~ token.upload => ForDownload(token)
  PROVE  OInv'
<1>1. OsTypeOK'
  BY DEF OInv, OsTypeOK
<1>2. \A token \in tokens' : token.id \in Ids /\ (~ token.upload => ForDownload(token)')
  BY QuietTable DEF Token
<1>3. ASSUME NEW h \in Requests
      PROVE  /\ http'[h].pc # "idle" => http'[h].token \in Token
             /\ http'[h].pc \in {"open", "send", "owner", "mark"} => ForDownload(http[h].token)'
             /\ http'[h].pc = "mark" => NotOf(http[h].token.id, http[h].token.requester)'
  <2>1. PICK token : token = http[h].token
    OBVIOUS
  <2>2. http'[h].pc \in {"open", "send", "owner", "mark"} => ForDownload(token)'
    BY <2>1, QuietTable DEF OInv, FindInv
  <2>3. http'[h].pc = "mark" => NotOf(token.id, token.requester)'
    BY <2>1, QuietTable DEF OInv, FindInv
  <2> QED
    BY <2>1, <2>2, <2>3 DEF OInv, FindInv
<1>4. \A p \in Pids : \A id \in found'[p] : Settled(id)' /\ NotOf(id, p)'
  BY QuietTable DEF OInv, FindInv
<1> QED
  BY <1>1, <1>2, <1>3, <1>4, QuietTable DEF OInv, FindInv

\* A request goes on to a state r for which what a request carries holds.
LEMMA RequestStep ==
  ASSUME OInv, UNCHANGED <<dsVars, tokens>>, NEW h \in Requests,
         NEW r \in [pc : {"idle", "create", "copy", "open", "send", "owner", "mark"},
                    token : Token \cup {NoToken}],
         http' = [http EXCEPT ![h] = r],
         r.pc # "idle" => r.token \in Token,
         r.pc \in {"open", "send", "owner", "mark"} => ForDownload(r.token),
         r.pc = "mark" => NotOf(r.token.id, r.token.requester),
         blob' \in [Ids -> {"none", "whole", "cut"} \cup Requests],
         uploaded' \subseteq Ids,
         found' \in [Pids -> SUBSET Ids],
         \A p \in Pids : \A id \in found'[p] : Settled(id) /\ NotOf(id, p)
  PROVE  OInv'
<1>1. OsTypeOK'
  BY DEF OInv, OsTypeOK
<1>2. \A token \in tokens' : token.id \in Ids /\ (~ token.upload => ForDownload(token)')
  BY QuietTable DEF OInv, FindInv
<1>3. ASSUME NEW k \in Requests
      PROVE  /\ http'[k].pc # "idle" => http'[k].token \in Token
             /\ http'[k].pc \in {"open", "send", "owner", "mark"} => ForDownload(http[k].token)'
             /\ http'[k].pc = "mark" => NotOf(http[k].token.id, http[k].token.requester)'
  <2>1. PICK q : q = http'[k]
    OBVIOUS
  <2>2. k # h => q = http[k]
    BY <2>1 DEF OInv, OsTypeOK
  <2>3. k = h => q = r
    BY <2>1 DEF OInv, OsTypeOK
  <2>4. /\ q.pc # "idle" => q.token \in Token
        /\ q.pc \in {"open", "send", "owner", "mark"} => ForDownload(q.token)
        /\ q.pc = "mark" => NotOf(q.token.id, q.token.requester)
    BY <2>2, <2>3 DEF OInv, FindInv
  <2>5. /\ q.pc \in {"open", "send", "owner", "mark"} => ForDownload(q.token)'
        /\ q.pc = "mark" => NotOf(q.token.id, q.token.requester)'
    BY <2>4, QuietTable
  <2> QED
    BY <2>1, <2>4, <2>5
<1>4. \A p \in Pids : \A id \in found'[p] : Settled(id)' /\ NotOf(id, p)'
  BY QuietTable
<1> QED
  BY <1>1, <1>2, <1>3, <1>4, QuietTable DEF OInv, FindInv

\* What is on disk, uploaded and found after a step of a request
RestOK ==
  /\ blob' \in [Ids -> {"none", "whole", "cut"} \cup Requests]
  /\ uploaded' \subseteq Ids
  /\ found' \in [Pids -> SUBSET Ids]
  /\ \A p \in Pids : \A id \in found'[p] : Settled(id) /\ NotOf(id, p)

\* Most steps leave the finds, and all but one what was uploaded.
LEMMA RestSame ==
  ASSUME OInv, UNCHANGED <<uploaded, found>>,
         blob' \in [Ids -> {"none", "whole", "cut"} \cup Requests]
  PROVE  RestOK
BY DEF OInv, OsTypeOK, FindInv, RestOK

\* A request that is answered carries nothing.
LEMMA RespondStep ==
  ASSUME OInv, UNCHANGED <<dsVars, tokens>>, NEW h \in Requests, Respond(h), RestOK
  PROVE  OInv'
<1>1. NoRequest \in [pc : {"idle", "create", "copy", "open", "send", "owner", "mark"},
                     token : Token \cup {NoToken}]
  BY DEF NoRequest
<1>2. NoRequest.pc = "idle"
  BY DEF NoRequest
<1> QED
  BY <1>1, <1>2, RequestStep DEF Respond, RestOK

\* A request that goes on keeps its token.
LEMMA GoOnStep ==
  ASSUME OInv, UNCHANGED <<dsVars, tokens>>, NEW h \in Requests,
         NEW pc \in {"copy", "send", "owner", "mark"},
         http' = [http EXCEPT ![h] = [pc |-> pc, token |-> http[h].token]],
         http[h].pc # "idle",
         pc # "copy" => http[h].pc \in {"open", "send", "owner"},
         pc = "mark" => NotOf(http[h].token.id, http[h].token.requester),
         RestOK
  PROVE  OInv'
<1>1. PICK token : token = http[h].token
  OBVIOUS
<1>2. token \in Token /\ (pc # "copy" => ForDownload(token))
  BY <1>1 DEF OInv, FindInv
<1> DEFINE r == [pc |-> pc, token |-> token]
<1>3. /\ r \in [pc : {"idle", "create", "copy", "open", "send", "owner", "mark"},
               token : Token \cup {NoToken}]
      /\ r.pc = pc /\ r.token = token
  BY <1>2
<1>4. http' = [http EXCEPT ![h] = r]
  BY <1>1
<1>5. r.pc = "mark" => NotOf(r.token.id, r.token.requester)
  BY <1>1
<1> HIDE DEF r
<1> QED
  BY <1>2, <1>3, <1>4, <1>5, RequestStep DEF RestOK

\* Every step of a PUT or a GET keeps OInv.
LEMMA HttpStep == ASSUME OInv, NEW h \in Requests, Http(h) PROVE OInv'
<1>1. /\ http[h] = [pc |-> http[h].pc, token |-> http[h].token]
      /\ http \in [Requests -> [pc : {"idle", "create", "copy", "open", "send", "owner", "mark"},
                               token : Token \cup {NoToken}]]
      /\ blob \in [Ids -> {"none", "whole", "cut"} \cup Requests]
      /\ uploaded \subseteq Ids /\ found \in [Pids -> SUBSET Ids]
  BY DEF OInv, OsTypeOK
<1>2. ASSUME NEW pc \in {"copy", "send", "owner", "mark"}, Step(h, pc)
      PROVE  http' = [http EXCEPT ![h] = [pc |-> pc, token |-> http[h].token]]
  <2>1. [http[h] EXCEPT !.pc = pc] = [pc |-> pc, token |-> http[h].token]
    BY <1>1
  <2>2. http' = [http EXCEPT ![h] = [http[h] EXCEPT !.pc = pc]]
    BY <1>2 DEF Step
  <2> QED
    BY <2>1, <2>2
<1>3. ASSUME CheckToken(h) PROVE OInv'
  <2>1. PICK token \in tokens :
          /\ http' = [http EXCEPT ![h] = [pc |-> IF token.upload THEN "create" ELSE "open",
                                          token |-> token]]
          /\ UNCHANGED <<dsVars, tokens, blob, uploaded, found>>
    BY <1>3 DEF CheckToken
  <2> DEFINE r == [pc |-> IF token.upload THEN "create" ELSE "open",
                   token |-> token]
  <2>2. token \in Token /\ (~ token.upload => ForDownload(token))
    BY DEF OInv, OsTypeOK, FindInv
  <2>3. /\ r \in [pc : {"idle", "create", "copy", "open", "send", "owner", "mark"},
                 token : Token \cup {NoToken}]
        /\ r.token = token /\ r.pc \in {"create", "open"} /\ (r.pc = "open" => ~ token.upload)
    BY <2>2
  <2>4. http' = [http EXCEPT ![h] = r]
    BY <2>1
  <2>5. RestOK
    BY <1>1, <2>1, RestSame
  <2> HIDE DEF r
  <2> QED
    BY <2>1, <2>2, <2>3, <2>4, <2>5, RequestStep DEF RestOK
<1>4. ASSUME PutCreate(h) PROVE OInv'
  <2>1. blob' \in [Ids -> {"none", "whole", "cut"} \cup Requests]
    BY <1>1, <1>4 DEF PutCreate
  <2>2. RestOK
    BY <1>4, <2>1, RestSame DEF PutCreate
  <2> QED
    BY <1>1, <1>2, <1>4, <2>2, GoOnStep DEF PutCreate
<1>5. ASSUME PutRefused(h) PROVE OInv'
  BY <1>1, <1>5, RestSame, RespondStep DEF PutRefused
<1>6. ASSUME NEW content \in {"whole", "cut"}, Written(h, content)
      PROVE  blob' \in [Ids -> {"none", "whole", "cut"} \cup Requests]
  BY <1>1, <1>6 DEF Written
<1>7. ASSUME PutFinish(h) PROVE OInv'
  <2>1. blob' \in [Ids -> {"none", "whole", "cut"} \cup Requests]
    BY <1>6, <1>7 DEF PutFinish
  <2>2. http[h].token.id \in Ids
    BY <1>7 DEF PutFinish, OInv, FindInv, Token
  <2>3. RestOK
    BY <1>1, <1>7, <2>1, <2>2 DEF PutFinish, RestOK, OInv, FindInv
  <2> QED
    BY <1>7, <2>3, RespondStep DEF PutFinish
<1>8. ASSUME PutAbort(h) PROVE OInv'
  <2>1. blob' \in [Ids -> {"none", "whole", "cut"} \cup Requests]
    BY <1>6, <1>8 DEF PutAbort
  <2> QED
    BY <1>8, <2>1, RestSame, RespondStep DEF PutAbort
<1>9. ASSUME GetOpen(h) PROVE OInv'
  <2>1. RestOK
    BY <1>1, <1>9, RestSame DEF GetOpen
  <2>2. CASE Respond(h)
    BY <1>9, <2>1, <2>2, RespondStep DEF GetOpen
  <2>3. CASE Step(h, "send")
    BY <1>1, <1>2, <1>9, <2>1, <2>3, GoOnStep DEF GetOpen
  <2> QED
    BY <1>9, <2>2, <2>3 DEF GetOpen
<1>10. ASSUME GetSend(h) PROVE OInv'
  <2>1. RestOK
    BY <1>1, <1>10, RestSame DEF GetSend
  <2> QED
    BY <1>1, <1>2, <1>10, <2>1, GoOnStep DEF GetSend
<1>11. ASSUME GetOwner(h) PROVE OInv'
  <2>1. RestOK
    BY <1>1, <1>11, RestSame DEF GetOwner
  <2>2. CASE Respond(h)
    BY <1>11, <2>1, <2>2, RespondStep DEF GetOwner
  <2>3. CASE /\ dsRecords[http[h].token.id].owner # http[h].token.requester
             /\ Step(h, "mark")
    <3>1. NotOf(http[h].token.id, http[h].token.requester)
      BY <2>3 DEF NotOf
    <3> QED
      BY <1>1, <1>2, <1>11, <2>1, <2>3, <3>1, GoOnStep DEF GetOwner
  <2> QED
    BY <1>11, <2>2, <2>3 DEF GetOwner
<1>12. ASSUME GetMark(h) PROVE OInv'
  <2>1. PICK token : token = http[h].token
    OBVIOUS
  <2>2. /\ ForDownload(token) /\ NotOf(token.id, token.requester)
        /\ token.requester \in Pids /\ Settled(token.id) /\ token.id \in Ids
    BY <1>12, <2>1 DEF GetMark, OInv, FindInv, ForDownload, Settled
  <2>3. found' = [found EXCEPT ![token.requester] = @ \cup {token.id}]
    BY <1>12, <2>1 DEF GetMark
  <2>4. found' \in [Pids -> SUBSET Ids]
    BY <1>1, <2>2, <2>3
  <2>5. \A p \in Pids : \A id \in found'[p] : Settled(id) /\ NotOf(id, p)
    BY <1>1, <2>2, <2>3 DEF OInv, FindInv
  <2>6. RestOK
    BY <1>1, <1>12, <2>4, <2>5 DEF GetMark, RestOK
  <2> QED
    BY <1>12, <2>6, RespondStep DEF GetMark
<1> QED
  BY <1>3, <1>4, <1>5, <1>7, <1>8, <1>9, <1>10, <1>11, <1>12 DEF Http

-----------------------------------------------------------------------------
\* OInv is inductive.
LEMMA OInvStep == OInv /\ [ONext]_vars => OInv'
<1> SUFFICES ASSUME OInv, [ONext]_vars PROVE OInv'
  OBVIOUS
<1>1. ASSUME NEW c \in Conns, Handle(c) PROVE OInv'
  BY <1>1, HandleStep
<1>2. ASSUME NEW c \in Conns, PrepareGetObject(c) PROVE OInv'
  <2>1. PICK id \in DOMAIN dsRecords :
          /\ NewObjectToken(id, PidOf[c], FALSE)
          /\ UNCHANGED <<dsVars, blob, http, uploaded, found>>
    BY <1>2 DEF PrepareGetObject
  <2> DEFINE token == [id |-> id, requester |-> PidOf[c], upload |-> FALSE]
  <2>2. Settled(id) /\ id \in Ids
    BY TableIsSettled DEF OInv, Settled
  <2>3. token \in Token /\ ForDownload(token)
    BY <2>2, ConnAssumption DEF Token, ForDownload
  <2>4. tokens' = tokens \cup {token}
    BY <2>1 DEF NewObjectToken
  <2> HIDE DEF token
  <2>5. /\ tokens' \subseteq Token
        /\ \A t \in tokens' : ~ t.upload => ForDownload(t)
    BY <2>3, <2>4 DEF OInv, OsTypeOK, FindInv
  <2> QED
    BY <2>1, <2>5, TokenStep
<1>3. ASSUME ExpireToken PROVE OInv'
  <2>1. tokens' \subseteq tokens /\ UNCHANGED <<dsVars, blob, http, uploaded, found>>
    BY <1>3 DEF ExpireToken
  <2>2. /\ tokens' \subseteq Token
        /\ \A t \in tokens' : ~ t.upload => ForDownload(t)
    BY <2>1 DEF OInv, OsTypeOK, FindInv
  <2> QED
    BY <2>1, <2>2, TokenStep
<1>4. ASSUME NEW h \in Requests, Http(h) PROVE OInv'
  BY <1>4, HttpStep
<1>5. ASSUME UNCHANGED vars PROVE OInv'
  <2>1. /\ UNCHANGED <<dsVars, blob, http, uploaded, found>> /\ tokens' = tokens
    BY <1>5 DEF vars, osVars
  <2>2. /\ tokens' \subseteq Token
        /\ \A t \in tokens' : ~ t.upload => ForDownload(t)
    BY <2>1 DEF OInv, OsTypeOK, FindInv
  <2> QED
    BY <2>1, <2>2, TokenStep
<1> QED
  BY <1>1, <1>2, <1>3, <1>4, <1>5 DEF ONext

\* The tokens, blobs, requests and finds are those OTypeOK allows, whatever order
\* handlers and HTTP requests run in.
THEOREM ObjectStoreTypes == OSpec => []OTypeOK
<1>1. OInv => OTypeOK
  BY DEF OInv, IdInv, TypeInv, OsTypeOK, OTypeOK
<1> QED
  BY OInvInit, OInvStep, <1>1, PTL DEF OSpec

\* No player is credited with a balloon of their own (datastore.go, handlePrepareGet
\* and objectstore.go, handleGet): the owner is compared in one critical section and
\* the find noted in another, and the id never becomes that of another record.
THEOREM FindsAreOthers == OSpec => []NobodyFindsOwn
<1>1. OInv => NobodyFindsOwn
  BY DEF OInv, FindInv, NotOf, NobodyFindsOwn
<1> QED
  BY OInvInit, OInvStep, <1>1, PTL DEF OSpec

-----------------------------------------------------------------------------
(* Uploads.  A blob stays whole since nothing empties it again: an upload   *)
(* token is spent by one request at a time and by none once its PUT was     *)
(* answered, and what a delete unlinks has left the table for good.         *)

\* A prepared object is stored before its token is issued.
PostInv ==
  \A c \in Conns :
    /\ call[c].pc = "token" => call[c].op = "prepare"
    /\ call[c].op = "prepare" /\ ~ Inserting(c) => Settled(call[c].id)

\* A handler that is about to unlink a blob has deleted the object.
Unlinks(c) == call[c].pc = "unlink" \/ (call[c].pc = "mark" /\ call[c].op = "delete")

DeleteInv ==
  \A c \in Conns : Unlinks(c) => Settled(call[c].id) /\ call[c].id \notin DOMAIN dsRecords

ForUpload(token) == token.upload /\ token.requester = Nobody /\ Settled(token.id)

\* A request that holds a token to upload, and its object
Writing(h) == http[h].pc \in {"create", "copy"}

Target(h) == http[h].token.id

UploadInv ==
  /\ \A token \in tokens : token.upload => ForUpload(token)
  /\ \A h \in Requests : Writing(h) =>
       /\ ForUpload(http[h].token)
       /\ Target(h) \notin uploaded
       /\ \A k \in Requests : Writing(k) /\ Target(k) = Target(h) => k = h
  /\ \A id \in uploaded : Settled(id)

\* What a step of the table leaves of the ids that are settled
LEMMA OthersStay ==
  ASSUME IdInv, [Next]_dsVars, NEW c \in Conns, \A d \in Conns \ {c} : call'[d] = call[d]
  PROVE  /\ PostInv => \A d \in Conns \ {c} :
              /\ call'[d].pc = "token" => call'[d].op = "prepare"
              /\ call'[d].op = "prepare" /\ ~ Inserting(d)' => Settled(call[d].id)'
         /\ DeleteInv => \A d \in Conns \ {c} :
              Unlinks(d)' => Settled(call[d].id)' /\ call'[d].id \notin DOMAIN dsRecords'
<1>1. ASSUME NEW id, Settled(id)
      PROVE  Settled(id)' /\ (id \notin DOMAIN dsRecords => id \notin DOMAIN dsRecords')
  BY <1>1, SettledStays DEF Settled
<1>2. ASSUME PostInv, NEW d \in Conns \ {c}
      PROVE  /\ call'[d].pc = "token" => call'[d].op = "prepare"
             /\ call'[d].op = "prepare" /\ ~ Inserting(d)' => Settled(call[d].id)'
  <2>1. PICK id : id = call[d].id /\ id = call'[d].id
    OBVIOUS
  <2>2. call[d].op = "prepare" /\ ~ Inserting(d) => Settled(id)
    BY <1>2, <2>1 DEF PostInv
  <2> QED
    BY <1>1, <1>2, <2>1, <2>2 DEF PostInv, Inserting
<1>3. ASSUME DeleteInv, NEW d \in Conns \ {c}, Unlinks(d)'
      PROVE  Settled(call[d].id)' /\ call'[d].id \notin DOMAIN dsRecords'
  <2>1. PICK id : id = call[d].id /\ id = call'[d].id
    OBVIOUS
  <2>2. Settled(id) /\ id \notin DOMAIN dsRecords
    BY <1>3, <2>1 DEF DeleteInv, Unlinks
  <2> QED
    BY <1>1, <2>1, <2>2
<1> QED
  BY <1>2, <1>3

LEMMA PostStays ==
  ASSUME IdInv, PostInv, [Next]_dsVars
  PROVE  PostInv'
<1>1. /\ TypeInv /\ TypeOK /\ IdInv'
      /\ call \in [Conns -> [pc : Pcs, op : Ops, id : Ids \cup {0},
                             dataType : DataTypes \cup {0}]]
  BY NextIds DEF IdInv, TypeInv, TypeOK
<1>2. ASSUME NEW c \in Conns, \A d \in Conns \ {c} : call'[d] = call[d],
             call'[c].pc = "token" => call'[c].op = "prepare",
             call'[c].op = "prepare" /\ ~ Inserting(c)' => Settled(call[c].id)'
      PROVE  PostInv'
  BY <1>2, OthersStay DEF PostInv
<1>3. ASSUME NEW c \in Conns, NEW op \in {"prepare", "meta"}, NEW type \in DataTypes,
             Allocate(c, op, type)
      PROVE  PostInv'
  BY <1>1, <1>2, <1>3 DEF Allocate, Enter, Inserting
<1>4. ASSUME NEW c \in Conns, Insert(c) PROVE PostInv'
  <2>1. PICK id : id = call[c].id
    OBVIOUS
  <2>2. /\ call'[c].pc = "mark" /\ call'[c].id = id
        /\ \A d \in Conns \ {c} : call'[d] = call[d]
    BY <1>1, <1>4, <2>1 DEF Insert, Goto
  <2>3. id \in DOMAIN dsRecords'
    BY <1>1, <1>4, <2>1, InsertStep
  <2>4. Settled(id)'
    BY <1>1, <2>3 DEF IdInv, FreshIds, RecordsBelow, Settled, TypeInv, TypeOK
  <2> QED
    BY <1>2, <2>2, <2>4
<1>5. ASSUME NEW c \in Conns, NEW op \in {"update", "delete"}, NEW id \in Ids,
             Enter(c, "mark", op, id, 0)
      PROVE  PostInv'
  BY <1>1, <1>2, <1>5 DEF Enter
<1>6. ASSUME NEW c \in Conns, Mutates(c) PROVE PostInv'
  BY <1>1, <1>5, <1>6, MutatesStep
<1>7. ASSUME NEW c \in Conns, ReplaceOne(c) PROVE PostInv'
  BY <1>1, <1>5, <1>7, ReplaceOneStep DEF Previous, TypeOK
<1>8. ASSUME NEW c \in Conns, MarkDirty(c) PROVE PostInv'
  <2>1. CASE call[c].op = "update"
    BY <1>1, <1>2, <1>8, <2>1 DEF MarkDirty, Answer, IdleCall
  <2>2. CASE call[c].op # "update"
    <3>1. PICK id : id = call[c].id
      OBVIOUS
    <3>2. AfterMark[call[c].op] = "token" => call[c].op = "prepare"
      BY <1>1, <1>8, <2>2 DEF MarkDirty, TypeInv, CallsOK, CallOK, AfterMark
    <3>3. /\ call'[c].pc = AfterMark[call[c].op] /\ call'[c].op = call[c].op
          /\ call'[c].id = id
          /\ \A d \in Conns \ {c} : call'[d] = call[d]
      BY <1>1, <1>8, <2>2, <3>1 DEF MarkDirty, Goto
    <3>4. call[c].op = "prepare" => Settled(id)
      BY <1>8, <3>1 DEF MarkDirty, PostInv, Inserting
    <3>5. call'[c].op = "prepare" => Settled(id)'
      BY <3>3, <3>4, SettledStays DEF Settled
    <3> QED
      BY <1>2, <3>2, <3>3, <3>5
  <2> QED
    BY <2>1, <2>2
<1>9. ASSUME NEW c \in Conns, ReplaceNone(c) \/ IssueToken(c) \/ Unlink(c) PROVE PostInv'
  BY <1>1, <1>2, <1>9 DEF ReplaceNone, IssueToken, Unlink, Answer, IdleCall
<1>10. ASSUME UNCHANGED dsVars PROVE PostInv'
  BY <1>10 DEF dsVars, PostInv, Inserting, Settled
<1>11. Steps
  BY StepCases
<1> QED
  BY <1>3, <1>4, <1>6, <1>7, <1>8, <1>9, <1>10, <1>11 DEF Steps

\* What a careful client's request, or the next step of a handler, does
CarefulStep(c) == (Request(c) /\ CarefulRequest(c)) \/ Continue(c)

LEMMA DeleteStays ==
  ASSUME IdInv, DeleteInv, NEW c \in Conns, CarefulStep(c)
  PROVE  DeleteInv'
<1>0. [Next]_dsVars
  BY DEF CarefulStep, Next
<1>1. /\ TypeInv /\ TypeOK
      /\ call \in [Conns -> [pc : Pcs, op : Ops, id : Ids \cup {0},
                             dataType : DataTypes \cup {0}]]
  BY DEF IdInv, TypeInv, TypeOK
<1>2. ASSUME \A d \in Conns \ {c} : call'[d] = call[d],
             Unlinks(c)' => Settled(call[c].id)' /\ call'[c].id \notin DOMAIN dsRecords'
      PROVE  DeleteInv'
  BY <1>0, <1>2, OthersStay DEF DeleteInv
<1>3. ASSUME \A d \in Conns \ {c} : call'[d] = call[d], ~ Unlinks(c)'
      PROVE  DeleteInv'
  BY <1>2, <1>3
<1>4. ASSUME NEW id \in DOMAIN dsRecords, id \notin DOMAIN dsRecords',
             \A d \in Conns \ {c} : call'[d] = call[d], call'[c].id = id
      PROVE  DeleteInv'
  <2>1. Settled(id)'
    BY <1>0, TableIsSettled, SettledStays DEF Settled
  <2> QED
    BY <1>2, <1>4, <2>1
<1>5. CASE Request(c) /\ CarefulRequest(c)
  <2>1. CASE DeleteObject(c)
    <3>1. PICK id \in Ids : /\ dsRecords' = Restrict(dsRecords, DOMAIN dsRecords \ {id})
                            /\ Enter(c, "mark", "delete", id, 0)
      BY <2>1 DEF DeleteObject
    <3>2. /\ call'[c].id = id /\ call'[c].op = "delete"
          /\ \A d \in Conns \ {c} : call'[d] = call[d]
      BY <1>1, <3>1 DEF Enter
    <3>3. id \in DOMAIN dsRecords
      BY <1>5, <3>2 DEF CarefulRequest
    <3> QED
      BY <1>4, <3>1, <3>2, <3>3 DEF Restrict
  <2>2. CASE PreparePostObject(c) \/ PostMetaBinary(c)
    BY <1>1, <1>3, <2>2 DEF PreparePostObject, PostMetaBinary, Allocate, Enter, Unlinks
  <2>3. CASE CompletePostObject(c) \/ RateObject(c) \/ RateObjects(c)
    <3>1. PICK id \in Ids : Enter(c, "mark", "update", id, 0)
      BY <2>3 DEF CompletePostObject, RateObject, RateObjects
    <3> QED
      BY <1>1, <1>3, <3>1 DEF Enter, Unlinks
  <2> QED
    BY <1>5, <2>1, <2>2, <2>3 DEF Request
<1>6. CASE Insert(c)
  <2>1. call[c].op \in {"prepare", "meta"}
    BY <1>1, <1>6 DEF Insert, TypeInv, CallsOK, CallOK
  <2> QED
    BY <1>1, <1>3, <1>6, <2>1 DEF Insert, Goto, Unlinks
<1>7. CASE MarkDirty(c)
  <2>1. CASE call[c].op # "delete"
    <3>1. \A d \in Conns \ {c} : call'[d] = call[d]
      BY <1>1, <1>7 DEF MarkDirty, Answer, Goto
    <3>2. call[c].op # "update" => AfterMark[call[c].op] \notin {"mark", "unlink"}
      BY <1>1, <1>7, <2>1 DEF MarkDirty, TypeInv, CallsOK, CallOK, AfterMark
    <3>3. ~ Unlinks(c)'
      BY <1>1, <1>7, <3>2 DEF MarkDirty, Answer, Goto, IdleCall, Unlinks
    <3> QED
      BY <1>3, <3>1, <3>3
  <2>2. CASE call[c].op = "delete"
    <3>1. PICK id : id = call[c].id
      OBVIOUS
    <3>2. Settled(id) /\ id \notin DOMAIN dsRecords
      BY <1>7, <2>2, <3>1 DEF MarkDirty, DeleteInv, Unlinks
    <3>3. Settled(id)' /\ id \notin DOMAIN dsRecords'
      BY <1>0, <3>2, SettledStays DEF Settled
    <3>4. call'[c].id = id /\ \A d \in Conns \ {c} : call'[d] = call[d]
      BY <1>1, <1>7, <2>2, <3>1 DEF MarkDirty, Goto
    <3> QED
      BY <1>2, <3>3, <3>4
  <2> QED
    BY <2>1, <2>2
<1>8. CASE ReplaceOne(c)
  <2>1. PICK old \in Previous(c) : /\ DOMAIN dsRecords' = DOMAIN dsRecords \ {old}
                                   /\ Enter(c, "mark", "delete", old, 0)
    BY <1>8, ReplaceOneStep
  <2>2. call'[c].id = old /\ \A d \in Conns \ {c} : call'[d] = call[d]
    BY <1>1, <2>1 DEF Enter
  <2> QED
    BY <1>4, <2>1, <2>2 DEF Previous
<1>9. CASE ReplaceNone(c) \/ IssueToken(c) \/ Unlink(c)
  BY <1>1, <1>3, <1>9 DEF ReplaceNone, IssueToken, Unlink, Answer, IdleCall, Unlinks
<1> QED
  BY <1>5, <1>6, <1>7, <1>8, <1>9 DEF CarefulStep, Continue

\* A step of the table, of tokens and blobs: it may issue a token to upload.
LEMMA TableUpload ==
  ASSUME OInv, UploadInv, [Next]_dsVars, UNCHANGED <<http, uploaded>>,
         \A token \in tokens' \ tokens : token.upload => ForUpload(token)
  PROVE  UploadInv'
<1>1. ASSUME NEW token, ForUpload(token) PROVE ForUpload(token)'
  BY <1>1, SettledStays DEF OInv, ForUpload, Settled
<1>2. \A token \in tokens' : token.upload => ForUpload(token)'
  BY <1>1 DEF UploadInv
<1>3. ASSUME NEW h \in Requests, Writing(h)'
      PROVE  /\ ForUpload(http[h].token)'
             /\ Target(h)' \notin uploaded'
             /\ \A k \in Requests : Writing(k)' /\ Target(k)' = Target(h)' => k = h
  <2>1. PICK token : token = http[h].token
    OBVIOUS
  <2>2. /\ ForUpload(token) /\ Target(h) \notin uploaded
        /\ \A k \in Requests : Writing(k) /\ Target(k) = Target(h) => k = h
    BY <1>3, <2>1 DEF UploadInv, Writing
  <2>3. ForUpload(token)'
    BY <1>1, <2>2
  <2> QED
    BY <2>1, <2>2, <2>3 DEF Writing, Target
<1>4. \A id \in uploaded' : Settled(id)'
  BY SettledStays DEF OInv, UploadInv, Settled
<1> QED
  BY <1>2, <1>3, <1>4 DEF UploadInv

LEMMA HandleUpload ==
  ASSUME OInv, PostInv, UploadInv, NEW c \in Conns, Handle(c)
  PROVE  PostInv' /\ UploadInv'
<1>1. [Next]_dsVars
  BY DEF Handle, Next, Request, Continue
<1>2. UNCHANGED <<http, uploaded>>
  BY DEF Handle, osVars
<1>3. \A token \in tokens' \ tokens : token.upload => ForUpload(token)
  <2>1. CASE IssueToken(c) /\ NewObjectToken(call[c].id, Nobody, TRUE)
    <3>1. Settled(call[c].id)
      BY <2>1 DEF IssueToken, PostInv, Inserting
    <3>2. tokens' = tokens \cup {[id |-> call[c].id, requester |-> Nobody, upload |-> TRUE]}
      BY <2>1 DEF NewObjectToken
    <3> QED
      BY <3>1, <3>2 DEF ForUpload
  <2>2. CASE tokens' = tokens
    BY <2>2
  <2> QED
    BY <2>1, <2>2 DEF Handle, osVars
<1> QED
  BY <1>1, <1>2, <1>3, PostStays, TableUpload DEF OInv

\* What a request that is not h holds stays as it is, and so does what h holds,
\* unless it takes on a token, is answered, or moves on.
LEMMA RequestUpload ==
  ASSUME OInv, UploadInv, UNCHANGED <<dsVars, tokens>>, NEW h \in Requests,
         \A k \in Requests \ {h} : http'[k] = http[k],
         Writing(h)' => /\ ForUpload(http'[h].token)
                        /\ Target(h)' \notin uploaded
                        /\ \A k \in Requests \ {h} : Writing(k) => Target(k) # Target(h)',
         \/ uploaded' = uploaded
         \/ ~ Writing(h)' /\ Writing(h) /\ uploaded' = uploaded \cup {Target(h)}
  PROVE  UploadInv'
<1>1. \A id : Settled(id)' <=> Settled(id)
  BY QuietTable
<1>2. \A token : ForUpload(token)' <=> ForUpload(token)
  BY <1>1 DEF ForUpload
<1>3. \A token \in tokens' : token.upload => ForUpload(token)'
  BY <1>2 DEF UploadInv
<1>4. ASSUME NEW k \in Requests, Writing(k)'
      PROVE  /\ ForUpload(http[k].token)'
             /\ Target(k)' \notin uploaded'
             /\ \A j \in Requests : Writing(j)' /\ Target(j)' = Target(k)' => j = k
  <2>1. PICK token : token = http'[k].token
    OBVIOUS
  <2>2. CASE k = h
    BY <1>2, <1>4, <2>1, <2>2 DEF Writing, Target
  <2>3. CASE k # h
    <3>1. Writing(k) /\ token = http[k].token
      BY <1>4, <2>1, <2>3 DEF Writing
    <3>2. /\ ForUpload(token) /\ Target(k) = token.id /\ token.id \notin uploaded
          /\ \A j \in Requests : Writing(j) /\ Target(j) = token.id => j = k
      BY <3>1 DEF UploadInv, Target
    <3>3. Target(k)' = token.id
      BY <2>1 DEF Target
    <3>4. token.id \notin uploaded'
      BY <2>3, <3>2
    <3>5. \A j \in Requests : Writing(j)' /\ Target(j)' = token.id => j = k
      BY <2>3, <3>1, <3>2 DEF Writing, Target
    <3> QED
      BY <1>2, <2>1, <3>2, <3>3, <3>4, <3>5
  <2> QED
    BY <2>2, <2>3
<1>5. \A id \in uploaded' : Settled(id)'
  BY <1>1 DEF UploadInv, ForUpload, Target
<1> QED
  BY <1>3, <1>4, <1>5 DEF UploadInv

LEMMA HttpUpload ==
  ASSUME Careful, OInv, UploadInv, NEW h \in Requests, Http(h)
  PROVE  UploadInv'
<1>1. http \in [Requests -> [pc : {"idle", "create", "copy", "open", "send", "owner", "mark"},
                             token : Token \cup {NoToken}]]
  BY DEF OInv, OsTypeOK
<1>2. UNCHANGED <<dsVars, tokens>>
  BY DEF Http, CheckToken, PutCreate, PutRefused, PutFinish, PutAbort, GetOpen, GetSend,
         GetOwner, GetMark
<1>3. \A k \in Requests \ {h} : http'[k] = http[k]
  BY <1>1 DEF Http, CheckToken, PutCreate, PutRefused, PutFinish, PutAbort, GetOpen, GetSend,
              GetOwner, GetMark, Step, Respond
<1>4. ASSUME Respond(h) PROVE ~ Writing(h)'
  BY <1>1, <1>4 DEF Respond, NoRequest, Writing
<1>5. ASSUME NEW pc, Step(h, pc) PROVE http'[h].pc = pc /\ http'[h].token = http[h].token
  BY <1>1, <1>5 DEF Step
<1>6. CASE CheckToken(h)
  <2>1. PICK token \in tokens :
          /\ token.upload => /\ token.id \notin uploaded
                             /\ \A other \in Requests : http[other].token # token
          /\ http' = [http EXCEPT ![h] = [pc |-> IF token.upload THEN "create" ELSE "open",
                                          token |-> token]]
          /\ uploaded' = uploaded
    BY <1>6 DEF CheckToken
  <2>2. /\ http'[h].token = token /\ Target(h)' = token.id
        /\ Writing(h)' => token.upload
    BY <1>1, <2>1 DEF Writing, Target
  <2>3. ASSUME token.upload, NEW k \in Requests \ {h}, Writing(k)
        PROVE  Target(k) # token.id
    <3>1. token \in Token /\ http[k].token \in Token
      BY <2>3 DEF OInv, OsTypeOK, FindInv, Writing
    <3>2. /\ token.upload /\ token.requester = Nobody
          /\ http[k].token.upload /\ http[k].token.requester = Nobody
      BY <2>3 DEF UploadInv, ForUpload
    <3>3. http[k].token # token
      BY <2>1, <2>3
    <3>4. token = [id |-> token.id, requester |-> token.requester, upload |-> token.upload]
      BY <3>1 DEF Token
    <3>5. http[k].token = [id |-> http[k].token.id, requester |-> http[k].token.requester,
                           upload |-> http[k].token.upload]
      BY <3>1 DEF Token
    <3> QED
      BY <3>1, <3>2, <3>3, <3>4, <3>5 DEF Token, Target
  <2>4. token.upload => ForUpload(token)
    BY DEF UploadInv
  <2> QED
    BY <1>2, <1>3, <2>1, <2>2, <2>3, <2>4, RequestUpload
<1>7. CASE PutCreate(h)
  <2>1. Writing(h) /\ http'[h].token = http[h].token /\ Target(h)' = Target(h)
    BY <1>5, <1>7 DEF PutCreate, Writing, Target
  <2>2. uploaded' = uploaded
    BY <1>7 DEF PutCreate
  <2>3. /\ ForUpload(http'[h].token) /\ Target(h)' \notin uploaded
        /\ \A k \in Requests \ {h} : Writing(k) => Target(k) # Target(h)'
    BY <2>1 DEF UploadInv
  <2> QED
    BY <1>2, <1>3, <2>2, <2>3, RequestUpload
<1>8. CASE PutFinish(h)
  <2>1. ~ Writing(h)' /\ Writing(h) /\ uploaded' = uploaded \cup {Target(h)}
    BY <1>4, <1>8 DEF PutFinish, Writing, Target
  <2> QED
    BY <1>2, <1>3, <2>1, RequestUpload
<1>9. CASE PutRefused(h) \/ PutAbort(h) \/ GetOpen(h) \/ GetSend(h) \/ GetOwner(h) \/ GetMark(h)
  <2>1. uploaded' = uploaded
    BY <1>9 DEF PutRefused, PutAbort, GetOpen, GetSend, GetOwner, GetMark
  <2>2. ~ Writing(h)'
    BY <1>4, <1>5, <1>9
       DEF PutRefused, PutAbort, GetOpen, GetSend, GetOwner, GetMark, Writing
  <2> QED
    BY <1>2, <1>3, <2>1, <2>2, RequestUpload
<1> QED
  BY <1>6, <1>7, <1>8, <1>9 DEF Http

\* Other steps of tokens
LEMMA QuietUpload ==
  ASSUME OInv, PostInv, UploadInv, UNCHANGED <<dsVars, http, uploaded>>,
         \A token \in tokens' \ tokens : ~ token.upload
  PROVE  PostInv' /\ UploadInv'
BY PostStays, TableUpload DEF OInv

\* A PUT that is writing has the blob to itself, a blob whose PUT was answered is
\* whole, and an object that others can find was uploaded, as long as it exists.
BlobInv ==
  /\ \A h \in Requests :
       http[h].pc = "copy" /\ Target(h) \in DOMAIN dsRecords => blob[Target(h)] = h
  /\ \A id \in uploaded \cap DOMAIN dsRecords : blob[id] = "whole"
  /\ \A id \in DOMAIN dsRecords :
       dsRecords[id].complete /\ dsRecords[id].dataType \in BlobTypes => id \in uploaded

CarefulInv == OInv /\ PostInv /\ DeleteInv /\ UploadInv /\ BlobInv

\* An object that others can find is one already, or is just being completed, or
\* has no blob.
LEMMA CompletedStep ==
  ASSUME TypeInv, NEW c \in Conns, CarefulStep(c), NEW id \in DOMAIN dsRecords',
         dsRecords'[id].complete, dsRecords'[id].dataType \in BlobTypes
  PROVE  \/ id \in uploaded
         \/ /\ id \in DOMAIN dsRecords
            /\ dsRecords[id].complete /\ dsRecords[id].dataType \in BlobTypes
<1>1. CASE Request(c) /\ CarefulRequest(c)
  <2>1. CASE Mutates(c)
    BY <1>1, <2>1, MutatesStep DEF TypeInv, Shrinks, CarefulRequest
  <2>2. CASE UNCHANGED dsRecords
    BY <2>2
  <2> QED
    BY <1>1, <2>1, <2>2 DEF Request, Mutates, PreparePostObject, PostMetaBinary, Allocate
<1>2. CASE Insert(c)
  <2>1. CASE id = call[c].id
    BY <1>2, <2>1, InsertStep DEF TypeInv, CallsOK, CallOK, BlobTypes
  <2>2. CASE id # call[c].id
    <3>1. /\ DOMAIN dsRecords' = DOMAIN dsRecords \cup {call[c].id}
          /\ \A i \in DOMAIN dsRecords \ {call[c].id} : dsRecords'[i] = dsRecords[i]
      BY <1>2, InsertStep
    <3>2. id \in DOMAIN dsRecords
      BY <2>2, <3>1
    <3> QED
      BY <2>2, <3>1, <3>2
  <2> QED
    BY <2>1, <2>2
<1>3. CASE ReplaceOne(c)
  BY <1>3, ReplaceOneStep
<1>4. CASE MarkDirty(c) \/ ReplaceNone(c) \/ IssueToken(c) \/ Unlink(c)
  BY <1>4 DEF MarkDirty, ReplaceNone, IssueToken, Unlink
<1> QED
  BY <1>1, <1>2, <1>3, <1>4 DEF CarefulStep, Continue

LEMMA HandleBlob ==
  ASSUME Careful, CarefulInv, NEW c \in Conns, Handle(c)
  PROVE  DeleteInv' /\ BlobInv'
<1>1. CarefulStep(c) /\ [Next]_dsVars
  BY DEF Handle, CarefulStep, Continue, Request, Next
<1>2. UNCHANGED <<http, uploaded>>
  BY DEF Handle, osVars
<1>3. IdInv /\ TypeInv /\ blob \in [Ids -> {"none", "whole", "cut"} \cup Requests]
  BY DEF CarefulInv, OInv, IdInv, OsTypeOK
<1>4. \A id : Settled(id) /\ id \in DOMAIN dsRecords' => id \in DOMAIN dsRecords
  BY <1>1, <1>3, SettledStays DEF Settled
<1>5. ASSUME NEW id \in DOMAIN dsRecords', Settled(id) PROVE blob'[id] = blob[id]
  <2>1. CASE Unlink(c) /\ ObjectDelete(call[c].id)
    <3>1. call[c].id \notin DOMAIN dsRecords /\ dsRecords' = dsRecords
      BY <2>1 DEF Unlink, CarefulInv, DeleteInv, Unlinks
    <3> QED
      BY <1>3, <1>5, <2>1, <3>1 DEF ObjectDelete
  <2>2. CASE blob' = blob
    BY <2>2
  <2> QED
    BY <2>1, <2>2 DEF Handle, osVars
<1>6. ASSUME NEW h \in Requests, http[h].pc = "copy", Target(h) \in DOMAIN dsRecords'
      PROVE  blob'[Target(h)] = h
  <2>1. Settled(Target(h))
    BY <1>6 DEF CarefulInv, UploadInv, Writing, ForUpload, Target
  <2> QED
    BY <1>4, <1>5, <1>6, <2>1 DEF CarefulInv, BlobInv
<1>7. ASSUME NEW id \in uploaded \cap DOMAIN dsRecords' PROVE blob'[id] = "whole"
  <2>1. Settled(id)
    BY <1>7 DEF CarefulInv, UploadInv
  <2> QED
    BY <1>4, <1>5, <1>7, <2>1 DEF CarefulInv, BlobInv
<1>8. ASSUME NEW id \in DOMAIN dsRecords',
             dsRecords'[id].complete, dsRecords'[id].dataType \in BlobTypes
      PROVE  id \in uploaded
  BY <1>1, <1>3, <1>8, CompletedStep DEF CarefulInv, BlobInv
<1>9. BlobInv'
  BY <1>2, <1>6, <1>7, <1>8 DEF BlobInv, Target
<1> QED
  BY <1>1, <1>3, <1>9, DeleteStays DEF CarefulInv

LEMMA HttpBlob ==
  ASSUME CarefulInv, NEW h \in Requests, Http(h)
  PROVE  BlobInv'
<1>1. /\ http \in [Requests -> [pc : {"idle", "create", "copy", "open", "send", "owner", "mark"},
                               token : Token \cup {NoToken}]]
      /\ blob \in [Ids -> {"none", "whole", "cut"} \cup Requests]
  BY DEF CarefulInv, OInv, OsTypeOK
<1>2. dsRecords' = dsRecords
  BY DEF Http, CheckToken, PutCreate, PutRefused, PutFinish, PutAbort, GetOpen, GetSend,
         GetOwner, GetMark, dsVars
<1>3. \A k \in Requests \ {h} : http'[k] = http[k]
  BY <1>1 DEF Http, CheckToken, PutCreate, PutRefused, PutFinish, PutAbort, GetOpen, GetSend,
              GetOwner, GetMark, Step, Respond
<1>4. ASSUME Respond(h) PROVE http'[h].pc # "copy"
  BY <1>1, <1>4 DEF Respond, NoRequest
<1>5. ASSUME NEW pc, Step(h, pc) PROVE http'[h].pc = pc /\ http'[h].token = http[h].token
  BY <1>1, <1>5 DEF Step
<1>6. ASSUME Writing(h)
      PROVE  /\ Target(h) \in Ids \ uploaded
             /\ \A k \in Requests \ {h} : http[k].pc = "copy" => Target(k) # Target(h)
  BY <1>6 DEF CarefulInv, UploadInv, Writing, ForUpload, Settled, Target
\* What holds of the blobs of others when h writes to its own
<1>7. ASSUME Writing(h), \A id \in Ids \ {Target(h)} : blob'[id] = blob[id],
             http'[h].pc = "copy" /\ Target(h)' \in DOMAIN dsRecords => blob'[Target(h)'] = h,
             \A id \in uploaded' \ uploaded : id \in DOMAIN dsRecords => blob'[id] = "whole",
             uploaded \subseteq uploaded'
      PROVE  BlobInv'
  <2>1. ASSUME NEW k \in Requests, http'[k].pc = "copy", Target(k)' \in DOMAIN dsRecords
        PROVE  blob'[Target(k)'] = k
    <3>1. CASE k = h
      BY <1>7, <2>1, <3>1
    <3>2. CASE k # h
      <4>1. http[k].pc = "copy" /\ Target(k)' = Target(k) /\ Target(k) # Target(h)
        BY <1>3, <1>6, <1>7, <2>1, <3>2 DEF Target
      <4>2. Target(k) \in Ids
        BY <4>1 DEF CarefulInv, UploadInv, Writing, ForUpload, Settled, Target
      <4> QED
        BY <1>7, <2>1, <4>1, <4>2 DEF CarefulInv, BlobInv
    <3> QED
      BY <3>1, <3>2
  <2>2. ASSUME NEW id \in uploaded' \cap DOMAIN dsRecords PROVE blob'[id] = "whole"
    <3>1. CASE id \in uploaded
      <4>1. id \in Ids /\ id # Target(h)
        BY <1>6, <1>7, <3>1 DEF CarefulInv, OInv, OsTypeOK
      <4> QED
        BY <1>7, <2>2, <3>1, <4>1 DEF CarefulInv, BlobInv
    <3> QED
      BY <1>7, <2>2, <3>1
  <2>3. \A id \in DOMAIN dsRecords :
          dsRecords[id].complete /\ dsRecords[id].dataType \in BlobTypes => id \in uploaded'
    BY <1>7 DEF CarefulInv, BlobInv
  <2> QED
    BY <1>2, <2>1, <2>2, <2>3 DEF BlobInv
<1>8. CASE PutCreate(h)
  <2>1. Writing(h) /\ uploaded' = uploaded /\ Target(h)' = Target(h)
    BY <1>5, <1>8 DEF PutCreate, Writing, Target
  <2>2. blob' = [blob EXCEPT ![Target(h)] = h]
    BY <1>8 DEF PutCreate, Target
  <2>3. /\ \A id \in Ids \ {Target(h)} : blob'[id] = blob[id]
        /\ blob'[Target(h)] = h
    BY <1>1, <1>6, <2>1, <2>2
  <2> QED
    BY <1>7, <2>1, <2>3
<1>9. ASSUME NEW content, http[h].pc = "copy", Written(h, content)
      PROVE  /\ \A id \in Ids \ {Target(h)} : blob'[id] = blob[id]
             /\ Target(h) \in DOMAIN dsRecords => blob'[Target(h)] = content
  <2>1. Target(h) \in DOMAIN dsRecords => blob[Target(h)] = h
    BY <1>9 DEF CarefulInv, BlobInv
  <2>2. blob' = IF blob[Target(h)] = h THEN [blob EXCEPT ![Target(h)] = content] ELSE blob
    BY <1>9 DEF Written, Target
  <2> QED
    BY <1>1, <1>6, <1>9, <2>1, <2>2 DEF Writing
<1>10. CASE PutFinish(h)
  <2>1. Writing(h) /\ uploaded' = uploaded \cup {Target(h)} /\ http'[h].pc # "copy"
    BY <1>4, <1>10 DEF PutFinish, Writing, Target
  <2>2. /\ \A id \in Ids \ {Target(h)} : blob'[id] = blob[id]
        /\ Target(h) \in DOMAIN dsRecords => blob'[Target(h)] = "whole"
    BY <1>9, <1>10 DEF PutFinish
  <2> QED
    BY <1>7, <2>1, <2>2
<1>11. CASE PutAbort(h)
  <2>1. Writing(h) /\ uploaded' = uploaded /\ http'[h].pc # "copy"
    BY <1>4, <1>11 DEF PutAbort, Writing
  <2>2. \A id \in Ids \ {Target(h)} : blob'[id] = blob[id]
    BY <1>9, <1>11 DEF PutAbort
  <2> QED
    BY <1>7, <2>1, <2>2
<1>12. CASE CheckToken(h) \/ PutRefused(h) \/ GetOpen(h) \/ GetSend(h) \/ GetOwner(h) \/ GetMark(h)
  <2>1. blob' = blob /\ uploaded' = uploaded
    BY <1>12 DEF CheckToken, PutRefused, GetOpen, GetSend, GetOwner, GetMark
  <2>2. http'[h].pc # "copy"
    BY <1>1, <1>4, <1>5, <1>12 DEF CheckToken, PutRefused, GetOpen, GetSend, GetOwner, GetMark
  <2>3. \A k \in Requests : http'[k].pc = "copy" => http[k].pc = "copy" /\ Target(k)' = Target(k)
    BY <1>3, <2>2 DEF Target
  <2> QED
    BY <1>2, <2>1, <2>3 DEF CarefulInv, BlobInv
<1> QED
  BY <1>8, <1>10, <1>11, <1>12 DEF Http

LEMMA CarefulStart == OInit => CarefulInv
<1> SUFFICES ASSUME OInit PROVE CarefulInv
  OBVIOUS
<1>1. PostInv /\ DeleteInv
  BY DEF OInit, Init, IdleCall, PostInv, DeleteInv, Unlinks
<1>2. UploadInv /\ BlobInv
  BY DEF OInit, Init, NoRequest, UploadInv, Writing, BlobInv
<1> QED
  BY <1>1, <1>2, OInvInit DEF CarefulInv

LEMMA CarefulNext ==
  ASSUME Careful, CarefulInv, [ONext]_vars
  PROVE  CarefulInv'
<1>1. OInv'
  BY OInvStep DEF CarefulInv
<1>2. ASSUME NEW c \in Conns, Handle(c) PROVE CarefulInv'
  BY <1>1, <1>2, HandleUpload, HandleBlob DEF CarefulInv
<1>3. ASSUME NEW h \in Requests, Http(h) PROVE CarefulInv'
  <2>1. UNCHANGED dsVars
    BY <1>3 DEF Http, CheckToken, PutCreate, PutRefused, PutFinish, PutAbort, GetOpen, GetSend,
                GetOwner, GetMark
  <2>2. PostInv' /\ DeleteInv'
    BY <2>1, PostStays DEF CarefulInv, OInv, DeleteInv, Unlinks, Settled, Inserting, dsVars
  <2> QED
    BY <1>1, <1>3, <2>2, HttpUpload, HttpBlob DEF CarefulInv
<1>4. ASSUME UNCHANGED <<dsVars, blob, http, uploaded>>,
             \A token \in tokens' \ tokens : ~ token.upload
      PROVE  CarefulInv'
  <2>1. PostInv' /\ UploadInv'
    BY <1>4, QuietUpload DEF CarefulInv
  <2>2. DeleteInv'
    BY <1>4 DEF CarefulInv, DeleteInv, Unlinks, Settled, Inserting, dsVars
  <2>3. BlobInv'
    BY <1>4 DEF CarefulInv, BlobInv, Target, dsVars
  <2> QED
    BY <1>1, <2>1, <2>2, <2>3 DEF CarefulInv
<1>5. ASSUME NEW c \in Conns, PrepareGetObject(c) PROVE CarefulInv'
  BY <1>4, <1>5 DEF PrepareGetObject, NewObjectToken
<1>6. ASSUME ExpireToken PROVE CarefulInv'
  BY <1>4, <1>6 DEF ExpireToken
<1>7. ASSUME UNCHANGED vars PROVE CarefulInv'
  BY <1>4, <1>7 DEF vars, osVars
<1> QED
  BY <1>2, <1>3, <1>5, <1>6, <1>7 DEF ONext

\* With careful clients, an object that others can find has its blob, whole, as long
\* as it exists (objectstore.go, handlePut and objectDelete): no PUT empties it again,
\* though several requests, players and handlers run at once and a PUT may be broken
\* off or late, and no delayed unlink hits it.
THEOREM CompleteBlobs ==
  ASSUME Careful
  PROVE  OSpec => []CompleteIsWhole
<1>1. CarefulInv => CompleteIsWhole
  BY DEF CarefulInv, BlobInv, CompleteIsWhole
<1> QED
  BY CarefulStart, CarefulNext, <1>1, PTL DEF OSpec

=============================================================================
