----------------------------- MODULE ObjectStore -----------------------------
(***************************************************************************)
(* The object store (src/objectstore.go): an HTTPS server that keeps one   *)
(* blob per dataId and takes and serves it for tokens that the DataStore    *)
(* handlers issue, and the sets of balloons each player found, which a      *)
(* download fills (markBalloonFound, src/datastore.go).  Every HTTP request *)
(* runs in a goroutine of its own.                                          *)
(*                                                                         *)
(* Time is left out: a token may expire at any moment.  An expired token is *)
(* refused whether or not newObjectToken has swept it from the map.         *)
(***************************************************************************)
EXTENDS DataStore

CONSTANTS
  Requests,   \* HTTP requests the server may be handling at once
  Nobody,     \* the requesterID 0 of an upload token
  MaxTokens,  \* bound: tokens that are valid at once
  Careful     \* TRUE: a client repeats a PUT only after an error, completes an
              \* object only when its PUT was answered with 200, and deletes
              \* only objects that exist

ASSUME NobodyAssumption == Nobody \notin Pids
ASSUME RequestAssumption == Requests \cap {"none", "whole", "cut"} = {}
ASSUME CarefulAssumption == Careful \in BOOLEAN
ASSUME TokenBoundAssumption == MaxTokens \in Nat

VARIABLES
  tokens,    \* the tokens that have not expired
  blob,      \* dataId -> its file: "none", "whole", "cut", or the request whose
             \* os.Create cut it last and which is still writing it
  http,      \* per request: its next step and the token it came with
  uploaded,  \* the ids whose PUT was answered with 200
  found      \* balloonFound: player -> the balloons the player found

osVars == <<tokens, blob, http, uploaded, found>>
vars == <<dsVars, osVars>>

Token == [id : Ids, requester : Pids \cup {Nobody}, upload : BOOLEAN]

NoToken == [id |-> 0, requester |-> Nobody, upload |-> FALSE]

NoRequest == [pc |-> "idle", token |-> NoToken]

OInit ==
  /\ Init
  /\ tokens = {}
  /\ blob = [id \in Ids |-> "none"]
  /\ http = [h \in Requests |-> NoRequest]
  /\ uploaded = {}
  /\ found = [p \in Pids |-> {}]

-----------------------------------------------------------------------------
(* What the DataStore handlers ask of the object store *)

NewObjectToken(id, requester, upload) ==
  /\ Cardinality(tokens) < MaxTokens
  /\ tokens' = tokens \cup {[id |-> id, requester |-> requester, upload |-> upload]}

ObjectDelete(id) == blob' = [blob EXCEPT ![id] = "none"]

\* What a Careful client asks: it completes what it uploaded, and deletes an
\* object that exists.
CarefulRequest(c) ==
  /\ \A id \in DOMAIN dsRecords \cap DOMAIN dsRecords' :
       dsRecords'[id].complete /\ ~ dsRecords[id].complete => id \in uploaded
  /\ call'[c].op = "delete" => call'[c].id \in DOMAIN dsRecords

Handle(c) ==
  \/ /\ IssueToken(c)
     /\ NewObjectToken(call[c].id, Nobody, TRUE)
     /\ UNCHANGED <<blob, http, uploaded, found>>
  \/ /\ Unlink(c)
     /\ ObjectDelete(call[c].id)
     /\ UNCHANGED <<tokens, http, uploaded, found>>
  \/ /\ Request(c)
     /\ Careful => CarefulRequest(c)
     /\ UNCHANGED osVars
  \/ /\ Insert(c) \/ MarkDirty(c) \/ ReplaceOne(c) \/ ReplaceNone(c)
     /\ UNCHANGED osVars

\* Mutant: the id and the requester are swapped.
MutPrepareGetObject(c) ==
  \E id \in DOMAIN dsRecords :
    /\ Idle(c)
    /\ dsRecords[id].complete
    /\ NewObjectToken(PidOf[c], id, FALSE)
    /\ UNCHANGED <<dsVars, blob, http, uploaded, found>>

\* The lookup and the token are one step: nothing that happens between them
\* bears on either, since a token is not tied to a record that exists.
PrepareGetObject(c) ==
  \E id \in DOMAIN dsRecords :
    /\ Idle(c)
    /\ dsRecords[id].complete
    /\ NewObjectToken(id, PidOf[c], FALSE)
    /\ UNCHANGED <<dsVars, blob, http, uploaded, found>>

ExpireToken ==
  \E token \in tokens :
    /\ tokens' = tokens \ {token}
    /\ UNCHANGED <<dsVars, blob, http, uploaded, found>>

-----------------------------------------------------------------------------
(* HTTP *)

Step(h, pc) == http' = [http EXCEPT ![h].pc = pc]

Respond(h) == http' = [http EXCEPT ![h] = NoRequest]

\* The token is looked up once, when the request comes in.
CheckToken(h) ==
  \E token \in tokens :
    /\ http[h].pc = "idle"
    /\ Careful /\ token.upload =>
         /\ token.id \notin uploaded
         /\ \A other \in Requests : http[other].token # token
    /\ http' = [http EXCEPT ![h] = [pc |-> IF token.upload THEN "create" ELSE "open",
                                    token |-> token]]
    /\ UNCHANGED <<dsVars, tokens, blob, uploaded, found>>

\* os.Create empties the file if it exists.
PutCreate(h) ==
  /\ http[h].pc = "create"
  /\ blob' = [blob EXCEPT ![http[h].token.id] = h]
  /\ Step(h, "copy")
  /\ UNCHANGED <<dsVars, tokens, uploaded, found>>

\* The file cannot be created.
PutRefused(h) ==
  /\ http[h].pc = "create"
  /\ Respond(h)
  /\ UNCHANGED <<dsVars, tokens, blob, uploaded, found>>

\* What the end of a request's writing makes of its file: nothing, if it was
\* deleted or another request emptied it since.  (Requests for one object are
\* taken to send the same bytes, so the last to empty the file decides.)
Written(h, content) ==
  LET id == http[h].token.id
  IN  blob' = IF blob[id] = h THEN [blob EXCEPT ![id] = content] ELSE blob

\* The body arrived whole; 200.
PutFinish(h) ==
  /\ http[h].pc = "copy"
  /\ Written(h, "whole")
  /\ uploaded' = uploaded \cup {http[h].token.id}
  /\ Respond(h)
  /\ UNCHANGED <<dsVars, tokens, found>>

\* Mutant: the error of io.Copy is dropped.
MutPutAbort(h) ==
  /\ http[h].pc = "copy"
  /\ Written(h, "cut")
  /\ uploaded' = uploaded \cup {http[h].token.id}
  /\ Respond(h)
  /\ UNCHANGED <<dsVars, tokens, found>>

\* The body did not arrive whole, or writing it failed; 500, and what was
\* written stays.
PutAbort(h) ==
  /\ http[h].pc = "copy"
  /\ Written(h, "cut")
  /\ Respond(h)
  /\ UNCHANGED <<dsVars, tokens, uploaded, found>>

GetOpen(h) ==
  /\ http[h].pc = "open"
  /\ IF blob[http[h].token.id] = "none" THEN Respond(h) ELSE Step(h, "send")
  /\ UNCHANGED <<dsVars, tokens, blob, uploaded, found>>

\* io.Copy: what comes next is the same if the console got a whole blob, a cut one
\* or a part of either, since the error is dropped.
GetSend(h) ==
  /\ http[h].pc = "send"
  /\ Step(h, "owner")
  /\ UNCHANGED <<dsVars, tokens, blob, uploaded, found>>

\* Mutant: the record's owner is not compared.
MutGetOwner(h) ==
  LET token == http[h].token
  IN  /\ http[h].pc = "owner"
      /\ IF token.id \in DOMAIN dsRecords THEN Step(h, "mark") ELSE Respond(h)
      /\ UNCHANGED <<dsVars, tokens, blob, uploaded, found>>

\* The record is looked up under dsMu after the download.
GetOwner(h) ==
  LET token == http[h].token
  IN  /\ http[h].pc = "owner"
      /\ IF /\ token.id \in DOMAIN dsRecords
            /\ dsRecords[token.id].owner # token.requester
         THEN Step(h, "mark") ELSE Respond(h)
      /\ UNCHANGED <<dsVars, tokens, blob, uploaded, found>>

\* markBalloonFound, under balloonFoundMu
GetMark(h) ==
  LET token == http[h].token
  IN  /\ http[h].pc = "mark"
      /\ found' = [found EXCEPT ![token.requester] = @ \cup {token.id}]
      /\ Respond(h)
      /\ UNCHANGED <<dsVars, tokens, blob, uploaded>>

Http(h) ==
  \/ CheckToken(h)
  \/ PutCreate(h) \/ PutRefused(h) \/ PutFinish(h) \/ PutAbort(h)
  \/ GetOpen(h) \/ GetSend(h) \/ GetOwner(h) \/ GetMark(h)

ONext ==
  \/ \E c \in Conns : Handle(c) \/ PrepareGetObject(c)
  \/ \E h \in Requests : Http(h)
  \/ ExpireToken

OSpec == OInit /\ [][ONext]_vars

-----------------------------------------------------------------------------
(* Properties *)

OTypeOK ==
  /\ TypeOK
  /\ tokens \subseteq Token
  /\ blob \in [Ids -> {"none", "whole", "cut"} \cup Requests]
  /\ http \in [Requests -> [pc : {"idle", "create", "copy", "open", "send", "owner", "mark"},
                            token : Token \cup {NoToken}]]
  /\ uploaded \subseteq Ids
  /\ found \in [Pids -> SUBSET Ids]

\* "a client downloads a balloon it didn't place": no one is credited with a
\* balloon of their own, though the record is looked up after the download and
\* credited after that, and may be deleted or replaced on the way.
NobodyFindsOwn ==
  \A p \in Pids : \A id \in found[p] \cap DOMAIN dsRecords : dsRecords[id].owner # p

\* The types whose objects have a blob
BlobTypes == PrepareTypes \ MetaTypes

\* An object that others can find can be downloaded, if clients upload once and
\* complete what they uploaded: its blob is there, whole, until the record is gone.
CompleteIsWhole ==
  \A id \in DOMAIN dsRecords :
    dsRecords[id].complete /\ dsRecords[id].dataType \in BlobTypes => blob[id] = "whole"

\* The isCleared that FetchMyInfos reports to player p of p's own balloon id
IsCleared(p, id) == id \in found[p]

\* "isCleared: whether the placer's OWN balloon has been popped by someone"
ClearedWhenFound ==
  \A p, q \in Pids : \A id \in found[q] \cap DOMAIN dsRecords :
    dsRecords[id].owner = p => IsCleared(p, id)

=============================================================================
