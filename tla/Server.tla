------------------------------- MODULE Server -------------------------------
(***************************************************************************)
(* The DataStore and object store servers together with the table's file:  *)
(* modules ObjectStore and Persistence over one object table.  A restart   *)
(* keeps the file and the blobs, which have no link between them but the   *)
(* dataId, and loses tokens, finds and every request in progress.  The id   *)
(* counter starts again above the ids that survived (dsLoad), so that an id *)
(* may be handed out to a second object while the blob of the first is      *)
(* still there.                                                            *)
(***************************************************************************)
EXTENDS ObjectStore

CONSTANTS
  MaxRestarts,   \* bound: restarts
  MaxFailures    \* bound: writes of the file that fail

VARIABLES
  file, flusher, writeLost, restarts, failures,  \* as in Persistence
  made,      \* observer: dataId -> the restart after which its object was posted
  written,   \* observer: dataId -> the restart after which its blob was last emptied
  unlinked   \* observer: the ids whose object was deleted, blob and all

P == INSTANCE Persistence

fileVars == <<file, flusher, writeLost, restarts, failures>>
observers == <<made, written, unlinked>>
sVars == <<vars, fileVars, observers>>

SInit ==
  /\ OInit
  /\ P!PInit
  /\ made = [id \in Ids |-> 0]
  /\ written = [id \in Ids |-> 0]
  /\ unlinked = {}

\* A step of a DataStore handler: its effect on table, tokens and blobs, and on
\* the copy that the flusher is encoding.
SHandle(c) ==
  /\ Handle(c)
  /\ P!Share
  /\ made' = IF Inserting(c) THEN [made EXCEPT ![call[c].id] = restarts] ELSE made
  /\ unlinked' = CASE Inserting(c) -> unlinked \ {call[c].id}
                   [] call[c].pc = "unlink" -> unlinked \cup {call[c].id}
                   [] OTHER -> unlinked
  /\ UNCHANGED written

SHttp(h) ==
  /\ Http(h)
  /\ written' = IF http[h].pc = "create" /\ http'[h].pc = "copy"
                THEN [written EXCEPT ![http[h].token.id] = restarts] ELSE written
  /\ UNCHANGED <<fileVars, made, unlinked>>

SFlush ==
  /\ P!Flush
  /\ UNCHANGED <<osVars, observers>>

\* A blob that was being written when the process ended stays as far as it got.
BlobAfterRestart(content) == IF content \in Requests THEN "cut" ELSE content

\* Mutant: tokens outlive the process.
MutSRestart ==
  /\ P!Restart
  /\ blob' = [id \in Ids |-> BlobAfterRestart(blob[id])]
  /\ tokens' = tokens
  /\ http' = [h \in Requests |-> NoRequest]
  /\ uploaded' = {}
  /\ found' = [p \in Pids |-> {}]
  /\ UNCHANGED observers

\* Mutant: finds outlive the process.
MutSRestartFound ==
  /\ P!Restart
  /\ blob' = [id \in Ids |-> BlobAfterRestart(blob[id])]
  /\ tokens' = {}
  /\ http' = [h \in Requests |-> NoRequest]
  /\ uploaded' = {}
  /\ found' = found
  /\ UNCHANGED observers

\* The consoles lose their connections: what they had uploaded and not completed
\* they post again.
SRestart ==
  /\ P!Restart
  /\ blob' = [id \in Ids |-> BlobAfterRestart(blob[id])]
  /\ tokens' = {}
  /\ http' = [h \in Requests |-> NoRequest]
  /\ uploaded' = {}
  /\ found' = [p \in Pids |-> {}]
  /\ UNCHANGED observers

SNext ==
  \/ \E c \in Conns :
       \/ SHandle(c)
       \/ PrepareGetObject(c) /\ UNCHANGED <<fileVars, observers>>
  \/ \E h \in Requests : SHttp(h)
  \/ ExpireToken /\ UNCHANGED <<fileVars, observers>>
  \/ SFlush
  \/ SRestart

SSpec == SInit /\ [][SNext]_sVars

-----------------------------------------------------------------------------
(* Properties *)

\* What a player may download of an object that others can find is the blob
\* uploaded for this object, whole, and not what another object left under the
\* id before a restart; except that an object which was deleted comes back
\* without its blob when the server restarts before the deletion is in the file.
BlobIsOwn ==
  \A id \in DOMAIN dsRecords \ unlinked :
    dsRecords[id].complete /\ dsRecords[id].dataType \in BlobTypes
      => blob[id] = "whole" /\ written[id] >= made[id]

=============================================================================
