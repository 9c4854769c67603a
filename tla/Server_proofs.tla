---------------------------- MODULE Server_proofs ----------------------------
(***************************************************************************)
(* Proofs about Server, for any number of players, connections, requests,   *)
(* restarts and failing writes: nobody is ever credited with a balloon of   *)
(* their own, and with careful clients what can be found has its own blob.  *)
(*                                                                         *)
(* Between restarts the server is ObjectStore, whose lemmas are used here.  *)
(* A restart keeps the blobs and the file.  So what is needed is said of    *)
(* the objects of the table, and of those of the file and of the copy that  *)
(* the flusher is about to write, which may become the table.               *)
(***************************************************************************)
EXTENDS Server, ObjectStore_proofs

\* The flusher and the file
FileTyped ==
  /\ Table(file)
  /\ Table(flusher.image)
  /\ flusher = [pc |-> flusher.pc, image |-> flusher.image, pending |-> flusher.pending]

ServerInv == OInv /\ FileTyped

-----------------------------------------------------------------------------
(* The steps that keep the table: the flusher's *)

\* What the handlers' invariants say does not depend on the dirty flag.
LEMMA FlagStep ==
  ASSUME OInv, UNCHANGED <<dsRecords, dsNextID, call, osVars>>, dsDirty' \in BOOLEAN
  PROVE  /\ OInv'
         /\ PostInv => PostInv'
         /\ UploadInv => UploadInv'
         /\ \A id : Settled(id)' <=> Settled(id)
<1>1. UNCHANGED <<tokens, blob, http, uploaded, found>>
  BY DEF osVars
<1>2. IdInv'
  BY DEF OInv, IdInv, TypeInv, TypeOK, CallsOK, CallOK, FreshIds, RecordsBelow, Inserting
<1>3. \A id : Settled(id)' <=> Settled(id)
  BY DEF Settled, Inserting
<1>4. NamedInv' /\ OsTypeOK'
  BY <1>1 DEF OInv, NamedInv, Idle, OsTypeOK
<1>5. \A token : ForDownload(token)' <=> ForDownload(token)
  BY <1>3 DEF ForDownload
<1>6. \A id, p : NotOf(id, p)' <=> NotOf(id, p)
  BY DEF NotOf
<1>7. FindInv'
  BY <1>1, <1>3, <1>5, <1>6 DEF OInv, FindInv
<1>8. PostInv => PostInv'
  BY <1>3 DEF PostInv, Inserting
<1>9. \A token : ForUpload(token)' <=> ForUpload(token)
  BY <1>3 DEF ForUpload
<1>10. UploadInv => UploadInv'
  BY <1>1, <1>3, <1>9 DEF UploadInv, Writing, Target
<1> QED
  BY <1>2, <1>3, <1>4, <1>7, <1>8, <1>10 DEF OInv

\* The file is emptied or written; the copy is the table's, or is kept, or dropped.
LEMMA FlushStep ==
  ASSUME ServerInv, P!Flush
  PROVE  /\ UNCHANGED <<dsRecords, dsNextID, call>> /\ dsDirty' \in BOOLEAN
         /\ FileTyped'
         /\ file' \in {file, P!NoRecords, flusher.image}
         /\ flusher'.image \in {flusher.image, P!NoRecords, dsRecords}
         /\ restarts' = restarts
<1>0. /\ FileTyped /\ Table(dsRecords) /\ dsDirty \in BOOLEAN
      /\ flusher = [pc |-> flusher.pc, image |-> flusher.image, pending |-> flusher.pending]
  BY DEF ServerInv, OInv, IdInv, TypeInv, TypeOK, Table, FileTyped
<1>1. Table(P!NoRecords)
  BY DEF Table, P!NoRecords
<1>2. UNCHANGED <<dsRecords, dsNextID, call, restarts>> /\ dsDirty' \in BOOLEAN
  BY <1>0 DEF P!Flush, P!FlushTake, P!FlushCopy, P!FlushEncode, P!FlushTruncate, P!FlushWrite,
              P!FlushFails, P!bounds, P!dsVars, dsVars
<1>3. ASSUME NEW image \in {flusher.image, P!NoRecords, dsRecords}, NEW pc, NEW pending,
             flusher' = [pc |-> pc, image |-> image, pending |-> pending],
             file' \in {file, P!NoRecords, flusher.image}
      PROVE  /\ FileTyped'
             /\ flusher'.image \in {flusher.image, P!NoRecords, dsRecords}
  <2>1. flusher'.image = image
    BY <1>3
  <2>2. Table(image) /\ Table(file')
    BY <1>0, <1>1, <1>3 DEF FileTyped
  <2> QED
    BY <1>3, <2>1, <2>2 DEF FileTyped, Table
<1>4. CASE P!FlushTake
  <2>1. flusher' = [pc |-> "copy", image |-> flusher.image, pending |-> flusher.pending]
    BY <1>0, <1>4 DEF P!FlushTake
  <2>2. file' = file
    BY <1>4 DEF P!FlushTake
  <2> QED
    BY <1>2, <1>3, <2>1, <2>2
<1>5. CASE P!FlushCopy
  <2>1. flusher' = [pc |-> "encode", image |-> dsRecords, pending |-> DOMAIN dsRecords]
    BY <1>5 DEF P!FlushCopy
  <2>2. file' = file
    BY <1>5 DEF P!FlushCopy
  <2> QED
    BY <1>2, <1>3, <2>1, <2>2
<1>6. CASE P!FlushEncode
  <2>1. PICK id \in flusher.pending : flusher' = [flusher EXCEPT !.pending = @ \ {id}]
    BY <1>6 DEF P!FlushEncode
  <2>2. flusher' = [pc |-> flusher.pc, image |-> flusher.image, pending |-> flusher.pending \ {id}]
    BY <1>0, <2>1
  <2>3. file' = file
    BY <1>6 DEF P!FlushEncode
  <2> QED
    BY <1>2, <1>3, <2>2, <2>3
<1>7. CASE P!FlushTruncate
  <2>1. flusher' = [pc |-> "write", image |-> flusher.image, pending |-> flusher.pending]
    BY <1>0, <1>7 DEF P!FlushTruncate
  <2>2. file' = P!NoRecords
    BY <1>7 DEF P!FlushTruncate
  <2> QED
    BY <1>2, <1>3, <2>1, <2>2
<1>8. CASE P!FlushWrite \/ P!FlushFails
  <2>1. flusher' = [pc |-> "sleep", image |-> P!NoRecords, pending |-> {}]
    BY <1>8 DEF P!FlushWrite, P!FlushFails, P!Sleeping
  <2>2. file' \in {file, flusher.image}
    BY <1>8 DEF P!FlushWrite, P!FlushFails
  <2> QED
    BY <1>2, <1>3, <2>1, <2>2
<1> QED
  BY <1>4, <1>5, <1>6, <1>7, <1>8 DEF P!Flush

\* A rating that reaches the copy changes no more of it than the ratings.
LEMMA ShareStep ==
  ASSUME FileTyped, Table(dsRecords)', P!Share
  PROVE  /\ FileTyped' /\ file' = file /\ restarts' = restarts
         /\ SameObjects(flusher.image, flusher'.image)
<1> DEFINE shared == P!SharedRatings
<1>1. flusher' = [pc |-> flusher.pc, image |-> shared, pending |-> flusher.pending]
  BY DEF P!Share, FileTyped
<1>2. file' = file /\ restarts' = restarts
  BY DEF P!Share, P!bounds
<1>3. DOMAIN shared = DOMAIN flusher.image
  BY DEF P!SharedRatings
<1>4. ASSUME NEW id \in DOMAIN flusher.image
      PROVE  /\ shared[id] \in Record
             /\ shared[id].owner = flusher.image[id].owner
             /\ shared[id].dataType = flusher.image[id].dataType
             /\ shared[id].complete = flusher.image[id].complete
  <2>1. flusher.image[id] \in Record
    BY <1>4 DEF FileTyped, Table
  <2>2. CASE id \in flusher.pending \cap DOMAIN dsRecords \cap DOMAIN dsRecords'
    <3>1. dsRecords'[id] \in Record
      BY <2>2 DEF Table
    <3>2. shared[id] = [flusher.image[id] EXCEPT !.ratings = dsRecords'[id].ratings]
      BY <2>2 DEF P!SharedRatings
    <3> HIDE DEF shared
    <3> QED
      BY <2>1, <3>1, <3>2 DEF Record
  <2>3. CASE id \notin flusher.pending \cap DOMAIN dsRecords \cap DOMAIN dsRecords'
    <3>1. shared[id] = flusher.image[id]
      BY <1>4, <2>3 DEF P!SharedRatings
    <3> HIDE DEF shared
    <3> QED
      BY <2>1, <3>1
  <2> QED
    BY <2>2, <2>3
<1>5. shared = [id \in DOMAIN flusher.image |-> shared[id]]
  BY DEF P!SharedRatings
<1> HIDE DEF shared
<1>6. Table(shared)
  BY <1>3, <1>4, <1>5 DEF Table, FileTyped
<1>7. flusher'.image = shared
  BY <1>1
<1> QED
  BY <1>1, <1>2, <1>3, <1>4, <1>6, <1>7 DEF FileTyped, SameObjects

-----------------------------------------------------------------------------
(* Restarts *)

\* The counter is above the ids that were loaded.
LEMMA SeededCounter ==
  ASSUME Table(file)
  PROVE  /\ P!NextIDAfter(file) \in 1..(MaxId + 1)
         /\ \A id \in DOMAIN file : id < P!NextIDAfter(file)
BY NextIDExists DEF Table, P!NextIDAfter

\* The table is that of the file, and nothing is in progress.
LEMMA RestartStep ==
  ASSUME ServerInv, SRestart
  PROVE  /\ ServerInv' /\ PostInv' /\ UploadInv'
         /\ \A id \in DOMAIN file : Settled(id)'
<1>1. /\ dsRecords' = file /\ dsNextID' = P!NextIDAfter(file) /\ dsDirty' = FALSE
      /\ call' = [c \in Conns |-> IdleCall]
      /\ flusher' = [pc |-> "sleep", image |-> P!NoRecords, pending |-> {}]
      /\ file' = file
  BY DEF SRestart, P!Restart, P!Sleeping, P!IdleCall, IdleCall
<1>2. /\ tokens' = {} /\ http' = [h \in Requests |-> NoRequest] /\ uploaded' = {}
      /\ found' = [p \in Pids |-> {}]
      /\ blob' = [id \in Ids |-> BlobAfterRestart(blob[id])]
  BY DEF SRestart
<1>3. Table(file) /\ Table(P!NoRecords)
  BY DEF ServerInv, FileTyped, Table, P!NoRecords
<1>4. /\ P!NextIDAfter(file) \in 1..(MaxId + 1)
      /\ \A id \in DOMAIN file : id < P!NextIDAfter(file)
  BY <1>3, SeededCounter
<1>5. TypeOK'
  BY <1>1, <1>3, <1>4 DEF TypeOK, Table, IdleCall, Pcs, Ops
<1>6. (CallsOK /\ FreshIds /\ RecordsBelow)'
  BY <1>1, <1>4 DEF CallsOK, CallOK, FreshIds, RecordsBelow, Inserting, IdleCall
<1>7. NamedInv' /\ PostInv'
  BY <1>1 DEF NamedInv, PostInv, Idle, IdleCall
<1>8. blob' \in [Ids -> {"none", "whole", "cut"} \cup Requests]
  BY <1>2 DEF ServerInv, OInv, OsTypeOK, BlobAfterRestart
<1>9. OsTypeOK' /\ FindInv' /\ UploadInv'
  BY <1>2, <1>8 DEF OsTypeOK, FindInv, UploadInv, Writing, NoRequest
<1>10. FileTyped'
  BY <1>1, <1>3 DEF FileTyped, Table
<1>11. \A id \in DOMAIN file : Settled(id)'
  BY <1>1, <1>3, <1>4 DEF Settled, Inserting, IdleCall, Table
<1> QED
  BY <1>5, <1>6, <1>7, <1>9, <1>10, <1>11 DEF ServerInv, OInv, IdInv, TypeInv

-----------------------------------------------------------------------------
(* The other steps, and the first theorem *)

\* A step of a handler, of its request for a download, or of an HTTP request is one
\* of ObjectStore.
LEMMA StoreStep ==
  ASSUME ServerInv,
         \/ \E c \in Conns : SHandle(c) \/ (PrepareGetObject(c) /\ UNCHANGED fileVars)
         \/ \E h \in Requests : SHttp(h)
         \/ ExpireToken /\ UNCHANGED fileVars
         \/ UNCHANGED <<vars, fileVars>>
  PROVE  /\ [ONext]_vars /\ ServerInv'
         /\ file' = file /\ restarts' = restarts
         /\ SameObjects(flusher.image, flusher'.image)
<1>1. [ONext]_vars
  BY DEF ONext, SHandle, SHttp
<1>2. OInv'
  BY <1>1, OInvStep DEF ServerInv
<1>3. Table(dsRecords)'
  BY <1>2 DEF OInv, IdInv, TypeInv, TypeOK, Table
<1>4. CASE UNCHANGED fileVars
  <2>1. file' = file /\ flusher' = flusher /\ restarts' = restarts
    BY <1>4 DEF fileVars
  <2>2. FileTyped'
    BY <2>1 DEF ServerInv, FileTyped, Table
  <2> QED
    BY <1>1, <1>2, <2>1, <2>2 DEF ServerInv, SameObjects
<1>5. CASE P!Share
  BY <1>1, <1>2, <1>3, <1>5, ShareStep DEF ServerInv
<1> QED
  BY <1>4, <1>5 DEF SHandle, SHttp

LEMMA ServerInit == SInit => ServerInv
<1> SUFFICES ASSUME SInit PROVE ServerInv
  OBVIOUS
<1>1. /\ file = P!NoRecords
      /\ flusher = [pc |-> "sleep", image |-> P!NoRecords, pending |-> {}]
  BY DEF SInit, P!PInit, P!Sleeping
<1>2. Table(P!NoRecords)
  BY DEF Table, P!NoRecords
<1>3. FileTyped
  BY <1>1, <1>2 DEF FileTyped
<1> QED
  BY <1>3, OInvInit DEF SInit, ServerInv

LEMMA ServerNext == ServerInv /\ [SNext]_sVars => ServerInv'
<1> SUFFICES ASSUME ServerInv, [SNext]_sVars PROVE ServerInv'
  OBVIOUS
<1>1. CASE SFlush
  BY <1>1, FlushStep, FlagStep DEF SFlush, ServerInv
<1>2. CASE SRestart
  BY <1>2, RestartStep
<1>3. CASE UNCHANGED sVars
  BY <1>3, StoreStep DEF sVars
<1>4. ASSUME NEW c \in Conns,
             SHandle(c) \/ (PrepareGetObject(c) /\ UNCHANGED <<fileVars, observers>>)
      PROVE  ServerInv'
  BY <1>4, StoreStep
<1>5. ASSUME NEW h \in Requests, SHttp(h) PROVE ServerInv'
  BY <1>5, StoreStep
<1>6. CASE ExpireToken /\ UNCHANGED <<fileVars, observers>>
  BY <1>6, StoreStep
<1>7. SNext \/ UNCHANGED sVars
  OBVIOUS
<1>8. CASE SNext
  BY <1>1, <1>2, <1>4, <1>5, <1>6, <1>8 DEF SNext
<1> QED
  BY <1>3, <1>7, <1>8

\* Nobody is credited with a balloon of their own (markBalloonFound), though ids are
\* handed out again after a restart that lost their objects: finds and downloads in
\* progress do not outlive the process that issued their ids.
THEOREM FindsAreOthersAcrossRestarts == SSpec => []NobodyFindsOwn
<1>1. ServerInv => NobodyFindsOwn
  BY DEF ServerInv, OInv, FindInv, NotOf, NobodyFindsOwn
<1> QED
  BY ServerInit, ServerNext, <1>1, PTL DEF SSpec

\* Persistence is about the same handlers, whose every step changes the table the same.
LEMMA SameHandlers ==
  ASSUME NEW c \in Conns
  PROVE  (Request(c) \/ Continue(c)) <=> (P!Request(c) \/ P!Continue(c))
<1>1. PreparePostObject(c) <=> P!PreparePostObject(c)
  BY DEF PreparePostObject, P!PreparePostObject, Allocate, P!Allocate, Idle, P!Idle, Enter, P!Enter
<1>2. PostMetaBinary(c) <=> P!PostMetaBinary(c)
  BY DEF PostMetaBinary, P!PostMetaBinary, Allocate, P!Allocate, Idle, P!Idle, Enter, P!Enter
<1>3. CompletePostObject(c) <=> P!CompletePostObject(c)
  BY DEF CompletePostObject, P!CompletePostObject, Restrict, P!Restrict, Idle, P!Idle, MayName, P!MayName, Enter, P!Enter, Ids, P!Ids
<1>4. DeleteObject(c) <=> P!DeleteObject(c)
  BY DEF DeleteObject, P!DeleteObject, Restrict, P!Restrict, Idle, P!Idle, MayName, P!MayName, Enter, P!Enter, Ids, P!Ids
<1>5. RateObject(c) <=> P!RateObject(c)
  BY DEF RateObject, P!RateObject, Idle, P!Idle, RatingRoom, P!RatingRoom, RateIn, P!RateIn, RateRecord, P!RateRecord, AddRating, P!AddRating, Enter, P!Enter, Ids, P!Ids
<1>6. RateObjects(c) <=> P!RateObjects(c)
  BY DEF RateObjects, P!RateObjects, Idle, P!Idle, RatingRoom, P!RatingRoom, RateIn, P!RateIn, RateRecord, P!RateRecord, AddRating, P!AddRating, Enter, P!Enter, Ids, P!Ids
<1>7. Insert(c) <=> P!Insert(c)
  BY DEF Insert, P!Insert, Goto, P!Goto, Put, P!Put, NewRecord, P!NewRecord, SeedRatings, P!SeedRatings, RatingInits, P!RatingInits
<1>8. MarkDirty(c) <=> P!MarkDirty(c)
  BY DEF MarkDirty, P!MarkDirty, Answer, P!Answer, Goto, P!Goto, AfterMark, P!AfterMark, IdleCall, P!IdleCall
<1>9. ReplaceOne(c) <=> P!ReplaceOne(c)
  BY DEF ReplaceOne, P!ReplaceOne, Restrict, P!Restrict, Previous, P!Previous, Enter, P!Enter
<1>10. ReplaceNone(c) <=> P!ReplaceNone(c)
  BY DEF ReplaceNone, P!ReplaceNone, Previous, P!Previous, Answer, P!Answer, IdleCall, P!IdleCall
<1>11. IssueToken(c) <=> P!IssueToken(c)
  BY DEF IssueToken, P!IssueToken, Answer, P!Answer, IdleCall, P!IdleCall
<1>12. Unlink(c) <=> P!Unlink(c)
  BY DEF Unlink, P!Unlink, Answer, P!Answer, IdleCall, P!IdleCall
<1> QED
  BY <1>1, <1>2, <1>3, <1>4, <1>5, <1>6, <1>7, <1>8, <1>9, <1>10, <1>11, <1>12
     DEF Request, Continue, P!Request, P!Continue

\* The server's table, file and flusher are those of Persistence: restarts included,
\* every step of the server is one of its steps or leaves them alone.
THEOREM ServerPersists == SSpec => P!PSpec
<1>1. SInit => P!PInit
  BY DEF SInit
<1>2. ASSUME [SNext]_sVars PROVE [P!PNext]_P!vars
  <2>1. ASSUME UNCHANGED <<dsVars, fileVars>> PROVE UNCHANGED P!vars
    BY <2>1 DEF dsVars, fileVars, P!vars, P!dsVars, P!bounds
  <2>2. CASE UNCHANGED sVars
    BY <2>1, <2>2 DEF sVars, vars
  <2>3. ASSUME NEW c \in Conns, SHandle(c) PROVE P!PNext
    <3>1. Request(c) \/ Continue(c)
      BY <2>3 DEF SHandle, Handle, Continue
    <3>2. P!Request(c) \/ P!Continue(c)
      BY <3>1, SameHandlers
    <3> QED
      BY <2>3, <3>2 DEF SHandle, P!PNext, P!Handle
  <2>4. ASSUME NEW c \in Conns, PrepareGetObject(c) /\ UNCHANGED <<fileVars, observers>>
        PROVE  UNCHANGED P!vars
    BY <2>1, <2>4 DEF PrepareGetObject
  <2>5. ASSUME NEW h \in Requests, SHttp(h) PROVE UNCHANGED P!vars
    BY <2>1, <2>5 DEF SHttp, Http, CheckToken, PutCreate, PutRefused, PutFinish, PutAbort,
                      GetOpen, GetSend, GetOwner, GetMark
  <2>6. CASE ExpireToken /\ UNCHANGED <<fileVars, observers>>
    BY <2>1, <2>6 DEF ExpireToken
  <2>7. CASE SFlush
    BY <2>7 DEF SFlush, P!PNext
  <2>8. CASE SRestart
    BY <2>8 DEF SRestart, P!PNext
  <2> QED
    BY <1>2, <2>2, <2>3, <2>4, <2>5, <2>6, <2>7, <2>8 DEF SNext
<1> QED
  BY <1>1, <1>2, PTL DEF SSpec, P!PSpec

-----------------------------------------------------------------------------
(* Blobs.  What a restart keeps, and what the next process may do to it: an *)
(* object that is complete stays downloadable since no token to upload its  *)
(* blob is left, or none that a careful client would still use; and the ids *)
(* that are handed out again are those of objects the file does not have.   *)

Preparing(c) == call[c].op = "prepare"

\* There is a token to upload a blob for the id, or a request that has one, or a
\* handler that will issue one.
Uploading(id) ==
  \/ \E token \in tokens : token.upload /\ token.id = id
  \/ \E h \in Requests : Writing(h) /\ Target(h) = id
  \/ \E c \in Conns : Preparing(c) /\ call[c].id = id

\* The blob is the one uploaded for the object, with this content, or was deleted
\* with the object.
HasOwn(id, content) == id \in unlinked \/ (blob[id] = content /\ written[id] >= made[id])

\* The object's blob is whole and stays so.
ForGood(id) ==
  /\ Settled(id)
  /\ HasOwn(id, "whole")
  /\ id \in uploaded \/ ~ Uploading(id)

Finished(recs, id) == recs[id].complete /\ recs[id].dataType \in BlobTypes

\* A table that is, or may be after a restart, the one that players search
Kept(recs) == \A id \in DOMAIN recs : Settled(id) /\ (Finished(recs, id) => ForGood(id))

Counted ==
  /\ restarts \in Nat /\ made \in [Ids -> Nat] /\ written \in [Ids -> Nat]
  /\ \A id \in Ids : made[id] <= restarts

OwnInv ==
  /\ Counted
  /\ \A id \in uploaded : ForGood(id)
  /\ \A h \in Requests : http[h].pc = "copy" => HasOwn(Target(h), h)
  /\ Kept(dsRecords) /\ Kept(flusher.image) /\ Kept(file)

BlobsInv == ServerInv /\ PostInv /\ UploadInv /\ OwnInv

-----------------------------------------------------------------------------
(* Handlers *)

\* A handler that will issue a token to upload began with an id of its own.
LEMMA PreparingStays ==
  ASSUME IdInv, [Next]_dsVars, NEW id, Settled(id),
         NEW d \in Conns, Preparing(d)', call'[d].id = id
  PROVE  Preparing(d) /\ call[d].id = id
<1>1. /\ dsNextID \in Int /\ id \in Int /\ id < dsNextID
      /\ call \in [Conns -> [pc : Pcs, op : Ops, id : Ids \cup {0},
                             dataType : DataTypes \cup {0}]]
  BY DEF IdInv, TypeInv, TypeOK, Settled, Ids
<1>2. ASSUME NEW c \in Conns, \A e \in Conns \ {c} : call'[e] = call[e],
             call'[c].op # "prepare"
      PROVE  Preparing(d) /\ call[d].id = id
  BY <1>2 DEF Preparing
<1>3. ASSUME NEW c \in Conns, NEW op \in {"prepare", "meta"}, NEW type \in DataTypes,
             Allocate(c, op, type)
      PROVE  Preparing(d) /\ call[d].id = id
  <2>1. call'[c].id = dsNextID /\ \A e \in Conns \ {c} : call'[e] = call[e]
    BY <1>1, <1>3 DEF Allocate, Enter
  <2> QED
    BY <1>1, <2>1 DEF Preparing
<1>4. ASSUME NEW c \in Conns, Insert(c) PROVE Preparing(d) /\ call[d].id = id
  BY <1>1, <1>4 DEF Insert, Goto, Preparing
<1>5. ASSUME NEW c \in Conns, NEW op \in {"update", "delete"}, NEW i,
             Enter(c, "mark", op, i, 0)
      PROVE  Preparing(d) /\ call[d].id = id
  BY <1>1, <1>2, <1>5 DEF Enter
<1>6. ASSUME NEW c \in Conns, Mutates(c) PROVE Preparing(d) /\ call[d].id = id
  <2>1. TypeOK
    BY DEF IdInv, TypeInv
  <2>2. PICK op \in {"update", "delete"}, i \in Ids : Enter(c, "mark", op, i, 0)
    BY <1>6, <2>1, MutatesStep
  <2> QED
    BY <1>5, <2>2
<1>7. ASSUME NEW c \in Conns, ReplaceOne(c) PROVE Preparing(d) /\ call[d].id = id
  BY <1>1, <1>5, <1>7, ReplaceOneStep
<1>8. ASSUME NEW c \in Conns, MarkDirty(c) PROVE Preparing(d) /\ call[d].id = id
  BY <1>1, <1>8 DEF MarkDirty, Answer, Goto, IdleCall, Preparing
<1>9. ASSUME NEW c \in Conns, ReplaceNone(c) \/ IssueToken(c) \/ Unlink(c)
      PROVE  Preparing(d) /\ call[d].id = id
  BY <1>1, <1>9 DEF ReplaceNone, IssueToken, Unlink, Answer, IdleCall, Preparing
<1>10. ASSUME UNCHANGED dsVars PROVE Preparing(d) /\ call[d].id = id
  BY <1>10 DEF dsVars, Preparing
<1>11. Steps
  BY StepCases
<1> QED
  BY <1>3, <1>4, <1>6, <1>7, <1>8, <1>9, <1>10, <1>11 DEF Steps

\* A handler leaves the blobs of settled ids as they are, or deletes one.
LEMMA HandleForGood ==
  ASSUME BlobsInv, NEW c \in Conns, SHandle(c), NEW id, Settled(id)
  PROVE  /\ Settled(id)'
         /\ \A content : HasOwn(id, content) => HasOwn(id, content)'
         /\ ForGood(id) => ForGood(id)'
<1>1. /\ IdInv /\ [Next]_dsVars /\ id \in Ids
      /\ made \in [Ids -> Nat] /\ blob \in [Ids -> {"none", "whole", "cut"} \cup Requests]
  BY DEF BlobsInv, ServerInv, OInv, OsTypeOK, OwnInv, Counted, Settled, SHandle, Handle, Next,
         Request, Continue
<1>2. Settled(id)'
  BY <1>1, SettledStays
<1>3. UNCHANGED <<http, uploaded, written>>
  BY DEF SHandle, Handle, osVars
<1>4. Inserting(c) => call[c].id # id
  BY DEF Settled
<1>5. made'[id] = made[id]
  BY <1>1, <1>4 DEF SHandle
<1>6. unlinked' = CASE Inserting(c) -> unlinked \ {call[c].id}
                    [] call[c].pc = "unlink" -> unlinked \cup {call[c].id}
                    [] OTHER -> unlinked
  BY DEF SHandle
<1>7. id \in unlinked => id \in unlinked'
  BY <1>4, <1>6
<1>8. blob'[id] = blob[id] \/ id \in unlinked'
  <2>1. CASE Unlink(c) /\ ObjectDelete(call[c].id)
    <3>1. call[c].pc = "unlink" /\ ~ Inserting(c)
      BY <2>1 DEF Unlink, Inserting
    <3>2. unlinked' = unlinked \cup {call[c].id}
      BY <1>6, <3>1
    <3> QED
      BY <1>1, <2>1, <3>2 DEF ObjectDelete
  <2>2. CASE blob' = blob
    BY <2>2
  <2> QED
    BY <2>1, <2>2 DEF SHandle, Handle, osVars
<1>9. \A content : HasOwn(id, content) => HasOwn(id, content)'
  BY <1>3, <1>5, <1>7, <1>8 DEF HasOwn
<1>10. ASSUME Uploading(id)' PROVE Uploading(id)
  <2>1. CASE \E token \in tokens' : token.upload /\ token.id = id
    <3>1. PICK token \in tokens' : token.upload /\ token.id = id
      BY <2>1
    <3>2. CASE token \in tokens
      BY <3>1, <3>2 DEF Uploading
    <3>3. CASE token \notin tokens
      <4>1. IssueToken(c) /\ NewObjectToken(call[c].id, Nobody, TRUE)
        BY <3>3 DEF SHandle, Handle, osVars
      <4>2. call[c].pc = "token" /\ call[c].op = "prepare"
        BY <4>1 DEF IssueToken, BlobsInv, PostInv
      <4>3. token = [id |-> call[c].id, requester |-> Nobody, upload |-> TRUE]
        BY <3>3, <4>1 DEF NewObjectToken
      <4>4. call[c].id = id
        BY <3>1, <4>3
      <4> QED
        BY <4>2, <4>4 DEF Uploading, Preparing
    <3> QED
      BY <3>2, <3>3
  <2>2. CASE \E h \in Requests : Writing(h)' /\ Target(h)' = id
    BY <1>3, <2>2 DEF Uploading, Writing, Target
  <2>3. CASE \E d \in Conns : Preparing(d)' /\ call'[d].id = id
    BY <1>1, <2>3, PreparingStays DEF Uploading
  <2> QED
    BY <1>10, <2>1, <2>2, <2>3 DEF Uploading
<1>11. ForGood(id) => ForGood(id)'
  BY <1>2, <1>3, <1>9, <1>10 DEF ForGood
<1> QED
  BY <1>2, <1>9, <1>11

\* Tables that hold the same objects are kept alike.
LEMMA SameKept ==
  ASSUME NEW recs, NEW recs2, SameObjects(recs, recs2), Kept(recs)
  PROVE  Kept(recs2)
BY DEF SameObjects, Kept, Finished

LEMMA HandleOwn ==
  ASSUME Careful, BlobsInv, NEW c \in Conns, SHandle(c)
  PROVE  BlobsInv'
<1>1. Handle(c) /\ CarefulStep(c) /\ OInv /\ PostInv /\ UploadInv /\ OwnInv /\ TypeInv
  BY DEF SHandle, Handle, CarefulStep, Continue, Request, BlobsInv, ServerInv, OInv, IdInv
<1>2. /\ ServerInv' /\ file' = file /\ restarts' = restarts
      /\ SameObjects(flusher.image, flusher'.image)
  BY StoreStep DEF BlobsInv
<1>3. PostInv' /\ UploadInv'
  BY <1>1, HandleUpload
<1>4. UNCHANGED <<http, uploaded, written>>
  BY DEF SHandle, Handle, osVars
<1>5. \A id : Settled(id) =>
        /\ Settled(id)'
        /\ \A content : HasOwn(id, content) => HasOwn(id, content)'
        /\ ForGood(id) => ForGood(id)'
  BY HandleForGood
<1>6. Counted'
  <2>1. Inserting(c) => call[c].id \in Ids
    BY <1>1 DEF OInv, NamedInv, Inserting, Idle
  <2> QED
    BY <1>1, <1>2, <1>4, <2>1 DEF SHandle, OwnInv, Counted
<1>7. \A id \in uploaded' : ForGood(id)'
  BY <1>1, <1>4, <1>5 DEF OwnInv, ForGood
<1>8. ASSUME NEW h \in Requests, http'[h].pc = "copy" PROVE HasOwn(Target(h), h)'
  <2>1. PICK id : id = Target(h)
    OBVIOUS
  <2>2. Settled(id) /\ HasOwn(id, h)
    BY <1>1, <1>4, <1>8, <2>1 DEF OwnInv, UploadInv, Writing, ForUpload, Target
  <2>3. HasOwn(id, h)' /\ Target(h)' = id
    BY <1>4, <1>5, <2>1, <2>2 DEF Target
  <2> QED
    BY <2>3
<1>9. ASSUME NEW recs, Kept(recs) PROVE Kept(recs)'
  BY <1>5, <1>9 DEF Kept, Finished
<1>10. Kept(file)' /\ Kept(flusher.image)'
  <2>1. PICK old, new : old = flusher.image /\ new = flusher'.image
    OBVIOUS
  <2>2. Kept(new)
    BY <1>1, <1>2, <2>1, SameKept DEF OwnInv
  <2>3. Kept(new)'
    BY <1>9, <2>2
  <2>4. Kept(file)'
    <3>1. PICK f : f = file
      OBVIOUS
    <3>2. Kept(f)'
      BY <1>1, <1>9, <3>1 DEF OwnInv
    <3> QED
      BY <1>2, <3>1, <3>2 DEF Kept, Finished
  <2> QED
    BY <2>1, <2>3, <2>4 DEF Kept, Finished
<1>11. ASSUME NEW id \in DOMAIN dsRecords'
       PROVE  Settled(id)' /\ (Finished(dsRecords', id) => ForGood(id)')
  <2>1. Settled(id)'
    BY <1>2, <1>11, TableIsSettled DEF ServerInv, OInv, IdInv, FreshIds, RecordsBelow, Settled, TypeInv, TypeOK
  <2>2. ASSUME Finished(dsRecords', id) PROVE ForGood(id)
    <3>1. \/ id \in uploaded
          \/ id \in DOMAIN dsRecords /\ Finished(dsRecords, id)
      BY <1>1, <1>11, <2>2, CompletedStep DEF Finished
    <3> QED
      BY <1>1, <3>1 DEF OwnInv, Kept
  <2> QED
    BY <1>5, <2>1, <2>2 DEF ForGood
<1>12. Kept(dsRecords)'
  BY <1>11 DEF Kept, Finished
<1> QED
  BY <1>2, <1>3, <1>6, <1>7, <1>8, <1>10, <1>12 DEF BlobsInv, OwnInv

-----------------------------------------------------------------------------
(* HTTP requests *)

\* What an HTTP request, a token that is issued or one that expires leaves of ids
LEMMA QuietOwn ==
  ASSUME BlobsInv, UNCHANGED <<dsVars, fileVars>>
  PROVE  /\ \A id : Settled(id)' <=> Settled(id)
         /\ \A id : Preparing(id)' <=> Preparing(id)
         /\ call' = call /\ dsRecords' = dsRecords
         /\ file' = file /\ flusher' = flusher /\ restarts' = restarts
BY QuietTable DEF BlobsInv, ServerInv, dsVars, fileVars, Preparing

\* OwnInv is kept when what was for good stays so.
LEMMA OwnKept ==
  ASSUME OwnInv, UNCHANGED <<dsVars, fileVars>>, Counted',
         \A id : Settled(id) => Settled(id)',
         \A id : ForGood(id) => ForGood(id)',
         \A id \in uploaded' \ uploaded : ForGood(id)',
         \A h \in Requests : http'[h].pc = "copy" => HasOwn(Target(h), h)'
  PROVE  OwnInv'
<1>1. dsRecords' = dsRecords /\ file' = file /\ flusher' = flusher
  BY DEF dsVars, fileVars
<1>2. Kept(dsRecords)' /\ Kept(file)' /\ Kept(flusher.image)'
  BY <1>1 DEF OwnInv, Kept, Finished
<1>3. \A id \in uploaded' : ForGood(id)'
  BY DEF OwnInv
<1> QED
  BY <1>2, <1>3 DEF OwnInv

\* A request writes to no blob but that of its target, for which it is the only one.
LEMMA HttpOwn ==
  ASSUME Careful, BlobsInv, NEW h \in Requests, SHttp(h)
  PROVE  BlobsInv'
<1>1. /\ Http(h) /\ OInv /\ PostInv /\ UploadInv /\ OwnInv /\ Counted
      /\ UNCHANGED <<fileVars, made, unlinked>>
  BY DEF SHttp, BlobsInv, ServerInv, OwnInv
<1>2. /\ http \in [Requests -> [pc : {"idle", "create", "copy", "open", "send", "owner", "mark"},
                               token : Token \cup {NoToken}]]
      /\ blob \in [Ids -> {"none", "whole", "cut"} \cup Requests]
      /\ written \in [Ids -> Nat] /\ restarts \in Nat
      /\ \A id \in Ids : made[id] \in Nat /\ made[id] <= restarts
  BY <1>1 DEF OInv, OsTypeOK, Counted
<1>3. UNCHANGED <<dsVars, tokens>>
  BY <1>1 DEF Http, CheckToken, PutCreate, PutRefused, PutFinish, PutAbort, GetOpen, GetSend,
              GetOwner, GetMark
<1>4. ServerInv' /\ PostInv' /\ UploadInv'
  BY <1>1, <1>3, StoreStep, HttpUpload, PostStays DEF BlobsInv, OInv
<1>5. \A k \in Requests \ {h} : http'[k] = http[k]
  BY <1>1, <1>2 DEF Http, CheckToken, PutCreate, PutRefused, PutFinish, PutAbort, GetOpen,
              GetSend, GetOwner, GetMark, Step, Respond
<1>6. ASSUME Respond(h) PROVE http'[h].pc = "idle"
  BY <1>2, <1>6 DEF Respond, NoRequest
<1>7. ASSUME NEW pc, Step(h, pc) PROVE http'[h].pc = pc /\ http'[h].token = http[h].token
  BY <1>2, <1>7 DEF Step
<1>8. /\ \A id : Settled(id)' <=> Settled(id)
      /\ call' = call /\ restarts' = restarts /\ made' = made /\ unlinked' = unlinked
  BY <1>1, <1>3, QuietOwn
<1>9. ASSUME Writing(h)
      PROVE  /\ Target(h) \in Ids \ uploaded /\ Settled(Target(h))
             /\ \A k \in Requests \ {h} : Writing(k) => Target(k) # Target(h)
  BY <1>1, <1>9 DEF UploadInv, Writing, ForUpload, Settled, Target
\* Which tokens and requests to upload there are
<1>10. Writing(h)' => \/ Writing(h) /\ Target(h)' = Target(h)
                      \/ \E token \in tokens : token.upload /\ token.id = Target(h)'
  <2>1. CASE CheckToken(h)
    <3>1. PICK token \in tokens :
            http' = [http EXCEPT ![h] = [pc |-> IF token.upload THEN "create" ELSE "open",
                                         token |-> token]]
      BY <2>1 DEF CheckToken
    <3>2. /\ Target(h)' = token.id
          /\ Writing(h)' => token.upload
      BY <1>2, <3>1 DEF Writing, Target
    <3> QED
      BY <3>2
  <2>2. CASE PutCreate(h)
    BY <1>7, <2>2 DEF PutCreate, Writing, Target
  <2>3. CASE ~ Writing(h)'
    BY <2>3
  <2>4. ASSUME PutRefused(h) \/ PutFinish(h) \/ PutAbort(h) \/ GetOpen(h) \/ GetSend(h)
               \/ GetOwner(h) \/ GetMark(h)
        PROVE  ~ Writing(h)'
    BY <1>6, <1>7, <2>4 DEF PutRefused, PutFinish, PutAbort, GetOpen, GetSend, GetOwner,
                            GetMark, Writing
  <2> QED
    BY <1>1, <2>1, <2>2, <2>4 DEF Http
<1>11. ASSUME NEW id, Uploading(id)' PROVE Uploading(id)
  <2>1. CASE \E token \in tokens' : token.upload /\ token.id = id
    BY <1>3, <2>1 DEF Uploading
  <2>2. CASE \E k \in Requests : Writing(k)' /\ Target(k)' = id
    BY <1>5, <1>10, <2>2 DEF Uploading, Writing, Target
  <2>3. CASE \E d \in Conns : Preparing(d)' /\ call'[d].id = id
    BY <1>8, <2>3 DEF Uploading, Preparing
  <2> QED
    BY <1>11, <2>1, <2>2, <2>3 DEF Uploading
\* What the step does to blobs
<1>12. ASSUME NEW id \in Ids, blob'[id] # blob[id] \/ written'[id] # written[id]
       PROVE  Writing(h) /\ id = Target(h)
  <2>1. CASE PutCreate(h)
    <3>1. /\ Writing(h) /\ blob' = [blob EXCEPT ![Target(h)] = h]
          /\ written' = [written EXCEPT ![Target(h)] = restarts] \/ written' = written
      BY <2>1 DEF PutCreate, SHttp, Writing, Target
    <3> QED
      BY <1>2, <1>12, <3>1
  <2>2. ASSUME NEW content, http[h].pc = "copy", Written(h, content), written' = written
        PROVE  Writing(h) /\ id = Target(h)
    BY <1>2, <1>12, <2>2 DEF Written, Writing, Target
  <2>3. CASE PutFinish(h) \/ PutAbort(h)
    <3>1. http[h].pc # "create"
      BY <2>3 DEF PutFinish, PutAbort
    <3>2. written' = written
      BY <3>1 DEF SHttp
    <3> QED
      BY <2>2, <2>3, <3>2 DEF PutFinish, PutAbort
  <2>4. CASE CheckToken(h) \/ PutRefused(h) \/ GetOpen(h) \/ GetSend(h) \/ GetOwner(h) \/ GetMark(h)
    <3>1. blob' = blob
      BY <2>4 DEF CheckToken, PutRefused, GetOpen, GetSend, GetOwner, GetMark
    <3>2. ~ (http[h].pc = "create" /\ http'[h].pc = "copy")
      BY <1>6, <2>4 DEF CheckToken, PutRefused, GetOpen, GetSend, GetOwner, GetMark
    <3>3. written' = written
      BY <3>2 DEF SHttp
    <3> QED
      BY <1>12, <3>1, <3>3
  <2> QED
    BY <1>1, <2>1, <2>3, <2>4 DEF Http
<1>13. uploaded' = uploaded \/ (PutFinish(h) /\ uploaded' = uploaded \cup {Target(h)})
  BY <1>1 DEF Http, CheckToken, PutCreate, PutRefused, PutFinish, PutAbort, GetOpen, GetSend,
              GetOwner, GetMark, Target
<1>14. ASSUME NEW id \in Ids, ~ (Writing(h) /\ id = Target(h)), NEW content, HasOwn(id, content)
       PROVE  HasOwn(id, content)'
  BY <1>8, <1>12, <1>14 DEF HasOwn
<1>15. ASSUME NEW id, ForGood(id) PROVE ForGood(id)'
  <2>1. id \in Ids /\ ~ (Writing(h) /\ id = Target(h))
    BY <1>9, <1>15 DEF ForGood, Settled, Uploading
  <2>2. HasOwn(id, "whole")'
    BY <1>14, <1>15, <2>1 DEF ForGood
  <2> QED
    BY <1>8, <1>11, <1>13, <1>15, <2>2 DEF ForGood
<1>16. ASSUME NEW id \in uploaded' \ uploaded PROVE ForGood(id)'
  <2>1. PutFinish(h) /\ id = Target(h) /\ Writing(h)
    BY <1>13, <1>16 DEF PutFinish, Writing
  <2>2. Settled(id) /\ id \in Ids /\ HasOwn(id, h)
    BY <1>1, <1>9, <2>1 DEF OwnInv, PutFinish
  <2>3. blob[id] = h => blob'[id] = "whole"
    BY <1>2, <2>1, <2>2 DEF PutFinish, Written, Target
  <2>4. written' = written
    BY <2>1 DEF SHttp, PutFinish
  <2>5. HasOwn(id, "whole")'
    BY <1>8, <2>2, <2>3, <2>4 DEF HasOwn
  <2> QED
    BY <1>8, <1>16, <2>2, <2>5 DEF ForGood
<1>17. ASSUME NEW k \in Requests, http'[k].pc = "copy" PROVE HasOwn(Target(k), k)'
  <2>1. PICK id : id = Target(k)'
    OBVIOUS
  <2>2. CASE k = h
    <3>1. CASE CheckToken(h)
      BY <1>2, <1>17, <2>2, <3>1 DEF CheckToken
    <3>2. CASE PutRefused(h) \/ PutFinish(h) \/ PutAbort(h) \/ GetOpen(h) \/ GetSend(h)
               \/ GetOwner(h) \/ GetMark(h)
      BY <1>6, <1>7, <1>17, <2>2, <3>2
         DEF PutRefused, PutFinish, PutAbort, GetOpen, GetSend, GetOwner, GetMark
    <3>3. ASSUME PutCreate(h) PROVE HasOwn(Target(k), k)'
      <4>1. id = Target(h) /\ id \in Ids /\ http[h].pc = "create"
        BY <1>7, <1>9, <2>1, <2>2, <3>3 DEF PutCreate, Writing, Target
      <4>2. blob' = [blob EXCEPT ![id] = h] /\ written' = [written EXCEPT ![id] = restarts]
        BY <1>17, <2>2, <3>3, <4>1 DEF PutCreate, SHttp, Target
      <4>3. blob'[id] = k /\ written'[id] = restarts /\ made'[id] <= restarts
        BY <1>2, <1>8, <2>2, <4>1, <4>2
      <4>4. written'[id] >= made'[id]
        BY <1>2, <1>8, <4>1, <4>3
      <4> QED
        BY <2>1, <4>3, <4>4 DEF HasOwn
    <3> QED
      BY <1>1, <3>1, <3>2, <3>3 DEF Http
  <2>3. CASE k # h
    <3>1. Writing(k) /\ http[k].pc = "copy" /\ id = Target(k)
      BY <1>5, <1>17, <2>1, <2>3 DEF Writing, Target
    <3>2. id \in Ids /\ ~ (Writing(h) /\ id = Target(h)) /\ HasOwn(id, k)
      BY <1>1, <1>9, <2>3, <3>1 DEF OwnInv, UploadInv, ForUpload, Settled, Target
    <3>3. HasOwn(id, k)'
      BY <1>14, <3>2
    <3> QED
      BY <2>1, <3>3
  <2> QED
    BY <2>2, <2>3
<1>18. Counted'
  BY <1>1, <1>2, <1>8 DEF SHttp, Counted
<1>19. OwnInv'
  BY <1>1, <1>3, <1>8, <1>15, <1>16, <1>17, <1>18, OwnKept
<1> QED
  BY <1>4, <1>19 DEF BlobsInv

\* Steps that touch neither blobs nor requests: the tokens to download, and those
\* that expire
LEMMA TokenOwn ==
  ASSUME BlobsInv, UNCHANGED <<dsVars, blob, http, uploaded, fileVars, observers>>,
         \A token \in tokens' \ tokens : ~ token.upload,
         ServerInv'
  PROVE  BlobsInv'
<1>1. OInv /\ PostInv /\ UploadInv /\ OwnInv /\ Counted
  BY DEF BlobsInv, ServerInv, OwnInv
<1>2. PostInv' /\ UploadInv'
  BY <1>1, QuietUpload
<1>3. /\ \A id : Settled(id)' <=> Settled(id)
      /\ call' = call /\ restarts' = restarts
      /\ UNCHANGED <<made, written, unlinked>>
  BY QuietOwn DEF observers
<1>4. ASSUME NEW id, Uploading(id)' PROVE Uploading(id)
  BY <1>3, <1>4 DEF Uploading, Writing, Target, Preparing
<1>5. \A id, content : HasOwn(id, content)' <=> HasOwn(id, content)
  BY <1>3 DEF HasOwn
<1>6. \A id : ForGood(id) => ForGood(id)'
  BY <1>3, <1>4, <1>5 DEF ForGood
<1>7. ASSUME NEW h \in Requests, http'[h].pc = "copy" PROVE HasOwn(Target(h), h)'
  <2>1. PICK id : id = Target(h) /\ id = Target(h)'
    BY DEF Target
  <2>2. HasOwn(id, h)
    BY <1>1, <1>7, <2>1 DEF OwnInv
  <2>3. HasOwn(id, h)'
    BY <1>5, <2>2
  <2> QED
    BY <2>1, <2>3
<1>8. Counted'
  BY <1>1, <1>3 DEF Counted
<1>9. OwnInv'
  BY <1>1, <1>3, <1>6, <1>7, <1>8, OwnKept
<1> QED
  BY <1>2, <1>9 DEF BlobsInv

-----------------------------------------------------------------------------
(* Flusher and restarts *)

\* The file and the copy hold what the table did.
LEMMA FlushOwn ==
  ASSUME BlobsInv, SFlush
  PROVE  BlobsInv'
<1>1. ServerInv /\ OInv /\ PostInv /\ UploadInv /\ OwnInv /\ Counted
  BY DEF BlobsInv, ServerInv, OwnInv
<1>2. /\ UNCHANGED <<dsRecords, dsNextID, call>> /\ dsDirty' \in BOOLEAN
      /\ FileTyped'
      /\ file' \in {file, P!NoRecords, flusher.image}
      /\ flusher'.image \in {flusher.image, P!NoRecords, dsRecords}
      /\ restarts' = restarts
  BY <1>1, FlushStep DEF SFlush
<1>3. /\ UNCHANGED <<osVars, observers>>
      /\ UNCHANGED <<tokens, blob, http, uploaded, made, written, unlinked>>
  BY DEF SFlush, osVars, observers
<1>4. /\ OInv' /\ PostInv' /\ UploadInv'
      /\ \A id : Settled(id)' <=> Settled(id)
  BY <1>1, <1>2, <1>3, FlagStep
<1>5. \A id : ForGood(id)' <=> ForGood(id)
  BY <1>2, <1>3, <1>4 DEF ForGood, HasOwn, Uploading, Writing, Target, Preparing
<1>6. Kept(P!NoRecords)
  BY DEF Kept, P!NoRecords
<1>7. Kept(file') /\ Kept(flusher'.image) /\ Kept(dsRecords')
  BY <1>1, <1>2, <1>6 DEF OwnInv
<1>8. Kept(file)' /\ Kept(flusher.image)' /\ Kept(dsRecords)'
  BY <1>4, <1>5, <1>7 DEF Kept, Finished
<1>9. Counted' /\ \A id \in uploaded' : ForGood(id)'
  BY <1>1, <1>2, <1>3, <1>5 DEF OwnInv, Counted
<1>10. \A h \in Requests : http'[h].pc = "copy" => HasOwn(Target(h), h)'
  BY <1>1, <1>3 DEF OwnInv, HasOwn, Target
<1>11. OwnInv'
  BY <1>8, <1>9, <1>10 DEF OwnInv
<1> QED
  BY <1>2, <1>4, <1>11 DEF BlobsInv, ServerInv

\* After a restart there is nothing that could empty the blobs of what was loaded.
LEMMA RestartOwn ==
  ASSUME BlobsInv, SRestart
  PROVE  BlobsInv'
<1>1. ServerInv /\ OwnInv /\ Counted /\ blob \in [Ids -> {"none", "whole", "cut"} \cup Requests]
  BY DEF BlobsInv, ServerInv, OwnInv, OInv, OsTypeOK
<1>2. /\ ServerInv' /\ PostInv' /\ UploadInv'
      /\ \A id \in DOMAIN file : Settled(id)'
  BY <1>1, RestartStep
<1>3. /\ dsRecords' = file /\ call' = [c \in Conns |-> IdleCall] /\ file' = file
      /\ flusher'.image = P!NoRecords /\ restarts' = restarts + 1
  BY DEF SRestart, P!Restart, P!Sleeping, P!IdleCall, IdleCall
<1>4. /\ tokens' = {} /\ http' = [h \in Requests |-> NoRequest] /\ uploaded' = {}
      /\ blob' = [id \in Ids |-> BlobAfterRestart(blob[id])]
      /\ UNCHANGED <<made, written, unlinked>>
  BY DEF SRestart, observers
<1>5. \A id : ~ Uploading(id)'
  BY <1>3, <1>4 DEF Uploading, Writing, NoRequest, Preparing, IdleCall
<1>6. ASSUME NEW id \in DOMAIN file, ForGood(id) PROVE ForGood(id)'
  <2>1. id \in Ids /\ HasOwn(id, "whole")
    BY <1>6 DEF ForGood, Settled
  <2>2. blob[id] = "whole" => blob'[id] = "whole"
    BY <1>4, <2>1, RequestAssumption DEF BlobAfterRestart
  <2>3. HasOwn(id, "whole")'
    BY <1>4, <2>1, <2>2 DEF HasOwn
  <2> QED
    BY <1>2, <1>5, <1>6, <2>3 DEF ForGood
<1>7. \A id \in DOMAIN file : Settled(id)' /\ (Finished(file, id) => ForGood(id)')
  BY <1>1, <1>2, <1>6 DEF OwnInv, Kept
<1>8. Kept(file)' /\ Kept(dsRecords)'
  BY <1>3, <1>7 DEF Kept, Finished
<1>9. Kept(flusher.image)'
  BY <1>3 DEF Kept, P!NoRecords
<1>10. Counted'
  BY <1>1, <1>3, <1>4 DEF Counted
<1>11. \A h \in Requests : http'[h].pc # "copy"
  BY <1>4 DEF NoRequest
<1>12. OwnInv'
  BY <1>4, <1>8, <1>9, <1>10, <1>11 DEF OwnInv
<1> QED
  BY <1>2, <1>12 DEF BlobsInv

-----------------------------------------------------------------------------
(* The second theorem *)

LEMMA BlobsStart == SInit => BlobsInv
<1> SUFFICES ASSUME SInit PROVE BlobsInv
  OBVIOUS
<1>1. /\ call = [c \in Conns |-> IdleCall] /\ dsRecords = P!NoRecords
      /\ tokens = {} /\ http = [h \in Requests |-> NoRequest] /\ uploaded = {}
      /\ file = P!NoRecords /\ flusher.image = P!NoRecords /\ restarts = 0
      /\ made = [id \in Ids |-> 0] /\ written = [id \in Ids |-> 0]
  BY DEF SInit, OInit, Init, P!PInit, P!NoRecords, P!Sleeping
<1>2. PostInv /\ UploadInv
  BY <1>1 DEF PostInv, UploadInv, Writing, NoRequest, IdleCall
<1>3. Counted
  BY <1>1 DEF Counted
<1>4. Kept(P!NoRecords)
  BY DEF Kept, P!NoRecords
<1>5. OwnInv
  BY <1>1, <1>3, <1>4 DEF OwnInv, NoRequest
<1> QED
  BY <1>2, <1>5, ServerInit DEF BlobsInv

LEMMA BlobsNext ==
  ASSUME Careful, BlobsInv, [SNext]_sVars
  PROVE  BlobsInv'
<1>1. ServerInv'
  BY ServerNext DEF BlobsInv
<1>2. ASSUME NEW c \in Conns, SHandle(c) PROVE BlobsInv'
  BY <1>2, HandleOwn
<1>3. ASSUME NEW c \in Conns, PrepareGetObject(c), UNCHANGED <<fileVars, observers>>
      PROVE  BlobsInv'
  <2>1. \A token \in tokens' \ tokens : ~ token.upload
    BY <1>3 DEF PrepareGetObject, NewObjectToken
  <2>2. UNCHANGED <<dsVars, blob, http, uploaded>>
    BY <1>3 DEF PrepareGetObject
  <2> QED
    BY <1>1, <1>3, <2>1, <2>2, TokenOwn
<1>4. ASSUME NEW h \in Requests, SHttp(h) PROVE BlobsInv'
  BY <1>4, HttpOwn
<1>5. ASSUME ExpireToken, UNCHANGED <<fileVars, observers>> PROVE BlobsInv'
  BY <1>1, <1>5, TokenOwn DEF ExpireToken
<1>6. CASE UNCHANGED sVars
  BY <1>1, <1>6, TokenOwn DEF sVars, vars, osVars
<1>7. CASE SNext
  BY <1>2, <1>3, <1>4, <1>5, <1>7, FlushOwn, RestartOwn DEF SNext
<1> QED
  BY <1>6, <1>7

\* With careful clients, an object that others can find has the blob that was uploaded
\* for it, whole (objectstore.go and dsLoad): a restart that hands its id out a second
\* time leaves it no other object's blob, and no token, request or upload of before the
\* restart touches it after; unless it was deleted and the restart brought it back.
THEOREM BlobsAreOwn ==
  ASSUME Careful
  PROVE  SSpec => []BlobIsOwn
<1>1. BlobsInv => BlobIsOwn
  BY DEF BlobsInv, OwnInv, Kept, Finished, ForGood, HasOwn, BlobIsOwn
<1> QED
  BY BlobsStart, BlobsNext, <1>1, PTL DEF SSpec

=============================================================================
