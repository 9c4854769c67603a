----------------------------- MODULE Persistence -----------------------------
(***************************************************************************)
(* The object table and its file (src/datastore.go): dsFlusher, a goroutine *)
(* that every 5s writes the table to SMO_DATASTORE_FILE when dsDirty says   *)
(* it changed, and dsLoad, which fills the table when the server starts.    *)
(*                                                                         *)
(* Time is left out: the flusher may wake at any moment.  The server may    *)
(* stop at any moment too (an operator, a failure, or the Go runtime, which *)
(* ends the process when it sees a map read and written at once) and then   *)
(* starts again.                                                            *)
(***************************************************************************)
EXTENDS DataStore

CONSTANTS
  MaxRestarts,   \* bound: restarts
  MaxFailures    \* bound: writes of the file that fail

ASSUME RestartAssumption == MaxRestarts \in Nat /\ MaxFailures \in Nat

VARIABLES
  file,      \* the table dsLoad would make of the file
  flusher,   \* the goroutine: its next step, the records it copied, and the ids
             \* of those it has yet to encode
  writeLost, \* observer: the last write of the file failed
  restarts, failures

bounds == <<restarts, failures>>
vars == <<dsVars, file, flusher, writeLost, bounds>>

\* No file, an empty one and one that is cut off all load as an empty table.
NoRecords == [id \in {} |-> id]

Sleeping == [pc |-> "sleep", image |-> NoRecords, pending |-> {}]

PInit ==
  /\ Init
  /\ file = NoRecords
  /\ flusher = Sleeping
  /\ writeLost = FALSE
  /\ restarts = 0
  /\ failures = 0

-----------------------------------------------------------------------------
\* A copied record shares its Ratings map with the record it was copied from:
\* a rating reaches the copy too, until the copy is encoded.  RatingSum and
\* RatingN were copied by value.
SharedRatings ==
  [id \in DOMAIN flusher.image |->
     IF id \in flusher.pending \cap DOMAIN dsRecords \cap DOMAIN dsRecords'
     THEN [flusher.image[id] EXCEPT !.ratings = dsRecords'[id].ratings]
     ELSE flusher.image[id]]

Share ==
  /\ flusher' = [flusher EXCEPT !.image = SharedRatings]
  /\ UNCHANGED <<file, writeLost, bounds>>

Handle(c) == (Request(c) \/ Continue(c)) /\ Share

\* dsDirty.CompareAndSwap(true, false), after the sleep
FlushTake ==
  /\ flusher.pc = "sleep"
  /\ dsDirty
  /\ dsDirty' = FALSE
  /\ flusher' = [flusher EXCEPT !.pc = "copy"]
  /\ UNCHANGED <<dsRecords, dsNextID, call, file, writeLost, bounds>>

\* The copy, in one critical section of dsMu
FlushCopy ==
  /\ flusher.pc = "copy"
  /\ flusher' = [pc |-> "encode", image |-> dsRecords, pending |-> DOMAIN dsRecords]
  /\ UNCHANGED <<dsVars, file, writeLost, bounds>>

\* json.Marshal, record by record, without dsMu
FlushEncode ==
  /\ flusher.pc = "encode"
  /\ \E id \in flusher.pending : flusher' = [flusher EXCEPT !.pending = @ \ {id}]
  /\ UNCHANGED <<dsVars, file, writeLost, bounds>>

\* os.WriteFile truncates the file, then writes it.
FlushTruncate ==
  /\ flusher.pc = "encode" /\ flusher.pending = {}
  /\ file' = NoRecords
  /\ flusher' = [flusher EXCEPT !.pc = "write"]
  /\ UNCHANGED <<dsVars, writeLost, bounds>>

\* Mutant: the flag is cleared here, when the table has been written.
MutFlushWrite ==
  /\ flusher.pc = "write"
  /\ file' = flusher.image
  /\ flusher' = Sleeping
  /\ writeLost' = FALSE
  /\ dsDirty' = FALSE
  /\ UNCHANGED <<dsRecords, dsNextID, call, bounds>>

FlushWrite ==
  /\ flusher.pc = "write"
  /\ file' = flusher.image
  /\ flusher' = Sleeping
  /\ writeLost' = FALSE
  /\ UNCHANGED <<dsVars, bounds>>

\* Opening the file fails, or writing it does; the error is dropped.
FlushFails ==
  /\ flusher.pc = "write" \/ (flusher.pc = "encode" /\ flusher.pending = {})
  /\ failures < MaxFailures
  /\ failures' = failures + 1
  /\ flusher' = Sleeping
  /\ writeLost' = TRUE
  /\ UNCHANGED <<dsVars, file, restarts>>

Flush == FlushTake \/ FlushCopy \/ FlushEncode \/ FlushTruncate \/ FlushWrite \/ FlushFails

\* Mutant: the largest id loaded, where the code has one more.
MutNextIDAfter(recs) ==
  CHOOSE n \in {0} \cup DOMAIN recs : \A id \in DOMAIN recs : id <= n

\* dsLoad's seeding of the counter, which init() set to 1
NextIDAfter(recs) ==
  CHOOSE n \in 1..(MaxId + 1) :
    /\ \A id \in DOMAIN recs : id < n
    /\ n = 1 \/ n - 1 \in DOMAIN recs

\* The process ends and starts again: dsLoad runs before any listener does.
Restart ==
  /\ restarts < MaxRestarts
  /\ restarts' = restarts + 1
  /\ dsRecords' = file
  /\ dsNextID' = NextIDAfter(file)
  /\ dsDirty' = FALSE
  /\ call' = [c \in Conns |-> IdleCall]
  /\ flusher' = Sleeping
  /\ writeLost' = FALSE
  /\ UNCHANGED <<file, failures>>

PNext == (\E c \in Conns : Handle(c)) \/ Flush \/ Restart

PSpec == PInit /\ [][PNext]_vars

\* A goroutine that can run does: handlers run to their answer and the flusher
\* keeps looping.  Clients need not call, and the server need not restart.
Fairness ==
  /\ \A c \in Conns : WF_vars(Continue(c) /\ Share)
  /\ WF_vars(Flush)

FairPSpec == PSpec /\ Fairness

-----------------------------------------------------------------------------
(* Properties *)

PTypeOK ==
  /\ TypeOK
  /\ DOMAIN file \subseteq Ids /\ file \in [DOMAIN file -> Record]
  /\ flusher.pc \in {"sleep", "copy", "encode", "write"}
  /\ DOMAIN flusher.image \subseteq Ids
  /\ flusher.image \in [DOMAIN flusher.image -> Record]
  /\ flusher.pending \subseteq DOMAIN flusher.image
  /\ writeLost \in BOOLEAN
  /\ restarts \in 0..MaxRestarts /\ failures \in 0..MaxFailures

\* A handler that changed the table and has not marked it.
Marking(c) == call[c].pc = "mark"

\* Nothing will be written until the next change.
Clean == ~ dsDirty /\ flusher.pc = "sleep" /\ \A c \in Conns : ~ Marking(c)

\* The flag misses no change: when it is clear, no handler is about to set it
\* and the flusher sleeps, the file holds the table, unless the last write failed.
CleanIsSaved == Clean /\ ~ writeLost => file = dsRecords

\* "an in-memory map flushed to SMO_DATASTORE_FILE every 5s": when nothing is left
\* to write, the file holds the table.
FlushedEvery5s == Clean => file = dsRecords

\* An object in the table reaches the file, unless it is deleted, the server
\* stops, or a write fails first.
ObjectsReachFile ==
  \A id \in Ids : (id \in DOMAIN dsRecords) ~>
                    (id \in DOMAIN file \/ id \notin DOMAIN dsRecords \/ writeLost)

\* The same of a deletion: the file does not keep an object that is gone.
DeletionsReachFile ==
  \A id \in Ids : (id \in DOMAIN file) ~>
                    (id \notin DOMAIN file \/ id \in DOMAIN dsRecords \/ writeLost)

\* A restart never sets the counter back onto an id in the table, and a post
\* that runs after it still stores under an id of its own.
IdsAboveTable == FreshIds /\ \A id \in DOMAIN dsRecords : id < dsNextID

\* "locking is the caller's (dsMu)": the ratings of a record and their totals
\* are written down together.
FileRatingsAgree ==
  \A id \in DOMAIN file :
    file[id].ratingN = SumFunction([s \in Slots |-> file[id].ratings[s].count])

=============================================================================
