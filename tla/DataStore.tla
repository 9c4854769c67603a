------------------------------ MODULE DataStore ------------------------------
(***************************************************************************)
(* The object table of the DataStore protocol (src/datastore.go): the map  *)
(* dsRecords, the id counter dsNextID, the flag dsDirty, and the RMC       *)
(* handlers that write them.  Every connection runs its handlers in a      *)
(* goroutine of its own, so a handler is a sequence of steps that other    *)
(* handlers interleave with; one step is one critical section of dsMu, one *)
(* atomic operation, or one call into the object store.  Handlers that     *)
(* only read the table change nothing here.                                *)
(*                                                                         *)
(* What the object store does in the steps IssueToken and Unlink is added  *)
(* by module ObjectStore; the flusher and restarts are in Persistence.     *)
(***************************************************************************)
EXTENDS Integers, FiniteSets, Functions

CONSTANTS
  Conns,          \* connections to the secure server
  Pids,           \* players
  PidOf,          \* the player behind each connection (conn.PID)
  DataTypes,      \* DataStore dataTypes in use: one per kingdom, and Achievement
  Achievement,    \* smoAchievementDataType, the player's stats record
  PrepareTypes,   \* dataTypes clients post with PreparePostObject
  MetaTypes,      \* dataTypes clients post with PostMetaBinary
  Slots,          \* rating slots
  InitialValues,  \* initialValue of a post's rating slots, 0 for a slot not listed
  RateValues,     \* ratingValue of a rating call
  OwnIdsOnly,     \* TRUE: clients complete and delete no one else's objects
  MaxId,          \* bound: dataIds handed out
  MaxRatings      \* bound: ratings one record takes

ASSUME ConnAssumption == PidOf \in [Conns -> Pids]
ASSUME TypeAssumption ==
  /\ DataTypes \subseteq Nat
  /\ PrepareTypes \subseteq DataTypes
  /\ MetaTypes \subseteq DataTypes
ASSUME RatingAssumption ==
  InitialValues \subseteq Int /\ RateValues \subseteq Int /\ IsFiniteSet(Slots)
ASSUME ClientAssumption == OwnIdsOnly \in BOOLEAN
ASSUME BoundAssumption == MaxId \in Nat /\ MaxRatings \in Nat

VARIABLES
  dsRecords,  \* dataId -> balloonRecord, for the objects that exist
  dsNextID,   \* the next dataId to hand out
  dsDirty,    \* the table changed since the flusher last took it
  call        \* per connection: the handler in progress

dsVars == <<dsRecords, dsNextID, dsDirty, call>>

-----------------------------------------------------------------------------
Ids == 1..MaxId

Put(f, k, v) == [x \in DOMAIN f \cup {k} |-> IF x = k THEN v ELSE f[x]]

\* A slot the post does not list counts as zero, as reading a Go map does.
RatingInfo == [total : Int, count : Nat, initial : Int]

Record == [owner : Pids, dataType : DataTypes, complete : BOOLEAN,
           ratingSum : Int, ratingN : Nat, ratings : [Slots -> RatingInfo]]

\* A post's ratingInitParams
RatingInits == [Slots -> InitialValues]

SeedRatings(init) ==
  [s \in Slots |-> [total |-> init[s], count |-> 0, initial |-> init[s]]]

NewRecord(owner, type, complete, init) ==
  [owner |-> owner, dataType |-> type, complete |-> complete,
   ratingSum |-> 0, ratingN |-> 0, ratings |-> SeedRatings(init)]

AddRating(ratings, slot, value) ==
  [ratings EXCEPT ![slot].total = @ + value, ![slot].count = @ + 1]

\* Mutant: the count that GetRating reports is left out.
MutRateRecord(r, slot, value) ==
  [r EXCEPT !.ratingSum = @ + value, !.ratings = AddRating(@, slot, value)]

RateRecord(r, slot, value) ==
  [r EXCEPT !.ratingSum = @ + value, !.ratingN = @ + 1,
            !.ratings = AddRating(@, slot, value)]

\* One target of a rating call; a missing object is skipped.
RateIn(recs, id, slot, value) ==
  IF id \in DOMAIN recs THEN [recs EXCEPT ![id] = RateRecord(@, slot, value)] ELSE recs

RatingRoom(recs, id) == id \in DOMAIN recs => recs[id].ratingN < MaxRatings

-----------------------------------------------------------------------------
(* Handlers.  pc is the step a handler takes next; op says which tail of    *)
(* steps follows its dsMarkDirty.                                           *)

Ops == {"none", "prepare", "meta", "update", "delete"}
Pcs == {"idle", "insert", "mark", "replace", "token", "unlink"}

IdleCall == [pc |-> "idle", op |-> "none", id |-> 0, dataType |-> 0]

Idle(c) == call[c].pc = "idle"

Enter(c, pc, op, id, type) ==
  call' = [call EXCEPT ![c] = [pc |-> pc, op |-> op, id |-> id, dataType |-> type]]

Goto(c, pc) == call' = [call EXCEPT ![c].pc = pc]

Answer(c) == call' = [call EXCEPT ![c] = IdleCall]

Init ==
  /\ dsRecords = [id \in {} |-> id]
  /\ dsNextID = 1
  /\ dsDirty = FALSE
  /\ call = [c \in Conns |-> IdleCall]

\* Mutant: dsNextID.Add(1) without the - 1.
MutAllocate(c, op, type) ==
  /\ Idle(c)
  /\ dsNextID <= MaxId
  /\ dsNextID' = dsNextID + 1
  /\ Enter(c, "insert", op, dsNextID + 1, type)
  /\ UNCHANGED <<dsRecords, dsDirty>>

\* dsNextID.Add(1) - 1
Allocate(c, op, type) ==
  /\ Idle(c)
  /\ dsNextID <= MaxId
  /\ dsNextID' = dsNextID + 1
  /\ Enter(c, "insert", op, dsNextID, type)
  /\ UNCHANGED <<dsRecords, dsDirty>>

PreparePostObject(c) == \E type \in PrepareTypes : Allocate(c, "prepare", type)

PostMetaBinary(c) == \E type \in MetaTypes : Allocate(c, "meta", type)

\* dsRecords[dataID] = rec; only a PostMetaBinary record is complete at once.
Insert(c) ==
  /\ call[c].pc = "insert"
  /\ \E init \in RatingInits :
       dsRecords' = Put(dsRecords, call[c].id,
                        NewRecord(PidOf[c], call[c].dataType, call[c].op = "meta", init))
  /\ Goto(c, "mark")
  /\ UNCHANGED <<dsNextID, dsDirty>>

\* Mutant: PostMetaBinary answers without dsDeletePreviousBalloon, as the server
\* did until 2026-08-23.
MutAfterMark == [prepare |-> "token", meta |-> "token", delete |-> "unlink"]

AfterMark == [prepare |-> "token", meta |-> "replace", delete |-> "unlink"]

\* dsMarkDirty, outside dsMu and after the change it announces
MarkDirty(c) ==
  /\ call[c].pc = "mark"
  /\ dsDirty' = TRUE
  /\ IF call[c].op = "update" THEN Answer(c) ELSE Goto(c, AfterMark[call[c].op])
  /\ UNCHANGED <<dsRecords, dsNextID>>

\* Mutant: the keepID of the search is forgotten.
MutPreviousKeep(c) ==
  {id \in DOMAIN dsRecords :
     /\ dsRecords[id].owner = PidOf[c]
     /\ dsRecords[id].dataType = call[c].dataType
     /\ dsRecords[id].complete}

\* Mutant: a balloon of another kingdom is replaced too.
MutPreviousType(c) ==
  {id \in DOMAIN dsRecords :
     /\ id # call[c].id
     /\ dsRecords[id].owner = PidOf[c]
     /\ dsRecords[id].complete}

\* What dsDeletePreviousBalloon(owner, dataType, keepID) may delete.
Previous(c) ==
  {id \in DOMAIN dsRecords :
     /\ id # call[c].id
     /\ dsRecords[id].owner = PidOf[c]
     /\ dsRecords[id].dataType = call[c].dataType
     /\ dsRecords[id].complete}

\* The first match of a map iteration, any of them, is deleted, and no other.
ReplaceOne(c) ==
  /\ call[c].pc = "replace"
  /\ \E old \in Previous(c) :
       /\ dsRecords' = Restrict(dsRecords, DOMAIN dsRecords \ {old})
       /\ Enter(c, "mark", "delete", old, 0)
  /\ UNCHANGED <<dsNextID, dsDirty>>

ReplaceNone(c) ==
  /\ call[c].pc = "replace"
  /\ Previous(c) = {}
  /\ Answer(c)
  /\ UNCHANGED <<dsRecords, dsNextID, dsDirty>>

\* With OwnIdsOnly a client names no existing object of another player; it may
\* still name one that is gone.
MayName(c, id) == OwnIdsOnly => (id \in DOMAIN dsRecords => dsRecords[id].owner = PidOf[c])

\* Mutant: a completed object that is missing is created.
MutCompletePostObject(c) ==
  \E id \in Ids, isSuccess \in BOOLEAN :
    /\ Idle(c)
    /\ dsRecords' = IF isSuccess
                    THEN Put(dsRecords, id, NewRecord(PidOf[c], CHOOSE t \in DataTypes : TRUE,
                                                      TRUE, [s \in Slots |-> 0]))
                    ELSE Restrict(dsRecords, DOMAIN dsRecords \ {id})
    /\ Enter(c, "mark", "update", id, 0)
    /\ UNCHANGED <<dsNextID, dsDirty>>

CompletePostObject(c) ==
  \E id \in Ids, isSuccess \in BOOLEAN :
    /\ Idle(c)
    /\ MayName(c, id)
    /\ dsRecords' =
         IF id \notin DOMAIN dsRecords THEN dsRecords
         ELSE IF isSuccess THEN [dsRecords EXCEPT ![id].complete = TRUE]
         ELSE Restrict(dsRecords, DOMAIN dsRecords \ {id})
    /\ Enter(c, "mark", "update", id, 0)
    /\ UNCHANGED <<dsNextID, dsDirty>>

\* Mutant: dsMarkDirty is forgotten.
MutDeleteObject(c) ==
  \E id \in Ids :
    /\ Idle(c)
    /\ MayName(c, id)
    /\ dsRecords' = Restrict(dsRecords, DOMAIN dsRecords \ {id})
    /\ Enter(c, "unlink", "delete", id, 0)
    /\ UNCHANGED <<dsNextID, dsDirty>>

DeleteObject(c) ==
  \E id \in Ids :
    /\ Idle(c)
    /\ MayName(c, id)
    /\ dsRecords' = Restrict(dsRecords, DOMAIN dsRecords \ {id})
    /\ Enter(c, "mark", "delete", id, 0)
    /\ UNCHANGED <<dsNextID, dsDirty>>

RateObject(c) ==
  \E id \in Ids, slot \in Slots, value \in RateValues :
    /\ Idle(c)
    /\ RatingRoom(dsRecords, id)
    /\ dsRecords' = RateIn(dsRecords, id, slot, value)
    /\ Enter(c, "mark", "update", id, 0)
    /\ UNCHANGED <<dsNextID, dsDirty>>

\* Two targets in one call, as the client sends them; each is applied whether
\* or not the other exists.
RateObjects(c) ==
  \E id1, id2 \in Ids, slot1, slot2 \in Slots, value1, value2 \in RateValues :
    LET once == RateIn(dsRecords, id1, slot1, value1)
    IN  /\ Idle(c)
        /\ RatingRoom(dsRecords, id1)
        /\ RatingRoom(once, id2)
        /\ dsRecords' = RateIn(once, id2, slot2, value2)
        /\ Enter(c, "mark", "update", id1, 0)
        /\ UNCHANGED <<dsNextID, dsDirty>>

\* objectUploadURL, then the answer
IssueToken(c) ==
  /\ call[c].pc = "token"
  /\ Answer(c)
  /\ UNCHANGED <<dsRecords, dsNextID, dsDirty>>

\* objectDelete, then the answer
Unlink(c) ==
  /\ call[c].pc = "unlink"
  /\ Answer(c)
  /\ UNCHANGED <<dsRecords, dsNextID, dsDirty>>

Request(c) ==
  \/ PreparePostObject(c) \/ PostMetaBinary(c)
  \/ CompletePostObject(c) \/ DeleteObject(c)
  \/ RateObject(c) \/ RateObjects(c)

Continue(c) ==
  \/ Insert(c) \/ MarkDirty(c) \/ ReplaceOne(c) \/ ReplaceNone(c)
  \/ IssueToken(c) \/ Unlink(c)

Next == \E c \in Conns : Request(c) \/ Continue(c)

Spec == Init /\ [][Next]_dsVars

-----------------------------------------------------------------------------
(* Properties *)

TypeOK ==
  /\ DOMAIN dsRecords \subseteq Ids
  /\ dsRecords \in [DOMAIN dsRecords -> Record]
  /\ dsNextID \in 1..(MaxId + 1)
  /\ dsDirty \in BOOLEAN
  /\ call \in [Conns -> [pc : Pcs, op : Ops, id : Ids \cup {0},
                         dataType : DataTypes \cup {0}]]

Inserting(c) == call[c].pc = "insert"

\* An id that was handed out and is neither in the table nor about to be
\* inserted: its object was deleted.
Gone(id) ==
  /\ id < dsNextID
  /\ id \notin DOMAIN dsRecords
  /\ \A c \in Conns : Inserting(c) => call[c].id # id

\* dsPostMetaBinary and dsPreparePostObject store a record with a plain map
\* assignment.  It never replaces another player's record: an id waiting to be
\* inserted was handed out to one handler only and is not in the table.
FreshIds ==
  \A c \in Conns : Inserting(c) =>
    /\ call[c].id < dsNextID
    /\ call[c].id \notin DOMAIN dsRecords
    /\ \A d \in Conns : Inserting(d) /\ call[d].id = call[c].id => d = c

\* A late CompletePostObject, RateObject(s) or a second delete, arriving after
\* the object was deleted or replaced, does not bring it back.
NoResurrection == [][\A id \in Ids : Gone(id) => Gone(id)']_dsVars

\* Each player has one connection (the "elsewhere" gate of the account server).
OneConnPerPid == \A c, d \in Conns : PidOf[c] = PidOf[d] => c = d

BalloonTypes == DataTypes \ PrepareTypes

Active(p, t) ==
  {id \in DOMAIN dsRecords :
     /\ dsRecords[id].owner = p
     /\ dsRecords[id].dataType = t
     /\ dsRecords[id].complete}

\* A PostMetaBinary that has stored its record and not yet replaced the old one.
Replacing(c) == call[c].op = "meta" /\ call[c].pc \in {"mark", "replace"}

\* "one active hidden balloon at a time": outside a PostMetaBinary of player p
\* for type t, p has at most one balloon of that type, for the types that only
\* PostMetaBinary posts.
OneActive ==
  \A p \in Pids, t \in BalloonTypes :
    (\A c \in Conns : Replacing(c) => PidOf[c] # p \/ call[c].dataType # t)
      => \A i, j \in Active(p, t) : i = j

\* dsDeletePreviousBalloon deletes a PREVIOUS balloon: a record older than the
\* one whose placement it completes.
ReplacesOlder ==
  [][\A c \in Conns : ReplaceOne(c) =>
       \A id \in DOMAIN dsRecords \ DOMAIN dsRecords' : id < call[c].id]_dsVars

\* "Odyssey only ever has one active balloon per player; stop at the first match":
\* when dsDeletePreviousBalloon looks for a balloon to delete there is one, or none.
OnePrevious ==
  \A c \in Conns : call[c].pc = "replace" => \A i, j \in Previous(c) : i = j

TalliesAgree(r) ==
  /\ r.ratingN = SumFunction([s \in DOMAIN r.ratings |-> r.ratings[s].count])
  /\ r.ratingSum = SumFunction([s \in DOMAIN r.ratings |->
                                  r.ratings[s].total - r.ratings[s].initial])

\* The two tallies of a record agree: RatingSum and RatingN, which GetRating
\* reports, are the totals of the per-slot ratings SearchBalloon reports.
RatingsAgree == \A id \in DOMAIN dsRecords : TalliesAgree(dsRecords[id])

\* "smoAchievementDataType(200) records are a different kind entirely and must
\* never be touched by" dsDeletePreviousBalloon.
AchievementKept ==
  [][\A c \in Conns : ReplaceOne(c) =>
       \A id \in DOMAIN dsRecords \ DOMAIN dsRecords' :
         dsRecords[id].dataType # Achievement]_dsVars

=============================================================================
