--------------------------- MODULE DataStore_proofs ---------------------------
(***************************************************************************)
(* Proofs about DataStore for any players, connections, types and bounds,  *)
(* and that it implements BalloonBoard (DataStoreRefinement).              *)
(***************************************************************************)
EXTENDS DataStoreRefinement, FoldTheorems, TLAPS, WellFoundedInduction

\* What a handler holds at each step.
CallOK(c) ==
  /\ call[c].pc = "insert" => call[c].op \in {"prepare", "meta"}
  /\ call[c].pc = "mark" => call[c].op \in {"prepare", "meta", "update", "delete"}
  /\ call[c].pc = "replace" => call[c].op = "meta"
  /\ call[c].op = "prepare" => call[c].id \in Ids /\ call[c].dataType \in PrepareTypes
  /\ call[c].op = "meta" => call[c].id \in Ids /\ call[c].dataType \in MetaTypes

CallsOK == \A c \in Conns : CallOK(c)

RecordsBelow == \A id \in DOMAIN dsRecords : id < dsNextID

TypeInv == TypeOK /\ CallsOK

-----------------------------------------------------------------------------
(* Tables, and the counter that dsLoad may seed for one *)

\* A table of records, of which the file and the copy of the flusher hold one too
Table(recs) == DOMAIN recs \subseteq Ids /\ recs \in [DOMAIN recs -> Record]

\* There is an id above those of a table with none between.
LEMMA NextIDExists ==
  ASSUME NEW recs, DOMAIN recs \subseteq Ids
  PROVE  \E n \in 1..(MaxId + 1) :
           /\ \A id \in DOMAIN recs : id < n
           /\ n = 1 \/ n - 1 \in DOMAIN recs
<1> DEFINE Above == {n \in Nat : n >= 1 /\ \A id \in DOMAIN recs : id < n}
<1>0. MaxId \in Nat /\ \A id \in DOMAIN recs : id \in 1..MaxId
  BY BoundAssumption DEF Ids
<1>1. MaxId + 1 \in Above
  BY <1>0
<1>2. Above \in SUBSET Nat /\ Above # {}
  BY <1>1
<1> HIDE DEF Above
<1>3. PICK n \in Above : \A m \in Above : n <= m
  <2> DEFINE Less == OpToRel(<, Nat)
  <2>0. IsWellFoundedOn(Less, Nat)
    BY NatLessThanWellFounded
  <2>a. \A m, n \in Nat : m < n => <<m, n>> \in Less
    BY DEF OpToRel
  <2> HIDE DEF Less
  <2>1. PICK n \in Above : \A m \in Above : ~ (<<m, n>> \in Less)
    BY <1>2, <2>0, WFMin
  <2>2. \A m \in Above : m \in Nat /\ n \in Nat /\ ~ (m < n)
    BY <1>2, <2>a, <2>1
  <2>3. \A m \in Above : n <= m
    BY <2>2
  <2> QED
    BY <2>3
<1>4. /\ n \in Nat /\ n >= 1 /\ n <= MaxId + 1
      /\ \A id \in DOMAIN recs : id < n
  BY <1>1, <1>3 DEF Above
<1>5. CASE n = 1
  BY <1>0, <1>4, <1>5
<1>6. CASE n # 1
  <2>1. n - 1 \in Nat /\ n - 1 >= 1 /\ ~ (n <= n - 1)
    BY <1>4, <1>6
  <2>2. n - 1 \notin Above
    BY <1>3, <2>1
  <2>3. PICK id \in DOMAIN recs : ~ (id < n - 1)
    BY <2>1, <2>2 DEF Above
  <2>4. id = n - 1
    BY <1>0, <1>4, <2>3
  <2> QED
    BY <1>0, <1>4, <2>3, <2>4
<1> QED
  BY <1>5, <1>6

-----------------------------------------------------------------------------
(* What rating does to a record *)

LEMMA RateRecordType ==
  ASSUME NEW r \in Record, NEW slot \in Slots, NEW value \in RateValues
  PROVE  /\ RateRecord(r, slot, value) \in Record
         /\ RateRecord(r, slot, value).owner = r.owner
         /\ RateRecord(r, slot, value).dataType = r.dataType
         /\ RateRecord(r, slot, value).complete = r.complete
<1>1. AddRating(r.ratings, slot, value) \in [Slots -> RatingInfo]
  BY RatingAssumption DEF Record, RatingInfo, AddRating
<1>2. r.ratingSum + value \in Int /\ r.ratingN + 1 \in Nat
  BY RatingAssumption DEF Record
<1> DEFINE total == r.ratingSum + value
           n == r.ratingN + 1
           ratings == AddRating(r.ratings, slot, value)
<1>3. RateRecord(r, slot, value) =
        [r EXCEPT !.ratingSum = total, !.ratingN = n, !.ratings = ratings]
  BY DEF RateRecord
<1> HIDE DEF total, n, ratings
<1>4. total \in Int /\ n \in Nat /\ ratings \in [Slots -> RatingInfo]
  BY <1>1, <1>2 DEF total, n, ratings
<1> QED
  BY <1>3, <1>4 DEF Record

\* A table that rating may turn into another: the same objects, each of the same
\* owner, type and completeness.
SameObjects(recs, recs2) ==
  /\ DOMAIN recs2 = DOMAIN recs
  /\ \A id \in DOMAIN recs :
       /\ recs2[id].owner = recs[id].owner
       /\ recs2[id].dataType = recs[id].dataType
       /\ recs2[id].complete = recs[id].complete

LEMMA RateInType ==
  ASSUME NEW D, NEW recs \in [D -> Record],
         NEW id, NEW slot \in Slots, NEW value \in RateValues
  PROVE  /\ RateIn(recs, id, slot, value) \in [D -> Record]
         /\ SameObjects(recs, RateIn(recs, id, slot, value))
<1>1. CASE id \in DOMAIN recs
  <2>1. recs[id] \in Record
    BY <1>1
  <2>2. RateIn(recs, id, slot, value) = [recs EXCEPT ![id] = RateRecord(recs[id], slot, value)]
    BY <1>1 DEF RateIn
  <2> QED
    BY <1>1, <2>1, <2>2, RateRecordType DEF SameObjects
<1>2. CASE id \notin DOMAIN recs
  BY <1>2 DEF RateIn, SameObjects
<1> QED
  BY <1>1, <1>2

LEMMA RatingSteps ==
  ASSUME TypeOK, NEW c \in Conns, RateObject(c) \/ RateObjects(c)
  PROVE  /\ dsRecords' \in [DOMAIN dsRecords -> Record]
         /\ SameObjects(dsRecords, dsRecords')
         /\ \E id \in Ids : Enter(c, "mark", "update", id, 0)
         /\ Idle(c)
         /\ UNCHANGED <<dsNextID, dsDirty>>
<1>0. dsRecords \in [DOMAIN dsRecords -> Record]
  BY DEF TypeOK
<1>1. CASE RateObject(c)
  <2>1. PICK id \in Ids, slot \in Slots, value \in RateValues :
          dsRecords' = RateIn(dsRecords, id, slot, value)
    BY <1>1 DEF RateObject
  <2> QED
    BY <1>0, <1>1, <2>1, RateInType DEF RateObject
<1>2. CASE RateObjects(c)
  <2>1. PICK id1 \in Ids, id2 \in Ids, slot1 \in Slots, slot2 \in Slots,
             value1 \in RateValues, value2 \in RateValues :
          dsRecords' = RateIn(RateIn(dsRecords, id1, slot1, value1), id2, slot2, value2)
    BY <1>2 DEF RateObjects
  <2> DEFINE once == RateIn(dsRecords, id1, slot1, value1)
  <2>2. once \in [DOMAIN dsRecords -> Record] /\ SameObjects(dsRecords, once)
    BY <1>0, RateInType
  <2>3. dsRecords' = RateIn(once, id2, slot2, value2)
    BY <2>1
  <2> HIDE DEF once
  <2>4. dsRecords' \in [DOMAIN dsRecords -> Record] /\ SameObjects(once, dsRecords')
    BY <2>2, <2>3, RateInType
  <2>5. SameObjects(dsRecords, dsRecords')
    BY <2>2, <2>4 DEF SameObjects
  <2> QED
    BY <1>2, <2>4, <2>5 DEF RateObjects
<1> QED
  BY <1>1, <1>2

LEMMA NewRecordType ==
  ASSUME NEW owner \in Pids, NEW type \in DataTypes, NEW complete \in BOOLEAN,
         NEW init \in RatingInits
  PROVE  /\ NewRecord(owner, type, complete, init) \in Record
         /\ NewRecord(owner, type, complete, init).owner = owner
         /\ NewRecord(owner, type, complete, init).dataType = type
         /\ NewRecord(owner, type, complete, init).complete = complete
<1>1. SeedRatings(init) \in [Slots -> RatingInfo]
  BY RatingAssumption DEF RatingInits, SeedRatings, RatingInfo
<1> QED
  BY <1>1 DEF NewRecord, Record

-----------------------------------------------------------------------------
(* The handlers' steps keep the types *)

LEMMA InitType == Init => TypeInv
<1> SUFFICES ASSUME Init PROVE TypeInv
  OBVIOUS
<1>1. DOMAIN dsRecords = {} /\ dsRecords \in [DOMAIN dsRecords -> Record]
  BY DEF Init
<1>2. dsNextID \in 1..(MaxId + 1)
  BY BoundAssumption DEF Init
<1> QED
  BY <1>1, <1>2 DEF Init, IdleCall, Pcs, Ops, TypeInv, TypeOK, CallsOK, CallOK

LEMMA AllocateType ==
  ASSUME TypeInv, NEW c \in Conns, NEW op, NEW type,
         \/ op = "prepare" /\ type \in PrepareTypes
         \/ op = "meta" /\ type \in MetaTypes,
         Allocate(c, op, type)
  PROVE  TypeInv'
<1>1. dsNextID \in Ids /\ dsNextID' \in 1..(MaxId + 1)
  BY BoundAssumption DEF TypeInv, TypeOK, Allocate, Ids
<1>2. type \in DataTypes
  BY TypeAssumption
<1>3. TypeOK'
  BY <1>1, <1>2 DEF TypeInv, TypeOK, Allocate, Enter, Pcs, Ops
<1>4. CallsOK'
  BY <1>1, <1>2 DEF TypeInv, TypeOK, CallsOK, CallOK, Allocate, Enter
<1> QED
  BY <1>3, <1>4 DEF TypeInv

LEMMA InsertType ==
  ASSUME TypeInv, NEW c \in Conns, Insert(c)
  PROVE  TypeInv'
<1>1. PICK init \in RatingInits :
        dsRecords' = Put(dsRecords, call[c].id,
                         NewRecord(PidOf[c], call[c].dataType, call[c].op = "meta", init))
  BY DEF Insert
<1> DEFINE rec == NewRecord(PidOf[c], call[c].dataType, call[c].op = "meta", init)
<1>2. PidOf[c] \in Pids /\ call[c].dataType \in DataTypes /\ call[c].id \in Ids
  BY ConnAssumption, TypeAssumption DEF TypeInv, CallsOK, CallOK, Insert
<1>3. (call[c].op = "meta") \in BOOLEAN
  OBVIOUS
<1>4. rec \in Record
  BY <1>2, <1>3, NewRecordType
<1> HIDE DEF rec
<1>5. DOMAIN dsRecords' \subseteq Ids /\ dsRecords' \in [DOMAIN dsRecords' -> Record]
  BY <1>1, <1>2, <1>4 DEF rec, TypeInv, TypeOK, Put
<1>6. TypeOK'
  BY <1>5 DEF TypeInv, TypeOK, Insert, Goto, Pcs
<1>7. CallsOK'
  BY DEF TypeInv, TypeOK, CallsOK, CallOK, Insert, Goto
<1> QED
  BY <1>6, <1>7 DEF TypeInv

LEMMA MarkDirtyType ==
  ASSUME TypeInv, NEW c \in Conns, MarkDirty(c)
  PROVE  TypeInv'
<1>1. CASE call[c].op = "update"
  BY <1>1 DEF TypeInv, TypeOK, CallsOK, CallOK, MarkDirty, Answer, IdleCall, Pcs, Ops
<1>2. CASE call[c].op # "update"
  <2>1. call[c].op \in {"prepare", "meta", "delete"}
    BY <1>2 DEF TypeInv, CallsOK, CallOK, MarkDirty
  <2>2. /\ AfterMark[call[c].op] \in {"token", "replace", "unlink"}
        /\ AfterMark[call[c].op] = "replace" => call[c].op = "meta"
    BY <2>1 DEF AfterMark
  <2> DEFINE pc == AfterMark[call[c].op]
  <2>3. call' = [call EXCEPT ![c].pc = pc]
    BY <1>2 DEF MarkDirty, Goto
  <2> HIDE DEF pc
  <2>4. pc \in {"token", "replace", "unlink"} /\ (pc = "replace" => call[c].op = "meta")
    BY <2>2 DEF pc
  <2>5. TypeOK'
    BY <2>3, <2>4 DEF TypeInv, TypeOK, MarkDirty, Pcs
  <2>6. CallsOK'
    BY <2>3, <2>4 DEF TypeInv, TypeOK, CallsOK, CallOK
  <2> QED
    BY <2>5, <2>6 DEF TypeInv
<1> QED
  BY <1>1, <1>2

\* A handler that answers, or goes on to announce its change of the table
LEMMA RestType ==
  ASSUME TypeInv, NEW c \in Conns,
         DOMAIN dsRecords' \subseteq Ids, dsRecords' \in [DOMAIN dsRecords' -> Record],
         UNCHANGED <<dsNextID, dsDirty>>,
         \/ Answer(c)
         \/ \E op \in {"update", "delete"}, id \in Ids : Enter(c, "mark", op, id, 0)
  PROVE  TypeInv'
<1>1. TypeOK'
  BY DEF TypeInv, TypeOK, Answer, Enter, IdleCall, Pcs, Ops
<1>2. CallsOK'
  BY DEF TypeInv, TypeOK, CallsOK, CallOK, Answer, Enter, IdleCall
<1> QED
  BY <1>1, <1>2 DEF TypeInv

LEMMA NextType ==
  ASSUME TypeInv, [Next]_dsVars
  PROVE  TypeInv'
<1>0. /\ DOMAIN dsRecords \subseteq Ids
      /\ dsRecords \in [DOMAIN dsRecords -> Record]
  BY DEF TypeInv, TypeOK
<1>1. CASE UNCHANGED dsVars
  BY <1>1 DEF dsVars, TypeInv, TypeOK, CallsOK, CallOK
<1>2. CASE Next
  <2>1. PICK c \in Conns : Request(c) \/ Continue(c)
    BY <1>2 DEF Next
  <2>2. CASE PreparePostObject(c)
    BY <2>2, AllocateType DEF PreparePostObject
  <2>3. CASE PostMetaBinary(c)
    BY <2>3, AllocateType DEF PostMetaBinary
  <2>4. CASE CompletePostObject(c)
    <3>1. PICK id \in Ids, isSuccess \in BOOLEAN :
            /\ dsRecords' = IF id \notin DOMAIN dsRecords THEN dsRecords
                            ELSE IF isSuccess THEN [dsRecords EXCEPT ![id].complete = TRUE]
                            ELSE Restrict(dsRecords, DOMAIN dsRecords \ {id})
            /\ Enter(c, "mark", "update", id, 0)
            /\ UNCHANGED <<dsNextID, dsDirty>>
      BY <2>4 DEF CompletePostObject
    <3>2. DOMAIN dsRecords' \subseteq Ids /\ dsRecords' \in [DOMAIN dsRecords' -> Record]
      <4>1. CASE id \notin DOMAIN dsRecords
        BY <1>0, <3>1, <4>1
      <4>2. CASE id \in DOMAIN dsRecords /\ isSuccess
        <5>1. dsRecords' = [dsRecords EXCEPT ![id].complete = TRUE]
          BY <3>1, <4>2
        <5> QED
          BY <1>0, <4>2, <5>1 DEF Record
      <4>3. CASE id \in DOMAIN dsRecords /\ ~ isSuccess
        <5>1. dsRecords' = Restrict(dsRecords, DOMAIN dsRecords \ {id})
          BY <3>1, <4>3
        <5> QED
          BY <1>0, <5>1 DEF Restrict
      <4> QED
        BY <4>1, <4>2, <4>3
    <3> QED
      BY <3>1, <3>2, RestType
  <2>5. CASE DeleteObject(c)
    <3>1. PICK id \in Ids :
            /\ dsRecords' = Restrict(dsRecords, DOMAIN dsRecords \ {id})
            /\ Enter(c, "mark", "delete", id, 0)
            /\ UNCHANGED <<dsNextID, dsDirty>>
      BY <2>5 DEF DeleteObject
    <3>2. DOMAIN dsRecords' \subseteq Ids /\ dsRecords' \in [DOMAIN dsRecords' -> Record]
      BY <1>0, <3>1 DEF Restrict
    <3> QED
      BY <3>1, <3>2, RestType
  <2>6. CASE RateObject(c) \/ RateObjects(c)
    <3>1. /\ dsRecords' \in [DOMAIN dsRecords -> Record]
          /\ \E id \in Ids : Enter(c, "mark", "update", id, 0)
          /\ UNCHANGED <<dsNextID, dsDirty>>
      BY <2>6, RatingSteps DEF TypeInv
    <3>2. DOMAIN dsRecords' \subseteq Ids /\ dsRecords' \in [DOMAIN dsRecords' -> Record]
      BY <1>0, <3>1
    <3> QED
      BY <3>1, <3>2, RestType
  <2>7. CASE Insert(c)
    BY <2>7, InsertType
  <2>8. CASE MarkDirty(c)
    BY <2>8, MarkDirtyType
  <2>9. CASE ReplaceOne(c)
    <3>1. PICK old \in Previous(c) :
            /\ dsRecords' = Restrict(dsRecords, DOMAIN dsRecords \ {old})
            /\ Enter(c, "mark", "delete", old, 0)
            /\ UNCHANGED <<dsNextID, dsDirty>>
      BY <2>9 DEF ReplaceOne
    <3>2. DOMAIN dsRecords' \subseteq Ids /\ dsRecords' \in [DOMAIN dsRecords' -> Record]
      BY <1>0, <3>1 DEF Restrict
    <3> QED
      BY <1>0, <3>1, <3>2, RestType DEF Previous
  <2>10. CASE ReplaceNone(c) \/ IssueToken(c) \/ Unlink(c)
    BY <1>0, <2>10, RestType DEF ReplaceNone, IssueToken, Unlink
  <2> QED
    BY <2>1, <2>2, <2>3, <2>4, <2>5, <2>6, <2>7, <2>8, <2>9, <2>10
       DEF Request, Continue
<1> QED
  BY <1>1, <1>2

LEMMA Typing == Spec => []TypeInv
<1> QED
  BY InitType, NextType, PTL DEF Spec

\* The tables, the counter, the flag and every handler stay of their types.
THEOREM TypeCorrect == Spec => []TypeOK
<1>1. TypeInv => TypeOK
  BY DEF TypeInv
<1> QED
  BY <1>1, Typing, PTL

-----------------------------------------------------------------------------
(* The steps, by what they do to the table *)

\* Objects may go, and be completed; none appears or changes hands.
Shrinks ==
  /\ DOMAIN dsRecords' \subseteq DOMAIN dsRecords
  /\ \A id \in DOMAIN dsRecords' :
       /\ dsRecords'[id].owner = dsRecords[id].owner
       /\ dsRecords'[id].dataType = dsRecords[id].dataType
       /\ dsRecords[id].complete => dsRecords'[id].complete

\* A handler that changes the table in one critical section, at its start
Mutates(c) ==
  CompletePostObject(c) \/ DeleteObject(c) \/ RateObject(c) \/ RateObjects(c)

LEMMA MutatesStep ==
  ASSUME TypeOK, NEW c \in Conns, Mutates(c)
  PROVE  /\ Shrinks
         /\ Idle(c)
         /\ dsNextID' = dsNextID
         /\ \E op \in {"update", "delete"}, id \in Ids : Enter(c, "mark", op, id, 0)
<1>1. CASE CompletePostObject(c)
  <2>0. dsRecords \in [DOMAIN dsRecords -> Record]
    BY DEF TypeOK
  <2>1. PICK id \in Ids, isSuccess \in BOOLEAN :
            /\ dsRecords' = IF id \notin DOMAIN dsRecords THEN dsRecords
                            ELSE IF isSuccess THEN [dsRecords EXCEPT ![id].complete = TRUE]
                            ELSE Restrict(dsRecords, DOMAIN dsRecords \ {id})
            /\ Enter(c, "mark", "update", id, 0)
    BY <1>1 DEF CompletePostObject
  <2>2. Shrinks
    BY <2>0, <2>1 DEF Shrinks, Restrict, Record
  <2> QED
    BY <1>1, <2>1, <2>2 DEF CompletePostObject
<1>2. CASE DeleteObject(c)
  BY <1>2 DEF DeleteObject, Shrinks, Restrict
<1>3. CASE RateObject(c) \/ RateObjects(c)
  BY <1>3, RatingSteps DEF Shrinks, SameObjects
<1> QED
  BY <1>1, <1>2, <1>3 DEF Mutates

LEMMA ReplaceOneStep ==
  ASSUME NEW c \in Conns, ReplaceOne(c)
  PROVE  \E old \in Previous(c) :
           /\ DOMAIN dsRecords' = DOMAIN dsRecords \ {old}
           /\ \A id \in DOMAIN dsRecords' : dsRecords'[id] = dsRecords[id]
           /\ dsNextID' = dsNextID
           /\ Enter(c, "mark", "delete", old, 0)
BY DEF ReplaceOne, Restrict

LEMMA InsertStep ==
  ASSUME TypeInv, NEW c \in Conns, Insert(c)
  PROVE  /\ DOMAIN dsRecords' = DOMAIN dsRecords \cup {call[c].id}
         /\ \A id \in DOMAIN dsRecords \ {call[c].id} : dsRecords'[id] = dsRecords[id]
         /\ dsRecords'[call[c].id].owner = PidOf[c]
         /\ dsRecords'[call[c].id].dataType = call[c].dataType
         /\ dsRecords'[call[c].id].complete = (call[c].op = "meta")
<1>1. PICK init \in RatingInits :
        dsRecords' = Put(dsRecords, call[c].id,
                         NewRecord(PidOf[c], call[c].dataType, call[c].op = "meta", init))
  BY DEF Insert
<1>2. PidOf[c] \in Pids /\ call[c].dataType \in DataTypes
  BY ConnAssumption, TypeAssumption DEF TypeInv, CallsOK, CallOK, Insert
<1> DEFINE rec == NewRecord(PidOf[c], call[c].dataType, call[c].op = "meta", init)
<1>3. /\ rec.owner = PidOf[c]
      /\ rec.dataType = call[c].dataType
      /\ rec.complete = (call[c].op = "meta")
  BY DEF NewRecord
<1> HIDE DEF rec
<1>4. dsRecords' = Put(dsRecords, call[c].id, rec)
  BY <1>1 DEF rec
<1> QED
  BY <1>3, <1>4 DEF Put

\* Every step is one of these.
Steps ==
  \/ \E c \in Conns, op \in {"prepare", "meta"}, type \in DataTypes : Allocate(c, op, type)
  \/ \E c \in Conns : \/ Insert(c) \/ ReplaceOne(c) \/ Mutates(c)
                      \/ MarkDirty(c) \/ ReplaceNone(c) \/ IssueToken(c) \/ Unlink(c)
  \/ UNCHANGED dsVars

LEMMA StepCases == [Next]_dsVars => Steps
BY TypeAssumption
   DEF Next, Request, Continue, PreparePostObject, PostMetaBinary, Mutates, Steps

-----------------------------------------------------------------------------
(* Ids *)

IdInv == TypeInv /\ FreshIds /\ RecordsBelow

LEMMA InitIds == Init => IdInv
BY InitType DEF IdInv, Init, IdleCall, FreshIds, Inserting, RecordsBelow

LEMMA NextIds ==
  ASSUME IdInv, [Next]_dsVars
  PROVE  IdInv'
<1>1. TypeInv'
  BY NextType DEF IdInv
<1>2. /\ TypeInv /\ TypeOK /\ dsNextID \in Int
      /\ DOMAIN dsRecords \subseteq Ids /\ Ids \subseteq Int
      /\ call \in [Conns -> [pc : Pcs, op : Ops, id : Ids \cup {0},
                             dataType : DataTypes \cup {0}]]
      /\ \A d \in Conns : call[d].id \in Int
  BY DEF IdInv, TypeInv, TypeOK, Ids
<1>3. ASSUME NEW c \in Conns, NEW op \in {"prepare", "meta"}, NEW type \in DataTypes,
             Allocate(c, op, type)
      PROVE  (FreshIds /\ RecordsBelow)'
  <2>1. /\ dsRecords' = dsRecords /\ dsNextID' = dsNextID + 1
        /\ ~ Inserting(c) /\ Inserting(c)' /\ call'[c].id = dsNextID
        /\ \A d \in Conns \ {c} : call'[d] = call[d]
    BY <1>2, <1>3 DEF Allocate, Enter, Idle, Inserting
  <2>2. \A d \in Conns \ {c} : Inserting(d)' <=> Inserting(d)
    BY <2>1 DEF Inserting
  <2>3. \A d \in Conns : Inserting(d) => call[d].id < dsNextID
    BY DEF IdInv, FreshIds
  <2>4. \A id \in DOMAIN dsRecords : id \in Int /\ id < dsNextID
    BY <1>2 DEF IdInv, RecordsBelow
  <2>5. FreshIds'
    BY <1>2, <2>1, <2>2, <2>3, <2>4 DEF IdInv, FreshIds
  <2>6. RecordsBelow'
    BY <1>2, <2>1, <2>4 DEF RecordsBelow
  <2> QED
    BY <2>5, <2>6
<1>4. ASSUME NEW c \in Conns, Insert(c)
      PROVE  (FreshIds /\ RecordsBelow)'
  <2>1. DOMAIN dsRecords' = DOMAIN dsRecords \cup {call[c].id}
    BY <1>2, <1>4, InsertStep
  <2>2. /\ Inserting(c)
        /\ \A d \in Conns : Inserting(d)' <=> Inserting(d) /\ d # c
        /\ \A d \in Conns : call'[d].id = call[d].id
        /\ dsNextID' = dsNextID
    BY <1>2, <1>4 DEF Insert, Goto, Inserting
  <2> QED
    BY <2>1, <2>2 DEF IdInv, FreshIds, RecordsBelow
<1>5. ASSUME DOMAIN dsRecords' \subseteq DOMAIN dsRecords, dsNextID' = dsNextID,
             \A d \in Conns : Inserting(d)' => Inserting(d) /\ call'[d].id = call[d].id
      PROVE  (FreshIds /\ RecordsBelow)'
  BY <1>5 DEF IdInv, FreshIds, RecordsBelow
<1>6. ASSUME NEW c \in Conns, Mutates(c)
      PROVE  (FreshIds /\ RecordsBelow)'
  BY <1>2, <1>5, <1>6, MutatesStep DEF Shrinks, Enter, Inserting
<1>7. ASSUME NEW c \in Conns, ReplaceOne(c)
      PROVE  (FreshIds /\ RecordsBelow)'
  <2>1. PICK old \in Previous(c) :
          /\ DOMAIN dsRecords' = DOMAIN dsRecords \ {old}
          /\ dsNextID' = dsNextID
          /\ Enter(c, "mark", "delete", old, 0)
    BY <1>7, ReplaceOneStep
  <2>2. \A d \in Conns : Inserting(d)' => Inserting(d) /\ call'[d].id = call[d].id
    BY <1>2, <2>1 DEF Enter, Inserting
  <2> QED
    BY <1>5, <2>1, <2>2
<1>8. ASSUME NEW c \in Conns, MarkDirty(c)
      PROVE  (FreshIds /\ RecordsBelow)'
  <2>1. AfterMark[call[c].op] # "insert" \/ call[c].op = "update"
    BY <1>2, <1>8 DEF MarkDirty, TypeInv, CallsOK, CallOK, AfterMark
  <2>2. \A d \in Conns : Inserting(d)' => Inserting(d) /\ call'[d].id = call[d].id
    BY <1>2, <1>8, <2>1 DEF MarkDirty, Answer, Goto, IdleCall, Inserting
  <2> QED
    BY <1>5, <1>8, <2>2 DEF MarkDirty
<1>9. ASSUME NEW c \in Conns, ReplaceNone(c) \/ IssueToken(c) \/ Unlink(c)
      PROVE  (FreshIds /\ RecordsBelow)'
  BY <1>2, <1>5, <1>9 DEF ReplaceNone, IssueToken, Unlink, Answer, IdleCall, Inserting
<1>10. ASSUME UNCHANGED dsVars
       PROVE  (FreshIds /\ RecordsBelow)'
  BY <1>10 DEF dsVars, IdInv, FreshIds, RecordsBelow, Inserting
<1>11. Steps
  BY StepCases
<1>12. (FreshIds /\ RecordsBelow)'
  BY <1>3, <1>4, <1>6, <1>7, <1>8, <1>9, <1>10, <1>11 DEF Steps
<1> QED
  BY <1>1, <1>12 DEF IdInv

LEMMA Numbering == Spec => []IdInv
<1> QED
  BY InitIds, NextIds, PTL DEF Spec

\* The plain map assignment of a post never overwrites a record, and no two
\* posts store under one id, however their handlers interleave.
THEOREM IdsAreFresh == Spec => []FreshIds
<1>1. IdInv => FreshIds
  BY DEF IdInv
<1> QED
  BY <1>1, Numbering, PTL

LEMMA GoneStaysGone ==
  ASSUME IdInv, [Next]_dsVars, NEW id \in Ids, Gone(id)
  PROVE  Gone(id)'
<1>1. /\ TypeInv /\ TypeOK /\ dsNextID \in Int /\ id \in Int
      /\ call \in [Conns -> [pc : Pcs, op : Ops, id : Ids \cup {0},
                             dataType : DataTypes \cup {0}]]
  BY DEF IdInv, TypeInv, TypeOK, Ids
<1>2. id < dsNextID /\ id \notin DOMAIN dsRecords
  BY DEF Gone
<1>3. ASSUME DOMAIN dsRecords' \subseteq DOMAIN dsRecords, dsNextID' = dsNextID,
             \A d \in Conns : Inserting(d)' => Inserting(d) /\ call'[d].id = call[d].id
      PROVE  Gone(id)'
  BY <1>2, <1>3 DEF Gone
<1>4. ASSUME NEW c \in Conns, NEW op \in {"prepare", "meta"}, NEW type \in DataTypes,
             Allocate(c, op, type)
      PROVE  Gone(id)'
  <2>1. /\ dsRecords' = dsRecords /\ dsNextID' = dsNextID + 1
        /\ call'[c].id = dsNextID
        /\ \A d \in Conns \ {c} : call'[d] = call[d]
    BY <1>1, <1>4 DEF Allocate, Enter
  <2> QED
    BY <1>1, <1>2, <2>1 DEF Gone, Inserting
<1>5. ASSUME NEW c \in Conns, Insert(c)
      PROVE  Gone(id)'
  <2>1. call[c].id # id
    BY <1>5 DEF Gone, Insert, Inserting
  <2>2. DOMAIN dsRecords' = DOMAIN dsRecords \cup {call[c].id} /\ dsNextID' = dsNextID
    BY <1>1, <1>5, InsertStep DEF Insert
  <2>3. \A d \in Conns : Inserting(d)' => Inserting(d) /\ call'[d].id = call[d].id
    BY <1>1, <1>5 DEF Insert, Goto, Inserting
  <2> QED
    BY <1>2, <2>1, <2>2, <2>3 DEF Gone
<1>6. ASSUME NEW c \in Conns, Mutates(c)
      PROVE  Gone(id)'
  BY <1>1, <1>3, <1>6, MutatesStep DEF Shrinks, Enter, Inserting
<1>7. ASSUME NEW c \in Conns, ReplaceOne(c)
      PROVE  Gone(id)'
  <2>1. PICK old \in Previous(c) :
          /\ DOMAIN dsRecords' = DOMAIN dsRecords \ {old}
          /\ dsNextID' = dsNextID
          /\ Enter(c, "mark", "delete", old, 0)
    BY <1>7, ReplaceOneStep
  <2>2. \A d \in Conns : Inserting(d)' => Inserting(d) /\ call'[d].id = call[d].id
    BY <1>1, <2>1 DEF Enter, Inserting
  <2> QED
    BY <1>3, <2>1, <2>2
<1>8. ASSUME NEW c \in Conns, MarkDirty(c)
      PROVE  Gone(id)'
  <2>1. AfterMark[call[c].op] # "insert" \/ call[c].op = "update"
    BY <1>1, <1>8 DEF MarkDirty, TypeInv, CallsOK, CallOK, AfterMark
  <2>2. \A d \in Conns : Inserting(d)' => Inserting(d) /\ call'[d].id = call[d].id
    BY <1>1, <1>8, <2>1 DEF MarkDirty, Answer, Goto, IdleCall, Inserting
  <2> QED
    BY <1>3, <1>8, <2>2 DEF MarkDirty
<1>9. ASSUME NEW c \in Conns, ReplaceNone(c) \/ IssueToken(c) \/ Unlink(c)
      PROVE  Gone(id)'
  BY <1>1, <1>3, <1>9 DEF ReplaceNone, IssueToken, Unlink, Answer, IdleCall, Inserting
<1>10. ASSUME UNCHANGED dsVars
       PROVE  Gone(id)'
  BY <1>10 DEF dsVars, Gone, Inserting
<1>11. Steps
  BY StepCases
<1> QED
  BY <1>4, <1>5, <1>6, <1>7, <1>8, <1>9, <1>10, <1>11 DEF Steps

\* An object that was deleted or replaced stays so: no late call on its id, and
\* no later post, brings it back.
THEOREM DeletedStaysDeleted == Spec => NoResurrection
<1>1. IdInv /\ [Next]_dsVars => [\A id \in Ids : Gone(id) => Gone(id)']_dsVars
  BY GoneStaysGone
<1> QED
  BY <1>1, Numbering, PTL DEF Spec, NoResurrection

-----------------------------------------------------------------------------
(* Balloons, when each player has one connection *)

\* Only PreparePostObject stores an incomplete record.
CompleteInv ==
  \A id \in DOMAIN dsRecords :
    dsRecords[id].dataType \in BalloonTypes => dsRecords[id].complete

\* Two balloons of one player and type: one was just stored by a handler that
\* has yet to replace the other.
PairInv ==
  \A i, j \in DOMAIN dsRecords :
    /\ i # j
    /\ dsRecords[i].owner = dsRecords[j].owner
    /\ dsRecords[i].dataType = dsRecords[j].dataType
    /\ dsRecords[i].dataType \in BalloonTypes
    => \E c \in Conns : /\ Replacing(c)
                        /\ PidOf[c] = dsRecords[i].owner
                        /\ call[c].dataType = dsRecords[i].dataType
                        /\ call[c].id \in {i, j}

\* A post's id is the newest of its player's ids.
NewestInv ==
  \A c \in Conns, id \in DOMAIN dsRecords :
    /\ Inserting(c) \/ Replacing(c)
    /\ dsRecords[id].owner = PidOf[c]
    => id <= call[c].id

BalloonInv == IdInv /\ CompleteInv /\ PairInv /\ NewestInv

\* How a step may move handlers for the facts about the table to survive it.
KeepsReplacing ==
  \A d \in Conns :
    Replacing(d) => /\ Replacing(d)'
                    /\ call'[d].id = call[d].id
                    /\ call'[d].dataType = call[d].dataType

StartsNoPost ==
  \A d \in Conns :
    (Inserting(d) \/ Replacing(d))' => /\ Inserting(d) \/ Replacing(d)
                                       /\ call'[d].id = call[d].id

LEMMA ShrinkComplete == CompleteInv /\ Shrinks => CompleteInv'
BY DEF CompleteInv, Shrinks

LEMMA ShrinkPair == PairInv /\ Shrinks /\ KeepsReplacing => PairInv'
<1> SUFFICES ASSUME PairInv, Shrinks, KeepsReplacing PROVE PairInv'
  OBVIOUS
<1> SUFFICES ASSUME NEW i \in DOMAIN dsRecords', NEW j \in DOMAIN dsRecords',
                    i # j,
                    dsRecords'[i].owner = dsRecords'[j].owner,
                    dsRecords'[i].dataType = dsRecords'[j].dataType,
                    dsRecords'[i].dataType \in BalloonTypes
             PROVE  \E c \in Conns : /\ Replacing(c)'
                                     /\ PidOf[c] = dsRecords'[i].owner
                                     /\ call'[c].dataType = dsRecords'[i].dataType
                                     /\ call'[c].id \in {i, j}
  BY DEF PairInv
<1>1. /\ i \in DOMAIN dsRecords /\ j \in DOMAIN dsRecords
      /\ dsRecords'[i].owner = dsRecords[i].owner
      /\ dsRecords'[j].owner = dsRecords[j].owner
      /\ dsRecords'[i].dataType = dsRecords[i].dataType
      /\ dsRecords'[j].dataType = dsRecords[j].dataType
  BY DEF Shrinks
<1>2. PICK c \in Conns : /\ Replacing(c)
                         /\ PidOf[c] = dsRecords[i].owner
                         /\ call[c].dataType = dsRecords[i].dataType
                         /\ call[c].id \in {i, j}
  BY <1>1 DEF PairInv
<1> QED
  BY <1>1, <1>2 DEF KeepsReplacing

LEMMA ShrinkNewest == NewestInv /\ Shrinks /\ StartsNoPost => NewestInv'
<1> SUFFICES ASSUME NewestInv, Shrinks, StartsNoPost,
                    NEW c \in Conns, NEW id \in DOMAIN dsRecords',
                    (Inserting(c) \/ Replacing(c))',
                    dsRecords'[id].owner = PidOf[c]
             PROVE  id <= call'[c].id
  BY DEF NewestInv
<1>1. id \in DOMAIN dsRecords /\ dsRecords[id].owner = PidOf[c]
  BY DEF Shrinks
<1>2. (Inserting(c) \/ Replacing(c)) /\ call'[c].id = call[c].id
  BY DEF StartsNoPost
<1> QED
  BY <1>1, <1>2 DEF NewestInv

LEMMA InitBalloon == Init => BalloonInv
BY InitIds DEF BalloonInv, Init, CompleteInv, PairInv, NewestInv

LEMMA AllocateBalloon ==
  ASSUME BalloonInv, NEW c \in Conns, NEW op \in {"prepare", "meta"},
         NEW type \in DataTypes, Allocate(c, op, type)
  PROVE  (CompleteInv /\ PairInv /\ NewestInv)'
<1>1. /\ dsNextID \in Int /\ DOMAIN dsRecords \subseteq Int
      /\ call \in [Conns -> [pc : Pcs, op : Ops, id : Ids \cup {0},
                             dataType : DataTypes \cup {0}]]
  BY DEF BalloonInv, IdInv, TypeInv, TypeOK, Ids
<1>2. /\ dsRecords' = dsRecords
      /\ call[c].pc = "idle" /\ call'[c].pc = "insert" /\ call'[c].id = dsNextID
      /\ \A d \in Conns \ {c} : call'[d] = call[d]
  BY <1>1 DEF Allocate, Enter, Idle
<1>3. Shrinks
  BY <1>2 DEF Shrinks
<1>4. KeepsReplacing
  BY <1>2 DEF KeepsReplacing, Replacing
<1>5. NewestInv'
  <2> SUFFICES ASSUME NEW d \in Conns, NEW id \in DOMAIN dsRecords,
                      (Inserting(d) \/ Replacing(d))',
                      dsRecords[id].owner = PidOf[d]
               PROVE  id <= call'[d].id
    BY <1>2 DEF NewestInv
  <2>1. CASE d = c
    BY <1>1, <1>2, <2>1 DEF BalloonInv, IdInv, RecordsBelow
  <2>2. CASE d # c
    BY <1>2, <2>2 DEF BalloonInv, NewestInv, Inserting, Replacing
  <2> QED
    BY <2>1, <2>2
<1> QED
  BY <1>3, <1>4, <1>5, ShrinkComplete, ShrinkPair DEF BalloonInv

LEMMA InsertBalloon ==
  ASSUME OneConnPerPid, BalloonInv, NEW c \in Conns, Insert(c)
  PROVE  (CompleteInv /\ PairInv /\ NewestInv)'
<1> DEFINE new == call[c].id
<1>0. /\ TypeInv /\ new \in Int
      /\ call \in [Conns -> [pc : Pcs, op : Ops, id : Ids \cup {0},
                             dataType : DataTypes \cup {0}]]
  BY DEF BalloonInv, IdInv, TypeInv, TypeOK, Ids
<1>1. /\ DOMAIN dsRecords' = DOMAIN dsRecords \cup {new}
      /\ \A id \in DOMAIN dsRecords \ {new} : dsRecords'[id] = dsRecords[id]
      /\ dsRecords'[new].owner = PidOf[c]
      /\ dsRecords'[new].dataType = call[c].dataType
      /\ dsRecords'[new].complete = (call[c].op = "meta")
  BY <1>0, InsertStep
<1>2. new \notin DOMAIN dsRecords
  BY DEF BalloonInv, IdInv, FreshIds, Insert, Inserting
<1>3. /\ call[c].pc = "insert" /\ call'[c].pc = "mark"
      /\ call'[c].op = call[c].op /\ call'[c].id = new
      /\ call'[c].dataType = call[c].dataType
      /\ \A d \in Conns \ {c} : call'[d] = call[d]
  BY <1>0 DEF Insert, Goto
<1>4. call[c].dataType \in BalloonTypes => call[c].op = "meta"
  BY <1>0, <1>3 DEF TypeInv, CallsOK, CallOK, BalloonTypes
<1> HIDE DEF new
<1>5. CompleteInv'
  BY <1>1, <1>4 DEF BalloonInv, CompleteInv
<1>6. PairInv'
  <2> SUFFICES ASSUME NEW i \in DOMAIN dsRecords', NEW j \in DOMAIN dsRecords',
                      i # j,
                      dsRecords'[i].owner = dsRecords'[j].owner,
                      dsRecords'[i].dataType = dsRecords'[j].dataType,
                      dsRecords'[i].dataType \in BalloonTypes
               PROVE  \E d \in Conns : /\ Replacing(d)'
                                       /\ PidOf[d] = dsRecords'[i].owner
                                       /\ call'[d].dataType = dsRecords'[i].dataType
                                       /\ call'[d].id \in {i, j}
    BY DEF PairInv
  <2>1. CASE new \in {i, j}
    <3>1. dsRecords'[i].owner = PidOf[c] /\ dsRecords'[i].dataType = call[c].dataType
      BY <1>1, <2>1
    <3> QED
      BY <1>3, <1>4, <2>1, <3>1 DEF Replacing
  <2>2. CASE new \notin {i, j}
    <3>1. PICK d \in Conns : /\ Replacing(d)
                             /\ PidOf[d] = dsRecords[i].owner
                             /\ call[d].dataType = dsRecords[i].dataType
                             /\ call[d].id \in {i, j}
      BY <1>1, <2>2 DEF BalloonInv, PairInv
    <3>2. d # c
      BY <1>3, <3>1 DEF Replacing
    <3> QED
      BY <1>1, <1>3, <2>2, <3>1, <3>2 DEF Replacing
  <2> QED
    BY <2>1, <2>2
<1>7. NewestInv'
  <2> SUFFICES ASSUME NEW d \in Conns, NEW id \in DOMAIN dsRecords',
                      (Inserting(d) \/ Replacing(d))',
                      dsRecords'[id].owner = PidOf[d]
               PROVE  id <= call'[d].id
    BY DEF NewestInv
  <2>1. (Inserting(d) \/ Replacing(d)) /\ call'[d].id = call[d].id
    BY <1>3 DEF Inserting, Replacing, new
  <2>2. CASE id = new
    <3>1. d = c
      BY <1>1, <2>2 DEF OneConnPerPid
    <3> QED
      BY <1>0, <1>3, <2>2, <3>1
  <2>3. CASE id # new
    BY <1>1, <2>1, <2>3 DEF BalloonInv, NewestInv
  <2> QED
    BY <2>2, <2>3
<1> QED
  BY <1>5, <1>6, <1>7

LEMMA ReplaceOneBalloon ==
  ASSUME OneConnPerPid, BalloonInv, NEW c \in Conns, ReplaceOne(c)
  PROVE  (CompleteInv /\ PairInv /\ NewestInv)'
<1>0. /\ TypeInv
      /\ call \in [Conns -> [pc : Pcs, op : Ops, id : Ids \cup {0},
                             dataType : DataTypes \cup {0}]]
  BY DEF BalloonInv, IdInv, TypeInv, TypeOK
<1>1. PICK old \in Previous(c) :
        /\ DOMAIN dsRecords' = DOMAIN dsRecords \ {old}
        /\ \A id \in DOMAIN dsRecords' : dsRecords'[id] = dsRecords[id]
        /\ Enter(c, "mark", "delete", old, 0)
  BY ReplaceOneStep
<1>2. /\ call[c].pc = "replace" /\ call[c].op = "meta"
      /\ call'[c].pc = "mark" /\ call'[c].op = "delete"
      /\ \A d \in Conns \ {c} : call'[d] = call[d]
  BY <1>0, <1>1 DEF ReplaceOne, TypeInv, CallsOK, CallOK, Enter
<1>3. Shrinks
  BY <1>1 DEF Shrinks
<1>4. StartsNoPost
  BY <1>2 DEF StartsNoPost, Inserting, Replacing
<1>5. PairInv'
  <2> SUFFICES ASSUME NEW i \in DOMAIN dsRecords', NEW j \in DOMAIN dsRecords',
                      i # j,
                      dsRecords'[i].owner = dsRecords'[j].owner,
                      dsRecords'[i].dataType = dsRecords'[j].dataType,
                      dsRecords'[i].dataType \in BalloonTypes
               PROVE  \E d \in Conns : /\ Replacing(d)'
                                       /\ PidOf[d] = dsRecords'[i].owner
                                       /\ call'[d].dataType = dsRecords'[i].dataType
                                       /\ call'[d].id \in {i, j}
    BY DEF PairInv
  <2>1. /\ i \in DOMAIN dsRecords /\ j \in DOMAIN dsRecords /\ i # old /\ j # old
        /\ dsRecords'[i] = dsRecords[i] /\ dsRecords'[j] = dsRecords[j]
    BY <1>1
  <2>2. PICK d \in Conns : /\ Replacing(d)
                           /\ PidOf[d] = dsRecords[i].owner
                           /\ call[d].dataType = dsRecords[i].dataType
                           /\ call[d].id \in {i, j}
    BY <2>1 DEF BalloonInv, PairInv
  <2>3. CASE d # c
    BY <1>2, <2>1, <2>2, <2>3 DEF Replacing
  <2>4. CASE d = c
    \* old makes a second pair with the one of i, j that c did not store, and
    \* nobody is there to have stored either.
    <3>1. PICK k \in {i, j} : k # call[c].id
      OBVIOUS
    <3>2. /\ old \in DOMAIN dsRecords /\ old # call[c].id /\ old # k
          /\ dsRecords[old].owner = dsRecords[k].owner
          /\ dsRecords[old].dataType = dsRecords[k].dataType
          /\ dsRecords[k].dataType \in BalloonTypes
          /\ dsRecords[k].owner = PidOf[c]
      BY <2>1, <2>2, <2>4, <3>1 DEF Previous
    <3>3. PICK e \in Conns : PidOf[e] = PidOf[c] /\ call[e].id \in {old, k}
      BY <2>1, <3>1, <3>2 DEF BalloonInv, PairInv
    <3>4. e = c
      BY <3>3 DEF OneConnPerPid
    <3> QED
      BY <3>1, <3>2, <3>3, <3>4
  <2> QED
    BY <2>3, <2>4
<1> QED
  BY <1>3, <1>4, <1>5, ShrinkComplete, ShrinkNewest DEF BalloonInv

LEMMA ReplaceNoneBalloon ==
  ASSUME OneConnPerPid, BalloonInv, NEW c \in Conns, ReplaceNone(c)
  PROVE  (CompleteInv /\ PairInv /\ NewestInv)'
<1>0. call \in [Conns -> [pc : Pcs, op : Ops, id : Ids \cup {0},
                          dataType : DataTypes \cup {0}]]
  BY DEF BalloonInv, IdInv, TypeInv, TypeOK
<1>1. /\ dsRecords' = dsRecords /\ Previous(c) = {}
      /\ call'[c].pc = "idle"
      /\ \A d \in Conns \ {c} : call'[d] = call[d]
  BY <1>0 DEF ReplaceNone, Answer, IdleCall
<1>2. Shrinks
  BY <1>1 DEF Shrinks
<1>3. StartsNoPost
  BY <1>1 DEF StartsNoPost, Inserting, Replacing
<1>4. PairInv'
  <2> SUFFICES ASSUME NEW i \in DOMAIN dsRecords, NEW j \in DOMAIN dsRecords,
                      i # j,
                      dsRecords[i].owner = dsRecords[j].owner,
                      dsRecords[i].dataType = dsRecords[j].dataType,
                      dsRecords[i].dataType \in BalloonTypes
               PROVE  \E d \in Conns : /\ Replacing(d)'
                                       /\ PidOf[d] = dsRecords[i].owner
                                       /\ call'[d].dataType = dsRecords[i].dataType
                                       /\ call'[d].id \in {i, j}
    BY <1>1 DEF PairInv
  <2>1. PICK d \in Conns : /\ Replacing(d)
                           /\ PidOf[d] = dsRecords[i].owner
                           /\ call[d].dataType = dsRecords[i].dataType
                           /\ call[d].id \in {i, j}
    BY DEF BalloonInv, PairInv
  <2>2. dsRecords[i].complete /\ dsRecords[j].complete
    BY DEF BalloonInv, CompleteInv
  <2>3. d # c
    BY <1>1, <2>1, <2>2 DEF Previous
  <2> QED
    BY <1>1, <2>1, <2>3 DEF Replacing
<1> QED
  BY <1>2, <1>3, <1>4, ShrinkComplete, ShrinkNewest DEF BalloonInv

LEMMA NextBalloon ==
  ASSUME OneConnPerPid, BalloonInv, [Next]_dsVars
  PROVE  BalloonInv'
<1>0. /\ TypeInv /\ TypeOK
      /\ call \in [Conns -> [pc : Pcs, op : Ops, id : Ids \cup {0},
                             dataType : DataTypes \cup {0}]]
  BY DEF BalloonInv, IdInv, TypeInv, TypeOK
<1>1. ASSUME Shrinks, KeepsReplacing, StartsNoPost
      PROVE  (CompleteInv /\ PairInv /\ NewestInv)'
  BY <1>1, ShrinkComplete, ShrinkPair, ShrinkNewest DEF BalloonInv
<1>2. ASSUME NEW c \in Conns, Mutates(c)
      PROVE  (CompleteInv /\ PairInv /\ NewestInv)'
  <2>1. PICK op \in {"update", "delete"}, id \in Ids : Enter(c, "mark", op, id, 0)
    BY <1>0, <1>2, MutatesStep
  <2>2. /\ Shrinks /\ call[c].pc = "idle"
        /\ call'[c].pc = "mark" /\ call'[c].op # "meta"
        /\ \A d \in Conns \ {c} : call'[d] = call[d]
    BY <1>0, <1>2, <2>1, MutatesStep DEF Enter, Idle
  <2> QED
    BY <1>1, <2>2 DEF KeepsReplacing, StartsNoPost, Inserting, Replacing
<1>3. ASSUME NEW c \in Conns, MarkDirty(c)
      PROVE  (CompleteInv /\ PairInv /\ NewestInv)'
  <2>1. dsRecords' = dsRecords /\ \A d \in Conns \ {c} : call'[d] = call[d]
    BY <1>0, <1>3 DEF MarkDirty, Answer, Goto
  <2>2. Shrinks
    BY <2>1 DEF Shrinks
  <2>3. CASE call[c].op = "update"
    <3>1. call'[c].pc = "idle"
      BY <1>0, <1>3, <2>3 DEF MarkDirty, Answer, IdleCall
    <3> QED
      BY <1>1, <2>1, <2>2, <2>3, <3>1
         DEF KeepsReplacing, StartsNoPost, Inserting, Replacing
  <2>4. CASE call[c].op # "update"
    <3>1. call[c].pc = "mark" /\ call[c].op \in {"prepare", "meta", "delete"}
      BY <1>0, <1>3, <2>4 DEF MarkDirty, TypeInv, CallsOK, CallOK
    <3>2. /\ AfterMark[call[c].op] # "insert"
          /\ call[c].op = "meta" => AfterMark[call[c].op] = "replace"
      BY <3>1 DEF AfterMark
    <3>3. /\ call'[c].pc = AfterMark[call[c].op] /\ call'[c].op = call[c].op
          /\ call'[c].id = call[c].id /\ call'[c].dataType = call[c].dataType
      BY <1>0, <1>3, <2>4 DEF MarkDirty, Goto
    <3> QED
      BY <1>1, <2>1, <2>2, <3>1, <3>2, <3>3
         DEF KeepsReplacing, StartsNoPost, Inserting, Replacing
  <2> QED
    BY <2>3, <2>4
<1>4. ASSUME NEW c \in Conns, IssueToken(c) \/ Unlink(c)
      PROVE  (CompleteInv /\ PairInv /\ NewestInv)'
  <2>1. /\ dsRecords' = dsRecords /\ \A d \in Conns \ {c} : call'[d] = call[d]
        /\ call[c].pc \in {"token", "unlink"} /\ call'[c].pc = "idle"
    BY <1>0, <1>4 DEF IssueToken, Unlink, Answer, IdleCall
  <2> QED
    BY <1>1, <2>1 DEF Shrinks, KeepsReplacing, StartsNoPost, Inserting, Replacing
<1>5. ASSUME UNCHANGED dsVars
      PROVE  (CompleteInv /\ PairInv /\ NewestInv)'
  BY <1>1, <1>5 DEF dsVars, Shrinks, KeepsReplacing, StartsNoPost, Inserting, Replacing
<1>6. Steps
  BY StepCases
<1>7. (CompleteInv /\ PairInv /\ NewestInv)'
  BY <1>2, <1>3, <1>4, <1>5, <1>6, AllocateBalloon, InsertBalloon, ReplaceOneBalloon,
     ReplaceNoneBalloon DEF Steps
<1> QED
  BY <1>7, NextIds DEF BalloonInv

LEMMA Ballooning ==
  ASSUME OneConnPerPid
  PROVE  Spec => []BalloonInv
<1> QED
  BY InitBalloon, NextBalloon, PTL DEF Spec

\* With one connection per player, a player has at most one balloon of a type
\* except while a PostMetaBinary of theirs is between storing and replacing.
THEOREM OneActiveBalloon ==
  ASSUME OneConnPerPid
  PROVE  Spec => []OneActive
<1>1. BalloonInv => OneActive
  BY DEF BalloonInv, PairInv, OneActive, Active
<1> QED
  BY <1>1, Ballooning, PTL

\* With one connection per player, dsDeletePreviousBalloon only ever deletes a
\* record older than the one just placed.
THEOREM ReplacementIsOlder ==
  ASSUME OneConnPerPid
  PROVE  Spec => ReplacesOlder
<1> DEFINE Older == \A c \in Conns : ReplaceOne(c) =>
                      \A id \in DOMAIN dsRecords \ DOMAIN dsRecords' : id < call[c].id
<1>1. ASSUME BalloonInv, NEW c \in Conns, ReplaceOne(c),
             NEW id \in DOMAIN dsRecords \ DOMAIN dsRecords'
      PROVE  id < call[c].id
  <2>1. id \in Previous(c)
    BY <1>1, ReplaceOneStep
  <2>2. /\ id \in Int /\ call[c].id \in Int
        /\ call[c].op = "meta"
    BY <1>1 DEF BalloonInv, IdInv, TypeInv, TypeOK, CallsOK, CallOK, Ids, ReplaceOne
  <2>3. id <= call[c].id
    BY <1>1, <2>1, <2>2 DEF BalloonInv, NewestInv, Replacing, ReplaceOne, Previous
  <2> QED
    BY <2>1, <2>2, <2>3 DEF Previous
<1>2. BalloonInv /\ [Next]_dsVars => [Older]_dsVars
  BY <1>1
<1> QED
  BY <1>2, Ballooning, PTL DEF Spec, ReplacesOlder

-----------------------------------------------------------------------------
(* Ratings *)

\* A rating adds one to the count of its slot and to the record's, and its value to
\* the total of its slot and to the record's.
LEMMA RateTallies ==
  ASSUME NEW r \in Record, TalliesAgree(r), NEW slot \in Slots, NEW value \in RateValues
  PROVE  TalliesAgree(RateRecord(r, slot, value))
<1> DEFINE q == RateRecord(r, slot, value)
           Counts(rec) == [s \in DOMAIN rec.ratings |-> rec.ratings[s].count]
           Totals(rec) == [s \in DOMAIN rec.ratings |->
                             rec.ratings[s].total - rec.ratings[s].initial]
<1>1. /\ r.ratings \in [Slots -> RatingInfo] /\ q.ratings \in [Slots -> RatingInfo]
      /\ r.ratingSum \in Int /\ r.ratingN \in Nat /\ value \in Int
  BY RateRecordType, RatingAssumption DEF Record
<1>2. /\ q.ratingN = r.ratingN + 1
      /\ q.ratingSum = r.ratingSum + value
      /\ q.ratings = AddRating(r.ratings, slot, value)
  BY DEF RateRecord, Record
<1>3. /\ \A s \in Slots \ {slot} : q.ratings[s] = r.ratings[s]
      /\ q.ratings[slot].total = r.ratings[slot].total + value
      /\ q.ratings[slot].count = r.ratings[slot].count + 1
      /\ q.ratings[slot].initial = r.ratings[slot].initial
  BY <1>1, <1>2 DEF AddRating, RatingInfo
<1> HIDE DEF q
<1>4. SumFunction(Counts(q)) = SumFunction(Counts(r)) + Counts(q)[slot] - Counts(r)[slot]
  <2> DEFINE f == Counts(r)
             g == Counts(q)
  <2>1. /\ DOMAIN f = Slots /\ DOMAIN g = Slots
        /\ \A s \in Slots : f[s] \in Int /\ g[s] \in Int
        /\ \A s \in Slots \ {slot} : g[s] = f[s]
    BY <1>1, <1>3 DEF RatingInfo
  <2> HIDE DEF f, g
  <2>2. SumFunction(g) = SumFunction(f) + g[slot] - f[slot]
    BY <2>1, RatingAssumption, SumChange
  <2> QED
    BY <2>2 DEF f, g
<1>5. SumFunction(Totals(q)) = SumFunction(Totals(r)) + Totals(q)[slot] - Totals(r)[slot]
  <2> DEFINE f == Totals(r)
             g == Totals(q)
  <2>1. /\ DOMAIN f = Slots /\ DOMAIN g = Slots
        /\ \A s \in Slots : f[s] \in Int /\ g[s] \in Int
        /\ \A s \in Slots \ {slot} : g[s] = f[s]
    BY <1>1, <1>3 DEF RatingInfo
  <2> HIDE DEF f, g
  <2>2. SumFunction(g) = SumFunction(f) + g[slot] - f[slot]
    BY <2>1, RatingAssumption, SumChange
  <2> QED
    BY <2>2 DEF f, g
<1>6. /\ Counts(q)[slot] = Counts(r)[slot] + 1
      /\ Totals(q)[slot] = Totals(r)[slot] + value
      /\ Counts(r)[slot] \in Int /\ Totals(r)[slot] \in Int
  BY <1>1, <1>3 DEF RatingInfo
<1>7. r.ratingN = SumFunction(Counts(r)) /\ r.ratingSum = SumFunction(Totals(r))
  BY DEF TalliesAgree
<1> HIDE DEF Counts, Totals
<1>8. q.ratingN = SumFunction(Counts(q)) /\ q.ratingSum = SumFunction(Totals(q))
  BY <1>1, <1>2, <1>4, <1>5, <1>6, <1>7
<1> QED
  BY <1>8 DEF TalliesAgree, Counts, Totals, q

\* A new record has no ratings, whatever its slots start from.
LEMMA NewTallies ==
  ASSUME NEW owner, NEW type, NEW complete, NEW init \in RatingInits
  PROVE  TalliesAgree(NewRecord(owner, type, complete, init))
<1> DEFINE r == NewRecord(owner, type, complete, init)
           counts == [s \in DOMAIN r.ratings |-> r.ratings[s].count]
           totals == [s \in DOMAIN r.ratings |-> r.ratings[s].total - r.ratings[s].initial]
<1>1. /\ r.ratingN = 0 /\ r.ratingSum = 0
      /\ DOMAIN counts = Slots /\ DOMAIN totals = Slots
  BY DEF NewRecord, SeedRatings
<1>2. \A s \in Slots : counts[s] = 0 /\ totals[s] = 0
  <2>1. \A s \in Slots : init[s] \in Int
    BY RatingAssumption DEF RatingInits
  <2>2. /\ DOMAIN r.ratings = Slots
        /\ \A s \in Slots : /\ r.ratings[s].total = init[s]
                            /\ r.ratings[s].count = 0
                            /\ r.ratings[s].initial = init[s]
    BY DEF NewRecord, SeedRatings
  <2> HIDE DEF r
  <2>3. \A s \in Slots : init[s] - init[s] = 0
    BY <2>1
  <2> QED
    BY <2>2, <2>3
<1>3. r.ratingN = SumFunction(counts) /\ r.ratingSum = SumFunction(totals)
  <2> HIDE DEF r, counts, totals
  <2> QED
    BY <1>1, <1>2, RatingAssumption, SumZero DEF SumFunction
<1> QED
  BY <1>3 DEF TalliesAgree

LEMMA RateInTallies ==
  ASSUME NEW D, NEW recs \in [D -> Record], \A i \in D : TalliesAgree(recs[i]),
         NEW id, NEW slot \in Slots, NEW value \in RateValues
  PROVE  \A i \in D : TalliesAgree(RateIn(recs, id, slot, value)[i])
BY RateTallies DEF RateIn

\* Every handler keeps the tallies of the records it keeps.
LEMMA NextTallies ==
  ASSUME TypeInv, RatingsAgree, [Next]_dsVars
  PROVE  RatingsAgree'
<1>0. /\ TypeOK /\ dsRecords \in [DOMAIN dsRecords -> Record]
      /\ \A i \in DOMAIN dsRecords : TalliesAgree(dsRecords[i])
  BY DEF TypeInv, TypeOK, RatingsAgree
<1>1. ASSUME DOMAIN dsRecords' \subseteq DOMAIN dsRecords,
             \A i \in DOMAIN dsRecords' : dsRecords'[i] = dsRecords[i]
      PROVE  RatingsAgree'
  BY <1>0, <1>1 DEF RatingsAgree
<1>2. ASSUME NEW c \in Conns, Insert(c) PROVE RatingsAgree'
  <2>1. PICK init \in RatingInits :
          dsRecords' = Put(dsRecords, call[c].id,
                           NewRecord(PidOf[c], call[c].dataType, call[c].op = "meta", init))
    BY <1>2 DEF Insert
  <2> DEFINE rec == NewRecord(PidOf[c], call[c].dataType, call[c].op = "meta", init)
  <2>2. TalliesAgree(rec)
    BY NewTallies
  <2> HIDE DEF rec
  <2>3. dsRecords' = Put(dsRecords, call[c].id, rec)
    BY <2>1 DEF rec
  <2>4. \A i \in DOMAIN dsRecords' :
          dsRecords'[i] = rec \/ (i \in DOMAIN dsRecords /\ dsRecords'[i] = dsRecords[i])
    BY <2>3 DEF Put
  <2> QED
    BY <1>0, <2>2, <2>4 DEF RatingsAgree
<1>3. ASSUME NEW c \in Conns, RateObject(c) \/ RateObjects(c) PROVE RatingsAgree'
  <2>1. CASE RateObject(c)
    <3>1. PICK id \in Ids, slot \in Slots, value \in RateValues :
            dsRecords' = RateIn(dsRecords, id, slot, value)
      BY <2>1 DEF RateObject
    <3>2. DOMAIN dsRecords' = DOMAIN dsRecords
      BY <3>1 DEF RateIn
    <3> QED
      BY <1>0, <3>1, <3>2, RateInTallies DEF RatingsAgree
  <2>2. CASE RateObjects(c)
    <3>1. PICK id1 \in Ids, id2 \in Ids, slot1 \in Slots, slot2 \in Slots,
               value1 \in RateValues, value2 \in RateValues :
            dsRecords' = RateIn(RateIn(dsRecords, id1, slot1, value1), id2, slot2, value2)
      BY <2>2 DEF RateObjects
    <3> DEFINE once == RateIn(dsRecords, id1, slot1, value1)
    <3>2. /\ once \in [DOMAIN dsRecords -> Record]
          /\ \A i \in DOMAIN dsRecords : TalliesAgree(once[i])
      BY <1>0, RateInType, RateInTallies
    <3>3. dsRecords' = RateIn(once, id2, slot2, value2)
      BY <3>1
    <3> HIDE DEF once
    <3>4. DOMAIN dsRecords' = DOMAIN dsRecords
      BY <3>2, <3>3 DEF RateIn
    <3> QED
      BY <3>2, <3>3, <3>4, RateInTallies DEF RatingsAgree
  <2> QED
    BY <1>3, <2>1, <2>2
<1>4. ASSUME NEW c \in Conns, CompletePostObject(c) PROVE RatingsAgree'
  <2>1. PICK id \in Ids, isSuccess \in BOOLEAN :
          dsRecords' = IF id \notin DOMAIN dsRecords THEN dsRecords
                       ELSE IF isSuccess THEN [dsRecords EXCEPT ![id].complete = TRUE]
                       ELSE Restrict(dsRecords, DOMAIN dsRecords \ {id})
    BY <1>4 DEF CompletePostObject
  <2>2. CASE id \in DOMAIN dsRecords /\ isSuccess
    <3>1. /\ DOMAIN dsRecords' = DOMAIN dsRecords
          /\ \A i \in DOMAIN dsRecords :
               /\ dsRecords'[i].ratings = dsRecords[i].ratings
               /\ dsRecords'[i].ratingN = dsRecords[i].ratingN
               /\ dsRecords'[i].ratingSum = dsRecords[i].ratingSum
      BY <1>0, <2>1, <2>2 DEF Record
    <3> QED
      BY <1>0, <3>1 DEF RatingsAgree, TalliesAgree
  <2>3. CASE ~ (id \in DOMAIN dsRecords /\ isSuccess)
    BY <1>1, <2>1, <2>3 DEF Restrict
  <2> QED
    BY <2>2, <2>3
<1>5. ASSUME NEW c \in Conns, DeleteObject(c) \/ ReplaceOne(c) PROVE RatingsAgree'
  BY <1>1, <1>5 DEF DeleteObject, ReplaceOne, Restrict
<1>6. ASSUME UNCHANGED dsRecords PROVE RatingsAgree'
  BY <1>1, <1>6
<1>7. Steps
  BY StepCases
<1> QED
  BY <1>2, <1>3, <1>4, <1>5, <1>6, <1>7
     DEF Steps, Mutates, Allocate, MarkDirty, ReplaceNone, IssueToken, Unlink, dsVars

\* RatingSum and RatingN stay the totals of the per-slot ratings (handleRateObject,
\* datastore.go), whatever objects, slots and values the calls name, in whatever
\* order they are applied and whatever is completed or deleted meanwhile.
THEOREM TalliesStayEqual == Spec => []RatingsAgree
<1>1. Init => RatingsAgree
  BY DEF Init, RatingsAgree
<1> QED
  BY <1>1, Typing, NextTallies, PTL DEF Spec

-----------------------------------------------------------------------------
(* Refinement: the object table implements the board of balloons. *)

\* A balloon that is stored and not yet replaced the old one is in the table:
\* only its own player's handler could delete it, and that is the one storing it.
HeldInv ==
  \A c \in Conns :
    Replacing(c) /\ call[c].dataType \in BalloonTypes =>
      /\ call[c].id \in DOMAIN dsRecords
      /\ dsRecords[call[c].id].owner = PidOf[c]
      /\ dsRecords[call[c].id].dataType = call[c].dataType

BoardInv == BalloonInv /\ HeldInv

\* What a client deletes, or a post replaces, is its own player's.
LEMMA RemovesOwn ==
  ASSUME OwnIdsOnly, TypeOK, NEW c \in Conns, Mutates(c) \/ ReplaceOne(c)
  PROVE  \A id \in DOMAIN dsRecords \ DOMAIN dsRecords' : dsRecords[id].owner = PidOf[c]
<1>1. CASE CompletePostObject(c)
  BY <1>1 DEF CompletePostObject, MayName, Restrict
<1>2. CASE DeleteObject(c)
  BY <1>2 DEF DeleteObject, MayName, Restrict
<1>3. CASE RateObject(c) \/ RateObjects(c)
  BY <1>3, RatingSteps DEF SameObjects
<1>4. CASE ReplaceOne(c)
  BY <1>4, ReplaceOneStep DEF Previous
<1> QED
  BY <1>1, <1>2, <1>3, <1>4 DEF Mutates

LEMMA HeldShrinks ==
  ASSUME HeldInv, Shrinks,
         NEW c \in Conns,
         \A id \in DOMAIN dsRecords \ DOMAIN dsRecords' : dsRecords[id].owner = PidOf[c],
         OneConnPerPid,
         ~ Replacing(c)',
         \A d \in Conns \ {c} : call'[d] = call[d]
  PROVE  HeldInv'
<1> SUFFICES ASSUME NEW d \in Conns, Replacing(d)', call'[d].dataType \in BalloonTypes
             PROVE  /\ call'[d].id \in DOMAIN dsRecords'
                    /\ dsRecords'[call'[d].id].owner = PidOf[d]
                    /\ dsRecords'[call'[d].id].dataType = call'[d].dataType
  BY DEF HeldInv
<1>1. d # c /\ call'[d] = call[d] /\ PidOf[d] # PidOf[c]
  BY DEF OneConnPerPid
<1>2. /\ call[d].id \in DOMAIN dsRecords
      /\ dsRecords[call[d].id].owner = PidOf[d]
      /\ dsRecords[call[d].id].dataType = call[d].dataType
  BY <1>1 DEF HeldInv, Replacing
<1> QED
  BY <1>1, <1>2 DEF Shrinks

LEMMA NextHeld ==
  ASSUME OneConnPerPid, OwnIdsOnly, BoardInv, [Next]_dsVars
  PROVE  HeldInv'
<1>0. /\ TypeInv /\ TypeOK
      /\ call \in [Conns -> [pc : Pcs, op : Ops, id : Ids \cup {0},
                             dataType : DataTypes \cup {0}]]
  BY DEF BoardInv, BalloonInv, IdInv, TypeInv, TypeOK
<1>1. ASSUME NEW c \in Conns, NEW op \in {"prepare", "meta"}, NEW type \in DataTypes,
             Allocate(c, op, type)
      PROVE  HeldInv'
  <2>1. /\ dsRecords' = dsRecords /\ call'[c].pc = "insert"
        /\ \A d \in Conns \ {c} : call'[d] = call[d]
    BY <1>0, <1>1 DEF Allocate, Enter
  <2> QED
    BY <2>1 DEF BoardInv, HeldInv, Replacing
<1>2. ASSUME NEW c \in Conns, Insert(c)
      PROVE  HeldInv'
  <2>1. /\ DOMAIN dsRecords' = DOMAIN dsRecords \cup {call[c].id}
        /\ \A id \in DOMAIN dsRecords \ {call[c].id} : dsRecords'[id] = dsRecords[id]
        /\ dsRecords'[call[c].id].owner = PidOf[c]
        /\ dsRecords'[call[c].id].dataType = call[c].dataType
    BY <1>0, <1>2, InsertStep
  <2>2. call[c].id \notin DOMAIN dsRecords
    BY <1>2 DEF BoardInv, BalloonInv, IdInv, FreshIds, Insert, Inserting
  <2>3. /\ call'[c].id = call[c].id /\ call'[c].dataType = call[c].dataType
        /\ \A d \in Conns \ {c} : call'[d] = call[d]
    BY <1>0, <1>2 DEF Insert, Goto
  <2> QED
    BY <2>1, <2>2, <2>3 DEF BoardInv, HeldInv, Replacing
<1>3. ASSUME NEW c \in Conns, Mutates(c)
      PROVE  HeldInv'
  <2>1. PICK op \in {"update", "delete"}, id \in Ids : Enter(c, "mark", op, id, 0)
    BY <1>0, <1>3, MutatesStep
  <2>2. /\ Shrinks /\ call'[c].op # "meta"
        /\ \A d \in Conns \ {c} : call'[d] = call[d]
    BY <1>0, <1>3, <2>1, MutatesStep DEF Enter
  <2>3. \A old \in DOMAIN dsRecords \ DOMAIN dsRecords' : dsRecords[old].owner = PidOf[c]
    BY <1>0, <1>3, RemovesOwn
  <2>4. ~ Replacing(c)'
    BY <2>2 DEF Replacing
  <2> QED
    BY <2>2, <2>3, <2>4, HeldShrinks DEF BoardInv
<1>4. ASSUME NEW c \in Conns, ReplaceOne(c)
      PROVE  HeldInv'
  <2>1. PICK old \in Previous(c) :
          /\ DOMAIN dsRecords' = DOMAIN dsRecords \ {old}
          /\ \A id \in DOMAIN dsRecords' : dsRecords'[id] = dsRecords[id]
          /\ Enter(c, "mark", "delete", old, 0)
    BY <1>4, ReplaceOneStep
  <2>2. /\ Shrinks /\ call'[c].op # "meta"
        /\ \A d \in Conns \ {c} : call'[d] = call[d]
    BY <1>0, <2>1 DEF Shrinks, Enter
  <2>3. \A id \in DOMAIN dsRecords \ DOMAIN dsRecords' : dsRecords[id].owner = PidOf[c]
    BY <1>0, <1>4, RemovesOwn
  <2>4. ~ Replacing(c)'
    BY <2>2 DEF Replacing
  <2> QED
    BY <2>2, <2>3, <2>4, HeldShrinks DEF BoardInv
<1>5. ASSUME NEW c \in Conns,
             MarkDirty(c) \/ ReplaceNone(c) \/ IssueToken(c) \/ Unlink(c)
      PROVE  HeldInv'
  <2>1. dsRecords' = dsRecords /\ \A d \in Conns \ {c} : call'[d] = call[d]
    BY <1>0, <1>5 DEF MarkDirty, ReplaceNone, IssueToken, Unlink, Answer, Goto
  <2>2. Replacing(c)' => /\ Replacing(c)
                         /\ call'[c].id = call[c].id
                         /\ call'[c].dataType = call[c].dataType
    BY <1>0, <1>5 DEF MarkDirty, ReplaceNone, IssueToken, Unlink, Answer, Goto,
                      IdleCall, Replacing
  <2> QED
    BY <2>1, <2>2 DEF BoardInv, HeldInv, Replacing
<1>6. CASE UNCHANGED dsVars
  BY <1>6 DEF dsVars, BoardInv, HeldInv, Replacing
<1>7. Steps
  BY StepCases
<1> QED
  BY <1>1, <1>2, <1>3, <1>4, <1>5, <1>6, <1>7 DEF Steps

LEMMA Holding ==
  ASSUME OneConnPerPid, OwnIdsOnly
  PROVE  Spec => []BoardInv
<1>1. Init => BoardInv
  BY InitBalloon DEF BoardInv, HeldInv, Init, IdleCall, Replacing
<1>2. BoardInv /\ [Next]_dsVars => BoardInv'
  BY NextBalloon, NextHeld DEF BoardInv
<1> QED
  BY <1>1, <1>2, PTL DEF Spec

-----------------------------------------------------------------------------
(* The board *)

LEMMA NewestTyping ==
  ASSUME TypeOK, NEW p, NEW t
  PROVE  Active(p, t) \subseteq Int /\ Newest(p, t) \subseteq Active(p, t)
BY DEF TypeOK, Active, Newest, Ids

LEMMA NewestIs ==
  ASSUME NEW p, NEW t, NEW id \in Active(p, t), Active(p, t) \subseteq Int,
         \A other \in Active(p, t) : other <= id
  PROVE  Newest(p, t) = {id}
BY DEF Newest

LEMMA BoardKept ==
  ASSUME \A p \in Pids, t \in BalloonTypes : Newest(p, t)' = Newest(p, t)
  PROVE  boardBar' = boardBar
<1>1. \A pt \in Pids \X BalloonTypes : Newest(pt[1], pt[2])' = Newest(pt[1], pt[2])
  OBVIOUS
<1> QED
  BY <1>1 DEF boardBar

LEMMA BoardSet ==
  ASSUME NEW p \in Pids, NEW t \in BalloonTypes, NEW S,
         Newest(p, t)' = S,
         \A q \in Pids, u \in BalloonTypes :
           q # p \/ u # t => Newest(q, u)' = Newest(q, u)
  PROVE  boardBar' = [boardBar EXCEPT ![<<p, t>>] = S]
<1>1. \A pt \in Pids \X BalloonTypes :
        Newest(pt[1], pt[2])' = IF pt = <<p, t>> THEN S ELSE Newest(pt[1], pt[2])
  OBVIOUS
<1> QED
  BY <1>1 DEF boardBar

LEMMA ShrinkActive ==
  ASSUME CompleteInv, Shrinks, NEW p, NEW t \in BalloonTypes
  PROVE  Active(p, t)' = Active(p, t) \cap DOMAIN dsRecords'
BY DEF CompleteInv, Shrinks, Active

LEMMA ActiveNewest ==
  ASSUME NEW p, NEW t, Active(p, t)' = Active(p, t)
  PROVE  Newest(p, t)' = Newest(p, t)
BY DEF Newest

LEMMA MutatesOne ==
  ASSUME TypeOK, NEW c \in Conns, Mutates(c)
  PROVE  \E id \in Ids : \/ DOMAIN dsRecords' = DOMAIN dsRecords
                         \/ DOMAIN dsRecords' = DOMAIN dsRecords \ {id}
<1>1. CASE CompletePostObject(c)
  BY <1>1 DEF CompletePostObject, Restrict
<1>2. CASE DeleteObject(c)
  BY <1>2 DEF DeleteObject, Restrict
<1>3. CASE RateObject(c) \/ RateObjects(c)
  BY <1>3, RatingSteps DEF SameObjects
<1> QED
  BY <1>1, <1>2, <1>3 DEF Mutates

LEMMA UsedKept ==
  ASSUME IdInv, [Next]_dsVars, ~ \E c \in Conns : Insert(c)
  PROVE  usedBar' = usedBar
<1>0. /\ TypeInv /\ dsNextID \in Int /\ Ids \subseteq Int
      /\ call \in [Conns -> [pc : Pcs, op : Ops, id : Ids \cup {0},
                             dataType : DataTypes \cup {0}]]
  BY DEF IdInv, TypeInv, TypeOK, Ids
<1>1. ASSUME dsNextID' = dsNextID,
             \A d \in Conns : /\ Inserting(d)' <=> Inserting(d)
                              /\ Inserting(d) => call'[d].id = call[d].id
      PROVE  usedBar' = usedBar
  BY <1>1 DEF usedBar
<1>2. ASSUME NEW c \in Conns, NEW op \in {"prepare", "meta"}, NEW type \in DataTypes,
             Allocate(c, op, type)
      PROVE  usedBar' = usedBar
  <2>1. /\ dsNextID' = dsNextID + 1
        /\ call[c].pc = "idle" /\ call'[c].pc = "insert" /\ call'[c].id = dsNextID
        /\ \A d \in Conns \ {c} : call'[d] = call[d]
    BY <1>0, <1>2 DEF Allocate, Enter, Idle
  <2>2. \A id \in Ids : id < dsNextID' <=> id < dsNextID \/ id = dsNextID
    BY <1>0, <2>1
  <2>3. \A d \in Conns : Inserting(d) => call[d].id # dsNextID
    BY <1>0 DEF IdInv, FreshIds
  <2>4. \A d \in Conns : Inserting(d)' <=> Inserting(d) \/ d = c
    BY <2>1 DEF Inserting
  <2>5. ~ Inserting(c)
    BY <2>1 DEF Inserting
  <2>6. ASSUME NEW id \in Ids
        PROVE  (id < dsNextID /\ \A d \in Conns : Inserting(d) => call[d].id # id)'
               <=> (id < dsNextID /\ \A d \in Conns : Inserting(d) => call[d].id # id)
    <3>1. CASE id = dsNextID
      BY <1>0, <2>1, <2>4, <3>1
    <3>2. CASE id # dsNextID
      BY <2>1, <2>2, <2>4, <2>5, <3>2
    <3> QED
      BY <3>1, <3>2
  <2> QED
    BY <2>6 DEF usedBar
<1>3. ASSUME NEW c \in Conns, Mutates(c)
      PROVE  usedBar' = usedBar
  <2>1. PICK op \in {"update", "delete"}, id \in Ids : Enter(c, "mark", op, id, 0)
    BY <1>0, <1>3, MutatesStep DEF TypeInv
  <2>2. dsNextID' = dsNextID /\ call[c].pc = "idle"
    BY <1>0, <1>3, MutatesStep DEF TypeInv, Idle
  <2> QED
    BY <1>0, <1>1, <2>1, <2>2 DEF Enter, Inserting
<1>4. ASSUME NEW c \in Conns, ReplaceOne(c)
      PROVE  usedBar' = usedBar
  <2>1. PICK old \in Previous(c) : Enter(c, "mark", "delete", old, 0)
    BY <1>4, ReplaceOneStep
  <2>2. dsNextID' = dsNextID /\ call[c].pc = "replace"
    BY <1>4 DEF ReplaceOne
  <2> QED
    BY <1>0, <1>1, <2>1, <2>2 DEF Enter, Inserting
<1>5. ASSUME NEW c \in Conns, MarkDirty(c)
      PROVE  usedBar' = usedBar
  <2>1. AfterMark[call[c].op] # "insert" \/ call[c].op = "update"
    BY <1>0, <1>5 DEF MarkDirty, TypeInv, CallsOK, CallOK, AfterMark
  <2> QED
    BY <1>0, <1>1, <1>5, <2>1 DEF MarkDirty, Answer, Goto, IdleCall, Inserting
<1>6. ASSUME NEW c \in Conns, ReplaceNone(c) \/ IssueToken(c) \/ Unlink(c)
      PROVE  usedBar' = usedBar
  BY <1>0, <1>1, <1>6 DEF ReplaceNone, IssueToken, Unlink, Answer, IdleCall, Inserting
<1>7. CASE UNCHANGED dsVars
  BY <1>7 DEF dsVars, usedBar, Inserting
<1>8. Steps
  BY StepCases
<1> QED
  BY <1>2, <1>3, <1>4, <1>5, <1>6, <1>7, <1>8 DEF Steps

LEMMA InsertBoard ==
  ASSUME OneConnPerPid, BoardInv, NEW c \in Conns, Insert(c)
  PROVE  Board!Next
<1>a. call[c].id \in Ids /\ PidOf[c] \in Pids /\ call[c].dataType \in DataTypes
  BY ConnAssumption, TypeAssumption
     DEF BoardInv, BalloonInv, IdInv, TypeInv, CallsOK, CallOK, Insert
<1>b. PICK new \in Ids, p \in Pids, t \in DataTypes :
        new = call[c].id /\ p = PidOf[c] /\ t = call[c].dataType
  BY <1>a
<1>0. /\ TypeInv /\ IdInv /\ Ids \subseteq Int /\ Inserting(c)
      /\ call \in [Conns -> [pc : Pcs, op : Ops, id : Ids \cup {0},
                             dataType : DataTypes \cup {0}]]
  BY DEF BoardInv, BalloonInv, IdInv, TypeInv, TypeOK, Insert, Ids, Inserting
<1>1. /\ DOMAIN dsRecords' = DOMAIN dsRecords \cup {new}
      /\ \A id \in DOMAIN dsRecords \ {new} : dsRecords'[id] = dsRecords[id]
      /\ dsRecords'[new].owner = p
      /\ dsRecords'[new].dataType = t
      /\ dsRecords'[new].complete = (call[c].op = "meta")
  BY <1>b, <1>0, InsertStep
<1>2. new \notin DOMAIN dsRecords /\ new < dsNextID
  BY <1>b, <1>0 DEF IdInv, FreshIds
<1>3. t \in BalloonTypes => dsRecords'[new].complete
  BY <1>b, <1>0, <1>1 DEF TypeInv, CallsOK, CallOK, Inserting, BalloonTypes
<1>4. NewestInv
  BY DEF BoardInv, BalloonInv
<1>5. new \notin usedBar
  BY <1>b, <1>0 DEF usedBar
<1>6. usedBar' = usedBar \cup {new}
  <2>1. /\ dsNextID' = dsNextID
        /\ \A d \in Conns : Inserting(d)' <=> Inserting(d) /\ d # c
        /\ \A d \in Conns : call'[d].id = call[d].id
    BY <1>0 DEF Insert, Goto, Inserting
  <2>2. \A d \in Conns : Inserting(d) /\ call[d].id = new => d = c
    BY <1>b, <1>0 DEF IdInv, FreshIds
  <2> QED
    BY <1>b, <1>0, <1>2, <2>1, <2>2 DEF usedBar
<1>7. \A q \in Pids, u \in BalloonTypes :
        q # p \/ u # t => Newest(q, u)' = Newest(q, u)
  <2> SUFFICES ASSUME NEW q \in Pids, NEW u \in BalloonTypes, q # p \/ u # t
               PROVE  Active(q, u)' = Active(q, u)
    BY ActiveNewest
  <2> QED
    BY <1>1, <1>2 DEF Active
<1>8. CASE t \in BalloonTypes
  <2>1. Active(p, t)' = Active(p, t) \cup {new}
    BY <1>1, <1>2, <1>3, <1>8 DEF Active
  <2>2. \A other \in Active(p, t) : other <= new
    BY <1>b, <1>0, <1>4 DEF NewestInv, Active
  <2>3. Newest(p, t)' = {new}
    <3>1. Active(p, t) \subseteq Int
      BY <1>0, NewestTyping DEF TypeInv
    <3> QED
      BY <1>0, <2>1, <2>2, <3>1 DEF Newest
  <2>4. boardBar' = [boardBar EXCEPT ![<<p, t>>] = {new}]
    BY <1>0, <1>7, <1>8, <2>3, BoardSet
  <2>5. Board!Hide(p, t, new)
    BY <1>5, <1>6, <2>4 DEF Board!Hide
  <2> QED
    BY <1>0, <1>8, <2>5 DEF Board!Next
<1>9. CASE t \notin BalloonTypes
  <2>1. boardBar' = boardBar
    BY <1>7, <1>9, BoardKept
  <2>2. Board!Spend(new)
    BY <1>5, <1>6, <2>1 DEF Board!Spend
  <2> QED
    BY <1>0, <2>2 DEF Board!Next
<1> QED
  BY <1>8, <1>9

LEMMA ReplaceOneBoard ==
  ASSUME OneConnPerPid, OwnIdsOnly, BoardInv, NEW c \in Conns, ReplaceOne(c)
  PROVE  UNCHANGED Board!bbVars
<1>a. PICK p, t, new : p = PidOf[c] /\ t = call[c].dataType /\ new = call[c].id
  OBVIOUS
<1>0. TypeInv /\ TypeOK /\ IdInv /\ CompleteInv /\ NewestInv /\ HeldInv
  BY DEF BoardInv, BalloonInv, IdInv, TypeInv
<1>1. PICK old \in Previous(c) :
        /\ DOMAIN dsRecords' = DOMAIN dsRecords \ {old}
        /\ \A id \in DOMAIN dsRecords' : dsRecords'[id] = dsRecords[id]
  BY ReplaceOneStep
<1>2. Shrinks
  BY <1>1 DEF Shrinks
<1>3. /\ Replacing(c) /\ old # new
      /\ dsRecords[old].owner = p /\ dsRecords[old].dataType = t
  BY <1>a, <1>0, <1>1 DEF ReplaceOne, TypeInv, CallsOK, CallOK, Replacing, Previous
<1>4. ASSUME NEW q \in Pids, NEW u \in BalloonTypes
      PROVE  Newest(q, u)' = Newest(q, u)
  <2>1. Active(q, u)' = Active(q, u) \ {old}
    BY <1>0, <1>1, <1>2, ShrinkActive DEF Active
  <2>2. CASE q = p /\ u = t
    <3>1. new \in Active(q, u) /\ new \in Active(q, u)'
      BY <1>a, <1>0, <1>3, <1>4, <2>1, <2>2 DEF HeldInv, CompleteInv, Active
    <3>2. \A other \in Active(q, u) : other <= new
      BY <1>a, <1>0, <1>3, <2>2 DEF NewestInv, Active
    <3>3. Active(q, u) \subseteq Int
      BY <1>0, NewestTyping
    <3>4. Newest(q, u) = {new}
      BY <3>1, <3>2, <3>3, NewestIs
    <3>5. Newest(q, u)' = {new}
      BY <2>1, <3>1, <3>2, <3>3 DEF Newest
    <3> QED
      BY <3>4, <3>5
  <2>3. CASE ~ (q = p /\ u = t)
    <3>1. old \notin Active(q, u)
      BY <1>3, <2>3 DEF Active
    <3> QED
      BY <2>1, <3>1, ActiveNewest
  <2> QED
    BY <2>2, <2>3
<1>5. boardBar' = boardBar
  BY <1>4, BoardKept
<1>6. usedBar' = usedBar
  <2>1. ~ \E d \in Conns : Insert(d)
    <3>1. SUFFICES ASSUME NEW d \in Conns, Insert(d) PROVE FALSE
      OBVIOUS
    <3>2. DOMAIN dsRecords' = DOMAIN dsRecords \cup {call[d].id}
      BY <1>0, <3>1, InsertStep
    <3> QED
      BY <1>1, <3>2 DEF Previous
  <2>2. [Next]_dsVars
    BY DEF Next, Continue
  <2> QED
    BY <1>0, <2>1, <2>2, UsedKept
<1> QED
  BY <1>5, <1>6 DEF Board!bbVars

LEMMA MutatesBoard ==
  ASSUME OneConnPerPid, OwnIdsOnly, BoardInv, NEW c \in Conns, Mutates(c)
  PROVE  Board!Next \/ UNCHANGED Board!bbVars
<1>0. /\ TypeInv /\ TypeOK /\ IdInv /\ CompleteInv /\ PairInv
      /\ DOMAIN dsRecords \subseteq Int
  BY DEF BoardInv, BalloonInv, IdInv, TypeInv, TypeOK, Ids
<1>1. Shrinks /\ call[c].pc = "idle"
  BY <1>0, MutatesStep DEF Idle
<1>2. PICK id \in Ids : \/ DOMAIN dsRecords' = DOMAIN dsRecords
                        \/ DOMAIN dsRecords' = DOMAIN dsRecords \ {id}
  BY <1>0, MutatesOne
<1>3. usedBar' = usedBar
  <2>1. ~ \E d \in Conns : Insert(d)
    <3>1. SUFFICES ASSUME NEW d \in Conns, Insert(d) PROVE FALSE
      OBVIOUS
    <3>2. DOMAIN dsRecords' = DOMAIN dsRecords \cup {call[d].id}
      BY <1>0, <3>1, InsertStep
    <3>3. call[d].id \notin DOMAIN dsRecords
      BY <1>0, <3>1 DEF IdInv, FreshIds, Insert, Inserting
    <3> QED
      BY <1>1, <3>2, <3>3 DEF Shrinks
  <2>2. [Next]_dsVars
    BY DEF Next, Request, Mutates
  <2> QED
    BY <1>0, <2>1, <2>2, UsedKept
<1>4. ASSUME NEW q \in Pids, NEW u \in BalloonTypes
      PROVE  Active(q, u)' = Active(q, u) \cap DOMAIN dsRecords'
  BY <1>0, <1>1, ShrinkActive
<1>5. CASE /\ id \in DOMAIN dsRecords /\ DOMAIN dsRecords' = DOMAIN dsRecords \ {id}
           /\ dsRecords[id].dataType \in BalloonTypes
  <2>1. PICK p \in Pids, t \in BalloonTypes :
          p = dsRecords[id].owner /\ t = dsRecords[id].dataType
    BY <1>0, <1>5 DEF TypeOK, Record
  <2>2. p = PidOf[c]
    BY <1>0, <1>5, <2>1, RemovesOwn
  <2>3. id \in Active(p, t)
    BY <1>0, <1>5, <2>1 DEF CompleteInv, Active
  <2>4. Active(p, t) \subseteq {id}
    <3> SUFFICES ASSUME NEW other \in Active(p, t), other # id PROVE FALSE
      OBVIOUS
    <3>1. PICK d \in Conns : Replacing(d) /\ PidOf[d] = p
      BY <1>0, <2>1, <2>3 DEF PairInv, Active
    <3>2. d = c
      BY <2>2, <3>1 DEF OneConnPerPid
    <3> QED
      BY <1>1, <3>1, <3>2 DEF Replacing
  <2>5. Active(p, t)' = {}
    BY <1>4, <1>5, <2>4
  <2>6. Newest(p, t)' = {}
    BY <2>5 DEF Newest
  <2>7. ASSUME NEW q \in Pids, NEW u \in BalloonTypes, q # p \/ u # t
        PROVE  Newest(q, u)' = Newest(q, u)
    <3>1. id \notin Active(q, u)
      BY <2>1, <2>7 DEF Active
    <3>2. Active(q, u)' = Active(q, u)
      BY <1>4, <1>5, <3>1 DEF Active
    <3> QED
      BY <3>2, ActiveNewest
  <2>8. boardBar' = [boardBar EXCEPT ![<<p, t>>] = {}]
    BY <2>6, <2>7, BoardSet
  <2> QED
    BY <1>3, <2>8 DEF Board!Next, Board!TakeDown
<1>6. CASE ~ (/\ id \in DOMAIN dsRecords /\ DOMAIN dsRecords' = DOMAIN dsRecords \ {id}
              /\ dsRecords[id].dataType \in BalloonTypes)
  <2>1. ASSUME NEW q \in Pids, NEW u \in BalloonTypes
        PROVE  Newest(q, u)' = Newest(q, u)
    <3>1. Active(q, u)' = Active(q, u)
      BY <1>2, <1>4, <1>6, <2>1 DEF Active
    <3> QED
      BY <3>1, ActiveNewest
  <2>2. boardBar' = boardBar
    BY <2>1, BoardKept
  <2> QED
    BY <1>3, <2>2 DEF Board!bbVars
<1> QED
  BY <1>5, <1>6

LEMMA QuietBoard ==
  ASSUME IdInv, [Next]_dsVars, dsRecords' = dsRecords
  PROVE  UNCHANGED Board!bbVars
<1>1. ~ \E c \in Conns : Insert(c)
  <2> SUFFICES ASSUME NEW c \in Conns, Insert(c) PROVE FALSE
    OBVIOUS
  <2>1. DOMAIN dsRecords' = DOMAIN dsRecords \cup {call[c].id}
    BY InsertStep DEF IdInv
  <2> QED
    BY <2>1 DEF IdInv, FreshIds, Insert, Inserting
<1>2. usedBar' = usedBar
  BY <1>1, UsedKept
<1>3. boardBar' = boardBar
  BY DEF boardBar, Newest, Active
<1> QED
  BY <1>2, <1>3 DEF Board!bbVars

LEMMA InitBoard == Init => Board!Init
<1> SUFFICES ASSUME Init PROVE Board!Init
  OBVIOUS
<1>1. boardBar = [pk \in Pids \X BalloonTypes |-> {}]
  BY DEF Init, boardBar, Newest, Active
<1>2. usedBar = {}
  BY DEF Init, usedBar, Ids
<1> QED
  BY <1>1, <1>2 DEF Board!Init

LEMMA NextBoard ==
  ASSUME OneConnPerPid, OwnIdsOnly, BoardInv, [Next]_dsVars
  PROVE  Board!Next \/ UNCHANGED Board!bbVars
<1>0. IdInv
  BY DEF BoardInv, BalloonInv
<1>1. ASSUME NEW c \in Conns, Insert(c) PROVE Board!Next
  BY <1>1, InsertBoard
<1>2. ASSUME NEW c \in Conns, ReplaceOne(c) PROVE UNCHANGED Board!bbVars
  BY <1>2, ReplaceOneBoard
<1>3. ASSUME NEW c \in Conns, Mutates(c) PROVE Board!Next \/ UNCHANGED Board!bbVars
  BY <1>3, MutatesBoard
<1>4. CASE dsRecords' = dsRecords
  BY <1>0, <1>4, QuietBoard
<1>5. Steps
  BY StepCases
<1>6. \/ dsRecords' = dsRecords
      \/ \E c \in Conns : Insert(c) \/ ReplaceOne(c) \/ Mutates(c)
  BY <1>5 DEF Steps, Allocate, MarkDirty, ReplaceNone, IssueToken, Unlink, dsVars
<1> QED
  BY <1>1, <1>2, <1>3, <1>4, <1>6

\* With one connection per player and clients that leave other players' objects
\* alone, the object table is a BalloonBoard: hiding replaces, atomically at the
\* step that stores the record, and what came down never returns.
THEOREM TableIsBoard ==
  ASSUME OneConnPerPid, OwnIdsOnly
  PROVE  Spec => ImplementsBoard
<1>1. BoardInv /\ [Next]_dsVars => [Board!Next]_(Board!bbVars)
  BY NextBoard
<1> QED
  BY <1>1, InitBoard, Holding, PTL DEF Spec, ImplementsBoard, Board!Spec

===============================================================================
