---------------------------- MODULE BalloonSearch ----------------------------
(***************************************************************************)
(* The queries over the object table (src/datastore.go): SearchBalloon and *)
(* the sets it deals its answer into, FetchMyInfos, GetPersistenceInfo and *)
(* SearchObject.  None of them changes the table; each scans it under dsMu *)
(* in the random order of a Go map, and sorts by a clock of one second, so *)
(* that records may tie.                                                   *)
(*                                                                         *)
(* The table is any table, chosen in Init; what a player found grows as    *)
(* markBalloonFound is called.  reply is the last answer sent.             *)
(***************************************************************************)
EXTENDS Integers, SequencesExt

CONSTANTS
  Pids,           \* players
  DataTypes,      \* dataTypes of records
  Achievement,    \* smoAchievementDataType
  Slots,          \* persistence slots
  NotPersistent,  \* 0xFFFF, which a post may name instead of a slot
  BeforeSlots,    \* what is known of a record stored before slots were
  NoSlot,         \* Slot of a record is nil
  SetCounts,      \* resultSetCounts a client asks for
  MaxId,          \* bound: dataIds
  MaxTime,        \* bound: values of CreatedAt, in seconds
  MaxResults,     \* the most records SearchObject answers, 100 in the code
  Records         \* bound: the records that tables are made of

ASSUME SearchAssumption ==
  /\ DataTypes \subseteq Nat \ {0}
  /\ NotPersistent \notin Slots
  /\ {NoSlot, BeforeSlots} \cap (Slots \cup {NotPersistent}) = {}
  /\ SetCounts \subseteq Nat
  /\ MaxId \in Nat /\ MaxTime \in Nat /\ MaxResults \in Nat

VARIABLES
  dsRecords,     \* dataId -> balloonRecord
  balloonFound,  \* player -> the dataIds the player found
  reply          \* the last answer

vars == <<dsRecords, balloonFound, reply>>

\* posted: the persistence slot that the post of the record named
Record == [owner : Pids, dataType : DataTypes, complete : BOOLEAN, createdAt : 1..MaxTime,
           posted : Slots \cup {NotPersistent, BeforeSlots}]

ASSUME RecordAssumption == Records \subseteq Record

NoReply == [op |-> "none"]

Init ==
  /\ \E ids \in SUBSET (1..MaxId) : dsRecords \in [ids -> Records]
  /\ balloonFound = [p \in Pids |-> {}]
  /\ reply = NoReply

-----------------------------------------------------------------------------
(* Scanning and sorting *)

\* The orders in which a scan may meet the records
Scans == SetToSeqs(DOMAIN dsRecords)

CreatedAt(id) == dsRecords[id].createdAt

\* What sort.Slice, which is not stable, may make of a set: newest first
Sorted(S) ==
  {s \in SetToSeqs(S) :
     \A i, j \in DOMAIN s : i < j => CreatedAt(s[i]) >= CreatedAt(s[j])}

IsStats(id) == dsRecords[id].dataType = Achievement

\* Mutant: a record counts for every owner.
MutStatsScan(scan) ==
  FoldLeft(LAMBDA best, id :
             [o \in Pids |->
                IF /\ dsRecords[id].complete /\ IsStats(id)
                   /\ best[o] = 0 \/ CreatedAt(id) >= CreatedAt(best[o])
                THEN id ELSE best[o]],
           [o \in Pids |-> 0], scan)

\* ownerStats: the newest stats record of each owner, the last one met if they
\* tie; 0 without one.
StatsScan(scan) ==
  FoldLeft(LAMBDA best, id :
             LET o == dsRecords[id].owner
             IN  IF /\ dsRecords[id].complete /\ IsStats(id)
                    /\ best[o] = 0 \/ CreatedAt(id) >= CreatedAt(best[o])
                 THEN [best EXCEPT ![o] = id] ELSE best,
           [o \in Pids |-> 0], scan)

\* The first of the newest candidates a scan meets; 0 without one
NewestScan(scan, candidates) ==
  FoldLeft(LAMBDA best, id :
             IF id \in candidates /\ (best = 0 \/ CreatedAt(id) > CreatedAt(best))
             THEN id ELSE best,
           0, scan)

-----------------------------------------------------------------------------
(* SearchBalloon *)

\* Mutant: the number of sets is not capped.
MutSetCount(pool, n) == n

SetCount(pool, n) == IF Len(pool) > 0 /\ n > Len(pool) THEN Len(pool) ELSE n

\* Mutant: the pool is cut into runs of equal length, the last one shorter.
MutSplitIntoSets(pool, n) ==
  LET m == SetCount(pool, n)
      size == (Len(pool) + m - 1) \div m
  IN  [k \in 1..m |-> SubSeq(pool, (k - 1) * size + 1,
                             IF k * size > Len(pool) THEN Len(pool) ELSE k * size)]

\* Mutant: a set keeps the last balloon dealt to it only.
MutDealIntoSets(pool, n) ==
  LET m == SetCount(pool, n)
  IN  FoldLeftDomain(LAMBDA sets, i : [sets EXCEPT ![((i - 1) % m) + 1] = <<pool[i]>>],
                     [k \in 1..m |-> <<>>], pool)

\* The balloons are dealt to the sets in turn.
SplitIntoSets(pool, n) ==
  LET m == SetCount(pool, n)
  IN  FoldLeftDomain(LAMBDA sets, i : [sets EXCEPT ![((i - 1) % m) + 1] = Append(@, pool[i])],
                     [k \in 1..m |-> <<>>], pool)

\* type 0 asks for every type.
Pool(p, type) ==
  {id \in DOMAIN dsRecords :
     /\ dsRecords[id].complete
     /\ dsRecords[id].owner # p
     /\ ~ IsStats(id)
     /\ type = 0 \/ dsRecords[id].dataType = type
     /\ id \notin balloonFound[p]}

\* The set of found balloons is read first, but it is the live one, so that the
\* scan sees it as it is by then: the handler is one step.
SearchBalloon(p) ==
  \E type \in DataTypes \cup {0}, n \in SetCounts :
    \E pool \in Sorted(Pool(p, type)), scan \in Scans :
      /\ reply' = [op |-> "SearchBalloon", by |-> p, dataType |-> type, count |-> n,
                   sets |-> SplitIntoSets(pool, IF n = 0 THEN 1 ELSE n),
                   ownerStats |-> StatsScan(scan)]
      /\ UNCHANGED <<dsRecords, balloonFound>>

-----------------------------------------------------------------------------
(* The other queries *)

\* No types ask for every type.
Mine(p, types) ==
  {id \in DOMAIN dsRecords :
     /\ dsRecords[id].complete
     /\ dsRecords[id].owner = p
     /\ ~ IsStats(id)
     /\ types = {} \/ dsRecords[id].dataType \in types}

StatsOf(p) ==
  {NewestScan(scan, {id \in DOMAIN dsRecords : /\ dsRecords[id].complete
                                               /\ dsRecords[id].owner = p
                                               /\ IsStats(id)}) : scan \in Scans}

FetchMyInfos(p) ==
  \E types \in SUBSET DataTypes :
    \E mine \in Sorted(Mine(p, types)), achievement \in StatsOf(p) :
      /\ reply' = [op |-> "FetchMyInfos", by |-> p, types |-> types, mine |-> mine,
                   achievement |-> achievement]
      /\ UNCHANGED <<dsRecords, balloonFound>>

ReadPersistenceSlot(param) == IF param = NotPersistent THEN NoSlot ELSE param

\* Slot of a record; dsLoad leaves it nil for one that was stored before slots were.
SlotOf(id) ==
  IF dsRecords[id].posted = BeforeSlots THEN NoSlot
                                        ELSE ReadPersistenceSlot(dsRecords[id].posted)

\* Mutant: a record without a slot matches none.
MutInSlot(id, slot) == SlotOf(id) = slot

InSlot(id, slot) == SlotOf(id) \in {slot, NoSlot}

GetPersistenceInfo ==
  \E owner \in Pids, slot \in Slots \cup {NotPersistent}, scan \in Scans :
    /\ reply' = [op |-> "GetPersistenceInfo", owner |-> owner, slot |-> slot,
                 dataId |-> NewestScan(scan, {id \in Mine(owner, {}) : InSlot(id, slot)})]
    /\ UNCHANGED <<dsRecords, balloonFound>>

Matches(type) ==
  {id \in DOMAIN dsRecords :
     dsRecords[id].complete /\ (type = 0 \/ dsRecords[id].dataType = type)}

\* Mutant: the answer is cut before it is sorted.
MutSearchObject ==
  \E type \in DataTypes \cup {0} :
    \E matches \in SetToSeqs(Matches(type)) :
      /\ reply' = [op |-> "SearchObject", dataType |-> type,
                   matches |-> SubSeq(matches, 1, IF Len(matches) > MaxResults
                                                  THEN MaxResults ELSE Len(matches))]
      /\ UNCHANGED <<dsRecords, balloonFound>>

SearchObject ==
  \E type \in DataTypes \cup {0} :
    \E matches \in Sorted(Matches(type)) :
      /\ reply' = [op |-> "SearchObject", dataType |-> type,
                   matches |-> SubSeq(matches, 1, IF Len(matches) > MaxResults
                                                  THEN MaxResults ELSE Len(matches))]
      /\ UNCHANGED <<dsRecords, balloonFound>>

\* The object store calls it for a record of another player (GetOwner of module
\* ObjectStore).
MarkBalloonFound(p) ==
  \E id \in DOMAIN dsRecords :
    /\ reply = NoReply
    /\ dsRecords[id].owner # p
    /\ balloonFound' = [balloonFound EXCEPT ![p] = @ \cup {id}]
    /\ UNCHANGED <<dsRecords, reply>>

Query ==
  \/ \E p \in Pids : SearchBalloon(p) \/ FetchMyInfos(p)
  \/ GetPersistenceInfo
  \/ SearchObject

\* The client takes the answer; a query changes nothing else.
TakeReply ==
  /\ reply # NoReply
  /\ reply' = NoReply
  /\ UNCHANGED <<dsRecords, balloonFound>>

Next ==
  \/ reply = NoReply /\ Query
  \/ TakeReply
  \/ \E p \in Pids : MarkBalloonFound(p)

Spec == Init /\ [][Next]_vars

-----------------------------------------------------------------------------
(* Properties *)

Searched == reply.op = "SearchBalloon"

Places(sets, id) == {place \in (1..Len(sets)) \X (1..MaxId) :
                       /\ place[2] \in 1..Len(sets[place[1]])
                       /\ sets[place[1]][place[2]] = id}

\* "giving every match a chance to surface": the sets of a SearchBalloon answer
\* hold each matching balloon exactly once, however the pool and the number of
\* sets divide, and nothing else.
EveryMatchOnce ==
  Searched =>
    \A id \in DOMAIN dsRecords :
      Cardinality(Places(reply.sets, id)) =
        IF id \in Pool(reply.by, reply.dataType) THEN 1 ELSE 0

\* "An EMPTY result set renders as a broken ghost balloon client-side": if
\* something matches, no set is empty.
NoGhosts ==
  Searched /\ Pool(reply.by, reply.dataType) # {}
    => \A k \in DOMAIN reply.sets : reply.sets[k] # <<>>

\* "roughly-even" sets, each of them a page of the newest: a balloon on one
\* page is no newer than the ones a line higher up on any page, and there is one.
PagesLevel ==
  Searched =>
    \A k, l \in DOMAIN reply.sets : \A j \in DOMAIN reply.sets[l] \ {1} :
      /\ j - 1 \in DOMAIN reply.sets[k]
      /\ CreatedAt(reply.sets[k][j - 1]) >= CreatedAt(reply.sets[l][j])

\* Newest in S by CreatedAt
IsNewest(id, S) == id \in S /\ \A other \in S : CreatedAt(id) >= CreatedAt(other)

Stats(o) == {id \in DOMAIN dsRecords :
               dsRecords[id].owner = o /\ dsRecords[id].complete /\ IsStats(id)}

\* The record that a find rates (ownerDataId of SearchBalloon) and the one its
\* owner is shown (FetchMyInfos) are, whatever the order of the scans, stats of
\* that owner and the newest there are; 0 only if there are none.
StatsAreNewest ==
  LET Right(o, id) == IF Stats(o) = {} THEN id = 0 ELSE IsNewest(id, Stats(o))
  IN  /\ Searched => \A o \in Pids : Right(o, reply.ownerStats[o])
      /\ reply.op = "FetchMyInfos" => Right(reply.by, reply.achievement)

\* GetPersistenceInfo names a balloon that FetchMyInfos lists, the newest of those
\* that were posted to the slot, that were stored before slots were, or that were
\* posted as not persistent, and says there is none only to an owner with none of
\* these.  That the last of the three fit every slot is what the code does, not what
\* its comments say: by them ("0xFFFF means not persistent"; "records posted before
\* slots were stored match any slot") these balloons are in no slot.
PersistenceIsNewest ==
  reply.op = "GetPersistenceInfo" =>
    LET fits == {id \in Mine(reply.owner, {}) :
                   dsRecords[id].posted \in {reply.slot, BeforeSlots, NotPersistent}}
    IN  IF fits = {} THEN reply.dataId = 0 ELSE IsNewest(reply.dataId, fits)

\* SearchObject leaves out a match only for as many that are no older.
NewestKept ==
  reply.op = "SearchObject" =>
    LET left == Matches(reply.dataType) \ ToSet(reply.matches)
    IN  /\ left # {} => Len(reply.matches) = MaxResults
        /\ \A id \in left, i \in DOMAIN reply.matches :
             CreatedAt(reply.matches[i]) >= CreatedAt(id)

=============================================================================
