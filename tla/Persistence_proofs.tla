-------------------------- MODULE Persistence_proofs --------------------------
(***************************************************************************)
(* Proofs about Persistence: the dirty flag misses no change, and ids stay *)
(* fresh across restarts, for any bounds.                                  *)
(***************************************************************************)
EXTENDS Persistence, DataStore_proofs

FileInv ==
  /\ Table(file)
  /\ Table(flusher.image)
  /\ flusher = [pc |-> flusher.pc, image |-> flusher.image, pending |-> flusher.pending]
  /\ flusher.pc \in {"sleep", "copy", "encode", "write"}

\* When every change of the table has been marked and the flag is clear, what
\* the flusher writes, or has written, is the table.
SaveInv ==
  ~ dsDirty /\ (\A c \in Conns : ~ Marking(c)) =>
    /\ flusher.pc = "sleep" /\ ~ writeLost => file = dsRecords
    /\ flusher.pc \in {"encode", "write"} => flusher.image = dsRecords

PInv == IdInv /\ FileInv /\ SaveInv

-----------------------------------------------------------------------------
(* dsLoad's counter *)

LEMMA NextIDAfterIs ==
  ASSUME NEW recs, DOMAIN recs \subseteq Ids
  PROVE  /\ NextIDAfter(recs) \in 1..(MaxId + 1)
         /\ \A id \in DOMAIN recs : id < NextIDAfter(recs)
BY NextIDExists DEF NextIDAfter

-----------------------------------------------------------------------------
(* A handler's step *)

LEMMA SharedTable ==
  ASSUME Table(flusher.image), Table(dsRecords)'
  PROVE  Table(SharedRatings)
<1>1. ASSUME NEW id \in DOMAIN flusher.image
      PROVE  SharedRatings[id] \in Record
  <2>1. flusher.image[id] \in Record
    BY <1>1 DEF Table
  <2>2. CASE id \in flusher.pending \cap DOMAIN dsRecords \cap DOMAIN dsRecords'
    <3>1. dsRecords'[id] \in Record
      BY <2>2 DEF Table
    <3>2. SharedRatings[id] = [flusher.image[id] EXCEPT !.ratings = dsRecords'[id].ratings]
      BY <2>2 DEF SharedRatings
    <3> QED
      BY <2>1, <3>1, <3>2 DEF Record
  <2>3. CASE id \notin flusher.pending \cap DOMAIN dsRecords \cap DOMAIN dsRecords'
    BY <1>1, <2>1, <2>3 DEF SharedRatings
  <2> QED
    BY <2>2, <2>3
<1>2. DOMAIN SharedRatings = DOMAIN flusher.image
  BY DEF SharedRatings
<1>3. SharedRatings \in [DOMAIN SharedRatings -> Record]
  BY <1>1, <1>2 DEF SharedRatings
<1> QED
  BY <1>2, <1>3 DEF Table

\* A copy that equals the table still does after a step that leaves the table.
LEMMA SharedSame ==
  ASSUME Table(dsRecords), flusher.image = dsRecords, dsRecords' = dsRecords
  PROVE  SharedRatings = dsRecords
<1>1. ASSUME NEW id \in DOMAIN dsRecords
      PROVE  SharedRatings[id] = dsRecords[id]
  <2>1. dsRecords[id] \in Record
    BY <1>1 DEF Table
  <2>2. [dsRecords[id] EXCEPT !.ratings = dsRecords[id].ratings] = dsRecords[id]
    BY <2>1 DEF Record
  <2> QED
    BY <1>1, <2>2 DEF SharedRatings
<1>2. SharedRatings = [id \in DOMAIN dsRecords |-> SharedRatings[id]]
  BY DEF SharedRatings
<1> QED
  BY <1>1, <1>2 DEF Table

\* A handler's step that leaves some change unmarked, marks it, or makes none.
LEMMA StepMarks ==
  ASSUME IdInv, [Next]_dsVars
  PROVE  \/ \E c \in Conns : Marking(c)'
         \/ dsDirty'
         \/ /\ dsRecords' = dsRecords /\ dsDirty' = dsDirty
            /\ \A c \in Conns : Marking(c) => Marking(c)'
<1>0. /\ TypeInv /\ TypeOK
      /\ call \in [Conns -> [pc : Pcs, op : Ops, id : Ids \cup {0},
                             dataType : DataTypes \cup {0}]]
  BY DEF IdInv, TypeInv, TypeOK
<1>1. ASSUME NEW c \in Conns, Insert(c) PROVE Marking(c)'
  BY <1>0, <1>1 DEF Insert, Goto, Marking
<1>2. ASSUME NEW c \in Conns, ReplaceOne(c) PROVE Marking(c)'
  BY <1>0, <1>2 DEF ReplaceOne, Enter, Marking
<1>3. ASSUME NEW c \in Conns, Mutates(c) PROVE Marking(c)'
  BY <1>0, <1>3, MutatesStep DEF Enter, Marking
<1>4. ASSUME NEW c \in Conns, MarkDirty(c) PROVE dsDirty'
  BY <1>4 DEF MarkDirty
<1>5. ASSUME NEW c \in Conns, ReplaceNone(c) \/ IssueToken(c) \/ Unlink(c)
      PROVE  /\ dsRecords' = dsRecords /\ dsDirty' = dsDirty
             /\ \A d \in Conns : Marking(d) => Marking(d)'
  BY <1>0, <1>5 DEF ReplaceNone, IssueToken, Unlink, Answer, Marking
<1>6. ASSUME NEW c \in Conns, NEW op \in {"prepare", "meta"}, NEW type \in DataTypes,
             Allocate(c, op, type)
      PROVE  /\ dsRecords' = dsRecords /\ dsDirty' = dsDirty
             /\ \A d \in Conns : Marking(d) => Marking(d)'
  BY <1>0, <1>6 DEF Allocate, Enter, Idle, Marking
<1>7. ASSUME UNCHANGED dsVars
      PROVE  /\ dsRecords' = dsRecords /\ dsDirty' = dsDirty
             /\ \A d \in Conns : Marking(d) => Marking(d)'
  BY <1>7 DEF dsVars, Marking
<1>8. Steps
  BY StepCases
<1> QED
  BY <1>1, <1>2, <1>3, <1>4, <1>5, <1>6, <1>7, <1>8 DEF Steps

LEMMA HandleKeeps ==
  ASSUME PInv, [Next]_dsVars, Share
  PROVE  PInv'
<1>0. IdInv /\ FileInv /\ SaveInv
  BY DEF PInv
<1>1. IdInv'
  BY <1>0, NextIds
<1>2. Table(dsRecords) /\ Table(dsRecords)'
  BY <1>0, <1>1 DEF IdInv, TypeInv, TypeOK, Table
<1>3. /\ flusher'.pc = flusher.pc /\ flusher'.image = SharedRatings
      /\ flusher'.pending = flusher.pending
      /\ flusher' = [pc |-> flusher'.pc, image |-> flusher'.image, pending |-> flusher'.pending]
      /\ file' = file /\ writeLost' = writeLost
  BY <1>0 DEF FileInv, Share
<1>4. FileInv'
  <2>1. Table(SharedRatings)
    BY <1>0, <1>2, SharedTable DEF FileInv
  <2> QED
    BY <1>0, <1>3, <2>1 DEF FileInv, Table
<1>5. SaveInv'
  <2> SUFFICES ASSUME ~ dsDirty', \A c \in Conns : ~ Marking(c)'
               PROVE  /\ flusher'.pc = "sleep" /\ ~ writeLost' => file' = dsRecords'
                      /\ flusher'.pc \in {"encode", "write"} => flusher'.image = dsRecords'
    BY DEF SaveInv
  <2>1. /\ dsRecords' = dsRecords /\ ~ dsDirty
        /\ \A c \in Conns : ~ Marking(c)
    BY <1>0, StepMarks
  <2>2. /\ flusher.pc = "sleep" /\ ~ writeLost => file = dsRecords
        /\ flusher.pc \in {"encode", "write"} => flusher.image = dsRecords
    BY <1>0, <2>1 DEF SaveInv
  <2>3. CASE flusher.pc \in {"encode", "write"}
    BY <1>2, <1>3, <2>1, <2>2, <2>3, SharedSame
  <2>4. CASE flusher.pc \notin {"encode", "write"}
    BY <1>3, <2>1, <2>2, <2>4
  <2> QED
    BY <2>3, <2>4
<1> QED
  BY <1>1, <1>4, <1>5 DEF PInv

-----------------------------------------------------------------------------
(* The flusher and restarts *)

\* The handlers' variables, the flag aside
LEMMA FlagOnly ==
  ASSUME IdInv, UNCHANGED <<dsRecords, dsNextID, call>>, dsDirty' \in BOOLEAN
  PROVE  IdInv'
BY DEF IdInv, TypeInv, TypeOK, CallsOK, CallOK, FreshIds, RecordsBelow, Inserting

LEMMA FlushKeeps ==
  ASSUME PInv, Flush
  PROVE  PInv'
<1>0. /\ IdInv /\ FileInv /\ SaveInv /\ dsDirty \in BOOLEAN
      /\ Table(dsRecords)
  BY DEF PInv, IdInv, TypeInv, TypeOK, Table
<1>1. Table(NoRecords)
  BY DEF Table, NoRecords
<1>2. CASE FlushTake
  <2>1. UNCHANGED <<dsRecords, dsNextID, call, file, writeLost>> /\ dsDirty' = FALSE
    BY <1>2 DEF FlushTake
  <2>2. /\ flusher' = [pc |-> "copy", image |-> flusher.image, pending |-> flusher.pending]
        /\ flusher'.pc = "copy"
    BY <1>0, <1>2 DEF FlushTake, FileInv
  <2>3. IdInv'
    BY <1>0, <2>1, FlagOnly
  <2>4. FileInv'
    BY <1>0, <2>1, <2>2 DEF FileInv, Table
  <2>5. SaveInv'
    BY <2>2 DEF SaveInv
  <2> QED
    BY <2>3, <2>4, <2>5 DEF PInv
<1>3. CASE FlushCopy
  <2>1. UNCHANGED <<dsVars, file, writeLost>>
    BY <1>3 DEF FlushCopy
  <2>2. flusher' = [pc |-> "encode", image |-> dsRecords, pending |-> DOMAIN dsRecords]
    BY <1>3 DEF FlushCopy
  <2>3. IdInv'
    BY <1>0, <2>1, FlagOnly DEF dsVars
  <2>4. FileInv'
    BY <1>0, <2>1, <2>2 DEF FileInv, Table
  <2>5. SaveInv'
    BY <2>1, <2>2 DEF SaveInv, dsVars
  <2> QED
    BY <2>3, <2>4, <2>5 DEF PInv
<1>4. CASE FlushEncode
  <2>1. PICK id \in flusher.pending : flusher' = [flusher EXCEPT !.pending = @ \ {id}]
    BY <1>4 DEF FlushEncode
  <2>2. UNCHANGED <<dsVars, file, writeLost>>
    BY <1>4 DEF FlushEncode
  <2>3. /\ flusher'.pc = flusher.pc /\ flusher'.image = flusher.image
        /\ flusher' = [pc |-> flusher'.pc, image |-> flusher'.image, pending |-> flusher'.pending]
    BY <1>0, <2>1 DEF FileInv
  <2>4. IdInv'
    BY <1>0, <2>2, FlagOnly DEF dsVars
  <2>5. FileInv'
    BY <1>0, <2>2, <2>3 DEF FileInv, Table
  <2>6. SaveInv'
    BY <1>0, <2>2, <2>3 DEF SaveInv, dsVars, Marking
  <2> QED
    BY <2>4, <2>5, <2>6 DEF PInv
<1>5. CASE FlushTruncate
  <2>1. UNCHANGED <<dsVars, writeLost>> /\ file' = NoRecords
    BY <1>5 DEF FlushTruncate
  <2>2. /\ flusher.pc = "encode" /\ flusher'.pc = "write" /\ flusher'.image = flusher.image
        /\ flusher' = [pc |-> flusher'.pc, image |-> flusher'.image, pending |-> flusher'.pending]
    BY <1>0, <1>5 DEF FlushTruncate, FileInv
  <2>3. IdInv'
    BY <1>0, <2>1, FlagOnly DEF dsVars
  <2>4. FileInv'
    BY <1>0, <1>1, <2>1, <2>2 DEF FileInv, Table
  <2>5. SaveInv'
    BY <1>0, <2>1, <2>2 DEF SaveInv, dsVars, Marking
  <2> QED
    BY <2>3, <2>4, <2>5 DEF PInv
<1>6. CASE FlushWrite \/ FlushFails
  <2>1. UNCHANGED dsVars /\ flusher' = Sleeping
    BY <1>6 DEF FlushWrite, FlushFails
  <2>2. \/ /\ flusher.pc = "write" /\ file' = flusher.image
        \/ /\ file' = file /\ writeLost'
    BY <1>6 DEF FlushWrite, FlushFails
  <2>3. /\ flusher'.pc = "sleep" /\ flusher'.image = NoRecords
        /\ flusher' = [pc |-> flusher'.pc, image |-> flusher'.image, pending |-> flusher'.pending]
    BY <2>1 DEF Sleeping
  <2>4. IdInv'
    BY <1>0, <2>1, FlagOnly DEF dsVars
  <2>5. FileInv'
    BY <1>0, <1>1, <2>2, <2>3 DEF FileInv, Table
  <2>6. SaveInv'
    BY <1>0, <2>1, <2>2, <2>3 DEF SaveInv, dsVars, Marking
  <2> QED
    BY <2>4, <2>5, <2>6 DEF PInv
<1> QED
  BY <1>2, <1>3, <1>4, <1>5, <1>6 DEF Flush

LEMMA RestartKeeps ==
  ASSUME PInv, Restart
  PROVE  PInv'
<1>0. Table(file) /\ Table(NoRecords)
  BY DEF PInv, FileInv, Table, NoRecords
<1>1. /\ dsRecords' = file /\ dsNextID' = NextIDAfter(file) /\ dsDirty' = FALSE
      /\ call' = [c \in Conns |-> IdleCall] /\ flusher' = Sleeping /\ file' = file
  BY DEF Restart
<1>2. /\ NextIDAfter(file) \in 1..(MaxId + 1)
      /\ \A id \in DOMAIN file : id < NextIDAfter(file)
  BY <1>0, NextIDAfterIs DEF Table
<1>3. TypeOK'
  BY <1>0, <1>1, <1>2 DEF TypeOK, Table, IdleCall, Pcs, Ops
<1>4. (CallsOK /\ FreshIds /\ RecordsBelow)'
  BY <1>1, <1>2 DEF CallsOK, CallOK, FreshIds, RecordsBelow, Inserting, IdleCall
<1>5. FileInv'
  BY <1>0, <1>1 DEF FileInv, Table, Sleeping
<1>6. SaveInv'
  BY <1>1 DEF SaveInv, Sleeping
<1> QED
  BY <1>3, <1>4, <1>5, <1>6 DEF PInv, IdInv, TypeInv

LEMMA Persisting == PSpec => []PInv
<1>1. PInit => PInv
  <2> SUFFICES ASSUME PInit PROVE PInv
    OBVIOUS
  <2>1. IdInv
    BY InitIds DEF PInit
  <2>2. Table(NoRecords)
    BY DEF Table, NoRecords
  <2>3. FileInv
    BY <2>2 DEF PInit, FileInv, Sleeping
  <2>4. SaveInv
    BY DEF PInit, Init, SaveInv, Sleeping, NoRecords
  <2> QED
    BY <2>1, <2>3, <2>4 DEF PInv
<1>2. ASSUME PInv, PNext PROVE PInv'
  <2>1. ASSUME NEW c \in Conns, Handle(c) PROVE PInv'
    BY <1>2, <2>1, HandleKeeps DEF Handle, Next
  <2> QED
    BY <1>2, <2>1, FlushKeeps, RestartKeeps DEF PNext
<1>3. ASSUME PInv, UNCHANGED vars PROVE PInv'
  <2>1. UNCHANGED <<dsVars, file, flusher, writeLost>>
    BY <1>3 DEF vars
  <2>2. IdInv'
    BY <1>3, <2>1, FlagOnly DEF dsVars, PInv, IdInv, TypeInv, TypeOK
  <2>3. (FileInv /\ SaveInv)'
    BY <1>3, <2>1 DEF PInv, FileInv, SaveInv, dsVars, Marking, Table
  <2> QED
    BY <2>2, <2>3 DEF PInv
<1> QED
  BY <1>1, <1>2, <1>3, PTL DEF PSpec

\* The dirty flag misses no change, however handlers, flushes and restarts
\* interleave: with nothing left to write, the file holds the table, unless the
\* last write of it failed.
THEOREM CleanTableIsSaved == PSpec => []CleanIsSaved
<1>1. PInv => CleanIsSaved
  BY DEF PInv, SaveInv, CleanIsSaved, Clean
<1> QED
  BY <1>1, Persisting, PTL

\* Ids stay fresh across restarts.
THEOREM IdsFreshAcrossRestarts == PSpec => []IdsAboveTable
<1>1. PInv => IdsAboveTable
  BY DEF PInv, IdInv, RecordsBelow, IdsAboveTable
<1> QED
  BY <1>1, Persisting, PTL

\* What PTypeOK adds to PInv: the ids to encode are those of the copy.
RestInv ==
  /\ flusher.pending \subseteq DOMAIN flusher.image
  /\ writeLost \in BOOLEAN
  /\ restarts \in 0..MaxRestarts /\ failures \in 0..MaxFailures

\* RestInv is kept by every step, given PInv.
LEMMA RestKept ==
  ASSUME PInv, RestInv, [PNext]_vars
  PROVE  RestInv'
<1>0. flusher = [pc |-> flusher.pc, image |-> flusher.image, pending |-> flusher.pending]
  BY DEF PInv, FileInv
<1>1. ASSUME NEW c \in Conns, Handle(c) PROVE RestInv'
  <2>1. flusher' = [flusher EXCEPT !.image = SharedRatings] /\ UNCHANGED <<writeLost, bounds>>
    BY <1>1 DEF Handle, Share
  <2>2. DOMAIN SharedRatings = DOMAIN flusher.image
    BY DEF SharedRatings
  <2> HIDE DEF SharedRatings
  <2>3. flusher'.image = SharedRatings /\ flusher'.pending = flusher.pending
    BY <1>0, <2>1
  <2> QED
    BY <2>1, <2>2, <2>3 DEF RestInv, bounds
<1>2. ASSUME FlushTake PROVE RestInv'
  <2>1. flusher'.image = flusher.image /\ flusher'.pending = flusher.pending
    BY <1>0, <1>2 DEF FlushTake
  <2> QED
    BY <1>2, <2>1 DEF FlushTake, RestInv, bounds
<1>3. ASSUME FlushCopy PROVE RestInv'
  BY <1>3 DEF FlushCopy, RestInv, bounds
<1>4. ASSUME FlushEncode PROVE RestInv'
  <2>1. PICK id \in flusher.pending : flusher' = [flusher EXCEPT !.pending = @ \ {id}]
    BY <1>4 DEF FlushEncode
  <2>2. flusher'.image = flusher.image /\ flusher'.pending = flusher.pending \ {id}
    BY <1>0, <2>1
  <2> QED
    BY <1>4, <2>2 DEF FlushEncode, RestInv, bounds
<1>5. ASSUME FlushTruncate PROVE RestInv'
  <2>1. flusher'.image = flusher.image /\ flusher'.pending = flusher.pending
    BY <1>0, <1>5 DEF FlushTruncate
  <2> QED
    BY <1>5, <2>1 DEF FlushTruncate, RestInv, bounds
<1>6. ASSUME FlushWrite PROVE RestInv'
  BY <1>6 DEF FlushWrite, RestInv, bounds, Sleeping
<1>7. ASSUME FlushFails PROVE RestInv'
  BY <1>7, RestartAssumption DEF FlushFails, RestInv, Sleeping
<1>8. ASSUME Restart PROVE RestInv'
  <2>1. /\ flusher' = Sleeping /\ writeLost' = FALSE /\ failures' = failures
        /\ restarts' = restarts + 1 /\ restarts < MaxRestarts
    BY <1>8 DEF Restart
  <2>2. restarts' \in 0..MaxRestarts
    BY <2>1, RestartAssumption DEF RestInv
  <2> QED
    BY <2>1, <2>2 DEF RestInv, Sleeping
<1>9. ASSUME UNCHANGED vars PROVE RestInv'
  BY <1>9 DEF vars, RestInv, bounds
<1> QED
  BY <1>1, <1>2, <1>3, <1>4, <1>5, <1>6, <1>7, <1>8, <1>9 DEF PNext, Flush

\* The table, the file and the flusher's copy are tables of records at every
\* moment, through flushes that fail and restarts.
THEOREM PersistenceTypes == PSpec => []PTypeOK
<1>1. PInit => RestInv
  <2> SUFFICES ASSUME PInit PROVE RestInv
    OBVIOUS
  <2>1. flusher = Sleeping /\ writeLost = FALSE /\ restarts = 0 /\ failures = 0
    BY DEF PInit
  <2>2. 0 \in 0..MaxRestarts /\ 0 \in 0..MaxFailures
    BY RestartAssumption
  <2> QED
    BY <2>1, <2>2 DEF RestInv, Sleeping
<1>2. PInv /\ RestInv => PTypeOK
  BY DEF PInv, IdInv, TypeInv, FileInv, Table, RestInv, PTypeOK
<1> QED
  BY <1>1, <1>2, RestKept, Persisting, PTL DEF PSpec

===============================================================================
