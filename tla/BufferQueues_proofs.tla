-------------------------- MODULE BufferQueues_proofs --------------------------
(***************************************************************************)
(* Proofs about BufferQueues, for any players, objects, slots and buffers:  *)
(* the object table runs as by itself, and what was added is read back.     *)
(***************************************************************************)
EXTENDS BufferQueues, DataStore_proofs

\* No two slots are 256 apart, or a multiple of it: each has a queue of its own.
SlotsApart == \A s, t \in BufferSlots : s % 256 = t % 256 => s = t

\* The queues f hold, at the key of each slot, what g says was added to the slot.
Reads(f, g) ==
  /\ DOMAIN f = DOMAIN g
  /\ \A id \in DOMAIN f :
       /\ DOMAIN f[id] = Keys /\ DOMAIN g[id] = BufferSlots
       /\ \A slot \in BufferSlots : f[id][Int8(slot)] = g[id][slot]

BufferInv == DOMAIN buffers = DOMAIN dsRecords /\ Reads(buffers, answered)

-----------------------------------------------------------------------------
(* The object table *)

\* Calls about buffers leave the table alone, and every other step is one of its own.
THEOREM TableRuns == BSpec => Spec
<1>1. BInit => Init
  BY DEF BInit
<1>2. ASSUME [BNext]_vars PROVE [Next]_dsVars
  <2>1. CASE UNCHANGED vars
    BY <2>1 DEF vars
  <2>2. ASSUME NEW c \in Conns, Handle(c) PROVE Next
    BY <2>2 DEF Handle, Next
  <2>3. ASSUME NEW c \in Conns,
               AddToBufferQueue(c) \/ AddToBufferQueues(c) \/ ClearBufferQueues(c)
        PROVE  UNCHANGED dsVars
    BY <2>3 DEF AddToBufferQueue, AddToBufferQueues, ClearBufferQueues
  <2> QED
    BY <1>2, <2>1, <2>2, <2>3 DEF BNext
<1> QED
  BY <1>1, <1>2, PTL DEF BSpec, Spec

\* With clients that complete, rate and delete any object and add to its buffers, the
\* two tallies of every record agree (dsRateObject and dsRateObjects).
THEOREM TalliesStayEqualWithBuffers == BSpec => []RatingsAgree
BY TableRuns, TalliesStayEqual, PTL

\* Nor do such calls bring back an object that is gone (dsAddToBufferQueue answers
\* with success for a missing object).
THEOREM DeletedStaysDeletedWithBuffers == BSpec => NoResurrection
BY TableRuns, DeletedStaysDeleted, PTL

-----------------------------------------------------------------------------
(* Queues *)

\* Slots that share a key are 256 apart.
LEMMA KeysApart ==
  ASSUME SlotsApart, NEW s \in BufferSlots, NEW t \in BufferSlots, Int8(s) = Int8(t)
  PROVE  s = t
<1>1. s \in Nat /\ t \in Nat
  BY BufferAssumption
<1>2. (s + 128) % 256 = (t + 128) % 256
  BY <1>1 DEF Int8
<1>3. s % 256 = t % 256
  BY <1>1, <1>2
<1> QED
  BY <1>3 DEF SlotsApart

\* A buffer that is appended to the queue of a slot is read back from that slot only.
LEMMA AppendedReads ==
  ASSUME SlotsApart, NEW f, NEW g, Reads(f, g), NEW id, NEW slot \in BufferSlots, NEW buffer
  PROVE  /\ Reads(Appended(f, id, Int8(slot), buffer), Appended(g, id, slot, buffer))
         /\ DOMAIN Appended(f, id, Int8(slot), buffer) = DOMAIN f
<1> DEFINE q == Int8(slot)
           f2 == Appended(f, id, q, buffer)
           g2 == Appended(g, id, slot, buffer)
<1>1. \A s \in BufferSlots : Int8(s) \in Keys /\ (Int8(s) = q => s = slot)
  BY KeysApart DEF Keys
<1>2. CASE id \notin DOMAIN f
  BY <1>2 DEF Appended, Reads
<1>3. CASE id \in DOMAIN f
  <2>1. /\ f2 = [f EXCEPT ![id] = [f[id] EXCEPT ![q] = Append(f[id][q], buffer)]]
        /\ g2 = [g EXCEPT ![id] = [g[id] EXCEPT ![slot] = Append(g[id][slot], buffer)]]
    BY <1>3 DEF Appended, Reads
  <2>2. q \in Keys
    BY <1>1
  <2> HIDE DEF f2, g2, q
  <2>3. DOMAIN f2 = DOMAIN f /\ DOMAIN g2 = DOMAIN g
    BY <2>1
  <2>4. ASSUME NEW i \in DOMAIN f, i # id PROVE f2[i] = f[i] /\ g2[i] = g[i]
    BY <2>1, <2>4 DEF Reads
  <2>5. /\ f2[id] = [f[id] EXCEPT ![q] = Append(f[id][q], buffer)]
        /\ g2[id] = [g[id] EXCEPT ![slot] = Append(g[id][slot], buffer)]
    BY <1>3, <2>1 DEF Reads
  <2>6. f[id][q] = g[id][slot]
    BY <1>3 DEF Reads, q
  <2>7. /\ DOMAIN f2[id] = Keys /\ DOMAIN g2[id] = BufferSlots
        /\ f2[id][q] = g2[id][slot]
    BY <1>3, <2>2, <2>5, <2>6 DEF Reads
  <2>8. ASSUME NEW s \in BufferSlots, s # slot PROVE f2[id][Int8(s)] = g2[id][s]
    <3>1. Int8(s) # q /\ Int8(s) \in Keys
      BY <1>1, <2>8
    <3>2. f2[id][Int8(s)] = f[id][Int8(s)] /\ g2[id][s] = g[id][s]
      BY <1>3, <2>5, <2>8, <3>1 DEF Reads
    <3> QED
      BY <1>3, <3>2 DEF Reads
  <2>9. \A s \in BufferSlots : f2[id][Int8(s)] = g2[id][s]
    BY <2>7, <2>8 DEF q
  <2>10. Reads(f2, g2)
    BY <1>3, <2>3, <2>4, <2>7, <2>9 DEF Reads
  <2> QED
    BY <2>3, <2>10 DEF f2, g2, q
<1> QED
  BY <1>2, <1>3

\* A turn of the loop
LEMMA NthReads ==
  ASSUME SlotsApart, NEW f, NEW g, Reads(f, g), NEW params \in [1..2 -> Param], NEW bufs,
         NEW i \in 1..2
  PROVE  /\ Reads(AddNth(f, params, bufs, i, Int8(params[i].slot)),
                  AddNth(g, params, bufs, i, params[i].slot))
         /\ DOMAIN AddNth(f, params, bufs, i, Int8(params[i].slot)) = DOMAIN f
<1>1. params[i].slot \in BufferSlots
  BY DEF Param
<1>2. CASE AddResults(params, bufs)[i]
  BY <1>1, <1>2, AppendedReads DEF AddNth
<1>3. CASE ~ AddResults(params, bufs)[i]
  BY <1>3 DEF AddNth
<1> QED
  BY <1>2, <1>3

LEMMA AddAllReads ==
  ASSUME SlotsApart, Reads(buffers, answered), NEW params \in [1..2 -> Param], NEW bufs
  PROVE  /\ Reads(AddAll(params, bufs), AnsweredAll(params, bufs))
         /\ DOMAIN AddAll(params, bufs) = DOMAIN buffers
<1>1. PICK f : f = AddNth(buffers, params, bufs, 1, Int8(params[1].slot))
  OBVIOUS
<1>2. PICK g : g = AddNth(answered, params, bufs, 1, params[1].slot)
  OBVIOUS
<1>3. Reads(f, g) /\ DOMAIN f = DOMAIN buffers
  BY <1>1, <1>2, NthReads
<1>4. /\ Reads(AddNth(f, params, bufs, 2, Int8(params[2].slot)),
               AddNth(g, params, bufs, 2, params[2].slot))
      /\ DOMAIN AddNth(f, params, bufs, 2, Int8(params[2].slot)) = DOMAIN f
  BY <1>3, NthReads
<1> QED
  BY <1>1, <1>2, <1>3, <1>4 DEF AddAll, AnsweredAll

\* A cleared slot reads back nothing, and the others what they did.
LEMMA ClearedReads ==
  ASSUME SlotsApart, NEW f, NEW g, Reads(f, g), NEW id \in DOMAIN f, NEW slot \in BufferSlots
  PROVE  Reads([f EXCEPT ![id][Int8(slot)] = <<>>], [g EXCEPT ![id][slot] = <<>>])
<1> DEFINE q == Int8(slot)
           f2 == [f EXCEPT ![id] = [f[id] EXCEPT ![q] = <<>>]]
           g2 == [g EXCEPT ![id] = [g[id] EXCEPT ![slot] = <<>>]]
<1>1. \A s \in BufferSlots : Int8(s) \in Keys /\ (Int8(s) = q => s = slot)
  BY KeysApart DEF Keys
<1>2. ASSUME NEW s \in BufferSlots PROVE f2[id][Int8(s)] = g2[id][s]
  <2>1. CASE s = slot
    BY <1>1, <2>1 DEF Reads
  <2>2. CASE s # slot
    <3>1. Int8(s) # q /\ Int8(s) \in Keys
      BY <1>1, <2>2
    <3> HIDE DEF q
    <3> QED
      BY <2>2, <3>1 DEF Reads
  <2> QED
    BY <2>1, <2>2
<1>3. /\ DOMAIN f2 = DOMAIN g2 /\ DOMAIN f2[id] = Keys /\ DOMAIN g2[id] = BufferSlots
      /\ \A i \in DOMAIN f \ {id} : f2[i] = f[i] /\ g2[i] = g[i]
      /\ DOMAIN f2 = DOMAIN f
  BY DEF Reads
<1> HIDE DEF f2, g2, q
<1>4. Reads(f2, g2)
  BY <1>2, <1>3 DEF Reads
<1> QED
  BY <1>4 DEF f2, g2, q

LEMMA BufferNext ==
  ASSUME SlotsApart, BufferInv, [BNext]_vars
  PROVE  BufferInv'
<1>1. CASE UNCHANGED vars
  BY <1>1 DEF vars, dsVars, BufferInv, Reads
<1>2. ASSUME NEW f, NEW g, Reads(f, g), DOMAIN f = DOMAIN dsRecords, UNCHANGED dsVars,
             buffers' = f, answered' = g
      PROVE  BufferInv'
  BY <1>2 DEF BufferInv, dsVars, Reads
<1>3. ASSUME NEW c \in Conns, Handle(c) PROVE BufferInv'
  <2>1. /\ buffers' = [id \in DOMAIN dsRecords' |->
                         IF id \in DOMAIN buffers THEN buffers[id] ELSE [k \in Keys |-> <<>>]]
        /\ answered' = [id \in DOMAIN dsRecords' |->
                          IF id \in DOMAIN answered THEN answered[id]
                          ELSE [s \in BufferSlots |-> <<>>]]
    BY <1>3 DEF Handle
  <2>2. DOMAIN buffers' = DOMAIN dsRecords' /\ DOMAIN answered' = DOMAIN dsRecords'
    BY <2>1
  <2>3. ASSUME NEW id \in DOMAIN dsRecords'
        PROVE  /\ DOMAIN buffers'[id] = Keys /\ DOMAIN answered'[id] = BufferSlots
               /\ \A slot \in BufferSlots : buffers'[id][Int8(slot)] = answered'[id][slot]
    BY <2>1, <2>3 DEF BufferInv, Reads, Keys
  <2>4. Keys' = Keys /\ \A s : Int8(s)' = Int8(s)
    BY DEF Keys, Int8
  <2> QED
    BY <2>2, <2>3, <2>4 DEF BufferInv, Reads
<1>4. ASSUME NEW c \in Conns, AddToBufferQueue(c) PROVE BufferInv'
  <2>1. PICK param \in Param, buffer \in Bytes :
          /\ buffers' = Appended(buffers, param.id, Int8(param.slot), buffer)
          /\ answered' = Appended(answered, param.id, param.slot, buffer)
          /\ UNCHANGED dsVars
    BY <1>4 DEF AddToBufferQueue
  <2>2. param.slot \in BufferSlots
    BY DEF Param
  <2> QED
    BY <1>2, <2>1, <2>2, AppendedReads DEF BufferInv
<1>5. ASSUME NEW c \in Conns, AddToBufferQueues(c) PROVE BufferInv'
  <2>1. PICK params \in [1..2 -> Param], bufs \in SeqOf(Bytes, 2) :
          /\ buffers' = AddAll(params, bufs)
          /\ answered' = AnsweredAll(params, bufs)
          /\ UNCHANGED dsVars
    BY <1>5 DEF AddToBufferQueues
  <2> QED
    BY <1>2, <2>1, AddAllReads DEF BufferInv
<1>6. ASSUME NEW c \in Conns, ClearBufferQueues(c) PROVE BufferInv'
  <2>1. PICK param \in Param :
          /\ Exists(param)
          /\ buffers' = [buffers EXCEPT ![param.id][Int8(param.slot)] = <<>>]
          /\ answered' = [answered EXCEPT ![param.id][param.slot] = <<>>]
          /\ UNCHANGED dsVars
    BY <1>6 DEF ClearBufferQueues
  <2>2. param.slot \in BufferSlots /\ param.id \in DOMAIN buffers
    BY <2>1 DEF Param, Exists, BufferInv
  <2>3. Reads(buffers', answered')
    BY <2>1, <2>2, ClearedReads DEF BufferInv
  <2>4. DOMAIN buffers' = DOMAIN buffers
    BY <2>1
  <2> QED
    BY <1>2, <2>1, <2>3, <2>4 DEF BufferInv
<1> QED
  BY <1>1, <1>3, <1>4, <1>5, <1>6 DEF BNext

\* Each slot reads back the buffers whose Add was answered with success, in order
\* (dsAddToBufferQueue, dsAddToBufferQueues and dsClearBufferQueues): for any number of
\* objects, players and buffers, and any slots of which no two are 256 apart.
THEOREM BuffersAreReadBack ==
  ASSUME SlotsApart
  PROVE  BSpec => []BuffersReadBack
<1>1. BInit => BufferInv
  BY DEF BInit, Init, BufferInv, Reads
<1>2. BufferInv => BuffersReadBack
  BY DEF BufferInv, Reads, BuffersReadBack, GetBufferQueue
<1> QED
  BY <1>1, <1>2, BufferNext, PTL DEF BSpec

=============================================================================
