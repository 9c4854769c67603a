---------------------------- MODULE BufferQueues ----------------------------
(***************************************************************************)
(* The buffer queues of an object (src/datastore.go): the screenshots of a *)
(* placed balloon, appended to a queue per slot, read back in order and     *)
(* cleared.  They are the field Buffers of the record, kept in memory only. *)
(* A call names its slot with 32 bits; the map is keyed by int8(slot).      *)
(*                                                                         *)
(* Each of these handlers is one critical section of dsMu and announces no  *)
(* change to the flusher.                                                   *)
(***************************************************************************)
EXTENDS DataStore, SequencesExt

CONSTANTS
  BufferSlots,  \* the slots that calls name
  Bytes,        \* contents of a buffer
  MaxBuffers    \* bound: buffers in all queues together

ASSUME BufferAssumption == BufferSlots \subseteq Nat /\ MaxBuffers \in Nat

VARIABLES
  buffers,   \* Buffers of each record: key -> the queue
  answered   \* observer: per record and slot, the buffers whose Add was answered with
             \* success while the record existed, since its last such Clear

vars == <<dsVars, buffers, answered>>

-----------------------------------------------------------------------------
\* int8(slot)
Int8(slot) == ((slot + 128) % 256) - 128

Keys == {Int8(slot) : slot \in BufferSlots}

Param == [id : Ids, slot : BufferSlots]

Exists(param) == param.id \in DOMAIN dsRecords

BInit ==
  /\ Init
  /\ buffers = [id \in {} |-> id]
  /\ answered = [id \in {} |-> id]

\* A new record has no buffers, and those of a deleted one go with it.
Handle(c) ==
  /\ Request(c) \/ Continue(c)
  /\ buffers' = [id \in DOMAIN dsRecords' |->
                   IF id \in DOMAIN buffers THEN buffers[id] ELSE [k \in Keys |-> <<>>]]
  /\ answered' = [id \in DOMAIN dsRecords' |->
                    IF id \in DOMAIN answered THEN answered[id]
                    ELSE [s \in BufferSlots |-> <<>>]]

\* The queues of f with buffer appended to queue q of object id, if it exists
Appended(f, id, q, buffer) ==
  IF id \in DOMAIN f THEN [f EXCEPT ![id][q] = Append(@, buffer)] ELSE f

QueueLength(f) ==
  FoldFunction(LAMBDA queues, n : n + FoldFunction(LAMBDA q, k : k + Len(q), 0, queues), 0, f)

\* A missing object is answered with success too: nothing is kept, and answered,
\* which is about objects that exist, does not change.
AddToBufferQueue(c) ==
  \E param \in Param, buffer \in Bytes :
    /\ Idle(c)
    /\ QueueLength(buffers) < MaxBuffers
    /\ buffers' = Appended(buffers, param.id, Int8(param.slot), buffer)
    /\ answered' = Appended(answered, param.id, param.slot, buffer)
    /\ UNCHANGED dsVars

\* What AddToBufferQueues answers for each param: it needs a buffer and an object.
AddResults(params, bufs) ==
  [i \in DOMAIN params |-> Exists(params[i]) /\ i <= Len(bufs)]

\* One turn of the loop: param i takes buffer i into queue q of its object, if there
\* is a buffer i and the object exists.
AddNth(f, params, bufs, i, q) ==
  IF AddResults(params, bufs)[i] THEN Appended(f, params[i].id, q, bufs[i]) ELSE f

\* Mutant: the buffers are given to the params whose object exists, in turn.
MutAddAll(params, bufs) ==
  LET kept == SelectSeq(params, Exists)
  IN  FoldLeftDomain(LAMBDA f, i : AddNth(f, kept, bufs, i, Int8(kept[i].slot)), buffers, kept)

\* Two params take the buffers by index, one after the other.
AddAll(params, bufs) ==
  LET once == AddNth(buffers, params, bufs, 1, Int8(params[1].slot))
  IN  AddNth(once, params, bufs, 2, Int8(params[2].slot))

AnsweredAll(params, bufs) ==
  LET once == AddNth(answered, params, bufs, 1, params[1].slot)
  IN  AddNth(once, params, bufs, 2, params[2].slot)

\* Two params and as many buffers or fewer
AddToBufferQueues(c) ==
  \E params \in [1..2 -> Param], bufs \in SeqOf(Bytes, 2) :
    /\ Idle(c)
    /\ QueueLength(buffers) + Len(bufs) <= MaxBuffers
    /\ buffers' = AddAll(params, bufs)
    /\ answered' = AnsweredAll(params, bufs)
    /\ UNCHANGED dsVars

\* The calls list one param or more; one more changes nothing another call would not.
ClearBufferQueues(c) ==
  \E param \in Param :
    /\ Idle(c)
    /\ Exists(param)
    /\ buffers' = [buffers EXCEPT ![param.id][Int8(param.slot)] = <<>>]
    /\ answered' = [answered EXCEPT ![param.id][param.slot] = <<>>]
    /\ UNCHANGED dsVars

\* What GetBufferQueue and GetBufferQueues answer
GetBufferQueue(id, slot) ==
  IF id \in DOMAIN dsRecords THEN buffers[id][Int8(slot)] ELSE <<>>

BNext ==
  \E c \in Conns :
    \/ Handle(c)
    \/ AddToBufferQueue(c) \/ AddToBufferQueues(c) \/ ClearBufferQueues(c)

BSpec == BInit /\ [][BNext]_vars

-----------------------------------------------------------------------------
(* Properties *)

\* "AddToBufferQueue appends one more qBuffer onto dataId's slot, GetBufferQueue
\* reads all of them back in order": as long as an object exists, each slot reads
\* back exactly the buffers whose Add was answered with success while it did, in
\* order, though several objects and slots share one call, some of them missing,
\* others delete objects meanwhile, and a slot loses its upper bits.  (Slots 256
\* apart would share a queue: the game's slots are not.  AddToBufferQueue answers
\* success for a missing object too, whose buffer is nowhere to be read.)
BuffersReadBack ==
  \A id \in DOMAIN dsRecords, slot \in BufferSlots :
    GetBufferQueue(id, slot) = answered[id][slot]

=============================================================================
