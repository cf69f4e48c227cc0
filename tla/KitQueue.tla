------------------------------ MODULE KitQueue ------------------------------
(***************************************************************************)
(* kernel/kit_queue.c: the mutex-protected ring buffer that carries every  *)
(* frame between the threads of the BBMS (bsp_bms_com.c, bsp_can_sched.c). *)
(* The threads' memcpy and index updates are separate steps, so that it is *)
(* the mutex, and not the grain of the model, that makes them atomic.      *)
(***************************************************************************)
EXTENDS Integers, Sequences

CONSTANTS
  Producers,  \* threads that call kit_queue_enqueue
  Consumers,  \* threads that call kit_queue_is_empty and kit_queue_dequeue
  Data,       \* values of an element
  NoData,     \* content of a slot or a *data buffer nothing was copied to
  NoThread,   \* the mutex is free
  Capacity    \* kit_queue_t.capacity

Threads == Producers \cup Consumers

\* kit_queue_init refuses a zero capacity.
ASSUME CapacityAssumption == Capacity \in Nat \ {0}
ASSUME NoThreadAssumption == NoThread \notin Threads
ASSUME NoDataAssumption == NoData \notin Data

VARIABLES
  buffer,  \* q->buffer, one entry per slot
  head,    \* q->head
  tail,    \* q->tail
  count,   \* q->count
  lock,    \* holder of q->lock
  pc,      \* where each thread is in kit_queue.c
  item,    \* each thread's *data
  result,  \* what each thread's last enqueue or dequeue returned
  sawItem  \* consumers whose last call was an is_empty that answered 0

vars == <<buffer, head, tail, count, lock, pc, item, result, sawItem>>

Slots == 0 .. Capacity - 1

Done(d) == [ret |-> 0, data |-> d]
Failed == [ret |-> -1, data |-> NoData]
Results == [ret : {0, -1}, data : Data \cup {NoData}]

Init ==
  /\ buffer = [s \in Slots |-> NoData]
  /\ head = 0
  /\ tail = 0
  /\ count = 0
  /\ lock = NoThread
  /\ pc = [t \in Threads |-> "idle"]
  /\ item = [t \in Threads |-> NoData]
  /\ result = [t \in Threads |-> Failed]
  /\ sawItem = {}

-----------------------------------------------------------------------------
(* The mutex and the index arithmetic.                                     *)

\* mutant of Acquire: the mutex is not waited for
AcquireTaken(t, where) ==
  /\ lock' = t
  /\ pc' = [pc EXCEPT ![t] = where]

Acquire(t, where) ==
  /\ lock = NoThread
  /\ lock' = t
  /\ pc' = [pc EXCEPT ![t] = where]

\* unlock: return ret
Return(t, res) ==
  /\ lock' = NoThread
  /\ pc' = [pc EXCEPT ![t] = "idle"]
  /\ result' = [result EXCEPT ![t] = res]

Advance(i) == (i + 1) % Capacity

-----------------------------------------------------------------------------
(* kit_queue_enqueue                                                       *)

EnqLock(t, d) ==
  /\ pc[t] = "idle"
  /\ Acquire(t, "enqueue")
  /\ item' = [item EXCEPT ![t] = d]
  /\ sawItem' = sawItem \ {t}
  /\ UNCHANGED <<buffer, head, tail, count, result>>

\* mutant of EnqFull: a full queue is not reported
EnqFullIgnored(t) ==
  /\ pc[t] = "enqueue"
  /\ count >= Capacity
  /\ Return(t, Done(NoData))
  /\ UNCHANGED <<buffer, head, tail, count, item, sawItem>>

EnqFull(t) ==
  /\ pc[t] = "enqueue"
  /\ count >= Capacity
  /\ Return(t, Failed)
  /\ UNCHANGED <<buffer, head, tail, count, item, sawItem>>

\* mutant of EnqCopy: off by one at the full queue
EnqCopyWhenFull(t) ==
  /\ pc[t] = "enqueue"
  /\ count <= Capacity
  /\ buffer' = [buffer EXCEPT ![tail] = item[t]]
  /\ pc' = [pc EXCEPT ![t] = "stored"]
  /\ UNCHANGED <<head, tail, count, lock, item, result, sawItem>>

EnqCopy(t) ==
  /\ pc[t] = "enqueue"
  /\ count < Capacity
  /\ buffer' = [buffer EXCEPT ![tail] = item[t]]
  /\ pc' = [pc EXCEPT ![t] = "stored"]
  /\ UNCHANGED <<head, tail, count, lock, item, result, sawItem>>

EnqCommit(t) ==
  /\ pc[t] = "stored"
  /\ tail' = Advance(tail)
  /\ count' = count + 1
  /\ Return(t, Done(NoData))
  /\ UNCHANGED <<buffer, head, item, sawItem>>

-----------------------------------------------------------------------------
(* kit_queue_is_empty and kit_queue_dequeue.  The observation is one step: *)
(* it only reads count while it holds the mutex.                           *)

IsEmpty(t) ==
  /\ pc[t] = "idle"
  /\ lock = NoThread
  /\ sawItem' = IF count = 0 THEN sawItem \ {t} ELSE sawItem \cup {t}
  /\ UNCHANGED <<buffer, head, tail, count, lock, pc, item, result>>

DeqLock(t) ==
  /\ pc[t] = "idle"
  /\ Acquire(t, "dequeue")
  /\ UNCHANGED <<buffer, head, tail, count, item, result, sawItem>>

\* mutant of DeqEmpty: the last element counts as none
DeqEmptyAtOne(t) ==
  /\ pc[t] = "dequeue"
  /\ count <= 1
  /\ Return(t, Failed)
  /\ sawItem' = sawItem \ {t}
  /\ UNCHANGED <<buffer, head, tail, count, item>>

DeqEmpty(t) ==
  /\ pc[t] = "dequeue"
  /\ count = 0
  /\ Return(t, Failed)
  /\ sawItem' = sawItem \ {t}
  /\ UNCHANGED <<buffer, head, tail, count, item>>

DeqCopy(t) ==
  /\ pc[t] = "dequeue"
  /\ count # 0
  /\ item' = [item EXCEPT ![t] = buffer[head]]
  /\ pc' = [pc EXCEPT ![t] = "fetched"]
  /\ UNCHANGED <<buffer, head, tail, count, lock, result, sawItem>>

\* mutant of DeqCommit: head stays
DeqCommitStuck(t) ==
  /\ pc[t] = "fetched"
  /\ head' = head
  /\ count' = count - 1
  /\ Return(t, Done(item[t]))
  /\ sawItem' = sawItem \ {t}
  /\ UNCHANGED <<buffer, tail, item>>

DeqCommit(t) ==
  /\ pc[t] = "fetched"
  /\ head' = Advance(head)
  /\ count' = count - 1
  /\ Return(t, Done(item[t]))
  /\ sawItem' = sawItem \ {t}
  /\ UNCHANGED <<buffer, tail, item>>

-----------------------------------------------------------------------------
Enqueue(t) ==
  \/ \E d \in Data : EnqLock(t, d)
  \/ EnqFull(t)
  \/ EnqCopy(t)
  \/ EnqCommit(t)

Dequeue(t) ==
  \/ IsEmpty(t)
  \/ DeqLock(t)
  \/ DeqEmpty(t)
  \/ DeqCopy(t)
  \/ DeqCommit(t)

Next ==
  \/ \E t \in Producers : Enqueue(t)
  \/ \E t \in Consumers : Dequeue(t)

Spec == Init /\ [][Next]_vars

-----------------------------------------------------------------------------
(* Properties.                                                             *)

Places == {"idle", "enqueue", "stored", "dequeue", "fetched"}

\* Every variable has its type.
TypeOK ==
  /\ buffer \in [Slots -> Data \cup {NoData}]
  /\ head \in Slots
  /\ tail \in Slots
  /\ count \in 0 .. Capacity
  /\ lock \in Threads \cup {NoThread}
  /\ pc \in [Threads -> Places]
  /\ item \in [Threads -> Data \cup {NoData}]
  /\ result \in [Threads -> Results]
  /\ sawItem \subseteq Threads

\* The slot of the i-th stored element, 1 being the oldest.
SlotOf(i) == (head + i - 1) % Capacity

\* The elements a dequeue would deliver, in order.
stored == [i \in 1 .. count |-> buffer[SlotOf(i)]]

\* The ring buffer behaves as the atomic bounded queue of module Fifo: no
\* element is lost, duplicated, reordered or invented by any interleaving of
\* enqueues and dequeues, and a call fails only when the queue is really full
\* or empty (kit_queue.c:64-115).
Abstract == INSTANCE Fifo WITH q <- stored
RefinesFifo == Abstract!Spec

\* At most one thread is inside the queue, and it is the holder of the mutex;
\* its place agrees with the state it relies on: there is a free slot at tail
\* while it stores, and an element at head while it fetches.
MutexInv ==
  \A t \in Threads :
    /\ pc[t] # "idle" <=> lock = t
    /\ pc[t] = "stored" => count < Capacity /\ buffer[tail] = item[t]
    /\ pc[t] = "fetched" => count > 0 /\ buffer[head] = item[t]

\* head, tail and count always agree: tail is count slots after head, which is
\* what makes the count alone enough to tell a full ring from an empty one.
IndexInv == tail = (head + count) % Capacity

\* With a single consumer, the check-then-act of bsp_bms_com.c:520-523 and
\* 1208-1210 is sound: once is_empty answered 0, that consumer's dequeue cannot
\* find the queue empty, whatever the producers do in between.
CheckThenDequeueHolds ==
  [][\A c \in Consumers :
       Consumers = {c} /\ c \in sawItem => ~DeqEmpty(c)]_vars
=============================================================================
