-------------------------------- MODULE Fifo --------------------------------
(***************************************************************************)
(* What kernel/kit_queue.c promises to its callers: a bounded first-in     *)
(* first-out sequence whose operations are atomic.  A call either takes    *)
(* effect and returns 0, or changes nothing and returns -1; an enqueue     *)
(* fails only when the queue is full and a dequeue only when it is empty.  *)
(***************************************************************************)
EXTENDS Integers, Sequences

CONSTANTS
  Threads,   \* the threads that call the queue
  Data,      \* the elements that can be stored
  NoData,    \* what a call that delivers no element leaves in *data
  Capacity   \* kit_queue_t.capacity

VARIABLES
  q,         \* the stored elements, oldest first
  result     \* what each thread's last call returned

fifoVars == <<q, result>>

\* The outcome of a call: its return value and the element it delivered.
Done(d) == [ret |-> 0, data |-> d]
Failed == [ret |-> -1, data |-> NoData]
Results == [ret : {0, -1}, data : Data \cup {NoData}]

Init ==
  /\ q = <<>>
  /\ result = [t \in Threads |-> Failed]

Put(t, d) ==
  /\ Len(q) < Capacity
  /\ q' = Append(q, d)
  /\ result' = [result EXCEPT ![t] = Done(NoData)]

PutFull(t) ==
  /\ Len(q) >= Capacity
  /\ result' = [result EXCEPT ![t] = Failed]
  /\ UNCHANGED q

Get(t) ==
  /\ Len(q) > 0
  /\ q' = Tail(q)
  /\ result' = [result EXCEPT ![t] = Done(Head(q))]

GetEmpty(t) ==
  /\ Len(q) = 0
  /\ result' = [result EXCEPT ![t] = Failed]
  /\ UNCHANGED q

Next ==
  \E t \in Threads :
    \/ \E d \in Data : Put(t, d)
    \/ PutFull(t)
    \/ Get(t)
    \/ GetEmpty(t)

Spec == Init /\ [][Next]_fifoVars
=============================================================================
