--------------------------- MODULE KitQueue_proofs ---------------------------
(***************************************************************************)
(* What holds of kit_queue.c for every number of threads, every capacity   *)
(* and every set of elements.  The inductive invariant IInv adds to the    *)
(* invariants of module KitQueue that the stored cells and the arguments   *)
(* of enqueue are elements, and that an answered is_empty stays true.      *)
(***************************************************************************)
EXTENDS KitQueue, SequenceTheorems, TLAPS

\* Every stored cell holds an element some enqueue was given.
CellsInv == \A i \in 1 .. count : buffer[SlotOf(i)] \in Data

\* A thread inside kit_queue_enqueue has an element to store.
CallInv == \A t \in Threads : pc[t] \in {"enqueue", "stored"} => item[t] \in Data

\* What the only consumer saw in the queue is still there.
SawInv == \A c \in Consumers : Consumers = {c} /\ c \in sawItem => count > 0

IInv == TypeOK /\ MutexInv /\ IndexInv /\ CellsInv /\ CallInv /\ SawInv

-----------------------------------------------------------------------------
(* The index arithmetic.                                                   *)

\* Modulo the capacity, an index below twice the capacity wraps at most once.
LEMMA WrapOnce ==
  ASSUME NEW i \in 0 .. 2 * Capacity - 1
  PROVE  i % Capacity = IF i < Capacity THEN i ELSE i - Capacity
  BY CapacityAssumption

\* The slots of the stored elements are slots, and distinct; the slot after
\* the last stored element is the one tail points to.
LEMMA SlotFacts ==
  ASSUME head \in Slots, count \in 0 .. Capacity, IndexInv
  PROVE  /\ \A i \in 1 .. Capacity :
              SlotOf(i) = IF head + i - 1 < Capacity THEN head + i - 1
                                                     ELSE head + i - 1 - Capacity
         /\ \A i \in 1 .. Capacity : SlotOf(i) \in Slots
         /\ \A i, j \in 1 .. Capacity : SlotOf(i) = SlotOf(j) => i = j
         /\ count < Capacity => tail = SlotOf(count + 1)
         /\ SlotOf(1) = head
<1>1. \A i \in 1 .. Capacity :
        SlotOf(i) = IF head + i - 1 < Capacity THEN head + i - 1
                                               ELSE head + i - 1 - Capacity
  <2>1. TAKE i \in 1 .. Capacity
  <2> DEFINE k == head + i - 1
  <2>2. k \in 0 .. 2 * Capacity - 1
    BY CapacityAssumption DEF Slots
  <2>3. SlotOf(i) = k % Capacity
    BY DEF SlotOf
  <2>4. SlotOf(i) = IF k < Capacity THEN k ELSE k - Capacity
    <3> HIDE DEF k
    <3> QED BY <2>2, <2>3, WrapOnce
  <2>5. QED
    BY <2>4, CapacityAssumption DEF Slots
<1>2. count < Capacity => tail = SlotOf(count + 1)
  <2>1. head + count = head + (count + 1) - 1
    BY CapacityAssumption DEF Slots
  <2>2. QED
    BY <2>1 DEF IndexInv, SlotOf
<1>3. QED
  BY <1>1, <1>2, CapacityAssumption DEF Slots

\* An advanced index is a slot: the next one, or the first after the last.
LEMMA AdvanceFacts ==
  ASSUME NEW i \in Slots
  PROVE  /\ Advance(i) \in Slots
         /\ Advance(i) = IF i + 1 < Capacity THEN i + 1 ELSE 0
<1>1. i + 1 \in 0 .. 2 * Capacity - 1
  BY CapacityAssumption DEF Slots
<1>2. QED
  BY <1>1, WrapOnce, CapacityAssumption DEF Slots, Advance

\* Storing an element moves tail along with count.
LEMMA StoreKeepsIndex ==
  ASSUME head \in Slots, tail \in Slots, count \in 0 .. Capacity, count < Capacity,
         IndexInv
  PROVE  Advance(tail) = (head + (count + 1)) % Capacity
<1> DEFINE h == head + count
           n == head + (count + 1)
<1>1. h \in 0 .. 2 * Capacity - 1 /\ n \in 0 .. 2 * Capacity - 1 /\ n = h + 1
  BY CapacityAssumption DEF Slots
<1>2. tail = h % Capacity
  BY DEF IndexInv
<1>3. Advance(tail) = IF tail + 1 < Capacity THEN tail + 1 ELSE 0
  BY AdvanceFacts
<1>4. Advance(tail) = n % Capacity
  <2> HIDE DEF h, n
  <2>1. tail = IF h < Capacity THEN h ELSE h - Capacity
    BY <1>1, <1>2, WrapOnce
  <2>2. n % Capacity = IF n < Capacity THEN n ELSE n - Capacity
    BY <1>1, WrapOnce
  <2>3. QED
    BY <1>1, <1>3, <2>1, <2>2, CapacityAssumption
<1>5. QED
  BY <1>4

\* Removing an element moves head against count.
LEMMA FetchKeepsIndex ==
  ASSUME head \in Slots, tail \in Slots, count \in 0 .. Capacity, count > 0, IndexInv
  PROVE  tail = (Advance(head) + (count - 1)) % Capacity
<1> DEFINE h == head + count
           n == Advance(head) + (count - 1)
<1>1. Advance(head) = IF head + 1 < Capacity THEN head + 1 ELSE 0
  BY AdvanceFacts
<1>2. h \in 0 .. 2 * Capacity - 1 /\ n \in 0 .. 2 * Capacity - 1
  BY <1>1, CapacityAssumption DEF Slots
<1>3. n = h \/ (n = h - Capacity /\ n < Capacity)
  BY <1>1, CapacityAssumption DEF Slots
<1>4. tail = h % Capacity
  BY DEF IndexInv
<1>5. tail = n % Capacity
  <2> HIDE DEF h, n
  <2>1. tail = IF h < Capacity THEN h ELSE h - Capacity
    BY <1>2, <1>4, WrapOnce
  <2>2. n % Capacity = IF n < Capacity THEN n ELSE n - Capacity
    BY <1>2, WrapOnce
  <2>3. QED
    BY <1>2, <1>3, <1>4, <2>1, <2>2, CapacityAssumption
<1>6. QED
  BY <1>5

\* After the oldest element is removed, the i-th is the one that was i+1-st.
LEMMA ShiftedSlot ==
  ASSUME head \in Slots, count \in 0 .. Capacity, count > 0, head' = Advance(head),
         NEW i \in 1 .. count - 1
  PROVE  SlotOf(i)' = SlotOf(i + 1)
<1> DEFINE a == head + (i + 1) - 1
           b == Advance(head) + i - 1
<1>1. Advance(head) = IF head + 1 < Capacity THEN head + 1 ELSE 0
  BY AdvanceFacts
<1>2. a \in 0 .. 2 * Capacity - 1 /\ b \in 0 .. 2 * Capacity - 1
  BY <1>1, CapacityAssumption DEF Slots
<1>3. a = b \/ (b = a - Capacity /\ b < Capacity)
  BY <1>1, CapacityAssumption DEF Slots
<1>4. a % Capacity = b % Capacity
  <2> HIDE DEF a, b
  <2>1. a % Capacity = IF a < Capacity THEN a ELSE a - Capacity
    BY <1>2, WrapOnce
  <2>2. b % Capacity = IF b < Capacity THEN b ELSE b - Capacity
    BY <1>2, WrapOnce
  <2>3. QED
    BY <1>2, <1>3, <2>1, <2>2, CapacityAssumption
<1>5. QED
  BY <1>4 DEF SlotOf

-----------------------------------------------------------------------------
(* The inductive invariant.                                                *)

\* The freshly initialised queue satisfies the inductive invariant.
LEMMA InitIInv == Init => IInv
<1>1. SUFFICES ASSUME Init PROVE IInv
  OBVIOUS
<1>2. 0 \in Slots /\ 0 % Capacity = 0
  <2>1. 0 \in 0 .. 2 * Capacity - 1
    BY CapacityAssumption
  <2>2. QED
    BY <2>1, WrapOnce, CapacityAssumption DEF Slots
<1>3. TypeOK
  BY <1>1, <1>2, CapacityAssumption DEF Init, TypeOK, Places, Results, Failed
<1>4. MutexInv
  BY <1>1, NoThreadAssumption DEF Init, MutexInv
<1>5. IndexInv
  BY <1>1, <1>2 DEF Init, IndexInv
<1>6. CellsInv /\ CallInv /\ SawInv
  BY <1>1 DEF Init, CellsInv, CallInv, SawInv
<1>7. QED
  BY <1>3, <1>4, <1>5, <1>6 DEF IInv

\* Taking the mutex and answering without touching the ring.
LEMMA LockSteps ==
  ASSUME IInv, NEW t \in Threads,
         \/ t \in Producers /\ \E d \in Data : EnqLock(t, d)
         \/ t \in Producers /\ EnqFull(t)
         \/ t \in Consumers /\ (IsEmpty(t) \/ DeqLock(t) \/ DeqEmpty(t))
  PROVE  IInv'
<1>1. UNCHANGED <<buffer, head, tail, count>>
  BY DEF EnqLock, EnqFull, IsEmpty, DeqLock, DeqEmpty
<1>2. IndexInv' /\ CellsInv'
  BY <1>1 DEF IInv, IndexInv, CellsInv, SlotOf
<1>3. ASSUME NEW d \in Data, EnqLock(t, d) PROVE IInv'
  <2>1. TypeOK'
    BY <1>3 DEF EnqLock, Acquire, IInv, TypeOK, Places
  <2>2. MutexInv'
    BY <1>3, NoThreadAssumption DEF EnqLock, Acquire, IInv, TypeOK, MutexInv
  <2>3. CallInv'
    BY <1>3 DEF EnqLock, Acquire, IInv, TypeOK, CallInv
  <2>4. SawInv'
    BY <1>3 DEF EnqLock, IInv, SawInv
  <2>5. QED
    BY <1>2, <2>1, <2>2, <2>3, <2>4 DEF IInv
<1>4. CASE EnqFull(t)
  <2>1. TypeOK'
    BY <1>4 DEF EnqFull, Return, IInv, TypeOK, Places, Results, Failed
  <2>2. MutexInv'
    BY <1>4, NoThreadAssumption DEF EnqFull, Return, IInv, TypeOK, MutexInv
  <2>3. CallInv' /\ SawInv'
    BY <1>4 DEF EnqFull, Return, IInv, TypeOK, CallInv, SawInv
  <2>4. QED
    BY <1>2, <2>1, <2>2, <2>3 DEF IInv
<1>5. CASE t \in Consumers /\ IsEmpty(t)
  <2>1. TypeOK' /\ MutexInv' /\ CallInv'
    BY <1>5 DEF IsEmpty, IInv, TypeOK, MutexInv, CallInv
  <2>2. SawInv'
    <3>1. SUFFICES ASSUME NEW c \in Consumers, Consumers = {c}, c \in sawItem'
                   PROVE  count' > 0
      BY DEF SawInv
    <3>2. t = c
      BY <1>5, <3>1
    <3>3. count # 0
      BY <1>5, <3>1, <3>2 DEF IsEmpty
    <3>4. QED
      BY <3>3, <1>1 DEF IInv, TypeOK
  <2>3. QED
    BY <1>2, <2>1, <2>2 DEF IInv
<1>6. CASE DeqLock(t)
  <2>1. TypeOK'
    BY <1>6 DEF DeqLock, Acquire, IInv, TypeOK, Places
  <2>2. MutexInv'
    BY <1>6, NoThreadAssumption DEF DeqLock, Acquire, IInv, TypeOK, MutexInv
  <2>3. CallInv' /\ SawInv'
    BY <1>6 DEF DeqLock, Acquire, IInv, TypeOK, CallInv, SawInv
  <2>4. QED
    BY <1>2, <2>1, <2>2, <2>3 DEF IInv
<1>7. CASE DeqEmpty(t)
  <2>1. TypeOK'
    BY <1>7 DEF DeqEmpty, Return, IInv, TypeOK, Places, Results, Failed
  <2>2. MutexInv'
    BY <1>7, NoThreadAssumption DEF DeqEmpty, Return, IInv, TypeOK, MutexInv
  <2>3. CallInv' /\ SawInv'
    BY <1>7 DEF DeqEmpty, Return, IInv, TypeOK, CallInv, SawInv
  <2>4. QED
    BY <1>2, <2>1, <2>2, <2>3 DEF IInv
<1>8. QED
  BY <1>3, <1>4, <1>5, <1>6, <1>7

\* The two steps of a successful enqueue.
LEMMA StoreSteps ==
  ASSUME IInv, NEW t \in Producers, EnqCopy(t) \/ EnqCommit(t)
  PROVE  IInv'
<1> USE DEF Threads
<1>1. /\ head \in Slots /\ tail \in Slots /\ count \in 0 .. Capacity
      /\ IndexInv
  BY DEF IInv, TypeOK
<1>2. CASE EnqCopy(t)
  <2>1. TypeOK'
    BY <1>2 DEF EnqCopy, IInv, TypeOK, Places
  <2>2. MutexInv'
    BY <1>2, NoThreadAssumption DEF EnqCopy, IInv, TypeOK, MutexInv
  <2>3. IndexInv'
    BY <1>2 DEF EnqCopy, IInv, IndexInv
  <2>4. CellsInv'
    <3>1. count < Capacity /\ UNCHANGED <<head, count>>
      BY <1>2 DEF EnqCopy
    <3>2. SUFFICES ASSUME NEW i \in 1 .. count PROVE buffer'[SlotOf(i)] \in Data
      BY <3>1 DEF CellsInv, SlotOf
    <3>3. i \in 1 .. Capacity /\ count + 1 \in 1 .. Capacity /\ i # count + 1
      BY <3>1, <1>1, CapacityAssumption
    <3>4. SlotOf(i) \in Slots /\ SlotOf(i) # tail
      BY <3>1, <3>3, <1>1, SlotFacts
    <3>5. buffer'[SlotOf(i)] = buffer[SlotOf(i)]
      BY <3>4, <1>2 DEF EnqCopy, IInv, TypeOK
    <3>6. QED
      BY <3>5 DEF IInv, CellsInv
  <2>5. CallInv' /\ SawInv'
    BY <1>2 DEF EnqCopy, IInv, TypeOK, CallInv, SawInv
  <2>6. QED
    BY <2>1, <2>2, <2>3, <2>4, <2>5 DEF IInv
<1>3. CASE EnqCommit(t)
  <2>1. count < Capacity /\ buffer[tail] = item[t] /\ item[t] \in Data
    BY <1>3 DEF EnqCommit, IInv, MutexInv, CallInv
  <2>2. count' = count + 1 /\ tail' = Advance(tail) /\ UNCHANGED <<buffer, head>>
    BY <1>3 DEF EnqCommit
  <2>3. TypeOK'
    <3>1. tail' \in Slots /\ count' \in 0 .. Capacity
      BY <2>1, <2>2, <1>1, AdvanceFacts, CapacityAssumption
    <3>2. QED
      BY <3>1, <1>3, <2>2, NoDataAssumption
      DEF EnqCommit, Return, IInv, TypeOK, Places, Results, Done
  <2>4. MutexInv'
    BY <1>3, NoThreadAssumption DEF EnqCommit, Return, IInv, TypeOK, MutexInv
  <2>5. IndexInv'
    BY <2>1, <2>2, <1>1, StoreKeepsIndex DEF IndexInv
  <2>6. CellsInv'
    <3>1. SUFFICES ASSUME NEW i \in 1 .. count + 1 PROVE buffer[SlotOf(i)] \in Data
      BY <2>2 DEF CellsInv, SlotOf
    <3>2. CASE i = count + 1
      BY <3>2, <2>1, <1>1, SlotFacts
    <3>3. CASE i \in 1 .. count
      BY <3>3 DEF IInv, CellsInv
    <3>4. QED
      BY <3>2, <3>3, <1>1
  <2>7. CallInv'
    BY <1>3 DEF EnqCommit, Return, IInv, TypeOK, CallInv
  <2>8. SawInv'
    BY <1>3, <1>1 DEF EnqCommit, IInv, SawInv
  <2>9. QED
    BY <2>3, <2>4, <2>5, <2>6, <2>7, <2>8 DEF IInv
<1>4. QED
  BY <1>2, <1>3

\* The two steps of a successful dequeue.
LEMMA FetchSteps ==
  ASSUME IInv, NEW t \in Consumers, DeqCopy(t) \/ DeqCommit(t)
  PROVE  IInv'
<1> USE DEF Threads
<1>1. /\ head \in Slots /\ tail \in Slots /\ count \in 0 .. Capacity
      /\ IndexInv
  BY DEF IInv, TypeOK
<1>2. CASE DeqCopy(t)
  <2>1. TypeOK'
    BY <1>2 DEF DeqCopy, IInv, TypeOK, Places
  <2>2. MutexInv'
    BY <1>2, <1>1, NoThreadAssumption DEF DeqCopy, IInv, TypeOK, MutexInv
  <2>3. IndexInv' /\ CellsInv'
    BY <1>2 DEF DeqCopy, IInv, IndexInv, CellsInv, SlotOf
  <2>4. CallInv' /\ SawInv'
    BY <1>2 DEF DeqCopy, IInv, TypeOK, CallInv, SawInv
  <2>5. QED
    BY <2>1, <2>2, <2>3, <2>4 DEF IInv
<1>3. CASE DeqCommit(t)
  <2>1. count > 0 /\ buffer[head] = item[t]
    BY <1>3 DEF DeqCommit, IInv, MutexInv
  <2>2. count' = count - 1 /\ head' = Advance(head) /\ UNCHANGED <<buffer, tail>>
    BY <1>3 DEF DeqCommit
  <2>3. TypeOK'
    <3>1. head' \in Slots /\ count' \in 0 .. Capacity
      BY <2>1, <2>2, <1>1, AdvanceFacts, CapacityAssumption
    <3>2. QED
      BY <3>1, <1>3, <2>2 DEF DeqCommit, Return, IInv, TypeOK, Places, Results, Done
  <2>4. MutexInv'
    BY <1>3, NoThreadAssumption DEF DeqCommit, Return, IInv, TypeOK, MutexInv
  <2>5. IndexInv'
    BY <2>1, <2>2, <1>1, FetchKeepsIndex DEF IndexInv
  <2>6. CellsInv'
    <3>1. SUFFICES ASSUME NEW i \in 1 .. count - 1 PROVE buffer[SlotOf(i)'] \in Data
      BY <2>2 DEF CellsInv
    <3>2. SlotOf(i)' = SlotOf(i + 1)
      BY <2>1, <2>2, <1>1, <2>3, <2>5, ShiftedSlot DEF TypeOK
    <3>3. i + 1 \in 1 .. count
      BY <1>1
    <3>4. QED
      BY <3>2, <3>3 DEF IInv, CellsInv
  <2>7. CallInv'
    BY <1>3 DEF DeqCommit, Return, IInv, TypeOK, CallInv
  <2>8. SawInv'
    BY <1>3 DEF DeqCommit, IInv, SawInv
  <2>9. QED
    BY <2>3, <2>4, <2>5, <2>6, <2>7, <2>8 DEF IInv
<1>4. QED
  BY <1>2, <1>3

\* Every step of every thread preserves the inductive invariant.
LEMMA NextIInv == IInv /\ [Next]_vars => IInv'
<1>1. SUFFICES ASSUME IInv, [Next]_vars PROVE IInv'
  OBVIOUS
<1>2. ASSUME NEW t \in Producers, Enqueue(t) PROVE IInv'
  BY <1>1, <1>2, LockSteps, StoreSteps DEF Enqueue, Threads
<1>3. ASSUME NEW t \in Consumers, Dequeue(t) PROVE IInv'
  BY <1>1, <1>3, LockSteps, FetchSteps DEF Dequeue, Threads
<1>4. CASE UNCHANGED vars
  BY <1>1, <1>4 DEF vars, IInv, TypeOK, MutexInv, IndexInv, CellsInv, CallInv,
                    SawInv, SlotOf
<1>5. QED
  BY <1>1, <1>2, <1>3, <1>4 DEF Next

\* Type correctness of kit_queue.c: the indices stay inside the buffer and the
\* count never exceeds the capacity, for any capacity and any threads.
THEOREM TypeCorrect == Spec => []TypeOK
<1>1. Init => IInv
  BY InitIInv
<1>2. IInv /\ [Next]_vars => IInv'
  BY NextIInv
<1>3. IInv => TypeOK
  BY DEF IInv
<1>4. QED
  BY <1>1, <1>2, <1>3, PTL DEF Spec

\* The mutex of kit_queue.c excludes: one thread inside at a time, and what it
\* checked before its memcpy still holds when it moves the indices.
THEOREM MutualExclusion == Spec => []MutexInv
<1>1. IInv => MutexInv
  BY DEF IInv
<1>2. QED
  BY <1>1, InitIInv, NextIInv, PTL DEF Spec

\* head, tail and count of the ring never disagree.
THEOREM IndicesAgree == Spec => []IndexInv
<1>1. IInv => IndexInv
  BY DEF IInv
<1>2. QED
  BY <1>1, InitIInv, NextIInv, PTL DEF Spec

\* A consumer that is alone at its queue may trust is_empty.
THEOREM CheckThenDequeue == Spec => CheckThenDequeueHolds
<1>1. IInv /\ [Next]_vars =>
        [\A c \in Consumers : Consumers = {c} /\ c \in sawItem => ~DeqEmpty(c)]_vars
  BY DEF IInv, SawInv, DeqEmpty, TypeOK
<1>2. QED
  BY <1>1, InitIInv, NextIInv, PTL DEF Spec, CheckThenDequeueHolds

-----------------------------------------------------------------------------
(* The ring buffer implements the abstract queue.                          *)

\* A sequence is the function of its indices.
LEMMA SeqIsFunction ==
  ASSUME NEW S, NEW s \in Seq(S)
  PROVE  s = [i \in 1 .. Len(s) |-> s[i]]
  OBVIOUS

\* The stored elements as a sequence.
LEMMA StoredFacts ==
  ASSUME IInv
  PROVE  /\ stored \in Seq(Data)
         /\ Len(stored) = count
         /\ DOMAIN stored = 1 .. count
         /\ \A i \in 1 .. count : stored[i] = buffer[SlotOf(i)]
  BY DEF IInv, TypeOK, CellsInv, stored

\* A step of the ring that leaves the stored elements' cells alone leaves the
\* abstract queue alone.
LEMMA SameStored ==
  ASSUME IInv, UNCHANGED <<head, count>>,
         \A i \in 1 .. count : buffer'[SlotOf(i)] = buffer[SlotOf(i)]
  PROVE  stored' = stored
  BY DEF stored, SlotOf

\* Moving tail past the stored cell appends the element to the abstract queue.
LEMMA StoreAppends ==
  ASSUME IInv, NEW t \in Producers, EnqCommit(t)
  PROVE  /\ Len(stored) < Capacity
         /\ item[t] \in Data
         /\ stored' = Append(stored, item[t])
<1>1. /\ head \in Slots /\ tail \in Slots /\ count \in 0 .. Capacity /\ IndexInv
      /\ count < Capacity /\ buffer[tail] = item[t] /\ item[t] \in Data
  BY DEF IInv, TypeOK, EnqCommit, MutexInv, CallInv, Threads
<1>2. count' = count + 1 /\ UNCHANGED <<buffer, head>>
  BY DEF EnqCommit
<1>3. buffer[SlotOf(count + 1)] = item[t]
  BY <1>1, SlotFacts
<1>4. stored' = [i \in 1 .. count + 1 |-> buffer[SlotOf(i)]]
  BY <1>2 DEF stored, SlotOf
<1>5. Append(stored, item[t]) =
        [i \in 1 .. count + 1 |-> IF i <= count THEN stored[i] ELSE item[t]]
  BY <1>1, StoredFacts
<1>6. \A i \in 1 .. count + 1 :
        buffer[SlotOf(i)] = IF i <= count THEN stored[i] ELSE item[t]
  BY <1>1, <1>3, StoredFacts
<1>7. QED
  BY <1>1, <1>4, <1>5, <1>6, StoredFacts

\* Moving head past the fetched cell removes the oldest element.
LEMMA FetchRemoves ==
  ASSUME IInv, NEW t \in Consumers, DeqCommit(t)
  PROVE  /\ Len(stored) > 0
         /\ Head(stored) = item[t]
         /\ stored' = Tail(stored)
<1>1. /\ head \in Slots /\ tail \in Slots /\ count \in 0 .. Capacity /\ IndexInv
      /\ count > 0 /\ buffer[head] = item[t]
  BY DEF IInv, TypeOK, DeqCommit, MutexInv, Threads
<1>2. count' = count - 1 /\ head' = Advance(head) /\ UNCHANGED buffer
  BY DEF DeqCommit
<1>3. Head(stored) = item[t]
  <2>1. stored[1] = buffer[SlotOf(1)]
    BY <1>1, StoredFacts
  <2>2. QED
    BY <2>1, <1>1, SlotFacts, StoredFacts
<1>4. stored' = [i \in 1 .. count - 1 |-> buffer[SlotOf(i)']]
  BY <1>2 DEF stored
<1>5. \A i \in 1 .. count - 1 : buffer[SlotOf(i)'] = stored[i + 1]
  <2>1. TAKE i \in 1 .. count - 1
  <2>2. SlotOf(i)' = SlotOf(i + 1)
    BY <1>1, <1>2, ShiftedSlot
  <2>3. i + 1 \in 1 .. count
    BY <1>1
  <2>4. QED
    BY <2>2, <2>3, StoredFacts
<1>6. Tail(stored) = [i \in 1 .. count - 1 |-> stored[i + 1]]
  <2>1. stored # <<>>
    BY <1>1, StoredFacts
  <2>2. /\ Tail(stored) \in Seq(Data)
        /\ Len(Tail(stored)) = count - 1
        /\ \A i \in 1 .. count - 1 : Tail(stored)[i] = stored[i + 1]
    BY <2>1, StoredFacts, HeadTailProperties
  <2>3. Tail(stored) = [i \in 1 .. count - 1 |-> Tail(stored)[i]]
    BY <2>2, SeqIsFunction
  <2>4. QED
    BY <2>2, <2>3
<1>7. QED
  BY <1>1, <1>3, <1>4, <1>5, <1>6, StoredFacts

\* The empty ring is the empty abstract queue.
LEMMA RefineInit == Init => Abstract!Init
  BY DEF Init, Abstract!Init, stored, Threads, Failed, Abstract!Failed

\* Every step of the ring is a step of the abstract queue or leaves it alone:
\* an operation takes effect when it moves the indices, a failing one when it
\* returns -1.
LEMMA RefineStep ==
  ASSUME IInv, [Next]_vars
  PROVE  [Abstract!Next]_(Abstract!fifoVars)
<1> USE DEF Threads, Abstract!fifoVars, Abstract!Failed, Failed, Abstract!Done, Done
<1>1. /\ head \in Slots /\ tail \in Slots /\ count \in 0 .. Capacity /\ IndexInv
  BY DEF IInv, TypeOK
<1>2. ASSUME UNCHANGED <<buffer, head, count>> PROVE stored' = stored
  BY <1>2, SameStored
<1>3. ASSUME NEW t \in Producers, NEW d \in Data, EnqLock(t, d)
      PROVE  UNCHANGED Abstract!fifoVars
  BY <1>2, <1>3 DEF EnqLock
<1>4. ASSUME NEW t \in Producers, EnqFull(t) PROVE Abstract!PutFull(t)
  BY <1>2, <1>4, StoredFacts DEF EnqFull, Return, Abstract!PutFull
<1>5. ASSUME NEW t \in Producers, EnqCopy(t) PROVE UNCHANGED Abstract!fifoVars
  <2>1. count < Capacity /\ UNCHANGED <<head, count, result>>
    BY <1>5 DEF EnqCopy
  <2>2. \A i \in 1 .. count : SlotOf(i) \in Slots /\ SlotOf(i) # tail
    <3>1. TAKE i \in 1 .. count
    <3>2. i \in 1 .. Capacity /\ count + 1 \in 1 .. Capacity /\ i # count + 1
      BY <2>1, <1>1, CapacityAssumption
    <3>3. QED
      BY <2>1, <3>2, <1>1, SlotFacts
  <2>3. \A i \in 1 .. count : buffer'[SlotOf(i)] = buffer[SlotOf(i)]
    BY <2>2, <1>5 DEF EnqCopy, IInv, TypeOK
  <2>4. QED
    BY <2>1, <2>3, SameStored
<1>6. ASSUME NEW t \in Producers, EnqCommit(t)
      PROVE  \E d \in Data : Abstract!Put(t, d)
  BY <1>6, StoreAppends DEF EnqCommit, Return, Abstract!Put
<1>7. ASSUME NEW t \in Consumers, IsEmpty(t) \/ DeqLock(t)
      PROVE  UNCHANGED Abstract!fifoVars
  BY <1>2, <1>7 DEF IsEmpty, DeqLock
<1>8. ASSUME NEW t \in Consumers, DeqEmpty(t) PROVE Abstract!GetEmpty(t)
  BY <1>2, <1>8, StoredFacts DEF DeqEmpty, Return, Abstract!GetEmpty
<1>9. ASSUME NEW t \in Consumers, DeqCopy(t) PROVE UNCHANGED Abstract!fifoVars
  BY <1>2, <1>9 DEF DeqCopy
<1>10. ASSUME NEW t \in Consumers, DeqCommit(t) PROVE Abstract!Get(t)
  BY <1>10, FetchRemoves DEF DeqCommit, Return, Abstract!Get
<1>11. CASE UNCHANGED vars
  BY <1>2, <1>11 DEF vars
<1>12. QED
  BY <1>3, <1>4, <1>5, <1>6, <1>7, <1>8, <1>9, <1>10, <1>11
  DEF Next, Enqueue, Dequeue, Abstract!Next

\* kit_queue.c implements the atomic bounded FIFO of module Fifo, whatever the
\* number of threads and the capacity.
THEOREM RefinementHolds == Spec => RefinesFifo
<1>1. Init => Abstract!Init
  BY RefineInit
<1>2. IInv /\ [Next]_vars => [Abstract!Next]_(Abstract!fifoVars)
  BY RefineStep
<1>3. QED
  BY <1>1, <1>2, InitIInv, NextIInv, PTL DEF Spec, RefinesFifo, Abstract!Spec

=============================================================================
