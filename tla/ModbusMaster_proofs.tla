------------------------ MODULE ModbusMaster_proofs ------------------------
(***************************************************************************)
(* What holds of the master of one Modbus device for every number of       *)
(* control points and polls, every size of the ring of writes and every    *)
(* number of faults.  MasterState gives the types, WireInv tells which     *)
(* request a frame on its way belongs to, OrderInv orders the values in    *)
(* the device, on the line and in the ring, DoneInv says where each value  *)
(* is that was scanned.                                                    *)
(***************************************************************************)
EXTENDS ModbusMaster, SequenceTheorems, FiniteSetTheorems, TLAPS

Numbers == 0 .. Modulus - 1
Sendable == Frames \ {NoFrame}
Requests == [number : Numbers, frame : Sendable]
Answers == [number : Numbers, frame : Sendable, ok : BOOLEAN]

\* The types; while the thread waits for the answer to a write, the write is
\* still the oldest of the ring.
MasterState ==
  /\ wanted \in [Points -> 0 .. MaxChanges] /\ scanned \in [Points -> 0 .. MaxChanges]
  /\ \A p \in Points : scanned[p] <= wanted[p]
  /\ slots \in [Slots -> Frames]
  /\ cur \in Slots /\ rear \in Slots /\ listNum \in Nat
  /\ reqIdx \in Polls
  /\ transaction \in Numbers
  /\ sent \in Frames
  /\ pc \in {"start", "top", "wait", "offline"}
  /\ count \in 0 .. Retries + 1
  /\ isOnline \in BOOLEAN /\ up \in BOOLEAN
  /\ toDevice \in Seq(Requests)
  /\ fromDevice \in Seq(Answers)
  /\ register \in [Points -> 0 .. MaxChanges]
  /\ executed \subseteq Frames
  /\ source \in [Polls -> Polls]
  /\ faults \in 0 .. MaxFaults
  /\ pc = "wait" /\ Kind(sent) = "write" => listNum > 0 /\ slots[cur] = sent

\* Transaction numbers given out since n, when t is the present one.
Age(n, t) == IF t >= n THEN t - n ELSE t - n + Modulus

\* A frame is late because of a fault, and so is each frame before it.
LateForFaults ==
  /\ \A i \in 1 .. Len(fromDevice) : i + Age(fromDevice[i].number, transaction) <= faults + 1
  /\ \A i \in 1 .. Len(toDevice) :
       Len(fromDevice) + i + Age(toDevice[i].number, transaction) <= faults + 1

\* A frame with the present number is the one the thread waits for, unless the
\* connection is about to be closed.
OneIsPending ==
  /\ \A i \in 1 .. Len(fromDevice) : fromDevice[i].number = transaction =>
       pc = "offline" \/ (pc = "wait" /\ fromDevice[i].frame = sent)
  /\ \A i \in 1 .. Len(toDevice) : toDevice[i].number = transaction =>
       pc = "offline" \/ (pc = "wait" /\ toDevice[i].frame = sent)

\* A write that is confirmed was executed.
ConfirmedIsDone ==
  \A i \in 1 .. Len(fromDevice) :
    fromDevice[i].ok /\ Kind(fromDevice[i].frame) = "write" => fromDevice[i].frame \in executed

\* What the numbers of the frames tell.
WireInv == LateForFaults /\ OneIsPending /\ ConfirmedIsDone

-----------------------------------------------------------------------------
(* Frames.                                                                 *)

\* The constants are numbers, and zero is a slot, a poll and a number.
LEMMA Constants ==
  /\ PointNum \in Nat /\ PollNum \in Nat /\ Size \in Nat /\ Modulus \in Nat
  /\ PollNum > 0 /\ Size > 0 /\ Modulus > 0
  /\ Retries \in Nat /\ MaxChanges \in Nat /\ MaxPending \in Nat /\ MaxFaults \in Nat
  /\ Serial \in BOOLEAN
  /\ 0 \in Slots /\ 0 \in Polls /\ 0 \in Numbers
BY NumberAssumption DEF Slots, Polls, Numbers

\* A frame is none, a poll or a write, and its kind tells which.
LEMMA FrameKinds ==
  ASSUME NEW f \in Frames
  PROVE  \/ f = NoFrame /\ Kind(f) = "none"
         \/ Kind(f) = "poll" /\ f[2] \in Polls /\ f = Poll(f[2])
         \/ Kind(f) = "write" /\ f[2] \in Points /\ f[3] \in 1 .. MaxChanges /\ f = Write(f[2], f[3])
<1>1. CASE f = NoFrame
  BY <1>1 DEF NoFrame, Kind
<1>2. ASSUME NEW b \in Polls, f = Poll(b)
      PROVE  Kind(f) = "poll" /\ f[2] = b
  BY <1>2 DEF Poll, Kind
<1>3. ASSUME NEW p \in Points, NEW v \in 1 .. MaxChanges, f = Write(p, v)
      PROVE  Kind(f) = "write" /\ f[2] = p /\ f[3] = v
  BY <1>3 DEF Write, Kind
<1>4. f = NoFrame \/ (\E b \in Polls : f = Poll(b))
        \/ (\E p \in Points, v \in 1 .. MaxChanges : f = Write(p, v))
  BY DEF Frames
<1>5. QED
  BY <1>1, <1>2, <1>3, <1>4

\* A poll is a frame.
LEMMA PollFrame ==
  ASSUME NEW b \in Polls
  PROVE  Poll(b) \in Frames /\ Kind(Poll(b)) = "poll" /\ Poll(b)[2] = b
BY DEF Frames, Poll, Kind

\* So is a write.
LEMMA WriteFrame ==
  ASSUME NEW p \in Points, NEW v \in 1 .. MaxChanges
  PROVE  /\ Write(p, v) \in Frames /\ Kind(Write(p, v)) = "write"
         /\ Write(p, v)[2] = p /\ Write(p, v)[3] = v
<1>1. Write(p, v) \in Frames
  BY DEF Frames
<1>2. QED
  BY <1>1 DEF Write, Kind

\* A set of points can be listed in their order.
LEMMA InTheirOrder ==
  ASSUME NEW S \in SUBSET Points
  PROVE  /\ IsFiniteSet(S) /\ Cardinality(S) \in Nat
         /\ \E s \in [1 .. Cardinality(S) -> S] : \A i, j \in DOMAIN s : i < j => s[i] < s[j]
         /\ \A s \in [1 .. Cardinality(S) -> S] :
              (\A i, j \in DOMAIN s : i < j => s[i] < s[j]) =>
                \A p \in S : \E i \in 1 .. Cardinality(S) : s[i] = p
<1> DEFINE n == Cardinality(S)
           Below(p) == {q \in S : q <= p}
           rank == [p \in S |-> Cardinality(Below(p))]
<1>1. IsFiniteSet(S) /\ n \in Nat /\ S \subseteq Nat
  <2>1. IsFiniteSet(Points)
    BY Constants, FS_Interval DEF Points
  <2>2. S \subseteq Nat
    BY DEF Points
  <2>3. QED
    BY <2>1, <2>2, FS_Subset, FS_CardinalityType
<1>2. ASSUME NEW p \in S
      PROVE  IsFiniteSet(Below(p)) /\ rank[p] \in 1 .. n
  <2>1. Below(p) \subseteq S /\ p \in Below(p)
    BY <1>1
  <2>2. IsFiniteSet(Below(p)) /\ Cardinality(Below(p)) <= n /\ Cardinality(Below(p)) \in Nat
    BY <1>1, <2>1, FS_Subset, FS_CardinalityType
  <2>3. Cardinality(Below(p)) # 0
    BY <2>1, <2>2, FS_EmptySet
  <2>4. QED
    BY <1>1, <2>2, <2>3
<1>3. ASSUME NEW p \in S, NEW q \in S, p < q
      PROVE  rank[p] < rank[q]
  <2>0. p \in Nat /\ q \in Nat /\ \A x \in S : x \in Nat
    BY <1>1
  <2>1. Below(p) \subseteq Below(q) /\ q \in Below(q) /\ q \notin Below(p)
    <3>1. \A x \in S : x <= p => x <= q
      BY <1>3, <2>0
    <3>2. q <= q /\ ~(q <= p)
      BY <1>3, <2>0
    <3>3. QED
      BY <3>1, <3>2
  <2>2. Cardinality(Below(p)) <= Cardinality(Below(q))
        /\ (Cardinality(Below(q)) = Cardinality(Below(p)) => Below(q) = Below(p))
    BY <1>2, <2>1, FS_Subset
  <2>3. QED
    BY <1>2, <2>1, <2>2
<1>4. IsFiniteSet(1 .. n) /\ Cardinality(1 .. n) = n
  BY <1>1, FS_Interval
<1> HIDE DEF rank, Below, n
<1>5. rank \in [S -> 1 .. n]
  <2>1. rank = [p \in S |-> rank[p]]
    BY DEF rank
  <2>2. QED
    BY <1>2, <2>1
<1>6. \A p, q \in S : rank[p] = rank[q] => p = q
  BY <1>1, <1>2, <1>3
<1>7. \A i \in 1 .. n : \E p \in S : rank[p] = i
  <2>1. rank \in Injection(S, 1 .. n)
    BY <1>5, <1>6 DEF Injection, IsInjective
  <2>2. rank \in Surjection(S, 1 .. n)
    BY <1>4, <2>1, FS_Injection DEF n
  <2>3. QED
    BY <2>2 DEF Surjection
<1>8. \E s \in [1 .. n -> S] : \A i, j \in DOMAIN s : i < j => s[i] < s[j]
  <2> DEFINE s == [i \in 1 .. n |-> CHOOSE p \in S : rank[p] = i]
  <2>1. \A i \in 1 .. n : s[i] \in S /\ rank[s[i]] = i
    BY <1>7
  <2>2. s \in [1 .. n -> S] /\ DOMAIN s = 1 .. n
    BY <2>1
  <2> HIDE DEF s
  <2>3. ASSUME NEW i \in 1 .. n, NEW j \in 1 .. n, i < j
        PROVE  s[i] < s[j]
    <3>1. s[i] \in S /\ s[j] \in S /\ rank[s[i]] = i /\ rank[s[j]] = j
      BY <2>1
    <3>2. s[i] \in Nat /\ s[j] \in Nat /\ i \in Nat /\ j \in Nat
      <4>1. s[i] \in Nat /\ s[j] \in Nat
        BY <1>1, <3>1
      <4>2. i \in Nat /\ j \in Nat
        BY <1>1
      <4>3. QED
        BY <4>1, <4>2
    <3>3. CASE s[j] < s[i]
      BY <1>3, <2>3, <3>1, <3>2, <3>3
    <3>4. CASE s[j] = s[i]
      BY <2>3, <3>1, <3>2, <3>4
    <3>5. QED
      BY <3>2, <3>3, <3>4
  <2>4. QED
    BY <2>2, <2>3
<1>9. ASSUME NEW s \in [1 .. n -> S], \A i, j \in DOMAIN s : i < j => s[i] < s[j]
      PROVE  \A p \in S : \E i \in 1 .. n : s[i] = p
  <2>1. \A i, j \in 1 .. n : s[i] = s[j] => i = j
    <3> SUFFICES ASSUME NEW i \in 1 .. n, NEW j \in 1 .. n, s[i] = s[j], i < j
                 PROVE  FALSE
      OBVIOUS
    <3>1. s[i] < s[j] /\ s[i] \in Nat
      BY <1>1, <1>9
    <3>2. QED
      BY <3>1
  <2>2. s \in Injection(1 .. n, S)
    BY <2>1 DEF Injection, IsInjective
  <2>3. s \in Surjection(1 .. n, S)
    BY <1>1, <1>4, <2>2, FS_Injection DEF n
  <2>4. QED
    BY <2>3 DEF Surjection
<1>10. QED
  BY <1>1, <1>8, <1>9 DEF n

\* The writes of a scan are those of the points that changed.
LEMMA NewWritesFacts ==
  ASSUME MasterState
  PROVE  /\ IsFiniteSet(Changed) /\ Cardinality(Changed) \in Nat
         /\ NewWrites \in Seq(Sendable) /\ Len(NewWrites) = Cardinality(Changed)
         /\ DOMAIN NewWrites = 1 .. Cardinality(Changed)
         /\ \A i \in 1 .. Cardinality(Changed) :
              /\ NewWrites[i] \in Sendable
              /\ \E p \in Changed : NewWrites[i] = Write(p, wanted[p])
         /\ \A p \in Changed :
              \E i \in 1 .. Cardinality(Changed) : NewWrites[i] = Write(p, wanted[p])
<1> DEFINE n == Cardinality(Changed)
           InOrder(s) == \A i, j \in DOMAIN s : i < j => s[i] < s[j]
           points == CHOOSE s \in [1 .. n -> Changed] : InOrder(s)
<1>1. Changed \subseteq Points
  BY DEF Changed
<1>2. /\ IsFiniteSet(Changed) /\ n \in Nat
      /\ \E s \in [1 .. n -> Changed] : InOrder(s)
      /\ \A s \in [1 .. n -> Changed] : InOrder(s) => \A p \in Changed : \E i \in 1 .. n : s[i] = p
  BY <1>1, InTheirOrder
<1>3. NewWrites = [i \in DOMAIN points |-> Write(points[i], wanted[points[i]])]
  BY DEF NewWrites
<1>4. /\ points \in [1 .. n -> Changed] /\ DOMAIN points = 1 .. n
      /\ \A p \in Changed : \E i \in 1 .. n : points[i] = p
  BY <1>2
<1>5. ASSUME NEW p \in Changed
      PROVE  Write(p, wanted[p]) \in Sendable
  <2>1. /\ wanted[p] \in 0 .. MaxChanges /\ scanned[p] \in 0 .. MaxChanges /\ p \in Points
        /\ scanned[p] <= wanted[p] /\ wanted[p] # scanned[p]
    BY DEF MasterState, Changed
  <2>2. wanted[p] \in 1 .. MaxChanges
    BY <2>1, Constants
  <2>3. Write(p, wanted[p]) \in Frames /\ Kind(Write(p, wanted[p])) = "write"
    BY <2>1, <2>2, WriteFrame
  <2>4. Kind(NoFrame) = "none"
    BY DEF Kind, NoFrame
  <2>5. QED
    BY <2>3, <2>4 DEF Sendable
<1> HIDE DEF points, n, InOrder
<1>6. DOMAIN NewWrites = 1 .. n /\ \A i \in 1 .. n : NewWrites[i] = Write(points[i], wanted[points[i]])
  BY <1>3, <1>4
<1>7. \A i \in 1 .. n : points[i] \in Changed
  BY <1>4
<1>8. NewWrites \in [1 .. n -> Sendable]
  <2>1. NewWrites = [i \in 1 .. n |-> NewWrites[i]]
    BY <1>3, <1>4
  <2>2. \A i \in 1 .. n : NewWrites[i] \in Sendable
    BY <1>5, <1>6, <1>7
  <2>3. QED
    BY <2>1, <2>2
<1>9. NewWrites \in Seq(Sendable) /\ Len(NewWrites) = n
  BY <1>2, <1>8, SeqDef
<1>10. \A i \in 1 .. n : NewWrites[i] \in Sendable
         /\ \E p \in Changed : NewWrites[i] = Write(p, wanted[p])
  BY <1>5, <1>6, <1>7
<1>11. \A p \in Changed : \E i \in 1 .. n : NewWrites[i] = Write(p, wanted[p])
  BY <1>4, <1>6
<1>12. QED
  BY <1>2, <1>6, <1>9, <1>10, <1>11 DEF n

-----------------------------------------------------------------------------
(* The ring.                                                               *)

\* The j-th slot from c on, and the pending writes from the oldest on.
Place(c, j) == IF c + j <= Size THEN c + j - 1 ELSE c + j - 1 - Size
Ring == [j \in 1 .. listNum |-> slots[Place(cur, j)]]

\* Slots are found again after at most one turn.
LEMMA WrapOnce ==
  ASSUME NEW i \in 0 .. 2 * Size - 1
  PROVE  i % Size = IF i < Size THEN i ELSE i - Size
<1>1. Size \in Nat \ {0}
  BY NumberAssumption
<1>2. \A n \in Nat \ {0} : \A k \in 0 .. 2 * n - 1 : k % n = IF k < n THEN k ELSE k - n
  OBVIOUS
<1>3. QED
  BY <1>1, <1>2

\* So are they counted backwards.
LEMMA WrapBack ==
  ASSUME NEW i \in Int, 0 - Size < i, i < Size
  PROVE  i % Size = IF i >= 0 THEN i ELSE i + Size
<1>1. Size \in Nat \ {0}
  BY NumberAssumption
<1>2. CASE i >= 0
  <2>1. i \in 0 .. 2 * Size - 1
    BY <1>1, <1>2
  <2>2. QED
    BY <1>2, <2>1, WrapOnce
<1>3. CASE i < 0
  <2>1. \A n \in Nat \ {0} : \A k \in Int : 0 - n < k /\ k < 0 => k % n = k + n
    OBVIOUS
  <2>2. QED
    BY <1>1, <1>3, <2>1
<1>4. QED
  BY <1>2, <1>3

\* What is in a slot after new writes were stored from rear on.
LEMMA FilledFacts ==
  ASSUME rear \in Slots, NEW n \in Nat, NEW new, DOMAIN new = 1 .. n
  PROVE  /\ DOMAIN Filled(new) = Slots
         /\ \A s \in Slots : Filled(new)[s] =
              LET i == (IF s >= rear THEN s - rear ELSE s - rear + Size) + 1
              IN  IF i <= n THEN new[i] ELSE slots[s]
<1>1. Filled(new) = [s \in Slots |-> LET i == ((s - rear) % Size) + 1
                                    IN  IF i \in DOMAIN new THEN new[i] ELSE slots[s]]
  BY DEF Filled
<1>2. ASSUME NEW s \in Slots
      PROVE  /\ (s - rear) % Size = IF s >= rear THEN s - rear ELSE s - rear + Size
             /\ (s - rear) % Size \in Nat
  <2>1. s - rear \in Int /\ 0 - Size < s - rear /\ s - rear < Size /\ s \in Int /\ rear \in Int
    BY Constants DEF Slots
  <2>2. (s - rear) % Size = IF s - rear >= 0 THEN s - rear ELSE (s - rear) + Size
    BY <2>1, WrapBack
  <2> DEFINE i == (s - rear) % Size
  <2>3. i = IF s - rear >= 0 THEN s - rear ELSE (s - rear) + Size
    BY <2>2
  <2> HIDE DEF i
  <2>4. i = (IF s >= rear THEN s - rear ELSE s - rear + Size) /\ i \in Nat
    BY <2>1, <2>3, Constants
  <2>5. QED
    BY <2>4 DEF i
<1>3. ASSUME NEW s \in Slots
      PROVE  Filled(new)[s] = LET i == (IF s >= rear THEN s - rear ELSE s - rear + Size) + 1
                              IN  IF i <= n THEN new[i] ELSE slots[s]
  <2> DEFINE k == (s - rear) % Size
  <2>1. Filled(new)[s] = IF k + 1 \in DOMAIN new THEN new[k + 1] ELSE slots[s]
    BY <1>1
  <2>2. k = (IF s >= rear THEN s - rear ELSE s - rear + Size) /\ k \in Nat
    BY <1>2
  <2> HIDE DEF k
  <2>3. k + 1 \in 1 .. n <=> k + 1 <= n
    BY <2>2
  <2>4. QED
    BY <2>1, <2>2, <2>3
<1>4. DOMAIN Filled(new) = Slots
  BY <1>1
<1>5. QED
  BY <1>3, <1>4
-----------------------------------------------------------------------------
(* Types.                                                                  *)

\* What is on the way, as sequences.
LEMMA OnTheWay ==
  ASSUME MasterState
  PROVE  /\ Len(toDevice) \in Nat /\ DOMAIN toDevice = 1 .. Len(toDevice)
         /\ Len(fromDevice) \in Nat /\ DOMAIN fromDevice = 1 .. Len(fromDevice)
         /\ \A i \in 1 .. Len(toDevice) :
              /\ toDevice[i] \in Requests
              /\ toDevice[i].number \in Numbers /\ toDevice[i].frame \in Sendable
         /\ \A i \in 1 .. Len(fromDevice) :
              /\ fromDevice[i] \in Answers
              /\ fromDevice[i].number \in Numbers /\ fromDevice[i].frame \in Sendable
              /\ fromDevice[i].ok \in BOOLEAN
<1>1. toDevice \in Seq(Requests) /\ fromDevice \in Seq(Answers)
  BY DEF MasterState
<1>2. /\ Len(toDevice) \in Nat /\ DOMAIN toDevice = 1 .. Len(toDevice)
      /\ Len(fromDevice) \in Nat /\ DOMAIN fromDevice = 1 .. Len(fromDevice)
  BY <1>1, LenProperties
<1>3. /\ \A i \in 1 .. Len(toDevice) : toDevice[i] \in Requests
      /\ \A i \in 1 .. Len(fromDevice) : fromDevice[i] \in Answers
  BY <1>1, ElementOfSeq
<1>4. QED
  BY <1>2, <1>3 DEF Requests, Answers

\* A frame that can be sent is a poll or a write.
LEMMA SendableKinds ==
  ASSUME NEW f \in Sendable
  PROVE  /\ f \in Frames
         /\ \/ Kind(f) = "poll" /\ f[2] \in Polls /\ f = Poll(f[2])
            \/ Kind(f) = "write" /\ f[2] \in Points /\ f[3] \in 1 .. MaxChanges
                 /\ f = Write(f[2], f[3])
BY FrameKinds DEF Sendable

\* Executing a write sets its point.
LEMMA ExecuteFacts ==
  ASSUME MasterState, NEW f \in Sendable, Execute(f)
  PROVE  /\ register' \in [Points -> 0 .. MaxChanges]
         /\ executed' \subseteq Frames
         /\ Kind(f) = "write" =>
              /\ executed' = executed \cup {f}
              /\ \A p \in Points : register'[p] = IF p = f[2] THEN f[3] ELSE register[p]
         /\ Kind(f) # "write" => register' = register /\ executed' = executed
<1>1. register \in [Points -> 0 .. MaxChanges] /\ executed \subseteq Frames
  BY DEF MasterState
<1>2. CASE Kind(f) = "write"
  <2>1. f[2] \in Points /\ f[3] \in 1 .. MaxChanges /\ f \in Frames
    BY <1>2, SendableKinds
  <2>2. f[3] \in 0 .. MaxChanges
    BY <2>1, Constants
  <2>3. register' = [register EXCEPT ![f[2]] = f[3]] /\ executed' = executed \cup {f}
    BY <1>2 DEF Execute
  <2>4. QED
    BY <1>1, <1>2, <2>1, <2>2, <2>3
<1>3. CASE Kind(f) # "write"
  BY <1>1, <1>3 DEF Execute, deviceVars
<1>4. QED
  BY <1>2, <1>3

\* A number is followed by a number.
LEMMA NextNumberType ==
  ASSUME NEW n \in Numbers
  PROVE  (n + 1) % Modulus \in Numbers /\ (n + 1) % Modulus = IF n + 1 = Modulus THEN 0 ELSE n + 1
<1>1. Modulus \in Nat \ {0}
  BY NumberAssumption
<1>2. \A m \in Nat \ {0} : \A k \in 0 .. m - 1 :
        (k + 1) % m \in 0 .. m - 1 /\ (k + 1) % m = IF k + 1 = m THEN 0 ELSE k + 1
  OBVIOUS
<1>3. QED
  BY <1>1, <1>2 DEF Numbers

\* A failure changes what the master knows of its connection.
LEMMA FailTypes ==
  ASSUME MasterState, NEW silent \in BOOLEAN, Fail(silent)
  PROVE  /\ count' \in 0 .. Retries + 1 /\ isOnline' \in BOOLEAN
         /\ pc' \in {"top", "offline"} /\ transaction' \in Numbers
         /\ reqIdx' = reqIdx /\ sent' = sent
<1>1. count' \in 0 .. Retries + 1
  BY Constants DEF MasterState, Fail
<1>2. transaction' \in Numbers
  <2>1. transaction' = transaction \/ transaction' = (transaction + 1) % Modulus
    BY DEF Fail, NextTransaction
  <2>2. transaction \in Numbers
    BY DEF MasterState
  <2>3. QED
    BY <2>1, <2>2, NextNumberType
<1>3. isOnline' \in BOOLEAN
  BY DEF Fail
<1>4. pc' \in {"top", "offline"}
  BY DEF Fail
<1>5. QED
  BY <1>1, <1>2, <1>3, <1>4 DEF Fail

\* The slot after a slot.
LEMMA NextSlot ==
  ASSUME NEW c \in Slots
  PROVE  (c + 1) % Size \in Slots /\ (c + 1) % Size = IF c + 1 = Size THEN 0 ELSE c + 1
<1>1. Size \in Nat \ {0}
  BY NumberAssumption
<1>2. \A m \in Nat \ {0} : \A k \in 0 .. m - 1 :
        (k + 1) % m \in 0 .. m - 1 /\ (k + 1) % m = IF k + 1 = m THEN 0 ELSE k + 1
  OBVIOUS
<1>3. QED
  BY <1>1, <1>2 DEF Slots

\* The ring after the answered write has left it.
LEMMA PopTypes ==
  ASSUME MasterState, Pop
  PROVE  slots' \in [Slots -> Frames] /\ cur' \in Slots /\ rear' = rear /\ listNum' \in Nat
<1>1. NoFrame \in Frames
  BY DEF Frames
<1>4. cur' \in Slots
  BY NextSlot DEF Pop, MasterState
<1>5. slots' \in [Slots -> Frames]
  BY <1>1 DEF Pop, MasterState
<1>6. listNum' \in Nat
  BY DEF Pop, MasterState
<1>7. QED
  BY <1>4, <1>5, <1>6 DEF Pop

\* The frame that is sent: the oldest write, or the next poll.
LEMMA TransmitFacts ==
  ASSUME MasterState, Transmit
  PROVE  /\ scanned' = wanted /\ wanted' = wanted /\ cur' = cur
         /\ slots' \in [Slots -> Frames] /\ rear' \in Slots
         /\ listNum' = listNum + Cardinality(Changed) /\ listNum' \in Nat
         /\ sent' \in Frames /\ reqIdx' \in Polls
         /\ listNum' > 0 => sent' = slots'[cur]
         /\ ~(listNum' > 0) => sent' = Poll(reqIdx) /\ Kind(sent') = "poll"
         /\ \/ toDevice' = toDevice
            \/ /\ sent' # NoFrame /\ [number |-> transaction, frame |-> sent'] \in Requests
               /\ toDevice' = Append(toDevice, [number |-> transaction, frame |-> sent'])
<1>1. /\ NewWrites \in Seq(Sendable) /\ Len(NewWrites) = Cardinality(Changed)
      /\ Cardinality(Changed) \in Nat /\ DOMAIN NewWrites = 1 .. Cardinality(Changed)
      /\ \A i \in 1 .. Cardinality(Changed) : NewWrites[i] \in Sendable
  BY NewWritesFacts
<1>2. rear' \in Slots
  <2>1. Size \in Nat \ {0} /\ rear \in Nat
    BY NumberAssumption DEF MasterState, Slots
  <2>2. \A m \in Nat \ {0} : \A k \in Nat : k % m \in 0 .. m - 1
    OBVIOUS
  <2>3. rear + Cardinality(Changed) \in Nat
    BY <1>1, <2>1
  <2>4. rear' = (rear + Cardinality(Changed)) % Size
    BY <1>1 DEF Transmit
  <2>5. QED
    BY <2>1, <2>2, <2>3, <2>4 DEF Slots
<1>3. slots' = Filled(NewWrites) /\ slots' \in [Slots -> Frames]
  <2>1. slots' = Filled(NewWrites)
    BY DEF Transmit
  <2>2. slots' = [s \in Slots |-> LET i == ((s - rear) % Size) + 1
                                 IN  IF i \in DOMAIN NewWrites THEN NewWrites[i] ELSE slots[s]]
    BY <2>1 DEF Filled
  <2>3. \A i \in DOMAIN NewWrites : NewWrites[i] \in Frames
    BY <1>1 DEF Sendable
  <2>4. \A s \in Slots : slots[s] \in Frames
    BY DEF MasterState
  <2>5. QED
    BY <2>1, <2>2, <2>3, <2>4
<1>4. listNum' = listNum + Cardinality(Changed) /\ listNum' \in Nat
  BY <1>1 DEF Transmit, MasterState
<1>5. reqIdx' \in Polls
  <2>1. PollNum \in Nat \ {0} /\ reqIdx \in Nat /\ reqIdx \in Polls
    BY NumberAssumption DEF MasterState, Polls
  <2>2. \A m \in Nat \ {0} : \A k \in Nat : (k + 1) % m \in 0 .. m - 1
    OBVIOUS
  <2>3. NextPoll \in Polls
    BY <2>1, <2>2 DEF NextPoll, Polls
  <2>4. QED
    BY <2>1, <2>3 DEF Transmit
<1>6. sent' = IF listNum' > 0 THEN slots'[cur] ELSE Poll(reqIdx)
  BY DEF Transmit
<1>7. cur \in Slots /\ reqIdx \in Polls /\ transaction \in Numbers
  BY DEF MasterState
<1>8. sent' \in Frames
  BY <1>3, <1>6, <1>7, PollFrame
<1>9. ~(listNum' > 0) => sent' = Poll(reqIdx) /\ Kind(sent') = "poll"
  BY <1>6, <1>7, PollFrame
<1>10. toDevice' = IF ~up \/ sent' = NoFrame THEN toDevice
                   ELSE Append(toDevice, [number |-> transaction, frame |-> sent'])
  BY DEF Transmit
<1>11. sent' # NoFrame => [number |-> transaction, frame |-> sent'] \in Requests
  BY <1>7, <1>8 DEF Requests, Sendable
<1>12. scanned' = wanted /\ wanted' = wanted /\ cur' = cur
  BY DEF Transmit
<1>13. QED
  BY <1>2, <1>3, <1>4, <1>5, <1>6, <1>8, <1>9, <1>10, <1>11, <1>12

\* The thread that was never started satisfies the types.
LEMMA MasterInit == Init => MasterState
<1> SUFFICES ASSUME Init PROVE MasterState
  OBVIOUS
<1>1. NoFrame \in Frames /\ 0 \in 0 .. MaxChanges /\ 0 \in 0 .. MaxFaults /\ 0 \in 0 .. Retries + 1
  BY Constants DEF Frames
<1>2. <<>> \in Seq(Requests) /\ <<>> \in Seq(Answers)
  OBVIOUS
<1>3. /\ wanted \in [Points -> 0 .. MaxChanges] /\ scanned \in [Points -> 0 .. MaxChanges]
      /\ register \in [Points -> 0 .. MaxChanges] /\ \A p \in Points : scanned[p] <= wanted[p]
  BY <1>1 DEF Init
<1>4. slots \in [Slots -> Frames] /\ source \in [Polls -> Polls]
  BY <1>1 DEF Init
<1>5. /\ cur \in Slots /\ rear \in Slots /\ listNum \in Nat /\ reqIdx \in Polls
           /\ transaction \in Numbers
      /\ sent \in Frames /\ count \in 0 .. Retries + 1 /\ faults \in 0 .. MaxFaults
  BY <1>1, Constants DEF Init
<1>6. isOnline \in BOOLEAN /\ up \in BOOLEAN /\ executed \subseteq Frames /\ pc = "start"
  BY DEF Init
<1>7. toDevice \in Seq(Requests) /\ fromDevice \in Seq(Answers)
  BY <1>2 DEF Init
<1>8. QED
  BY <1>3, <1>4, <1>5, <1>6, <1>7 DEF MasterState

\* What is received: the answers behind it stay.
LEMMA ReceiveFacts ==
  ASSUME MasterState, NEW k, Receive(k)
  PROVE  /\ k \in 1 .. Len(fromDevice) /\ Head(fromDevice) = fromDevice[1]
              /\ 1 \in 1 .. Len(fromDevice)
         /\ fromDevice' \in Seq(Answers) /\ Len(fromDevice') = Len(fromDevice) - k
         /\ \A i \in 1 .. Len(fromDevice') :
              i + k \in 1 .. Len(fromDevice) /\ fromDevice'[i] = fromDevice[i + k]
<1>1. /\ fromDevice \in Seq(Answers) /\ Len(fromDevice) \in Nat /\ k \in 1 .. Len(fromDevice)
      /\ fromDevice' = SubSeq(fromDevice, k + 1, Len(fromDevice))
  BY OnTheWay DEF Receive, MasterState
<1> DEFINE n == Len(fromDevice)
           q == SubSeq(fromDevice, k + 1, n)
<1>2. n \in Nat /\ k \in Nat /\ k + 1 \in Int /\ 1 <= k /\ k <= n
  BY <1>1
<1>3. \A i \in (k + 1) .. n : fromDevice[i] \in Answers
  <2>1. \A i \in (k + 1) .. n : i \in 1 .. n
    BY <1>2
  <2>2. QED
    BY <1>1, <2>1, ElementOfSeq
<1>4. /\ q \in Seq(Answers) /\ Len(q) = IF k + 1 <= n THEN n - (k + 1) + 1 ELSE 0
      /\ \A i \in 1 .. n - (k + 1) + 1 : q[i] = fromDevice[(k + 1) + i - 1]
  BY <1>2, <1>3, SubSeqProperties
<1> HIDE DEF n, q
<1>5. Len(q) = n - k
  BY <1>2, <1>4
<1>6. ASSUME NEW i \in 1 .. n - k
      PROVE  i + k \in 1 .. n /\ q[i] = fromDevice[i + k]
  <2>1. /\ i \in 1 .. n - (k + 1) + 1 /\ (k + 1) + i - 1 = i + k /\ i + k \in 1 .. n
    BY <1>2
  <2>2. QED
    BY <1>4, <2>1
<1>7. Head(fromDevice) = fromDevice[1] /\ 1 \in 1 .. n
  BY <1>2
<1>8. fromDevice' = q /\ Len(fromDevice) = n
  BY <1>1 DEF n, q
<1>9. QED
  BY <1>2, <1>4, <1>5, <1>6, <1>7, <1>8 DEF n

\* What the device has taken: the requests behind it stay.
LEMMA TakenFacts ==
  ASSUME MasterState, toDevice # <<>>, toDevice' = Tail(toDevice)
  PROVE  /\ Head(toDevice) = toDevice[1] /\ 1 \in 1 .. Len(toDevice)
         /\ Head(toDevice) \in Requests
         /\ Head(toDevice).number \in Numbers /\ Head(toDevice).frame \in Sendable
         /\ toDevice' \in Seq(Requests) /\ Len(toDevice') = Len(toDevice) - 1
         /\ \A i \in 1 .. Len(toDevice') : i + 1 \in 1 .. Len(toDevice)
              /\ toDevice'[i] = toDevice[i + 1]
<1>1. toDevice \in Seq(Requests) /\ Len(toDevice) \in Nat
  BY OnTheWay DEF MasterState
<1>2. Len(toDevice) # 0
  BY <1>1, EmptySeq
<1>3. Head(toDevice) = toDevice[1] /\ 1 \in 1 .. Len(toDevice) /\ toDevice[1] \in Requests
  BY <1>1, <1>2, ElementOfSeq
<1>4. /\ toDevice' \in Seq(Requests) /\ Len(toDevice') = Len(toDevice) - 1
      /\ \A i \in 1 .. Len(toDevice') : toDevice'[i] = toDevice[i + 1]
  BY <1>1, HeadTailProperties
<1>5. \A i \in 1 .. Len(toDevice') : i + 1 \in 1 .. Len(toDevice)
  <2>1. \A n \in Nat : \A i \in 1 .. n - 1 : i + 1 \in 1 .. n
    OBVIOUS
  <2>2. QED
    BY <1>1, <1>4, <2>1
<1>6. QED
  BY <1>1, <1>3, <1>4, <1>5 DEF Requests

\* The device's answer joins those that are on their way.
LEMMA AnsweredFacts ==
  ASSUME MasterState, NEW a \in Answers, fromDevice' = Append(fromDevice, a)
  PROVE  /\ fromDevice' \in Seq(Answers) /\ Len(fromDevice') = Len(fromDevice) + 1
         /\ \A i \in 1 .. Len(fromDevice) : fromDevice'[i] = fromDevice[i]
         /\ fromDevice'[Len(fromDevice) + 1] = a
         /\ \A i \in 1 .. Len(fromDevice') : i \in 1 .. Len(fromDevice) \/ i = Len(fromDevice) + 1
<1>1. fromDevice \in Seq(Answers) /\ Len(fromDevice) \in Nat
  BY OnTheWay DEF MasterState
<1>2. /\ fromDevice' \in Seq(Answers) /\ Len(fromDevice') = Len(fromDevice) + 1
      /\ \A i \in 1 .. Len(fromDevice) : fromDevice'[i] = fromDevice[i]
      /\ fromDevice'[Len(fromDevice) + 1] = a
  BY <1>1, AppendProperties
<1>3. \A i \in 1 .. Len(fromDevice) + 1 : i \in 1 .. Len(fromDevice) \/ i = Len(fromDevice) + 1
  BY <1>1
<1>4. QED
  BY <1>2, <1>3

\* A request joins those that are on their way.
LEMMA SentFacts ==
  ASSUME MasterState, NEW m \in Requests, toDevice' = Append(toDevice, m)
  PROVE  /\ toDevice' \in Seq(Requests) /\ Len(toDevice') = Len(toDevice) + 1
         /\ \A i \in 1 .. Len(toDevice) : toDevice'[i] = toDevice[i]
         /\ toDevice'[Len(toDevice) + 1] = m
         /\ \A i \in 1 .. Len(toDevice') : i \in 1 .. Len(toDevice) \/ i = Len(toDevice) + 1
<1>1. toDevice \in Seq(Requests) /\ Len(toDevice) \in Nat
  BY OnTheWay DEF MasterState
<1>2. /\ toDevice' \in Seq(Requests) /\ Len(toDevice') = Len(toDevice) + 1
      /\ \A i \in 1 .. Len(toDevice) : toDevice'[i] = toDevice[i]
      /\ toDevice'[Len(toDevice) + 1] = m
  BY <1>1, AppendProperties
<1>3. \A i \in 1 .. Len(toDevice) + 1 : i \in 1 .. Len(toDevice) \/ i = Len(toDevice) + 1
  BY <1>1
<1>4. QED
  BY <1>2, <1>3

\* Answers that arrived before the connection broke.
LEMMA BrokenFacts ==
  ASSUME MasterState, NEW k \in 0 .. Len(fromDevice), fromDevice' = SubSeq(fromDevice, 1, k)
  PROVE  /\ fromDevice' \in Seq(Answers) /\ Len(fromDevice') = k
         /\ \A i \in 1 .. k : i \in 1 .. Len(fromDevice) /\ fromDevice'[i] = fromDevice[i]
<1> DEFINE n == Len(fromDevice)
           q == SubSeq(fromDevice, 1, k)
<1>1. fromDevice \in Seq(Answers) /\ n \in Nat
  BY OnTheWay DEF MasterState
<1>2. k \in Nat /\ \A i \in 1 .. k : i \in 1 .. n
  BY <1>1
<1>3. \A i \in 1 .. k : fromDevice[i] \in Answers
  BY <1>1, <1>2, ElementOfSeq
<1>4. /\ q \in Seq(Answers) /\ Len(q) = IF 1 <= k THEN k - 1 + 1 ELSE 0
      /\ \A i \in 1 .. k - 1 + 1 : q[i] = fromDevice[1 + i - 1]
  BY <1>2, <1>3, SubSeqProperties
<1> HIDE DEF n, q
<1>5. Len(q) = k /\ \A i \in 1 .. k : i \in 1 .. k - 1 + 1 /\ 1 + i - 1 = i
  BY <1>2, <1>4
<1>6. \A i \in 1 .. k : q[i] = fromDevice[i]
  BY <1>4, <1>5
<1>7. QED
  BY <1>2, <1>4, <1>5, <1>6 DEF n, q

\* Each step keeps the types.
LEMMA MasterStateStep == MasterState /\ [Next]_vars => MasterState'
<1> SUFFICES ASSUME MasterState, [Next]_vars PROVE MasterState'
  OBVIOUS
<1> USE DEF MasterState, rtdbVars, listVars, masterVars, deviceVars
<1>1. ASSUME NEW p \in Points, Change(p) PROVE MasterState'
  <2>1. wanted[p] + 1 \in 0 .. MaxChanges
    BY <1>1, Constants DEF Change
  <2>2. wanted' = [wanted EXCEPT ![p] = wanted[p] + 1] /\ scanned' = scanned
    BY <1>1 DEF Change
  <2>3. wanted' \in [Points -> 0 .. MaxChanges]
    BY <2>1, <2>2
  <2>4. \A q \in Points : scanned'[q] <= wanted'[q]
    <3>1. scanned[p] <= wanted[p] + 1
      BY Constants
    <3>2. QED
      BY <2>2, <3>1
  <2>5. QED
    BY <1>1, <2>2, <2>3, <2>4 DEF Change
<1>2. CASE Open
  BY <1>2 DEF Open
<1>3. CASE Transmit
  <2>1. /\ scanned' = wanted /\ wanted' = wanted /\ cur' = cur
        /\ slots' \in [Slots -> Frames] /\ rear' \in Slots
        /\ listNum' \in Nat
        /\ sent' \in Frames /\ reqIdx' \in Polls
        /\ listNum' > 0 => sent' = slots'[cur]
        /\ ~(listNum' > 0) => Kind(sent') = "poll"
        /\ \/ toDevice' = toDevice
           \/ /\ [number |-> transaction, frame |-> sent'] \in Requests
              /\ toDevice' = Append(toDevice, [number |-> transaction, frame |-> sent'])
    BY <1>3, TransmitFacts
  <2>2. toDevice' \in Seq(Requests)
    BY <2>1, SentFacts
  <2>3. \A p \in Points : scanned'[p] <= wanted'[p] /\ scanned'[p] \in 0 .. MaxChanges
    BY <2>1, Constants
  <2>4. /\ pc' \in {"wait", "offline"}
        /\ UNCHANGED <<transaction, count, isOnline, up, fromDevice, register, executed, source,
             faults>>
    BY <1>3 DEF Transmit
  <2>5. Kind(sent') = "write" => listNum' > 0 /\ slots'[cur'] = sent'
    BY <2>1
  <2>6. QED
    BY <2>1, <2>2, <2>3, <2>4, <2>5
<1>4. CASE Timeout
  <2>1. Fail(TRUE) /\ faults' \in {faults, faults + 1} /\ (faults' = faults \/ faults < MaxFaults)
        /\ UNCHANGED <<wanted, scanned, slots, cur, rear, listNum, up, toDevice, fromDevice, register,
             executed, source>>
    BY <1>4 DEF Timeout
  <2>2. faults' \in 0 .. MaxFaults
    BY <2>1, Constants
  <2>3. /\ count' \in 0 .. Retries + 1 /\ isOnline' \in BOOLEAN
        /\ pc' \in {"top", "offline"} /\ transaction' \in Numbers
        /\ reqIdx' = reqIdx /\ sent' = sent
    BY <2>1, FailTypes
  <2>4. QED
    BY <2>1, <2>2, <2>3
<1>5. ASSUME NEW k \in 1 .. MaxFaults + 1, Receive(k) PROVE MasterState'
  <2>1. fromDevice' \in Seq(Answers) /\ Head(fromDevice) = fromDevice[1] /\ 1 \in 1 .. Len(fromDevice)
    BY <1>5, ReceiveFacts
  <2>2. /\ fromDevice[1].frame \in Sendable /\ fromDevice[1].number \in Numbers
    BY <2>1, OnTheWay
  <2>3. UNCHANGED <<wanted, scanned, up, toDevice, register, executed, faults>> /\ pc = "wait"
    BY <1>5 DEF Receive
  <2>4. CASE Accepted(fromDevice[1])
    <3>1. /\ NextTransaction /\ pc' = "top" /\ count' = 0 /\ isOnline' = TRUE
          /\ reqIdx' = reqIdx /\ sent' = sent
          /\ \/ Kind(sent) = "write" /\ Pop /\ source' = source
             \/ /\ Kind(sent) # "write"
                /\ source' = [source EXCEPT ![sent[2]] = fromDevice[1].frame[2]]
                /\ UNCHANGED <<slots, cur, rear, listNum>>
      BY <1>5, <2>1, <2>4 DEF Receive
    <3>2. transaction' \in Numbers
      BY <3>1, NextNumberType DEF NextTransaction
    <3>3. slots' \in [Slots -> Frames] /\ cur' \in Slots /\ rear' \in Slots /\ listNum' \in Nat
      BY <3>1, PopTypes
    <3>4. source' \in [Polls -> Polls]
      <4>1. CASE Kind(sent) # "write"
        <5>1. Kind(fromDevice[1].frame) # "write"
          BY <2>4, <4>1, Constants DEF Accepted
        <5>2. fromDevice[1].frame[2] \in Polls
          BY <2>2, <5>1, SendableKinds
        <5>3. source' = [source EXCEPT ![sent[2]] = fromDevice[1].frame[2]]
          BY <3>1, <4>1
        <5>4. QED
          BY <5>2, <5>3
      <4>2. CASE Kind(sent) = "write"
        BY <3>1, <4>2
      <4>3. QED
        BY <4>1, <4>2
    <3>5. 0 \in 0 .. Retries + 1
      BY Constants
    <3>6. QED
      BY <2>1, <2>3, <3>1, <3>2, <3>3, <3>4, <3>5
  <2>5. CASE ~Accepted(fromDevice[1])
    <3>1. Fail(FALSE) /\ UNCHANGED <<slots, cur, rear, listNum, source>>
      BY <1>5, <2>1, <2>5 DEF Receive
    <3>2. /\ count' \in 0 .. Retries + 1 /\ isOnline' \in BOOLEAN
          /\ pc' \in {"top", "offline"} /\ transaction' \in Numbers
          /\ reqIdx' = reqIdx /\ sent' = sent
      BY <3>1, FailTypes
    <3>3. QED
      BY <2>1, <2>3, <3>1, <3>2
  <2>6. QED
    BY <2>4, <2>5
<1>6. CASE Offline
  <2>1. <<>> \in Seq(Requests) /\ <<>> \in Seq(Answers) /\ 0 \in 0 .. Retries + 1
    BY Constants
  <2>2. toDevice' \in Seq(Requests) /\ fromDevice' \in Seq(Answers) /\ count' \in 0 .. Retries + 1
    BY <1>6, <2>1 DEF Offline
  <2>3. QED
    BY <1>6, <2>2 DEF Offline
<1>7. CASE DeviceAnswer
  <2>1. /\ toDevice # <<>> /\ toDevice' = Tail(toDevice) /\ Execute(Head(toDevice).frame)
        /\ fromDevice' = Append(fromDevice, [number |-> Head(toDevice).number,
                                             frame |-> Head(toDevice).frame, ok |-> TRUE])
        /\ UNCHANGED <<rtdbVars, listVars, masterVars, up, source, faults>>
    BY <1>7 DEF DeviceAnswer
  <2>2. /\ toDevice' \in Seq(Requests)
        /\ Head(toDevice).number \in Numbers /\ Head(toDevice).frame \in Sendable
    BY <2>1, TakenFacts
  <2>3. [number |-> Head(toDevice).number, frame |-> Head(toDevice).frame, ok |-> TRUE] \in Answers
    BY <2>2 DEF Answers
  <2>4. fromDevice' \in Seq(Answers)
    BY <2>1, <2>3, AnsweredFacts
  <2>5. register' \in [Points -> 0 .. MaxChanges] /\ executed' \subseteq Frames
    BY <2>1, <2>2, ExecuteFacts
  <2>6. QED
    BY <2>1, <2>2, <2>4, <2>5
<1>8. CASE DeviceRefuse
  <2>1. /\ toDevice # <<>> /\ toDevice' = Tail(toDevice) /\ faults < MaxFaults /\ faults' = faults + 1
        /\ fromDevice' = Append(fromDevice, [number |-> Head(toDevice).number,
                                             frame |-> Head(toDevice).frame, ok |-> FALSE])
        /\ UNCHANGED <<rtdbVars, listVars, masterVars, up, deviceVars, source>>
    BY <1>8 DEF DeviceRefuse
  <2>2. /\ toDevice' \in Seq(Requests)
        /\ Head(toDevice).number \in Numbers /\ Head(toDevice).frame \in Sendable
    BY <2>1, TakenFacts
  <2>3. [number |-> Head(toDevice).number, frame |-> Head(toDevice).frame, ok |-> FALSE] \in Answers
    BY <2>2 DEF Answers
  <2>4. fromDevice' \in Seq(Answers)
    BY <2>1, <2>3, AnsweredFacts
  <2>5. faults' \in 0 .. MaxFaults
    BY <2>1, Constants
  <2>6. QED
    BY <2>1, <2>2, <2>4, <2>5
<1>9. CASE Lose
  <2>1. /\ toDevice # <<>> /\ toDevice' = Tail(toDevice) /\ faults < MaxFaults /\ faults' = faults + 1
        /\ Execute(Head(toDevice).frame) \/ UNCHANGED deviceVars
        /\ UNCHANGED <<rtdbVars, listVars, masterVars, up, fromDevice, source>>
    BY <1>9 DEF Lose
  <2>2. toDevice' \in Seq(Requests) /\ Head(toDevice).frame \in Sendable
    BY <2>1, TakenFacts
  <2>3. register' \in [Points -> 0 .. MaxChanges] /\ executed' \subseteq Frames
    BY <2>1, <2>2, ExecuteFacts
  <2>4. faults' \in 0 .. MaxFaults
    BY <2>1, Constants
  <2>5. QED
    BY <2>1, <2>2, <2>3, <2>4
<1>10. CASE Break
  <2>1. PICK k \in 0 .. Len(fromDevice) : fromDevice' = SubSeq(fromDevice, 1, k)
    BY <1>10 DEF Break
  <2>2. fromDevice' \in Seq(Answers)
    BY <2>1, BrokenFacts
  <2>3. /\ faults < MaxFaults /\ faults' = faults + 1 /\ up' = FALSE /\ toDevice' = <<>>
        /\ UNCHANGED <<rtdbVars, listVars, masterVars, deviceVars, source>>
    BY <1>10 DEF Break
  <2>4. toDevice' \in Seq(Requests)
    BY <2>3
  <2>5. faults' \in 0 .. MaxFaults
    BY <2>3, Constants
  <2>6. QED
    BY <2>2, <2>3, <2>4, <2>5
<1>11. CASE UNCHANGED vars
  BY <1>11 DEF vars
<1>12. QED
  BY <1>1, <1>2, <1>3, <1>4, <1>5, <1>6, <1>7, <1>8, <1>9, <1>10, <1>11 DEF Next, Master, Environment
-----------------------------------------------------------------------------
(* The transaction numbers.                                                *)

\* A number is as old as the numbers given out since; only the present one has
\* age 0.
LEMMA AgeFacts ==
  ASSUME NEW n \in Numbers, NEW t \in Numbers
  PROVE  Age(n, t) \in Nat /\ Age(n, t) < Modulus /\ (Age(n, t) = 0 <=> n = t)
BY Constants DEF Age, Numbers

\* The next number makes every other one older, until the numbers run out.
LEMMA NextAge ==
  ASSUME NEW n \in Numbers, NEW t \in Numbers, NEW u, u = (t + 1) % Modulus,
         Age(n, t) + 1 < Modulus
  PROVE  u \in Numbers /\ Age(n, u) = Age(n, t) + 1
<1>1. u \in Numbers /\ u = IF t + 1 = Modulus THEN 0 ELSE t + 1
  BY NextNumberType
<1>2. Age(n, t) = (IF t >= n THEN t - n ELSE t - n + Modulus)
      /\ Age(n, u) = (IF u >= n THEN u - n ELSE u - n + Modulus)
  BY DEF Age
<1>3. n \in Nat /\ t \in Nat /\ n < Modulus /\ t < Modulus /\ Modulus \in Nat
  BY Constants DEF Numbers
<1>4. Age(n, t) + 1 < Modulus
  OBVIOUS
<1> DEFINE a == Age(n, t)
           b == Age(n, u)
<1>5. a = (IF t >= n THEN t - n ELSE t - n + Modulus)
        /\ b = (IF u >= n THEN u - n ELSE u - n + Modulus)
      /\ a + 1 < Modulus
  BY <1>2, <1>4
<1> HIDE DEF a, b
<1>6. b = a + 1
  <2>1. CASE t + 1 = Modulus
    BY <1>1, <1>3, <1>5, <2>1
  <2>2. CASE t + 1 # Modulus
    BY <1>1, <1>3, <1>5, <2>2
  <2>3. QED
    BY <2>1, <2>2
<1>7. QED
  BY <1>1, <1>6 DEF a, b

\* When the next number is given out, the frames that stay are those behind the
\* first k answers, or all of them after a fault; none has the new number.
LEMMA NumberEnds ==
  ASSUME MasterState, LateForFaults, MaxFaults < Modulus,
         NextTransaction, toDevice' = toDevice,
         NEW k \in Nat, Len(fromDevice') \in Nat, Len(fromDevice') = Len(fromDevice) - k,
         \A i \in 1 .. Len(fromDevice') : i + k \in 1 .. Len(fromDevice)
           /\ fromDevice'[i] = fromDevice[i + k],
         faults' \in Nat, faults' \in {faults, faults + 1}, faults' <= MaxFaults,
         k = 0 => faults' = faults + 1 \/ (Len(fromDevice) = 0 /\ Len(toDevice) = 0)
  PROVE  /\ LateForFaults'
         /\ \A i \in 1 .. Len(fromDevice') : fromDevice'[i].number # transaction'
         /\ \A i \in 1 .. Len(toDevice') : toDevice'[i].number # transaction'
<1>1. /\ Len(fromDevice) \in Nat /\ Len(toDevice) \in Nat /\ transaction \in Numbers
      /\ faults \in Nat /\ MaxFaults \in Nat /\ Modulus \in Nat
  BY OnTheWay, Constants DEF MasterState
<1>2. transaction' = (transaction + 1) % Modulus /\ transaction' \in Numbers
  BY <1>1, NextNumberType DEF NextTransaction
<1>3. ASSUME NEW n \in Numbers, NEW j \in Nat, j >= 1, NEW m \in Nat, m >= 1,
             j + Age(n, transaction) <= faults + 1,
             m = j - k, k = 0 => faults' = faults + 1
      PROVE  m + Age(n, transaction') <= faults' + 1 /\ n # transaction'
  <2> DEFINE a == Age(n, transaction)
             b == Age(n, transaction')
  <2>1. a \in Nat /\ j + a <= faults + 1
    BY <1>1, <1>3, AgeFacts
  <2>2. b = a + 1
    <3>1. a + 1 < Modulus
      <4> HIDE DEF a
      <4>1. CASE k = 0
        BY <1>1, <1>3, <2>1, <4>1
      <4>2. CASE k # 0
        BY <1>1, <1>3, <2>1, <4>2
      <4>3. QED
        BY <4>1, <4>2
    <3>2. QED
      BY <1>1, <1>2, <3>1, NextAge
  <2>3. n = transaction' => b = 0
    BY <1>2, AgeFacts
  <2> HIDE DEF a, b
  <2>4. m + b <= faults' + 1
    <3>1. CASE k = 0
      BY <1>1, <1>3, <2>1, <2>2, <3>1
    <3>2. CASE k # 0
      <4>1. m + 1 <= j
        BY <1>3, <3>2
      <4>2. faults <= faults'
        BY <1>1
      <4>3. \A w, x, y, z, v \in Nat : w + 1 <= x /\ x + y <= z + 1 /\ z <= v => w + (y + 1) <= v + 1
        OBVIOUS
      <4>4. m \in Nat /\ j \in Nat /\ a \in Nat /\ faults \in Nat /\ faults' \in Nat
        BY <1>1, <2>1
      <4>5. QED
        BY <2>1, <2>2, <4>1, <4>2, <4>3, <4>4
    <3>3. QED
      BY <3>1, <3>2
  <2>5. QED
    BY <2>1, <2>2, <2>3, <2>4 DEF b
<1>4. ASSUME NEW i \in 1 .. Len(fromDevice')
      PROVE  /\ i + Age(fromDevice'[i].number, transaction') <= faults' + 1
             /\ fromDevice'[i].number # transaction'
  <2>1. i + k \in 1 .. Len(fromDevice) /\ fromDevice'[i] = fromDevice[i + k]
    OBVIOUS
  <2>2. /\ fromDevice[i + k].number \in Numbers
        /\ (i + k) + Age(fromDevice[i + k].number, transaction) <= faults + 1
    BY <2>1, OnTheWay DEF LateForFaults
  <2>3. i + k \in Nat /\ i + k >= 1 /\ i \in Nat /\ i >= 1 /\ i = (i + k) - k /\ Len(fromDevice) # 0
    BY <1>1, <2>1
  <2>4. QED
    BY <1>3, <2>1, <2>2, <2>3
<1>5. ASSUME NEW i \in 1 .. Len(toDevice')
      PROVE  /\ Len(fromDevice') + i + Age(toDevice'[i].number, transaction') <= faults' + 1
             /\ toDevice'[i].number # transaction'
  <2>1. i \in 1 .. Len(toDevice) /\ toDevice'[i] = toDevice[i]
    OBVIOUS
  <2>2. /\ toDevice[i].number \in Numbers
        /\ Len(fromDevice) + i + Age(toDevice[i].number, transaction) <= faults + 1
    BY <2>1, OnTheWay DEF LateForFaults
  <2>3. /\ Len(fromDevice) + i \in Nat /\ Len(fromDevice) + i >= 1
        /\ Len(fromDevice') + i \in Nat /\ Len(fromDevice') + i >= 1
        /\ Len(fromDevice') + i = (Len(fromDevice) + i) - k /\ Len(toDevice) # 0
    BY <1>1, <2>1
  <2>4. QED
    BY <1>3, <2>1, <2>2, <2>3
<1>6. QED
  BY <1>4, <1>5 DEF LateForFaults

\* Executing a frame adds to what was executed.
LEMMA ExecutedGrows ==
  ASSUME NEW f, Execute(f) \/ UNCHANGED deviceVars
  PROVE  executed \subseteq executed' /\ (Execute(f) /\ Kind(f) = "write" => f \in executed')
<1>1. CASE Execute(f) /\ Kind(f) = "write"
  BY <1>1 DEF Execute
<1>2. CASE ~(Execute(f) /\ Kind(f) = "write")
  BY <1>2 DEF Execute, deviceVars
<1>3. QED
  BY <1>1, <1>2

\* The thread that was never started has nothing on the way.
LEMMA WireInit == Init => WireInv
<1> SUFFICES ASSUME Init PROVE WireInv
  OBVIOUS
<1>1. fromDevice = <<>> /\ toDevice = <<>> /\ Len(<<>>) = 0 /\ 1 .. 0 = {}
  BY DEF Init
<1>2. QED
  BY <1>1 DEF WireInv, LateForFaults, OneIsPending, ConfirmedIsDone

\* Sending: the frame gets the present number, which none has.
LEMMA WireTransmit ==
  ASSUME MasterState, WireInv, Transmit
  PROVE  WireInv'
<1>1. /\ pc = "top" /\ pc' \in {"wait", "offline"} /\ (up => pc' = "wait")
      /\ transaction' = transaction /\ fromDevice' = fromDevice /\ faults' = faults
           /\ executed' = executed
  <2>1. pc' = "wait" \/ (~up /\ pc' = "offline")
    BY DEF Transmit
  <2>2. /\ pc = "top" /\ transaction' = transaction /\ fromDevice' = fromDevice /\ faults' = faults
        /\ executed' = executed
    BY DEF Transmit, deviceVars
  <2>3. QED
    BY <2>1, <2>2
<1>2. /\ Len(fromDevice) \in Nat /\ Len(toDevice) \in Nat /\ faults \in Nat /\ transaction \in Numbers
  BY OnTheWay DEF MasterState
<1>3. /\ \A i \in 1 .. Len(fromDevice) : fromDevice[i].number # transaction
      /\ \A i \in 1 .. Len(toDevice) : toDevice[i].number # transaction
  BY <1>1 DEF WireInv, OneIsPending
<1>4. \/ toDevice' = toDevice
      \/ /\ [number |-> transaction, frame |-> sent'] \in Requests
         /\ toDevice' = Append(toDevice, [number |-> transaction, frame |-> sent'])
         /\ pc' = "wait"
  <2>1. \/ toDevice' = toDevice
        \/ /\ [number |-> transaction, frame |-> sent'] \in Requests
           /\ toDevice' = Append(toDevice, [number |-> transaction, frame |-> sent'])
    BY TransmitFacts
  <2>2. ~up => toDevice' = toDevice
    BY DEF Transmit
  <2>3. QED
    BY <1>1, <2>1, <2>2
<1>5. ConfirmedIsDone'
  BY <1>1 DEF WireInv, ConfirmedIsDone
<1>6. CASE toDevice' = toDevice
  BY <1>1, <1>3, <1>5, <1>6 DEF WireInv, LateForFaults, OneIsPending
<1>7. CASE /\ [number |-> transaction, frame |-> sent'] \in Requests
           /\ toDevice' = Append(toDevice, [number |-> transaction, frame |-> sent'])
           /\ pc' = "wait"
  <2> DEFINE m == [number |-> transaction, frame |-> sent']
             n == Len(toDevice)
  <2>1. /\ Len(toDevice') = n + 1 /\ toDevice'[n + 1] = m
        /\ \A i \in 1 .. n : toDevice'[i] = toDevice[i]
        /\ \A i \in 1 .. Len(toDevice') : i \in 1 .. n \/ i = n + 1
    BY <1>7, SentFacts
  <2>2. m.number = transaction /\ m.frame = sent'
    OBVIOUS
  <2>3. OneIsPending'
    <3>1. \A i \in 1 .. Len(toDevice') : toDevice'[i].number = transaction
            => toDevice'[i].frame = sent'
      BY <1>3, <2>1, <2>2
    <3>2. QED
      BY <1>1, <1>3, <1>7, <3>1 DEF OneIsPending
  <2>4. Len(fromDevice) + n <= faults
    <3>1. \A i \in 1 .. Len(fromDevice) : /\ fromDevice[i].number \in Numbers
                                          /\ Age(fromDevice[i].number, transaction) \in Nat
                                          /\ Age(fromDevice[i].number, transaction) # 0
      BY <1>2, <1>3, OnTheWay, AgeFacts
    <3>2. \A i \in 1 .. Len(toDevice) : /\ toDevice[i].number \in Numbers
                                        /\ Age(toDevice[i].number, transaction) \in Nat
                                        /\ Age(toDevice[i].number, transaction) # 0
      BY <1>2, <1>3, OnTheWay, AgeFacts
    <3>3. CASE n # 0
      <4>1. n \in 1 .. n
        BY <1>2, <3>3
      <4>2. Len(fromDevice) + n + Age(toDevice[n].number, transaction) <= faults + 1
        BY <4>1 DEF WireInv, LateForFaults
      <4>3. QED
        BY <1>2, <3>2, <4>1, <4>2
    <3>4. CASE n = 0 /\ Len(fromDevice) # 0
      <4>1. Len(fromDevice) \in 1 .. Len(fromDevice)
        BY <1>2, <3>4
      <4>2. Len(fromDevice) + Age(fromDevice[Len(fromDevice)].number, transaction) <= faults + 1
        BY <4>1 DEF WireInv, LateForFaults
      <4>3. QED
        BY <1>2, <3>1, <3>4, <4>1, <4>2
    <3>5. CASE n = 0 /\ Len(fromDevice) = 0
      BY <1>2, <3>5
    <3>6. QED
      BY <3>3, <3>4, <3>5
  <2>5. LateForFaults'
    <3>1. Age(transaction, transaction) = 0
      BY <1>2, AgeFacts
    <3>2. Len(fromDevice) + (n + 1) + 0 <= faults + 1
      BY <1>2, <2>4
    <3>3. \A i \in 1 .. Len(toDevice') :
            Len(fromDevice) + i + Age(toDevice'[i].number, transaction) <= faults + 1
      <4>1. \A i \in 1 .. n : Len(fromDevice) + i + Age(toDevice'[i].number, transaction) <= faults + 1
        BY <2>1 DEF WireInv, LateForFaults
      <4>2. Len(fromDevice) + (n + 1) + Age(toDevice'[n + 1].number, transaction) <= faults + 1
        BY <2>1, <2>2, <3>1, <3>2
      <4>3. QED
        BY <2>1, <4>1, <4>2
    <3>4. QED
      BY <1>1, <3>3 DEF WireInv, LateForFaults
  <2>6. QED
    BY <1>5, <2>3, <2>5 DEF WireInv
<1>8. QED
  BY <1>4, <1>6, <1>7

\* What the device or the line do with the request that is first on its way:
\* it is answered, or it is gone.
LEMMA WireTaken ==
  ASSUME MasterState, WireInv, toDevice # <<>>, toDevice' = Tail(toDevice),
         UNCHANGED masterVars, NEW answered \in BOOLEAN, NEW ok \in BOOLEAN,
         faults' \in {faults, faults + 1}, answered \/ faults' = faults + 1,
         fromDevice' = IF answered
                         THEN Append(fromDevice, [number |-> Head(toDevice).number,
                                                  frame |-> Head(toDevice).frame, ok |-> ok])
                         ELSE fromDevice,
         executed \subseteq executed',
         answered /\ ok /\ Kind(Head(toDevice).frame) = "write" => Head(toDevice).frame \in executed'
  PROVE  WireInv'
<1> DEFINE h == Head(toDevice)
           a == [number |-> h.number, frame |-> h.frame, ok |-> ok]
           n == Len(fromDevice)
<1>1. /\ h = toDevice[1] /\ 1 \in 1 .. Len(toDevice) /\ h.number \in Numbers /\ h.frame \in Sendable
      /\ Len(toDevice') = Len(toDevice) - 1
      /\ \A i \in 1 .. Len(toDevice') : i + 1 \in 1 .. Len(toDevice) /\ toDevice'[i] = toDevice[i + 1]
  BY TakenFacts
<1>2. /\ n \in Nat /\ Len(toDevice) \in Nat /\ faults \in Nat /\ transaction \in Numbers
      /\ transaction' = transaction /\ pc' = pc /\ sent' = sent /\ faults' \in Nat /\ faults' >= faults
  BY OnTheWay DEF MasterState, masterVars
<1>3. a \in Answers /\ a.number = h.number /\ a.frame = h.frame /\ a.ok = ok
  BY <1>1 DEF Answers
<1>4. \A i \in 1 .. Len(toDevice) : /\ toDevice[i].number \in Numbers
                                    /\ Age(toDevice[i].number, transaction) \in Nat
  BY <1>2, OnTheWay, AgeFacts
<1>5. \A i \in 1 .. n : /\ fromDevice[i].number \in Numbers
                        /\ Age(fromDevice[i].number, transaction) \in Nat
  BY <1>2, OnTheWay, AgeFacts
<1>6. \A i \in 1 .. Len(toDevice') : toDevice'[i].number = transaction' =>
        pc' = "offline" \/ (pc' = "wait" /\ toDevice'[i].frame = sent')
  BY <1>1, <1>2 DEF WireInv, OneIsPending
<1>7. CASE answered
  <2>1. /\ Len(fromDevice') = n + 1 /\ fromDevice'[n + 1] = a
        /\ \A i \in 1 .. n : fromDevice'[i] = fromDevice[i]
        /\ \A i \in 1 .. Len(fromDevice') : i \in 1 .. n \/ i = n + 1
    BY <1>3, <1>7, AnsweredFacts
  <2> HIDE DEF n, h, a
  <2>2. OneIsPending'
    <3>1. \A i \in 1 .. n : fromDevice'[i].number = transaction' =>
            pc' = "offline" \/ (pc' = "wait" /\ fromDevice'[i].frame = sent')
      BY <1>2, <2>1 DEF WireInv, OneIsPending, n
    <3>2. fromDevice'[n + 1].number = transaction' =>
            pc' = "offline" \/ (pc' = "wait" /\ fromDevice'[n + 1].frame = sent')
      BY <1>1, <1>2, <1>3, <2>1 DEF WireInv, OneIsPending
    <3>3. QED
      BY <1>6, <2>1, <3>1, <3>2 DEF OneIsPending
  <2>3. ConfirmedIsDone'
    <3>1. \A i \in 1 .. n : fromDevice'[i].ok /\ Kind(fromDevice'[i].frame) = "write" =>
                              fromDevice'[i].frame \in executed'
      BY <2>1 DEF WireInv, ConfirmedIsDone, n
    <3>2. fromDevice'[n + 1].ok /\ Kind(fromDevice'[n + 1].frame) = "write" =>
            fromDevice'[n + 1].frame \in executed'
      BY <1>3, <1>7, <2>1 DEF h
    <3>3. QED
      BY <2>1, <3>1, <3>2 DEF ConfirmedIsDone
  <2>4. LateForFaults'
    <3>1. \A i \in 1 .. n : i + Age(fromDevice'[i].number, transaction) <= faults' + 1
      <4> SUFFICES ASSUME NEW i \in 1 .. n
                   PROVE  i + Age(fromDevice'[i].number, transaction) <= faults' + 1
        OBVIOUS
      <4>1. i + Age(fromDevice[i].number, transaction) <= faults + 1
        BY DEF WireInv, LateForFaults, n
      <4>2. i \in Nat /\ Age(fromDevice[i].number, transaction) \in Nat
        BY <1>2, <1>5
      <4>3. QED
        BY <1>2, <2>1, <4>1, <4>2
    <3>2. (n + 1) + Age(fromDevice'[n + 1].number, transaction) <= faults' + 1
      <4>1. n + 1 + Age(toDevice[1].number, transaction) <= faults + 1
        BY <1>1 DEF WireInv, LateForFaults, n
      <4>2. QED
        BY <1>1, <1>2, <1>3, <1>4, <2>1, <4>1
    <3>3. \A i \in 1 .. Len(toDevice') :
            Len(fromDevice') + i + Age(toDevice'[i].number, transaction) <= faults' + 1
      <4> SUFFICES ASSUME NEW i \in 1 .. Len(toDevice')
                   PROVE  Len(fromDevice') + i + Age(toDevice'[i].number, transaction) <= faults' + 1
        OBVIOUS
      <4>1. i + 1 \in 1 .. Len(toDevice) /\ toDevice'[i] = toDevice[i + 1]
        BY <1>1
      <4>2. n + (i + 1) + Age(toDevice[i + 1].number, transaction) <= faults + 1
        BY <4>1 DEF WireInv, LateForFaults, n
      <4>3. Age(toDevice[i + 1].number, transaction) \in Nat /\ i \in Nat
        BY <1>1, <1>2, <1>4, <4>1
      <4>4. QED
        BY <1>2, <2>1, <4>1, <4>2, <4>3
    <3>4. QED
      BY <1>2, <2>1, <3>1, <3>2, <3>3 DEF LateForFaults
  <2>5. QED
    BY <2>2, <2>3, <2>4 DEF WireInv
<1>8. CASE ~answered
  <2>1. fromDevice' = fromDevice /\ faults' = faults + 1
    BY <1>8
  <2> HIDE DEF n, h, a
  <2>2. OneIsPending'
    BY <1>2, <1>6, <2>1 DEF WireInv, OneIsPending
  <2>3. ConfirmedIsDone'
    BY <2>1 DEF WireInv, ConfirmedIsDone
  <2>4. LateForFaults'
    <3>1. \A i \in 1 .. n : i + Age(fromDevice[i].number, transaction) <= faults' + 1
      <4> SUFFICES ASSUME NEW i \in 1 .. n
                   PROVE  i + Age(fromDevice[i].number, transaction) <= faults' + 1
        OBVIOUS
      <4>1. i + Age(fromDevice[i].number, transaction) <= faults + 1
        BY DEF WireInv, LateForFaults, n
      <4>2. i \in Nat /\ Age(fromDevice[i].number, transaction) \in Nat
        BY <1>2, <1>5
      <4>3. QED
        BY <1>2, <4>1, <4>2
    <3>2. \A i \in 1 .. Len(toDevice') : n + i + Age(toDevice'[i].number, transaction) <= faults' + 1
      <4> SUFFICES ASSUME NEW i \in 1 .. Len(toDevice')
                   PROVE  n + i + Age(toDevice'[i].number, transaction) <= faults' + 1
        OBVIOUS
      <4>1. i + 1 \in 1 .. Len(toDevice) /\ toDevice'[i] = toDevice[i + 1]
        BY <1>1
      <4>2. n + (i + 1) + Age(toDevice[i + 1].number, transaction) <= faults + 1
        BY <4>1 DEF WireInv, LateForFaults, n
      <4>3. Age(toDevice[i + 1].number, transaction) \in Nat /\ i \in Nat
        BY <1>1, <1>2, <1>4, <4>1
      <4>4. QED
        BY <1>2, <4>1, <4>2, <4>3
    <3>3. QED
      BY <1>2, <2>1, <3>1, <3>2 DEF LateForFaults, n
  <2>5. QED
    BY <2>2, <2>3, <2>4 DEF WireInv
<1>9. QED
  BY <1>7, <1>8

\* Each step keeps what the numbers tell, as long as they do not run out.
LEMMA WireStep ==
  ASSUME MaxFaults < Modulus
  PROVE  MasterState /\ MasterState' /\ WireInv /\ [Next]_vars => WireInv'
<1> SUFFICES ASSUME MasterState, MasterState', WireInv, [Next]_vars PROVE WireInv'
  OBVIOUS
<1>0. /\ Len(fromDevice) \in Nat /\ Len(toDevice) \in Nat /\ faults \in Nat
      /\ faults' \in Nat /\ faults' <= MaxFaults /\ MaxFaults \in Nat
  BY OnTheWay, Constants DEF MasterState
<1>1. CASE UNCHANGED <<toDevice, fromDevice, transaction, sent, executed, faults>>
           /\ (pc' = pc \/ (pc = "start" /\ pc' = "top"))
  BY <1>1 DEF WireInv, LateForFaults, OneIsPending, ConfirmedIsDone
<1>2. ASSUME NEW p \in Points, Change(p) PROVE WireInv'
  BY <1>1, <1>2 DEF Change, masterVars, deviceVars
<1>3. CASE Open
  BY <1>1, <1>3 DEF Open, deviceVars
<1>4. CASE Transmit
  BY <1>4, WireTransmit
<1>5. ASSUME NEW k \in Nat, NextTransaction \/ UNCHANGED transaction, toDevice' = toDevice,
             Len(fromDevice') = Len(fromDevice) - k, Len(fromDevice') \in Nat,
             \A i \in 1 .. Len(fromDevice') :
               i + k \in 1 .. Len(fromDevice) /\ fromDevice'[i] = fromDevice[i + k],
             faults' \in {faults, faults + 1},
             k = 0 => faults' = faults + 1 \/ (Len(fromDevice) = 0 /\ Len(toDevice) = 0),
             executed' = executed, pc = "wait",
             NextTransaction \/ pc' = "offline"
      PROVE  WireInv'
  <2>1. ConfirmedIsDone'
    BY <1>5 DEF WireInv, ConfirmedIsDone
  <2>2. CASE NextTransaction
    <3>1. /\ LateForFaults'
          /\ \A i \in 1 .. Len(fromDevice') : fromDevice'[i].number # transaction'
          /\ \A i \in 1 .. Len(toDevice') : toDevice'[i].number # transaction'
      BY <1>0, <1>5, <2>2, NumberEnds DEF WireInv
    <3>2. QED
      BY <2>1, <3>1 DEF WireInv, OneIsPending
  <2>3. CASE transaction' = transaction /\ pc' = "offline"
    <3>1. OneIsPending'
      BY <2>3 DEF OneIsPending
    <3>2. LateForFaults'
      <4>1. transaction \in Numbers
        BY DEF MasterState
      <4>2. ASSUME NEW i \in 1 .. Len(fromDevice')
            PROVE  i + Age(fromDevice'[i].number, transaction) <= faults' + 1
        <5>1. i + k \in 1 .. Len(fromDevice) /\ fromDevice'[i] = fromDevice[i + k]
          BY <1>5
        <5>2. /\ Age(fromDevice[i + k].number, transaction) \in Nat
              /\ (i + k) + Age(fromDevice[i + k].number, transaction) <= faults + 1
          BY <4>1, <5>1, OnTheWay, AgeFacts DEF WireInv, LateForFaults
        <5>3. i \in Nat /\ k \in Nat /\ faults' >= faults
          BY <1>0, <1>5
        <5>4. QED
          BY <1>0, <5>1, <5>2, <5>3
      <4>3. ASSUME NEW i \in 1 .. Len(toDevice')
            PROVE  Len(fromDevice') + i + Age(toDevice'[i].number, transaction) <= faults' + 1
        <5>1. i \in 1 .. Len(toDevice) /\ toDevice'[i] = toDevice[i]
          BY <1>5
        <5>2. /\ Age(toDevice[i].number, transaction) \in Nat
              /\ Len(fromDevice) + i + Age(toDevice[i].number, transaction) <= faults + 1
          BY <4>1, <5>1, OnTheWay, AgeFacts DEF WireInv, LateForFaults
        <5>3. i \in Nat /\ k \in Nat /\ faults' >= faults /\ Len(fromDevice') <= Len(fromDevice)
          BY <1>0, <1>5
        <5>4. QED
          BY <1>0, <1>5, <5>1, <5>2, <5>3
      <4>4. QED
        BY <2>3, <4>2, <4>3 DEF LateForFaults
    <3>3. QED
      BY <2>1, <3>1, <3>2 DEF WireInv
  <2>4. QED
    BY <1>5, <2>2, <2>3
<1>6. CASE Timeout
  <2>1. /\ Fail(TRUE) /\ pc = "wait" /\ toDevice' = toDevice /\ fromDevice' = fromDevice
             /\ executed' = executed
        /\ (faults' = faults + 1 \/ (toDevice = <<>> /\ fromDevice = <<>> /\ faults' = faults))
    BY <1>6 DEF Timeout, deviceVars
  <2>2. NextTransaction
    BY <2>1 DEF Fail
  <2>3. Len(<<>>) = 0 /\ Len(fromDevice') = Len(fromDevice) - 0
        /\ \A i \in 1 .. Len(fromDevice') : i + 0 \in 1 .. Len(fromDevice)
             /\ fromDevice'[i] = fromDevice[i + 0]
    BY <1>0, <2>1
  <2>4. 0 \in Nat
    OBVIOUS
  <2> DEFINE k == 0
  <2>5. /\ k \in Nat /\ Len(fromDevice') = Len(fromDevice) - k
        /\ \A i \in 1 .. Len(fromDevice') : i + k \in 1 .. Len(fromDevice)
             /\ fromDevice'[i] = fromDevice[i + k]
    BY <2>3
  <2>6. faults' \in {faults, faults + 1}
          /\ (faults' = faults + 1 \/ (Len(fromDevice) = 0 /\ Len(toDevice) = 0))
    BY <2>1, <2>3
  <2> HIDE DEF k
  <2>7. Len(fromDevice') \in Nat
    BY <1>0, <2>1
  <2>8. QED
    BY <1>5, <2>1, <2>2, <2>5, <2>6, <2>7
<1>7. ASSUME NEW k \in 1 .. MaxFaults + 1, Receive(k) PROVE WireInv'
  <2>1. /\ k \in 1 .. Len(fromDevice)
        /\ fromDevice' \in Seq(Answers) /\ Len(fromDevice') = Len(fromDevice) - k
        /\ \A i \in 1 .. Len(fromDevice') :
             i + k \in 1 .. Len(fromDevice) /\ fromDevice'[i] = fromDevice[i + k]
    BY <1>7, ReceiveFacts
  <2>2. k \in Nat /\ k # 0 /\ Len(fromDevice') \in Nat
    BY <1>0, <2>1
  <2>3. pc = "wait" /\ toDevice' = toDevice /\ executed' = executed /\ faults' = faults
    BY <1>7 DEF Receive, deviceVars
  <2>4. NextTransaction \/ (Fail(FALSE) /\ ~(pc' = "top"))
    BY <1>7 DEF Receive, Fail
  <2>5. Fail(FALSE) => pc' \in {"top", "offline"} /\ (pc' # "top" => UNCHANGED transaction)
    BY DEF Fail
  <2>6. NextTransaction \/ (pc' = "offline" /\ UNCHANGED transaction)
    BY <2>4, <2>5
  <2>7. QED
    BY <1>5, <2>1, <2>2, <2>3, <2>6
<1>8. CASE Offline
  <2>1. toDevice' = <<>> /\ fromDevice' = <<>> /\ Len(<<>>) = 0 /\ 1 .. 0 = {}
    BY <1>8 DEF Offline
  <2>2. QED
    BY <2>1 DEF WireInv, LateForFaults, OneIsPending, ConfirmedIsDone
<1>9. CASE DeviceAnswer
  <2> DEFINE answered == TRUE
             ok == TRUE
  <2>1. /\ toDevice # <<>> /\ toDevice' = Tail(toDevice) /\ Execute(Head(toDevice).frame)
        /\ fromDevice' = Append(fromDevice, [number |-> Head(toDevice).number,
                                             frame |-> Head(toDevice).frame, ok |-> ok])
        /\ UNCHANGED masterVars /\ faults' = faults
    BY <1>9 DEF DeviceAnswer
  <2>2. /\ executed \subseteq executed'
        /\ Kind(Head(toDevice).frame) = "write" => Head(toDevice).frame \in executed'
    BY <2>1, ExecutedGrows
  <2>3. answered \in BOOLEAN /\ ok \in BOOLEAN /\ answered
    OBVIOUS
  <2> HIDE DEF ok, answered
  <2>4. QED
    BY <2>1, <2>2, <2>3, WireTaken
<1>10. CASE DeviceRefuse
  <2> DEFINE answered == TRUE
             ok == FALSE
  <2>1. /\ toDevice # <<>> /\ toDevice' = Tail(toDevice)
        /\ fromDevice' = Append(fromDevice, [number |-> Head(toDevice).number,
                                             frame |-> Head(toDevice).frame, ok |-> ok])
        /\ UNCHANGED masterVars /\ faults' = faults + 1 /\ executed' = executed
    BY <1>10 DEF DeviceRefuse, deviceVars
  <2>2. answered \in BOOLEAN /\ ok \in BOOLEAN /\ answered /\ ~ok
    OBVIOUS
  <2> HIDE DEF ok, answered
  <2>3. QED
    BY <2>1, <2>2, WireTaken
<1>11. CASE Lose
  <2> DEFINE answered == FALSE
             ok == FALSE
  <2>1. /\ toDevice # <<>> /\ toDevice' = Tail(toDevice) /\ fromDevice' = fromDevice
        /\ UNCHANGED masterVars /\ faults' = faults + 1
        /\ Execute(Head(toDevice).frame) \/ UNCHANGED deviceVars
    BY <1>11 DEF Lose
  <2>2. executed \subseteq executed'
    BY <2>1, ExecutedGrows
  <2>3. answered \in BOOLEAN /\ ok \in BOOLEAN /\ ~answered
    OBVIOUS
  <2> HIDE DEF ok, answered
  <2>4. QED
    BY <2>1, <2>2, <2>3, WireTaken
<1>12. CASE Break
  <2>1. PICK k \in 0 .. Len(fromDevice) : fromDevice' = SubSeq(fromDevice, 1, k)
    BY <1>12 DEF Break
  <2>2. /\ Len(fromDevice') = k
        /\ \A i \in 1 .. k : i \in 1 .. Len(fromDevice) /\ fromDevice'[i] = fromDevice[i]
    BY <2>1, BrokenFacts
  <2>3. /\ faults' = faults + 1 /\ toDevice' = <<>> /\ Len(<<>>) = 0 /\ 1 .. 0 = {}
        /\ UNCHANGED <<transaction, sent, pc, executed>>
    BY <1>12 DEF Break, masterVars, deviceVars
  <2>4. LateForFaults'
    <3>1. ASSUME NEW i \in 1 .. k
          PROVE  i + Age(fromDevice[i].number, transaction) <= faults + 2
      <4>1. i \in 1 .. Len(fromDevice)
        BY <2>2
      <4>2. /\ i + Age(fromDevice[i].number, transaction) <= faults + 1
            /\ Age(fromDevice[i].number, transaction) \in Nat
        BY <4>1, OnTheWay, AgeFacts DEF WireInv, LateForFaults, MasterState
      <4>3. QED
        BY <1>0, <4>1, <4>2
    <3>2. faults' + 1 = faults + 2
      BY <1>0, <2>3
    <3>3. QED
      BY <2>2, <2>3, <3>1, <3>2 DEF LateForFaults
  <2>5. OneIsPending'
    BY <2>2, <2>3 DEF WireInv, OneIsPending
  <2>6. ConfirmedIsDone'
    BY <2>2, <2>3 DEF WireInv, ConfirmedIsDone
  <2>7. QED
    BY <2>4, <2>5, <2>6 DEF WireInv
<1>13. CASE UNCHANGED vars
  BY <1>1, <1>13 DEF vars, masterVars, deviceVars
<1>14. QED
  BY <1>2, <1>3, <1>4, <1>6, <1>7, <1>8, <1>9, <1>10, <1>11, <1>12, <1>13 DEF Next, Master, Environment

-----------------------------------------------------------------------------
(* What an answer does.                                                    *)

\* An answer either is accepted, and then the oldest write leaves the ring or a
\* value is stored, or it changes neither.
LEMMA ReceiveCases ==
  ASSUME MasterState, NEW k, Receive(k)
  PROVE  /\ UNCHANGED <<wanted, scanned, toDevice, register, executed>> /\ pc = "wait"
         /\ \/ /\ Accepted(fromDevice[1])
               /\ \/ Kind(sent) = "write" /\ Pop /\ source' = source
                  \/ /\ Kind(sent) # "write" /\ UNCHANGED <<slots, cur, rear, listNum>>
                     /\ source' = [source EXCEPT ![sent[2]] = fromDevice[1].frame[2]]
            \/ ~Accepted(fromDevice[1]) /\ UNCHANGED <<slots, cur, rear, listNum, source>>
<1>1. Head(fromDevice) = fromDevice[1]
  BY ReceiveFacts
<1>2. UNCHANGED <<wanted, scanned, toDevice, register, executed>> /\ pc = "wait"
  BY DEF Receive, rtdbVars, deviceVars
<1>3. CASE Accepted(fromDevice[1])
  BY <1>1, <1>2, <1>3 DEF Receive, listVars
<1>4. CASE ~Accepted(fromDevice[1])
  BY <1>1, <1>2, <1>4 DEF Receive, listVars
<1>5. QED
  BY <1>3, <1>4

\* Over TCP an accepted answer is the one to the request that was sent last, and
\* a write it confirms was executed.
LEMMA AcceptedAnswer ==
  ASSUME MasterState, WireInv, ~Serial, NEW k, Receive(k), Accepted(fromDevice[1])
  PROVE  /\ fromDevice[1].frame = sent /\ sent \in Sendable
         /\ Kind(sent) = "write" => sent \in executed
<1>1. 1 \in 1 .. Len(fromDevice) /\ pc = "wait"
  BY ReceiveFacts, ReceiveCases
<1>2. fromDevice[1].number = transaction /\ fromDevice[1].ok
  BY DEF Accepted
<1>3. fromDevice[1].frame = sent
  BY <1>1, <1>2 DEF WireInv, OneIsPending
<1>4. fromDevice[1].frame \in Sendable
  BY <1>1, OnTheWay
<1>5. Kind(sent) = "write" => sent \in executed
  BY <1>1, <1>2, <1>3 DEF WireInv, ConfirmedIsDone
<1>6. QED
  BY <1>3, <1>4, <1>5

\* A poll's own answer is stored for it.
LEMMA StoredStep ==
  ASSUME MasterState, WireInv, ~Serial, StoredFromItsPoll, [Next]_vars
  PROVE  StoredFromItsPoll'
<1>1. CASE source' = source
  BY <1>1 DEF StoredFromItsPoll
<1>2. ASSUME NEW k \in 1 .. MaxFaults + 1, Receive(k) PROVE StoredFromItsPoll'
  <2>1. CASE Kind(sent) # "write" /\ Accepted(fromDevice[1])
                /\ source' = [source EXCEPT ![sent[2]] = fromDevice[1].frame[2]]
    <3>1. fromDevice[1].frame = sent /\ sent \in Sendable
      BY <1>2, <2>1, AcceptedAnswer
    <3>2. sent[2] \in Polls
      BY <2>1, <3>1, SendableKinds
    <3>3. source \in [Polls -> Polls]
      BY DEF MasterState
    <3>4. source' = [source EXCEPT ![sent[2]] = sent[2]]
      BY <2>1, <3>1
    <3>5. QED
      BY <3>2, <3>3, <3>4 DEF StoredFromItsPoll
  <2>2. QED
    BY <1>1, <1>2, <2>1, ReceiveCases
<1>3. CASE UNCHANGED vars
  BY <1>1, <1>3 DEF vars
<1>4. CASE Open \/ Transmit \/ Timeout \/ Offline \/ DeviceAnswer \/ DeviceRefuse \/ Lose \/ Break
             \/ \E p \in Points : Change(p)
  BY <1>1, <1>4 DEF Open, Transmit, Timeout, Offline, DeviceAnswer, DeviceRefuse, Lose, Break, Change
<1>5. QED
  BY <1>2, <1>3, <1>4 DEF Next, Master, Environment

\* Only an accepted answer to a write moves the ring on, and the slot it leaves
\* holds the confirmed write.
LEMMA ForgottenStep ==
  ASSUME MasterState, WireInv, ~Serial, [Next]_vars
  PROVE  [cur' # cur => slots[cur] \in executed]_vars
<1>1. ASSUME NEW k \in 1 .. MaxFaults + 1, Receive(k), cur' # cur
      PROVE  slots[cur] \in executed
  <2>1. Accepted(fromDevice[1]) /\ Kind(sent) = "write" /\ pc = "wait"
    BY <1>1, ReceiveCases
  <2>2. sent \in executed
    BY <1>1, <2>1, AcceptedAnswer
  <2>3. slots[cur] = sent
    BY <2>1 DEF MasterState
  <2>4. QED
    BY <2>2, <2>3
<1>2. CASE UNCHANGED vars
  BY <1>2 DEF vars
<1>3. CASE Open \/ Transmit \/ Timeout \/ Offline \/ DeviceAnswer \/ DeviceRefuse \/ Lose \/ Break
             \/ \E p \in Points : Change(p)
  <2>1. cur' = cur
    BY <1>3 DEF Open, Transmit, Timeout, Offline, DeviceAnswer, DeviceRefuse, Lose, Break, Change,
       listVars
  <2>2. QED
    BY <2>1
<1>4. QED
  BY <1>1, <1>2, <1>3 DEF Next, Master, Environment

\* Sequences of requests and answers are sequences of the types TypeOK names.
LEMMA MasterTypes == MasterState => TypeOK
<1> SUFFICES ASSUME MasterState PROVE TypeOK
  OBVIOUS
<1>1. /\ Requests \subseteq [number : 0 .. Modulus - 1, frame : Frames]
      /\ Answers \subseteq [number : 0 .. Modulus - 1, frame : Frames, ok : BOOLEAN]
  BY DEF Requests, Answers, Sendable, Numbers
<1>2. /\ toDevice \in Seq([number : 0 .. Modulus - 1, frame : Frames])
      /\ fromDevice \in Seq([number : 0 .. Modulus - 1, frame : Frames, ok : BOOLEAN])
  <2>1. toDevice \in Seq(Requests) /\ fromDevice \in Seq(Answers)
    BY DEF MasterState
  <2>2. QED
    BY <1>1, <2>1, SeqMonotonic
<1>3. QED
  BY <1>2 DEF MasterState, TypeOK, Numbers

\* Every variable has its type, whatever the line and the device do
\* (bsp_modbus.c:1485-1554, 1829-1866).
THEOREM MasterTypeCorrect == Spec => []TypeOK
BY MasterInit, MasterStateStep, MasterTypes, PTL DEF Spec

\* Over TCP the value stored for a poll comes from the answer to this poll, as
\* long as fewer requests can be late than there are transaction numbers
\* (bsp_modbus.c:738-742, 905-1015).
THEOREM AnswersReachTheirPolls ==
  ~Serial /\ MaxFaults < Modulus => (Spec => []StoredFromItsPoll)
<1> SUFFICES ASSUME ~Serial, MaxFaults < Modulus PROVE Spec => []StoredFromItsPoll
  OBVIOUS
<1>1. Init => StoredFromItsPoll
  BY DEF Init, StoredFromItsPoll
<1>2. MasterState /\ WireInv /\ StoredFromItsPoll /\ [Next]_vars => StoredFromItsPoll'
  BY StoredStep
<1>3. MasterState /\ MasterState' /\ WireInv /\ [Next]_vars => WireInv'
  BY WireStep
<1>4. QED
  BY <1>1, <1>2, <1>3, MasterInit, MasterStateStep, WireInit, PTL DEF Spec

\* Over TCP a write leaves the ring only when the device has executed it, with
\* answers late, lost or refused and connections broken (bsp_modbus.c:1092-1120).
THEOREM WritesAreKept ==
  ~Serial /\ MaxFaults < Modulus => (Spec => NoWriteForgotten)
<1> SUFFICES ASSUME ~Serial, MaxFaults < Modulus PROVE Spec => NoWriteForgotten
  OBVIOUS
<1>1. MasterState /\ WireInv /\ [Next]_vars => [cur' # cur => slots[cur] \in executed]_vars
  BY ForgottenStep
<1>2. MasterState /\ MasterState' /\ WireInv /\ [Next]_vars => WireInv'
  BY WireStep
<1>3. QED
  BY <1>1, <1>2, MasterInit, MasterStateStep, WireInit, PTL DEF Spec, NoWriteForgotten

-----------------------------------------------------------------------------
(* The order of the values.                                                *)

\* The ring has room for every change that is not yet in it.
Room ==
  /\ rear = Place(cur, listNum + 1)
  /\ listNum + Cardinality(Changed) <= MaxPending

\* The second write has no older value of the point than the first one.
InOrder(f, g) == Kind(f) = "write" /\ Kind(g) = "write" /\ f[2] = g[2] => f[3] <= g[3]

\* A write has a value between that of the device and that of the last scan.
Between(f) == Kind(f) = "write" => register[f[2]] <= f[3] /\ f[3] <= scanned[f[2]]

\* The ring holds writes, the later ones of a point with the later values.
RingOrder ==
  /\ \A p \in Points : register[p] <= scanned[p]
  /\ \A j \in 1 .. listNum : Kind(Ring[j]) = "write" /\ Between(Ring[j])
  /\ \A i, j \in 1 .. listNum : i < j => InOrder(Ring[i], Ring[j])

\* So does the line, and what is on it is not newer than the ring.
WireOrder ==
  /\ \A i \in 1 .. Len(toDevice) : Between(toDevice[i].frame)
  /\ \A i, j \in 1 .. Len(toDevice) : i < j => InOrder(toDevice[i].frame, toDevice[j].frame)
  /\ \A i \in 1 .. Len(toDevice), j \in 1 .. listNum : InOrder(toDevice[i].frame, Ring[j])

OrderInv == Room /\ RingOrder /\ WireOrder

\* How far a place is from the rear, which is l places from c.
LEMMA PlaceOffset ==
  ASSUME NEW c \in Slots, NEW l \in 0 .. Size, NEW j \in 1 .. Size, NEW r, NEW s,
         r = Place(c, l + 1), s = Place(c, j)
  PROVE  /\ r \in Slots /\ s \in Slots
         /\ (IF s >= r THEN s - r ELSE s - r + Size) + 1 = IF j > l THEN j - l ELSE j - l + Size
<1>1. /\ Size \in Nat /\ c \in Nat /\ c < Size /\ l \in Nat /\ l <= Size /\ j \in Nat /\ 1 <= j
           /\ j <= Size
  BY Constants DEF Slots
<1>2. r = (IF c + (l + 1) <= Size THEN c + l ELSE c + l - Size) /\ r \in Int
  BY <1>1 DEF Place
<1>3. s = (IF c + j <= Size THEN c + j - 1 ELSE c + j - 1 - Size) /\ s \in Int
  BY <1>1 DEF Place
<1>4. r \in Slots /\ s \in Slots
  BY <1>1, <1>2, <1>3 DEF Slots
<1>5. CASE j > l
  BY <1>1, <1>2, <1>3, <1>4, <1>5
<1>6. CASE ~(j > l)
  BY <1>1, <1>2, <1>3, <1>4, <1>6
<1>7. QED
  BY <1>5, <1>6

\* The first pending write is the one cur points at.
LEMMA RingFirst ==
  ASSUME MasterState, listNum > 0
  PROVE  1 \in 1 .. listNum /\ Ring[1] = slots[cur]
<1>1. cur \in Nat /\ cur < Size /\ Size \in Nat /\ listNum \in Nat
  BY Constants DEF MasterState, Slots
<1>2. Place(cur, 1) = cur
  BY <1>1 DEF Place
<1>3. QED
  BY <1>1, <1>2 DEF Ring

\* A scan puts the new writes behind the pending ones.
LEMMA RingScan ==
  ASSUME MasterState, MaxPending <= Size, Room, Transmit
  PROVE  /\ listNum \in 0 .. Size /\ listNum' = listNum + Cardinality(Changed) /\ Room'
         /\ \A j \in 1 .. listNum : j \in 1 .. listNum' /\ Ring'[j] = Ring[j]
         /\ \A i \in 1 .. Cardinality(Changed) :
              listNum + i \in 1 .. listNum' /\ Ring'[listNum + i] = NewWrites[i]
<1> DEFINE n == Cardinality(Changed)
<1>1. /\ n \in Nat /\ Len(NewWrites) = n /\ DOMAIN NewWrites = 1 .. n
  BY NewWritesFacts
<1>2. /\ Size \in Nat /\ Size > 0 /\ MaxPending \in Nat /\ listNum \in Nat /\ cur \in Slots
           /\ rear \in Slots
      /\ cur \in Nat /\ cur < Size /\ rear \in Nat /\ rear < Size
  BY Constants DEF MasterState, Slots
<1>3. /\ slots' = Filled(NewWrites) /\ rear' = (rear + n) % Size /\ listNum' = listNum + n
           /\ cur' = cur
      /\ scanned' = wanted /\ wanted' = wanted
  BY <1>1 DEF Transmit
<1> HIDE DEF n
<1>4. listNum + n <= Size /\ listNum + n <= MaxPending /\ listNum <= Size /\ n <= Size
  BY <1>1, <1>2 DEF Room, n
<1>5. ASSUME NEW j \in 1 .. listNum + n
      PROVE  /\ Ring'[j] = slots'[Place(cur, j)]
             /\ slots'[Place(cur, j)] =
                  IF j > listNum THEN NewWrites[j - listNum] ELSE slots[Place(cur, j)]
  <2> DEFINE s == Place(cur, j)
             o == (IF s >= rear THEN s - rear ELSE s - rear + Size) + 1
  <2>1. j \in 1 .. Size /\ listNum \in 0 .. Size
    BY <1>1, <1>2, <1>4
  <2>2. rear = Place(cur, listNum + 1)
    BY DEF Room
  <2>3. s \in Slots /\ o = IF j > listNum THEN j - listNum ELSE j - listNum + Size
    BY <1>2, <2>1, <2>2, PlaceOffset
  <2>4. Filled(NewWrites)[s] = IF o <= n THEN NewWrites[o] ELSE slots[s]
    <3>1. \A t \in Slots : Filled(NewWrites)[t] =
            LET i == (IF t >= rear THEN t - rear ELSE t - rear + Size) + 1
            IN  IF i <= n THEN NewWrites[i] ELSE slots[t]
      <4> HIDE DEF s, o
      <4>1. rear \in Slots /\ n \in Nat /\ DOMAIN NewWrites = 1 .. n
        BY <1>1, <1>2
      <4>2. QED
        BY ONLY <4>1, FilledFacts
    <3>2. QED
      BY <2>3, <3>1
  <2> HIDE DEF s, o
  <2>5. slots'[s] = IF j > listNum THEN NewWrites[j - listNum] ELSE slots[s]
    <3>1. CASE j > listNum
      <4>1. o = j - listNum /\ o <= n
        BY <1>1, <1>2, <2>3, <3>1
      <4>2. QED
        BY <1>3, <2>4, <3>1, <4>1
    <3>2. CASE ~(j > listNum)
      <4>1. ~(o <= n)
        BY <1>1, <1>2, <1>4, <2>3, <3>2
      <4>2. QED
        BY <1>3, <2>4, <3>2, <4>1
    <3>3. QED
      BY <3>1, <3>2
  <2>6. Ring'[j] = slots'[Place(cur', j)]
    BY <1>3 DEF Ring
  <2>7. QED
    BY <1>3, <2>5, <2>6 DEF s
<1>6. ASSUME NEW j \in 1 .. listNum
      PROVE  j \in 1 .. listNum' /\ Ring'[j] = Ring[j]
  <2>1. j \in 1 .. listNum + n /\ ~(j > listNum)
    BY <1>1, <1>2
  <2>2. Ring[j] = slots[Place(cur, j)]
    BY DEF Ring
  <2>3. QED
    BY <1>3, <1>5, <2>1, <2>2
<1>7. ASSUME NEW i \in 1 .. n
      PROVE  listNum + i \in 1 .. listNum' /\ Ring'[listNum + i] = NewWrites[i]
  <2>1. listNum + i \in 1 .. listNum + n /\ listNum + i > listNum /\ (listNum + i) - listNum = i
    BY <1>1, <1>2
  <2>2. QED
    BY <1>3, <1>5, <2>1
<1>8. Room'
  <2>1. rear + n \in 0 .. 2 * Size - 1
    BY <1>1, <1>2, <1>4
  <2>2. rear' = IF rear + n < Size THEN rear + n ELSE (rear + n) - Size
    BY <1>3, <2>1, WrapOnce
  <2>3. rear = IF cur + (listNum + 1) <= Size THEN cur + listNum ELSE cur + listNum - Size
    BY <1>2 DEF Room, Place
  <2>4. Place(cur, (listNum + n) + 1) =
          IF cur + ((listNum + n) + 1) <= Size THEN cur + (listNum + n) ELSE cur + (listNum + n) - Size
    BY <1>1, <1>2 DEF Place
  <2>5. rear' = Place(cur, (listNum + n) + 1)
    BY <1>1, <1>2, <1>4, <2>2, <2>3, <2>4
  <2>6. Changed' = {} /\ Cardinality({}) = 0
    BY <1>3, FS_EmptySet DEF Changed
  <2>7. QED
    BY <1>1, <1>2, <1>3, <1>4, <2>5, <2>6 DEF Room
<1>9. QED
  BY <1>2, <1>3, <1>4, <1>6, <1>7, <1>8 DEF n

\* Taking out the oldest write moves the others one place up.
LEMMA RingPop ==
  ASSUME MasterState, MaxPending <= Size, Room, Pop, listNum > 0, UNCHANGED rtdbVars
  PROVE  /\ listNum' = listNum - 1 /\ Room'
         /\ \A j \in 1 .. listNum' : j + 1 \in 1 .. listNum /\ Ring'[j] = Ring[j + 1]
<1> DEFINE n == Cardinality(Changed)
<1>1. n \in Nat
  BY NewWritesFacts
<1>2. /\ Size \in Nat /\ Size > 0 /\ MaxPending \in Nat /\ listNum \in Nat /\ cur \in Slots
      /\ cur \in Nat /\ cur < Size
  BY Constants DEF MasterState, Slots
<1>3. /\ slots' = [slots EXCEPT ![cur] = NoFrame] /\ listNum' = listNum - 1 /\ rear' = rear
      /\ cur' = IF cur + 1 = Size THEN 0 ELSE cur + 1
  BY <1>2, NextSlot DEF Pop
<1>4. Changed' = Changed
  BY DEF Changed, rtdbVars
<1> HIDE DEF n
<1>5. listNum + n <= MaxPending /\ listNum <= Size
  BY <1>1, <1>2 DEF Room, n
<1>6. ASSUME NEW j \in 1 .. Size
      PROVE  Place(cur', j) = Place(cur, j + 1)
  BY <1>2, <1>3 DEF Place
<1>7. ASSUME NEW j \in 1 .. listNum'
      PROVE  j + 1 \in 1 .. listNum /\ Ring'[j] = Ring[j + 1]
  <2>1. j + 1 \in 1 .. listNum /\ j \in 1 .. Size /\ j + 1 \in 1 .. Size /\ j >= 1
    BY <1>2, <1>3, <1>5
  <2>2. Ring'[j] = slots'[Place(cur', j)] /\ Ring[j + 1] = slots[Place(cur, j + 1)]
    BY <2>1 DEF Ring
  <2>3. Place(cur, j + 1) \in Slots /\ Place(cur, j + 1) # cur
    BY <1>2, <2>1 DEF Place, Slots
  <2>4. slots'[Place(cur, j + 1)] = slots[Place(cur, j + 1)]
    BY <1>3, <2>3 DEF MasterState
  <2>5. QED
    BY <1>6, <2>1, <2>2, <2>4
<1>8. Room'
  <2>1. rear' = Place(cur', listNum)
    BY <1>2, <1>3, <1>5, <1>6 DEF Room
  <2>2. listNum' + 1 = listNum
    BY <1>2, <1>3
  <2>3. Cardinality(Changed') = n /\ listNum' + n <= MaxPending
    BY <1>1, <1>2, <1>3, <1>4, <1>5 DEF n
  <2>4. QED
    BY <2>1, <2>2, <2>3 DEF Room
<1>9. QED
  BY <1>3, <1>7, <1>8

\* A pending write is a frame of the ring, and so is its point one of the points.
LEMMA PendingFacts ==
  ASSUME MasterState, NEW f \in Frames, Kind(f) = "write"
  PROVE  /\ f[2] \in Points /\ f[3] \in Nat /\ f \in Sendable
         /\ register[f[2]] \in Nat /\ scanned[f[2]] \in Nat /\ wanted[f[2]] \in Nat
         /\ scanned[f[2]] <= wanted[f[2]]
<1>1. f[2] \in Points /\ f[3] \in 1 .. MaxChanges /\ f # NoFrame
  BY FrameKinds DEF NoFrame, Kind
<1>2. /\ register[f[2]] \in 0 .. MaxChanges /\ scanned[f[2]] \in 0 .. MaxChanges
      /\ wanted[f[2]] \in 0 .. MaxChanges /\ scanned[f[2]] <= wanted[f[2]]
  BY <1>1 DEF MasterState
<1>3. QED
  BY <1>1, <1>2, Constants DEF Sendable

\* The pending writes are frames.
LEMMA RingFrames ==
  ASSUME MasterState, MaxPending <= Size, Room
  PROVE  \A j \in 1 .. listNum : Ring[j] \in Frames
<1> DEFINE n == Cardinality(Changed)
<1>1. n \in Nat /\ listNum \in Nat /\ Size \in Nat /\ MaxPending \in Nat /\ cur \in Slots
      /\ slots \in [Slots -> Frames]
  BY NewWritesFacts, Constants DEF MasterState
<1>2. listNum + n <= MaxPending
  BY DEF Room
<1> HIDE DEF n
<1>3. ASSUME NEW j \in 1 .. listNum PROVE Ring[j] \in Frames
  <2>1. j \in 1 .. Size /\ 0 \in 0 .. Size
    BY <1>1, <1>2
  <2>2. Place(cur, j) \in Slots
    BY <1>1, <2>1, PlaceOffset
  <2>3. QED
    BY <1>1, <2>2 DEF Ring
<1>4. QED
  BY <1>3

\* A new write has the value of its point and is not older than anything before.
LEMMA NewIsLatest ==
  ASSUME MasterState, NEW p \in Points, NEW f \in Frames, Between(f)
  PROVE  InOrder(f, Write(p, wanted[p]))
<1>1. SUFFICES ASSUME Kind(f) = "write", f[2] = p
               PROVE  f[3] <= wanted[p]
  BY DEF InOrder, Write
<1>2. f[3] <= scanned[p] /\ scanned[p] <= wanted[p] /\ f[3] \in Nat /\ scanned[p] \in Nat
        /\ wanted[p] \in Nat
  BY <1>1, PendingFacts DEF Between
<1>3. QED
  BY <1>2

\* A scan keeps the order of the ring.
LEMMA RingOrderScan ==
  ASSUME MasterState, MaxPending <= Size, Room, RingOrder, Transmit
  PROVE  /\ RingOrder'
         /\ \A f \in Frames : Between(f) => Between(f)'
         /\ \A f \in Frames : Between(f) /\ (\A j \in 1 .. listNum : InOrder(f, Ring[j])) =>
              \A j \in 1 .. listNum' : InOrder(f, Ring'[j])
<1> DEFINE n == Cardinality(Changed)
<1>1. /\ scanned' = wanted /\ wanted' = wanted /\ register' = register
  BY DEF Transmit, deviceVars
<1>2. /\ listNum \in Nat /\ n \in Nat /\ listNum' = listNum + n
      /\ \A j \in 1 .. listNum : j \in 1 .. listNum' /\ Ring'[j] = Ring[j]
      /\ \A i \in 1 .. n : listNum + i \in 1 .. listNum' /\ Ring'[listNum + i] = NewWrites[i]
      /\ \A i \in 1 .. n : \E p \in Changed : NewWrites[i] = Write(p, wanted[p])
  BY RingScan, NewWritesFacts DEF MasterState
<1>3. Changed \subseteq Points
  BY DEF Changed
<1> HIDE DEF n
<1>4. ASSUME NEW j \in 1 .. listNum'
      PROVE  \/ j \in 1 .. listNum /\ Ring'[j] = Ring[j]
             \/ j > listNum /\ \E p \in Changed : Ring'[j] = Write(p, wanted[p])
  <2>1. CASE j \in 1 .. listNum
    BY <1>2, <2>1
  <2>2. CASE j \notin 1 .. listNum
    <3>1. j - listNum \in 1 .. n /\ listNum + (j - listNum) = j /\ j > listNum
      BY <1>2, <2>2
    <3>2. QED
      BY <1>2, <3>1
  <2>3. QED
    BY <2>1, <2>2
<1>5. ASSUME NEW f \in Frames, Between(f)
      PROVE  Between(f)'
  <2>1. SUFFICES ASSUME Kind(f) = "write"
                 PROVE  register'[f[2]] <= f[3] /\ f[3] <= scanned'[f[2]]
    BY DEF Between
  <2>2. QED
    BY <1>1, <1>5, <2>1, PendingFacts DEF Between
<1>6. \A p \in Changed : wanted[p] \in 1 .. MaxChanges
  <2> SUFFICES ASSUME NEW p \in Changed PROVE wanted[p] \in 1 .. MaxChanges
    OBVIOUS
  <2>1. /\ wanted[p] \in 0 .. MaxChanges /\ scanned[p] \in 0 .. MaxChanges
        /\ scanned[p] <= wanted[p] /\ wanted[p] # scanned[p]
    BY DEF MasterState, Changed
  <2>2. QED
    BY <2>1, Constants
<1>7. ASSUME NEW f \in Frames, Between(f), \A j \in 1 .. listNum : InOrder(f, Ring[j]),
             NEW j \in 1 .. listNum'
      PROVE  InOrder(f, Ring'[j])
  BY <1>3, <1>4, <1>7, NewIsLatest
<1>8. \A j \in 1 .. listNum : Ring[j] \in Frames
  BY RingFrames
<1>9. ASSUME NEW j \in 1 .. listNum'
       PROVE  Kind(Ring'[j]) = "write" /\ Between(Ring[j])'
  <2>1. CASE j \in 1 .. listNum /\ Ring'[j] = Ring[j]
    <3>1. Kind(Ring[j]) = "write" /\ Between(Ring[j]) /\ Ring[j] \in Frames
      BY <1>8, <2>1 DEF RingOrder
    <3>2. register[Ring[j][2]] <= Ring[j][3] /\ Ring[j][3] <= wanted[Ring[j][2]]
      BY <3>1, PendingFacts DEF Between
    <3>3. QED
      BY <1>1, <2>1, <3>1, <3>2 DEF Between
  <2>2. CASE \E p \in Changed : Ring'[j] = Write(p, wanted[p])
    <3>1. PICK p \in Changed : Ring'[j] = Write(p, wanted[p])
      BY <2>2
    <3>2. p \in Points /\ Kind(Ring'[j]) = "write" /\ Ring'[j][2] = p /\ Ring'[j][3] = wanted[p]
      BY <1>3, <1>6, <3>1, WriteFrame
    <3>3. register[p] <= scanned[p] /\ scanned[p] <= wanted[p]
          /\ register[p] \in 0 .. MaxChanges /\ scanned[p] \in 0 .. MaxChanges
               /\ wanted[p] \in 0 .. MaxChanges
      BY <3>2 DEF RingOrder, MasterState
    <3>4. register[p] <= wanted[p] /\ wanted[p] <= wanted[p]
      BY <3>3, Constants
    <3>5. QED
      BY <1>1, <3>2, <3>4 DEF Between
  <2>3. QED
    BY <1>4, <2>1, <2>2
<1>10. ASSUME NEW i \in 1 .. listNum', NEW j \in 1 .. listNum', i < j
       PROVE  InOrder(Ring'[i], Ring'[j])
  <2>1. CASE i \in 1 .. listNum /\ Ring'[i] = Ring[i] /\ j \in 1 .. listNum
    BY <1>2, <1>10, <2>1 DEF RingOrder
  <2>2. CASE i \in 1 .. listNum /\ Ring'[i] = Ring[i]
               /\ \E p \in Changed : Ring'[j] = Write(p, wanted[p])
    <3>1. Between(Ring[i]) /\ Ring[i] \in Frames
      BY <1>8, <2>2 DEF RingOrder
    <3>2. QED
      BY <1>3, <2>2, <3>1, NewIsLatest
  <2>3. CASE /\ \E p \in Changed : Ring'[i] = Write(p, wanted[p])
             /\ \E p \in Changed : Ring'[j] = Write(p, wanted[p])
    <3>1. PICK p \in Changed : Ring'[i] = Write(p, wanted[p])
      BY <2>3
    <3>2. PICK q \in Changed : Ring'[j] = Write(q, wanted[q])
      BY <2>3
    <3>3. /\ Ring'[i][2] = p /\ Ring'[i][3] = wanted[p] /\ Ring'[j][2] = q /\ Ring'[j][3] = wanted[q]
          /\ wanted[p] \in Nat
      BY <1>3, <1>6, <3>1, <3>2, WriteFrame
    <3>4. wanted[p] <= wanted[p]
      BY <3>3
    <3>5. QED
      BY <3>3, <3>4 DEF InOrder
  <2>4. CASE i > listNum /\ j \in 1 .. listNum
    BY <1>2, <1>10, <2>4
  <2>5. QED
    BY <1>4, <2>1, <2>2, <2>3, <2>4
<1>11. \A p \in Points : register'[p] <= scanned'[p]
  <2> SUFFICES ASSUME NEW p \in Points PROVE register[p] <= wanted[p]
    BY <1>1
  <2>1. register[p] <= scanned[p] /\ scanned[p] <= wanted[p]
        /\ register[p] \in 0 .. MaxChanges /\ scanned[p] \in 0 .. MaxChanges
             /\ wanted[p] \in 0 .. MaxChanges
    BY DEF RingOrder, MasterState
  <2>2. QED
    BY <2>1, Constants
<1>12. RingOrder'
  BY <1>9, <1>10, <1>11 DEF RingOrder
<1>13. QED
  BY <1>5, <1>7, <1>12

\* What is sent is the oldest write or a poll, so it fits between the line and
\* the ring.
LEMMA OrderScan ==
  ASSUME MasterState, MaxPending <= Size, OrderInv, Transmit
  PROVE  OrderInv'
<1>1. Room /\ RingOrder /\ WireOrder
  BY DEF OrderInv
<1>2. /\ Room' /\ RingOrder'
      /\ \A f \in Frames : Between(f) => Between(f)'
      /\ \A f \in Frames : Between(f) /\ (\A j \in 1 .. listNum : InOrder(f, Ring[j])) =>
           \A j \in 1 .. listNum' : InOrder(f, Ring'[j])
  BY <1>1, RingScan, RingOrderScan
<1>3. \A f \in Frames : Kind(f) = "write" /\ Between(f) =>
        register'[f[2]] <= f[3] /\ f[3] <= scanned'[f[2]]
  BY <1>2 DEF Between
<1>4. \A i \in 1 .. Len(toDevice) : toDevice[i].frame \in Frames
  BY OnTheWay, SendableKinds
<1>5. ASSUME NEW i \in 1 .. Len(toDevice)
      PROVE  /\ Kind(toDevice[i].frame) = "write" =>
                  /\ register'[toDevice[i].frame[2]] <= toDevice[i].frame[3]
                  /\ toDevice[i].frame[3] <= scanned'[toDevice[i].frame[2]]
             /\ \A j \in 1 .. listNum' : InOrder(toDevice[i].frame, Ring'[j])
  BY <1>1, <1>2, <1>3, <1>4 DEF WireOrder
<1>6. CASE toDevice' = toDevice
  <2>1. WireOrder'
    BY <1>1, <1>5, <1>6 DEF WireOrder, Between
  <2>2. QED
    BY <1>2, <2>1 DEF OrderInv
<1>7. CASE /\ sent' # NoFrame /\ [number |-> transaction, frame |-> sent'] \in Requests
           /\ toDevice' = Append(toDevice, [number |-> transaction, frame |-> sent'])
  <2> DEFINE m == [number |-> transaction, frame |-> sent']
             n == Len(toDevice)
  <2>1. /\ Len(toDevice') = n + 1 /\ n \in Nat
        /\ \A i \in 1 .. n : toDevice'[i] = toDevice[i]
        /\ toDevice'[n + 1] = m /\ m.frame = sent'
        /\ \A i \in 1 .. n + 1 : i \in 1 .. n \/ i = n + 1
    BY <1>7, SentFacts, OnTheWay
  <2> HIDE DEF m
  <2>2. \/ Kind(sent') = "poll"
        \/ 1 \in 1 .. listNum' /\ sent' = Ring'[1]
    <3>1. listNum' > 0 => sent' = slots'[cur] /\ cur' = cur /\ listNum' \in Nat
      BY TransmitFacts
    <3>2. listNum' > 0 => Ring'[1] = slots'[cur]
      <4>1. cur \in Nat /\ cur < Size /\ Size \in Nat /\ Place(cur, 1) = cur
        BY Constants DEF MasterState, Slots, Place
      <4>2. listNum' > 0 => 1 \in 1 .. listNum'
        BY <3>1
      <4>3. QED
        BY <3>1, <4>1, <4>2 DEF Ring
    <3>3. ~(listNum' > 0) => Kind(sent') = "poll"
      BY TransmitFacts
    <3>4. listNum' > 0 => 1 \in 1 .. listNum'
      BY <3>1
    <3>5. QED
      BY <3>1, <3>2, <3>3, <3>4
  <2>3. \/ Kind(sent') # "write"
        \/ register'[sent'[2]] <= sent'[3] /\ sent'[3] <= scanned'[sent'[2]]
    BY <1>2, <2>2 DEF RingOrder, Between
  <2>4. \A i \in 1 .. n : InOrder(toDevice[i].frame, sent')
    <3>1. CASE Kind(sent') = "poll"
      BY <3>1 DEF InOrder
    <3>2. CASE 1 \in 1 .. listNum' /\ sent' = Ring'[1]
      BY <1>5, <3>2
    <3>3. QED
      BY <2>2, <3>1, <3>2
  <2>5. \A j \in 1 .. listNum' : InOrder(sent', Ring'[j])
    <3>1. CASE Kind(sent') = "poll"
      BY <3>1 DEF InOrder
    <3>2. ASSUME 1 \in 1 .. listNum', sent' = Ring'[1], NEW j \in 1 .. listNum'
          PROVE  InOrder(sent', Ring'[j])
      <4>1. CASE j = 1
        <5>1. sent' \in Frames
          BY TransmitFacts
        <5>2. Kind(sent') = "write" => sent'[3] \in Int
          BY <5>1, FrameKinds, Constants
        <5>3. Kind(sent') = "write" => sent'[3] <= sent'[3]
          BY <5>2
        <5>4. Ring'[j] = sent'
          BY <3>2, <4>1
        <5>5. QED
          BY <5>3, <5>4 DEF InOrder
      <4>2. CASE j # 1
        <5>1. 1 < j
          BY <4>2
        <5>2. QED
          BY <1>2, <3>2, <5>1 DEF RingOrder
      <4>3. QED
        BY <4>1, <4>2
    <3>3. QED
      BY <2>2, <3>1, <3>2
  <2>6. \A i \in 1 .. Len(toDevice') : Between(toDevice[i].frame)'
    <3> SUFFICES ASSUME NEW i \in 1 .. Len(toDevice'), Kind(toDevice'[i].frame) = "write"
                 PROVE  /\ register'[toDevice'[i].frame[2]] <= toDevice'[i].frame[3]
                        /\ toDevice'[i].frame[3] <= scanned'[toDevice'[i].frame[2]]
      BY DEF Between
    <3>1. CASE i \in 1 .. n
      BY <1>5, <2>1, <3>1
    <3>2. CASE i = n + 1
      BY <2>1, <2>3, <3>2
    <3>3. QED
      BY <2>1, <3>1, <3>2
  <2>7. \A i, j \in 1 .. Len(toDevice') : i < j => InOrder(toDevice'[i].frame, toDevice'[j].frame)
    <3> SUFFICES ASSUME NEW i \in 1 .. n + 1, NEW j \in 1 .. n + 1, i < j
                 PROVE  InOrder(toDevice'[i].frame, toDevice'[j].frame)
      BY <2>1
    <3>1. i \in 1 .. n
      BY <2>1
    <3>2. CASE j \in 1 .. n
      BY <1>1, <2>1, <3>1, <3>2 DEF WireOrder
    <3>3. CASE j = n + 1
      BY <2>1, <2>4, <3>1, <3>3
    <3>4. QED
      BY <2>1, <3>2, <3>3
  <2>8. \A i \in 1 .. Len(toDevice'), j \in 1 .. listNum' : InOrder(toDevice'[i].frame, Ring'[j])
    <3> SUFFICES ASSUME NEW i \in 1 .. n + 1, NEW j \in 1 .. listNum'
                 PROVE  InOrder(toDevice'[i].frame, Ring'[j])
      BY <2>1
    <3>1. CASE i \in 1 .. n
      BY <1>5, <2>1, <3>1
    <3>2. CASE i = n + 1
      BY <2>1, <2>5, <3>2
    <3>3. QED
      BY <2>1, <3>1, <3>2
  <2>9. WireOrder'
    BY <2>6, <2>7, <2>8 DEF WireOrder
  <2>10. QED
    BY <1>2, <2>9 DEF OrderInv
<1>8. QED
  BY <1>6, <1>7, TransmitFacts

\* Popping the oldest write leaves the others in order.
LEMMA OrderPop ==
  ASSUME MasterState, MaxPending <= Size, OrderInv, Pop, listNum > 0,
         UNCHANGED <<wanted, scanned, register, toDevice>>
  PROVE  OrderInv'
<1>1. Room /\ RingOrder /\ WireOrder /\ listNum \in Nat
  BY DEF OrderInv, MasterState
<1>2. /\ listNum' = listNum - 1 /\ Room'
      /\ \A j \in 1 .. listNum' : j + 1 \in 1 .. listNum /\ Ring'[j] = Ring[j + 1]
  BY <1>1, RingPop DEF rtdbVars
<1>3. RingOrder'
  <2>1. \A j \in 1 .. listNum' : Kind(Ring'[j]) = "write"
    BY <1>1, <1>2 DEF RingOrder
  <2>2. \A j \in 1 .. listNum' : Between(Ring[j])'
    <3> SUFFICES ASSUME NEW j \in 1 .. listNum', Kind(Ring'[j]) = "write"
                 PROVE  register'[Ring'[j][2]] <= Ring'[j][3] /\ Ring'[j][3] <= scanned'[Ring'[j][2]]
      BY DEF Between
    <3>1. Between(Ring[j + 1]) /\ Ring'[j] = Ring[j + 1]
      BY <1>1, <1>2 DEF RingOrder
    <3>2. QED
      BY <3>1 DEF Between
  <2>3. \A i, j \in 1 .. listNum' : i < j => InOrder(Ring'[i], Ring'[j])
    <3> SUFFICES ASSUME NEW i \in 1 .. listNum', NEW j \in 1 .. listNum', i < j
                 PROVE  InOrder(Ring'[i], Ring'[j])
      OBVIOUS
    <3>1. i + 1 < j + 1
      OBVIOUS
    <3>2. QED
      BY <1>1, <1>2, <3>1 DEF RingOrder
  <2>4. \A p \in Points : register'[p] <= scanned'[p]
    BY <1>1 DEF RingOrder
  <2>5. QED
    BY <2>1, <2>2, <2>3, <2>4 DEF RingOrder
<1>4. WireOrder'
  <2>1. \A i \in 1 .. Len(toDevice') : Between(toDevice[i].frame)'
    BY <1>1 DEF WireOrder, Between
  <2>2. \A i, j \in 1 .. Len(toDevice') : i < j => InOrder(toDevice'[i].frame, toDevice'[j].frame)
    BY <1>1 DEF WireOrder
  <2>3. \A i \in 1 .. Len(toDevice'), j \in 1 .. listNum' : InOrder(toDevice'[i].frame, Ring'[j])
    BY <1>1, <1>2 DEF WireOrder
  <2>4. QED
    BY <2>1, <2>2, <2>3 DEF WireOrder
<1>5. QED
  BY <1>2, <1>3, <1>4 DEF OrderInv

\* The device executes the oldest request of the line, or it is lost: no value
\* grows smaller, and the other writes stay ahead of the device.
LEMMA OrderTaken ==
  ASSUME MasterState, MaxPending <= Size, OrderInv, toDevice # <<>>, toDevice' = Tail(toDevice),
         Execute(Head(toDevice).frame) \/ UNCHANGED deviceVars,
         UNCHANGED <<wanted, scanned, slots, cur, rear, listNum>>
  PROVE  OrderInv' /\ \A p \in Points : register'[p] >= register[p]
<1> DEFINE h == Head(toDevice)
<1>1. Room /\ RingOrder /\ WireOrder
  BY DEF OrderInv
<1>2. /\ h = toDevice[1] /\ 1 \in 1 .. Len(toDevice) /\ h.frame \in Sendable
      /\ \A i \in 1 .. Len(toDevice') : i + 1 \in 1 .. Len(toDevice) /\ toDevice'[i] = toDevice[i + 1]
  BY TakenFacts
<1>3. /\ Between(h.frame)
      /\ \A i \in 1 .. Len(toDevice') : InOrder(h.frame, toDevice'[i].frame)
      /\ \A j \in 1 .. listNum : InOrder(h.frame, Ring[j])
  <2>1. ASSUME NEW i \in 1 .. Len(toDevice') PROVE InOrder(h.frame, toDevice'[i].frame)
    <3>1. 1 < i + 1 /\ i + 1 \in 1 .. Len(toDevice)
      BY <1>2
    <3>2. QED
      BY <1>1, <1>2, <3>1 DEF WireOrder
  <2>2. QED
    BY <1>1, <1>2, <2>1 DEF WireOrder
<1> HIDE DEF h
<1>4. Execute(h.frame) \/ UNCHANGED deviceVars
  BY DEF h
<1>5. \/ register' = register
      \/ /\ Kind(h.frame) = "write"
         /\ \A p \in Points : register'[p] = IF p = h.frame[2] THEN h.frame[3] ELSE register[p]
  BY <1>2, <1>4, ExecuteFacts DEF deviceVars
<1>6. Kind(h.frame) = "write" =>
        /\ h.frame \in Frames /\ h.frame[2] \in Points /\ h.frame[3] \in Nat
             /\ register[h.frame[2]] \in Nat
        /\ register[h.frame[2]] <= h.frame[3] /\ h.frame[3] <= scanned[h.frame[2]]
  BY <1>2, <1>3, SendableKinds, PendingFacts DEF Between
<1>7. \A p \in Points : register[p] \in Nat
  BY DEF MasterState
<1>8. \A p \in Points : register'[p] >= register[p]
  <2> SUFFICES ASSUME NEW p \in Points PROVE register'[p] >= register[p]
    OBVIOUS
  <2>1. CASE register' = register
    BY <1>7, <2>1
  <2>2. CASE register'[p] # register[p]
    <3>1. Kind(h.frame) = "write" /\ p = h.frame[2] /\ register'[p] = h.frame[3]
      BY <1>5, <2>2
    <3>2. QED
      BY <1>6, <3>1
  <2>3. CASE register'[p] = register[p]
    BY <1>7, <2>3
  <2>4. QED
    BY <2>2, <2>3
<1>9. ASSUME NEW f \in Frames, Kind(f) = "write", Between(f), InOrder(h.frame, f)
      PROVE  register'[f[2]] <= f[3] /\ f[3] <= scanned'[f[2]]
  <2>1. f[2] \in Points /\ register[f[2]] <= f[3] /\ f[3] <= scanned[f[2]]
    BY <1>9, PendingFacts DEF Between
  <2>2. CASE register'[f[2]] = register[f[2]]
    BY <2>1, <2>2
  <2>3. CASE register'[f[2]] # register[f[2]]
    <3>1. Kind(h.frame) = "write" /\ f[2] = h.frame[2] /\ register'[f[2]] = h.frame[3]
      BY <1>5, <2>1, <2>3
    <3>2. h.frame[3] <= f[3]
      BY <1>9, <3>1 DEF InOrder
    <3>3. QED
      BY <2>1, <3>1, <3>2
  <2>4. QED
    BY <2>2, <2>3
<1>10. \A p \in Points : register'[p] <= scanned'[p]
  <2> SUFFICES ASSUME NEW p \in Points PROVE register'[p] <= scanned[p]
    OBVIOUS
  <2>1. CASE register'[p] = register[p]
    BY <1>1, <2>1 DEF RingOrder
  <2>2. CASE register'[p] # register[p]
    BY <1>5, <1>6, <2>2
  <2>3. QED
    BY <2>1, <2>2
<1>11. /\ listNum' = listNum /\ cur' = cur /\ rear' = rear /\ Changed' = Changed
       /\ \A j \in 1 .. listNum : Ring'[j] = Ring[j]
  BY DEF Ring, Changed
<1>12. Room'
  BY <1>1, <1>11 DEF Room
<1>13. \A j \in 1 .. listNum : Ring[j] \in Frames
  BY <1>1, RingFrames
<1>14. RingOrder'
  <2>1. \A j \in 1 .. listNum' : Kind(Ring'[j]) = "write"
    BY <1>1, <1>11 DEF RingOrder
  <2>2. \A j \in 1 .. listNum' : Between(Ring[j])'
    <3> SUFFICES ASSUME NEW j \in 1 .. listNum
                 PROVE  register'[Ring'[j][2]] <= Ring'[j][3] /\ Ring'[j][3] <= scanned'[Ring'[j][2]]
      BY <1>11 DEF Between
    <3>1. Between(Ring[j]) /\ Kind(Ring[j]) = "write" /\ Ring'[j] = Ring[j]
      BY <1>1, <1>11 DEF RingOrder
    <3>2. QED
      BY <1>3, <1>9, <1>13, <3>1
  <2>3. \A i, j \in 1 .. listNum' : i < j => InOrder(Ring'[i], Ring'[j])
    BY <1>1, <1>11 DEF RingOrder
  <2>4. QED
    BY <1>10, <2>1, <2>2, <2>3 DEF RingOrder
<1>15. WireOrder'
  <2>1. \A i \in 1 .. Len(toDevice') : Between(toDevice[i].frame)'
    <3> SUFFICES ASSUME NEW i \in 1 .. Len(toDevice'), Kind(toDevice'[i].frame) = "write"
                 PROVE  /\ register'[toDevice'[i].frame[2]] <= toDevice'[i].frame[3]
                        /\ toDevice'[i].frame[3] <= scanned'[toDevice'[i].frame[2]]
      BY DEF Between
    <3>1. i + 1 \in 1 .. Len(toDevice) /\ toDevice'[i] = toDevice[i + 1]
      BY <1>2
    <3>2. toDevice[i + 1].frame \in Frames /\ Between(toDevice[i + 1].frame)
      BY <1>1, <3>1, OnTheWay, SendableKinds DEF WireOrder
    <3>3. InOrder(h.frame, toDevice[i + 1].frame)
      BY <1>3, <3>1
    <3>4. QED
      BY <1>9, <3>1, <3>2, <3>3
  <2>2. \A i, j \in 1 .. Len(toDevice') : i < j => InOrder(toDevice'[i].frame, toDevice'[j].frame)
    <3> SUFFICES ASSUME NEW i \in 1 .. Len(toDevice'), NEW j \in 1 .. Len(toDevice'), i < j
                 PROVE  InOrder(toDevice'[i].frame, toDevice'[j].frame)
      OBVIOUS
    <3>1. i + 1 < j + 1
      OBVIOUS
    <3>2. QED
      BY <1>1, <1>2, <3>1 DEF WireOrder
  <2>3. \A i \in 1 .. Len(toDevice'), j \in 1 .. listNum' : InOrder(toDevice'[i].frame, Ring'[j])
    BY <1>1, <1>2, <1>11 DEF WireOrder
  <2>4. QED
    BY <2>1, <2>2, <2>3 DEF WireOrder
<1>16. QED
  BY <1>8, <1>12, <1>14, <1>15 DEF OrderInv

\* The thread that was never started has nothing pending.
LEMMA OrderInit == Init => OrderInv
<1> SUFFICES ASSUME Init PROVE OrderInv
  OBVIOUS
<1>1. 1 .. 0 = {} /\ Len(<<>>) = 0
  OBVIOUS
<1>2. Changed = {} /\ Cardinality({}) = 0
  BY FS_EmptySet DEF Init, Changed
<1>3. Room
  <2>1. rear = 0 /\ cur = 0 /\ listNum = 0 /\ Size \in Nat /\ Size > 0 /\ MaxPending \in Nat
    BY Constants DEF Init
  <2>2. Place(0, 0 + 1) = 0
    BY <2>1 DEF Place
  <2>3. 0 + 0 <= MaxPending
    BY <2>1
  <2>4. QED
    BY <1>2, <2>1, <2>2, <2>3 DEF Room
<1>4. RingOrder /\ WireOrder
  BY <1>1 DEF Init, RingOrder, WireOrder
<1>5. QED
  BY <1>3, <1>4 DEF OrderInv

\* Each step keeps the order of the values, and none brings an older one back.
LEMMA OrderStep ==
  ASSUME MaxPending <= Size, MasterState, OrderInv, [Next]_vars
  PROVE  OrderInv' /\ \A p \in Points : register'[p] >= register[p]
<1>1. ASSUME register' = register
      PROVE  \A p \in Points : register'[p] >= register[p]
  <2>1. \A p \in Points : register[p] \in Nat
    BY DEF MasterState
  <2>2. QED
    BY <1>1, <2>1
<1>2. ASSUME UNCHANGED <<scanned, slots, cur, rear, listNum, register>>,
             toDevice' \in {toDevice, <<>>}, listNum + Cardinality(Changed') <= MaxPending
      PROVE  OrderInv'
  <2>1. listNum' = listNum /\ \A j \in 1 .. listNum : Ring'[j] = Ring[j]
    BY <1>2 DEF Ring
  <2>2. Room'
    BY <1>2 DEF OrderInv, Room
  <2>3. RingOrder'
    BY <1>2, <2>1 DEF OrderInv, RingOrder, Between
  <2>4. WireOrder'
    <3>1. Len(<<>>) = 0 /\ 1 .. 0 = {}
      OBVIOUS
    <3>2. CASE toDevice' = <<>>
      BY <3>1, <3>2 DEF WireOrder
    <3>3. CASE toDevice' = toDevice
      BY <1>2, <2>1, <3>3 DEF OrderInv, WireOrder, Between
    <3>4. QED
      BY <1>2, <3>2, <3>3
  <2>5. QED
    BY <2>2, <2>3, <2>4 DEF OrderInv
<1>3. ASSUME UNCHANGED <<wanted, scanned, slots, cur, rear, listNum, register>>,
             toDevice' \in {toDevice, <<>>}
      PROVE  OrderInv' /\ \A p \in Points : register'[p] >= register[p]
  <2>1. Changed' = Changed
    BY <1>3 DEF Changed
  <2>2. QED
    BY <1>1, <1>2, <1>3, <2>1 DEF OrderInv, Room
<1>4. ASSUME NEW p \in Points, Change(p)
      PROVE  OrderInv' /\ \A q \in Points : register'[q] >= register[q]
  <2>1. /\ UNCHANGED <<scanned, slots, cur, rear, listNum, register, toDevice>>
        /\ listNum + Cardinality({p} \cup Changed) <= MaxPending
        /\ wanted' = [wanted EXCEPT ![p] = wanted[p] + 1]
    BY <1>4 DEF Change, listVars, deviceVars
  <2>2. Changed' \subseteq {p} \cup Changed /\ {p} \cup Changed \subseteq Points
    BY <2>1 DEF Changed, MasterState
  <2>3. Cardinality(Changed') <= Cardinality({p} \cup Changed)
        /\ Cardinality(Changed') \in Nat /\ Cardinality({p} \cup Changed) \in Nat
    <3>1. IsFiniteSet({p} \cup Changed)
      BY <2>2, InTheirOrder
    <3>2. QED
      BY <2>2, <3>1, FS_Subset, FS_CardinalityType
  <2>4. listNum \in Nat /\ MaxPending \in Nat
    BY Constants DEF MasterState
  <2>5. listNum + Cardinality(Changed') <= MaxPending
    BY <2>1, <2>3, <2>4
  <2>6. QED
    BY <1>1, <1>2, <2>1, <2>5
<1>5. CASE Transmit
  BY <1>1, <1>5, OrderScan DEF Transmit, deviceVars
<1>6. ASSUME NEW k \in 1 .. MaxFaults + 1, Receive(k)
      PROVE  OrderInv' /\ \A p \in Points : register'[p] >= register[p]
  <2>1. UNCHANGED <<wanted, scanned, toDevice, register>> /\ pc = "wait"
    BY <1>6, ReceiveCases
  <2>2. CASE Kind(sent) = "write" /\ Pop
    <3>1. listNum > 0
      BY <2>1, <2>2 DEF MasterState
    <3>2. QED
      BY <1>1, <2>1, <2>2, <3>1, OrderPop
  <2>3. CASE UNCHANGED <<slots, cur, rear, listNum>>
    BY <1>3, <2>1, <2>3
  <2>4. QED
    BY <1>6, <2>2, <2>3, ReceiveCases
<1>7. CASE DeviceAnswer \/ DeviceRefuse \/ Lose
  <2>1. /\ toDevice # <<>> /\ toDevice' = Tail(toDevice)
        /\ Execute(Head(toDevice).frame) \/ UNCHANGED deviceVars
        /\ UNCHANGED <<wanted, scanned, slots, cur, rear, listNum>>
    BY <1>7 DEF DeviceAnswer, DeviceRefuse, Lose, rtdbVars, listVars
  <2>2. QED
    BY <2>1, OrderTaken
<1>8. CASE Open \/ Timeout \/ Offline \/ Break
  <2>1. UNCHANGED <<wanted, scanned, slots, cur, rear, listNum, register>>
          /\ toDevice' \in {toDevice, <<>>}
    BY <1>8 DEF Open, Timeout, Offline, Break, rtdbVars, listVars, deviceVars
  <2>2. QED
    BY <1>3, <2>1
<1>9. CASE UNCHANGED vars
  BY <1>3, <1>9 DEF vars, rtdbVars, listVars, deviceVars
<1>10. QED
  BY <1>4, <1>5, <1>6, <1>7, <1>8, <1>9 DEF Next, Master, Environment

\* Retries, reconnections and late executions never bring an older value of a
\* point back into the device, over TCP and over a serial line, as long as the
\* ring is not overrun (bsp_modbus.c:1107-1119, 1304-1314, 1496-1501).
THEOREM ValuesOnlyAdvance ==
  MaxPending <= Size => (Spec => NoOlderValue)
<1> SUFFICES ASSUME MaxPending <= Size PROVE Spec => NoOlderValue
  OBVIOUS
<1>1. MasterState /\ OrderInv /\ [Next]_vars =>
        OrderInv' /\ [\A p \in Points : register'[p] >= register[p]]_vars
  BY OrderStep
<1>2. QED
  BY <1>1, OrderInit, MasterInit, MasterStateStep, PTL DEF Spec, NoOlderValue

-----------------------------------------------------------------------------
(* What was put into the ring arrives.                                     *)

\* The device has what it executed, or a later value; a value that was scanned
\* is in the device or is still pending.
DoneInv ==
  /\ \A f \in executed : Kind(f) = "write" => register[f[2]] >= f[3]
  /\ \A p \in Points : scanned[p] <= register[p]
                         \/ \E j \in 1 .. listNum : Ring[j] = Write(p, scanned[p])

\* What is executed stays in the device.
LEMMA ExecutedStays ==
  ASSUME MasterState, DoneInv, NEW f \in Sendable, Execute(f) \/ UNCHANGED deviceVars,
         \A p \in Points : register'[p] >= register[p], register' \in [Points -> 0 .. MaxChanges]
  PROVE  \A g \in executed' : Kind(g) = "write" => register'[g[2]] >= g[3]
<1>1. executed \subseteq Frames /\ register \in [Points -> 0 .. MaxChanges] /\ MaxChanges \in Nat
  BY Constants DEF MasterState
<1>2. ASSUME NEW g \in executed, Kind(g) = "write" PROVE register'[g[2]] >= g[3]
  <2>1. g[2] \in Points /\ g[3] \in Nat /\ register[g[2]] >= g[3]
    BY <1>1, <1>2, PendingFacts DEF DoneInv
  <2>2. register[g[2]] \in Nat /\ register'[g[2]] \in Nat /\ register'[g[2]] >= register[g[2]]
    BY <1>1, <2>1
  <2>3. QED
    BY <2>1, <2>2
<1>3. CASE executed' = executed
  BY <1>2, <1>3
<1>4. CASE Execute(f) /\ Kind(f) = "write"
  <2>1. executed' = executed \cup {f} /\ f[2] \in Points /\ f[3] \in 1 .. MaxChanges
          /\ register'[f[2]] = f[3]
    BY <1>4, ExecuteFacts, SendableKinds
  <2>2. register'[f[2]] >= f[3]
    BY <1>1, <2>1
  <2>3. QED
    BY <1>2, <2>1, <2>2
<1>5. CASE Execute(f) /\ Kind(f) # "write"
  BY <1>3, <1>5, ExecuteFacts
<1>6. QED
  BY <1>3, <1>4, <1>5 DEF deviceVars

\* Each step keeps it, over TCP.
LEMMA DoneStep ==
  ASSUME ~Serial, MaxPending <= Size, MasterState, MasterState', WireInv, OrderInv, DoneInv,
         [Next]_vars
  PROVE  DoneInv'
<1>1. ASSUME UNCHANGED <<scanned, slots, cur, listNum, register, executed>>
      PROVE  DoneInv'
  <2>1. \A j \in 1 .. listNum : Ring'[j] = Ring[j]
    BY <1>1 DEF Ring
  <2>2. QED
    BY <1>1, <2>1 DEF DoneInv, Write
<1>2. ASSUME register' = register, executed' = executed
      PROVE  \A f \in executed' : Kind(f) = "write" => register'[f[2]] >= f[3]
  BY <1>2 DEF DoneInv
<1>3. CASE Transmit
  <2>1. register' = register /\ executed' = executed /\ scanned' = wanted
    BY <1>3 DEF Transmit, deviceVars
  <2>2. /\ \A j \in 1 .. listNum : j \in 1 .. listNum' /\ Ring'[j] = Ring[j]
        /\ \A i \in 1 .. Cardinality(Changed) :
             listNum + i \in 1 .. listNum' /\ Ring'[listNum + i] = NewWrites[i]
        /\ \A p \in Changed : \E i \in 1 .. Cardinality(Changed) : NewWrites[i] = Write(p, wanted[p])
    BY <1>3, RingScan, NewWritesFacts DEF OrderInv
  <2>3. ASSUME NEW p \in Points
        PROVE  \/ scanned'[p] <= register'[p]
               \/ \E j \in 1 .. listNum' : Ring'[j] = Write(p, scanned'[p])
    <3>1. CASE p \in Changed
      <4>1. PICK i \in 1 .. Cardinality(Changed) : NewWrites[i] = Write(p, wanted[p])
        BY <2>2, <3>1
      <4>2. listNum + i \in 1 .. listNum' /\ Ring'[listNum + i] = Write(p, scanned'[p])
        BY <2>1, <2>2, <4>1
      <4>3. QED
        BY <4>2
    <3>2. CASE p \notin Changed
      <4>1. scanned'[p] = scanned[p]
        BY <2>1, <3>2 DEF Changed
      <4>2. QED
        BY <2>1, <2>2, <4>1 DEF DoneInv
    <3>3. QED
      BY <3>1, <3>2
  <2>4. QED
    BY <1>2, <2>1, <2>3 DEF DoneInv, Write
<1>4. ASSUME NEW k \in 1 .. MaxFaults + 1, Receive(k)
      PROVE  DoneInv'
  <2>1. UNCHANGED <<wanted, scanned, register, executed>> /\ pc = "wait"
    BY <1>4, ReceiveCases
  <2>2. CASE Kind(sent) = "write" /\ Pop /\ Accepted(fromDevice[1])
    <3>1. listNum > 0 /\ slots[cur] = sent /\ listNum \in Nat
      BY <2>1, <2>2 DEF MasterState
    <3>2. sent \in executed /\ Ring[1] = sent
      BY <1>4, <2>2, <3>1, AcceptedAnswer, RingFirst
    <3>3. /\ listNum' = listNum - 1
          /\ \A j \in 1 .. listNum' : j + 1 \in 1 .. listNum /\ Ring'[j] = Ring[j + 1]
      BY <2>1, <2>2, <3>1, RingPop DEF OrderInv, rtdbVars
    <3>4. ASSUME NEW p \in Points
          PROVE  \/ scanned'[p] <= register'[p]
                 \/ \E j \in 1 .. listNum' : Ring'[j] = Write(p, scanned'[p])
      <4>1. CASE scanned[p] <= register[p]
        BY <2>1, <4>1
      <4>2. ASSUME NEW j \in 1 .. listNum, Ring[j] = Write(p, scanned[p])
            PROVE  \/ scanned'[p] <= register'[p]
                   \/ \E i \in 1 .. listNum' : Ring'[i] = Write(p, scanned'[p])
        <5>1. CASE j = 1
          <6>1. sent = Write(p, scanned[p])
            BY <3>2, <4>2, <5>1
          <6>2. sent[2] = p /\ sent[3] = scanned[p]
            BY <6>1 DEF Write
          <6>3. register[p] >= scanned[p]
            BY <2>2, <3>2, <6>2 DEF DoneInv
          <6>4. register[p] \in 0 .. MaxChanges /\ scanned[p] \in 0 .. MaxChanges /\ MaxChanges \in Nat
            BY Constants DEF MasterState
          <6>5. scanned[p] <= register[p]
            BY <6>3, <6>4
          <6>6. QED
            BY <2>1, <6>5
        <5>2. CASE j # 1
          <6>1. j - 1 \in 1 .. listNum' /\ (j - 1) + 1 = j
            BY <3>1, <3>3, <5>2
          <6>2. Ring'[j - 1] = Ring[j]
            BY <3>3, <6>1
          <6>3. QED
            BY <2>1, <4>2, <6>1, <6>2
        <5>3. QED
          BY <5>1, <5>2
      <4>3. QED
        BY <4>1, <4>2 DEF DoneInv
    <3>5. QED
      BY <1>2, <2>1, <3>4 DEF DoneInv, Write
  <2>3. CASE UNCHANGED <<slots, cur, rear, listNum>>
    BY <1>1, <2>1, <2>3
  <2>4. QED
    BY <1>4, <2>2, <2>3, ReceiveCases
<1>5. CASE DeviceAnswer \/ DeviceRefuse \/ Lose
  <2>1. /\ toDevice # <<>> /\ toDevice' = Tail(toDevice)
        /\ Execute(Head(toDevice).frame) \/ UNCHANGED deviceVars
        /\ UNCHANGED <<wanted, scanned, slots, cur, rear, listNum>>
    BY <1>5 DEF DeviceAnswer, DeviceRefuse, Lose, rtdbVars, listVars
  <2>2. \A p \in Points : register'[p] >= register[p]
    BY OrderStep
  <2>3. Head(toDevice).frame \in Sendable /\ register' \in [Points -> 0 .. MaxChanges]
    BY <2>1, TakenFacts DEF MasterState
  <2>4. \A g \in executed' : Kind(g) = "write" => register'[g[2]] >= g[3]
    BY <2>1, <2>2, <2>3, ExecutedStays
  <2>5. listNum' = listNum /\ \A j \in 1 .. listNum : Ring'[j] = Ring[j]
    BY <2>1 DEF Ring
  <2>6. ASSUME NEW p \in Points
        PROVE  \/ scanned'[p] <= register'[p]
               \/ \E j \in 1 .. listNum' : Ring'[j] = Write(p, scanned'[p])
    <3>1. CASE scanned[p] <= register[p]
      <4>1. /\ register[p] \in 0 .. MaxChanges /\ register'[p] \in 0 .. MaxChanges
            /\ scanned[p] \in 0 .. MaxChanges /\ MaxChanges \in Nat
        BY <2>3, Constants DEF MasterState
      <4>2. register'[p] >= register[p]
        BY <2>2
      <4>3. scanned[p] <= register'[p]
        BY <3>1, <4>1, <4>2
      <4>4. QED
        BY <2>1, <4>3
    <3>2. CASE \E j \in 1 .. listNum : Ring[j] = Write(p, scanned[p])
      BY <2>1, <2>5, <3>2
    <3>3. QED
      BY <3>1, <3>2 DEF DoneInv
  <2>7. QED
    BY <2>4, <2>6 DEF DoneInv, Write
<1>6. CASE Open \/ Timeout \/ Offline \/ Break \/ UNCHANGED vars \/ \E p \in Points : Change(p)
  <2>1. UNCHANGED <<scanned, slots, cur, listNum, register, executed>>
    BY <1>6 DEF Open, Timeout, Offline, Break, Change, vars, rtdbVars, listVars, deviceVars
  <2>2. QED
    BY <1>1, <2>1
<1>7. QED
  BY <1>3, <1>4, <1>5, <1>6 DEF Next, Master, Environment

\* Nothing was scanned and nothing executed.
LEMMA DoneInit == Init => DoneInv
<1> SUFFICES ASSUME Init PROVE DoneInv
  OBVIOUS
<1>1. executed = {} /\ \A p \in Points : scanned[p] = 0 /\ register[p] = 0
  BY DEF Init
<1>2. QED
  BY <1>1 DEF DoneInv

\* With nothing pending the device has what was scanned.
LEMMA DoneSettles == MasterState /\ OrderInv /\ DoneInv => Settled
<1> SUFFICES ASSUME MasterState, OrderInv, DoneInv, listNum = 0
             PROVE  register = scanned
  BY DEF Settled
<1>1. register \in [Points -> 0 .. MaxChanges] /\ scanned \in [Points -> 0 .. MaxChanges]
        /\ MaxChanges \in Nat
  BY Constants DEF MasterState
<1>2. ASSUME NEW p \in Points PROVE register[p] = scanned[p]
  <2>1. register[p] <= scanned[p]
    BY DEF OrderInv, RingOrder
  <2>2. scanned[p] <= register[p]
    <3>1. 1 .. 0 = {}
      OBVIOUS
    <3>2. QED
      BY <3>1 DEF DoneInv
  <2>3. QED
    BY <1>1, <2>1, <2>2
<1>3. QED
  BY <1>1, <1>2

\* Over TCP, when the ring is empty the device has every value that was scanned
\* into it: none was dropped, refused or overtaken (bsp_modbus.c:1092-1120,
\* 1304-1314, 1398-1478).
THEOREM NothingPendingIsLost ==
  ~Serial /\ MaxFaults < Modulus /\ MaxPending <= Size => (Spec => []Settled)
<1> SUFFICES ASSUME ~Serial, MaxFaults < Modulus, MaxPending <= Size PROVE Spec => []Settled
  OBVIOUS
<1>1. MasterState /\ OrderInv /\ [Next]_vars => OrderInv'
  BY OrderStep
<1>2. MasterState /\ MasterState' /\ WireInv /\ OrderInv /\ DoneInv /\ [Next]_vars => DoneInv'
  BY DoneStep
<1>3. MasterState /\ MasterState' /\ WireInv /\ [Next]_vars => WireInv'
  BY WireStep
<1>4. QED
  BY <1>1, <1>2, <1>3, MasterInit, MasterStateStep, WireInit, OrderInit, DoneInit, DoneSettles,
     PTL DEF Spec
=============================================================================
