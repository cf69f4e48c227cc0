---------------------------- MODULE Stack_proofs ----------------------------
(* Proofs about the stack: what two threads publish of its faults and limits   *)
(* (BankFaults.tla), which clusters it connects (ClusterChoice.tla), and the   *)
(* machines that connect them (StackCtrl.tla).  They hold for every number of  *)
(* racks or clusters, every set of faults and all voltages.                    *)
EXTENDS BankFaults, StackCtrl, FiniteSetTheorems, SequenceTheorems, WellFoundedInduction, TLAPS

-----------------------------------------------------------------------------
(* The faults of the bank.                                                   *)

\* A time of an A-core fault: -1 while the fault is not timed.
ATimes == -1 .. LostTime

\* The types.
BankState ==
  /\ up \subseteq Racks /\ active \subseteq MFaults
  /\ afault \in [{"one", "all"} -> [fault : BOOLEAN, trig : ATimes, rec : ATimes]]
  /\ derate \in 0 .. 100
  /\ bitmap \cup list \cup timerAt.has \subseteq MFaults \cup {"one", "all"}
  /\ limits \in [pulse : 0 .. Summed(Racks), cont : 0 .. Summed(Racks)]
  /\ doAt \in [at : {"detect", "read", "write", "afaults", "clear", "bits"}, read : 0 .. Summed(Racks)]

\* The ratio is the least of those of the faults that are raised, or less.
DeratedForRaised == \A f \in active \cap DOMAIN Derate : derate <= Derate[f]

\* The continuous limit is the derated pulse limit.
Derated == limits.cont = (limits.pulse * derate) \div 100

\* What a pass of the DO thread has achieved so far, if the timer thread let it be.
PassSoFar ==
  /\ doAt.at = "bits" => bitmap \subseteq Raised
  /\ quiet /\ doAt.at = "write" => doAt.read = limits.pulse
  /\ quiet /\ doAt.at \in {"afaults", "clear", "bits", "detect"} => Derated
  /\ quiet /\ doAt.at = "detect" => list = Raised

\* The timers of the loss of one rack are never behind those of the loss of all,
\* nor ahead of them when they clear it.
OneLeadsAll ==
  LET one == afault["one"]
      all == afault["all"]
  IN  /\ all.fault => one.fault
      /\ all.trig # -1 => one.trig >= all.trig
      /\ all.fault /\ one.rec # -1 => all.rec >= one.rec

\* A fault that is not enabled is never raised.
AllClear == "all" \notin Enabled => afault["all"] = Clear

\* The inductive invariant of the bank; the two about the A-core faults are
\* inductive by themselves.
BankInv == BankState /\ DeratedForRaised /\ PassSoFar

\* What some racks deliver is no more than what all of them do.
LEMMA SummedNat ==
  ASSUME NEW S \in SUBSET Racks
  PROVE  Summed(S) \in 0 .. Summed(Racks)
<1>1. /\ IsFiniteSet(S) /\ Cardinality(S) \in Nat /\ Cardinality(Racks) \in Nat
      /\ Cardinality(S) <= Cardinality(Racks)
  BY BankAssumption, FS_Subset, FS_CardinalityType
<1>2. \A a, b, c \in Nat : a <= b => a * c \in Nat /\ b * c \in Nat /\ a * c <= b * c
  OBVIOUS
<1>3. QED
  BY <1>1, <1>2, BankAssumption DEF Summed

\* A derated limit is at most the limit, and at most as derated as the ratio says.
LEMMA DeratedLimit ==
  ASSUME NEW p \in Nat, NEW r \in 0 .. 100
  PROVE  /\ (p * r) \div 100 \in 0 .. p
         /\ 100 * ((p * r) \div 100) <= p * r
<1>1. p * r \in Nat /\ p * r <= p * 100
  <2>1. \A a, b, c \in Nat : a <= b => c * a \in Nat /\ c * b \in Nat /\ c * a <= c * b
    OBVIOUS
  <2>2. QED
    BY <2>1
<1> DEFINE x == p * r
<1>2. x \in Nat /\ x <= 100 * p
  BY <1>1
<1>3. x \div 100 \in 0 .. p /\ 100 * (x \div 100) <= x
  <2> HIDE DEF x
  <2> QED BY <1>2
<1>4. QED
  BY <1>3

\* A pass over an A-core fault leaves a fault with its times.
LEMMA DetectedAFault ==
  ASSUME NEW f \in {"one", "all"}, NEW v \in BOOLEAN,
         afault \in [{"one", "all"} -> [fault : BOOLEAN, trig : ATimes, rec : ATimes]]
  PROVE  detect_a_fault(f, v) \in [fault : BOOLEAN, trig : ATimes, rec : ATimes]
<1>1. \A t \in ATimes : Count(t) \in 0 .. LostTime
  BY BankAssumption DEF ATimes, Count, Least2
<1>2. -1 \in ATimes /\ \A t \in 0 .. LostTime : t \in ATimes
  BY BankAssumption DEF ATimes
<1>3. afault[f] \in [fault : BOOLEAN, trig : ATimes, rec : ATimes]
  OBVIOUS
<1>4. /\ Count(afault[f].trig) \in ATimes /\ Count(afault[f].rec) \in ATimes
      /\ Clear \in [fault : BOOLEAN, trig : ATimes, rec : ATimes]
  BY <1>1, <1>2, <1>3 DEF Clear
<1>5. QED
  BY <1>2, <1>3, <1>4 DEF detect_a_fault

\* No fault and no limit: the invariant holds.
LEMMA BankInitInv == BankInit => BankInv
<1> SUFFICES ASSUME BankInit PROVE BankInv
  OBVIOUS
<1>1. 0 \in 0 .. Summed(Racks) /\ {} \in SUBSET Racks
  BY SummedNat
<1>2. afault \in [{"one", "all"} -> [fault : BOOLEAN, trig : ATimes, rec : ATimes]]
  BY BankAssumption DEF BankInit, Clear, ATimes
<1>3. BankState
  BY <1>1, <1>2 DEF BankInit, BankState
<1>4. DeratedForRaised /\ PassSoFar
  BY DEF BankInit, DeratedForRaised, PassSoFar
<1>5. QED
  BY <1>3, <1>4 DEF BankInv

\* Each step keeps the invariant.
LEMMA BankStep == BankInv /\ [BankNext]_bankVars => BankInv'
<1> SUFFICES ASSUME BankInv, [BankNext]_bankVars PROVE BankInv'
  OBVIOUS
<1> USE DEF BankInv, BankState, DeratedForRaised, PassSoFar, Derated, Raised
<1>1. CASE RackFlips
  BY <1>1 DEF RackFlips
<1>2. CASE DetectM
  <2>1. /\ UNCHANGED <<up, afault, bitmap, limits, list, timerAt>>
        /\ doAt' = [doAt EXCEPT !.at = "read"]
    BY <1>2 DEF DetectM, Detecting
  <2>2. CASE UNCHANGED active
    <3>1. derate' = derate
      BY <1>2, <2>2 DEF DetectM
    <3>2. QED
      BY <2>1, <2>2, <3>1
  <2>3. CASE \E f \in MFaults : active' = IF f \in active THEN active \ {f} ELSE active \cup {f}
    <3>1. PICK f \in MFaults : active' = IF f \in active THEN active \ {f} ELSE active \cup {f}
      BY <2>3
    <3>2. CASE f \in active
      <4>1. active' \ active = {} /\ active' \subseteq active
        BY <3>1, <3>2
      <4>2. derate' = derate
        BY <1>2, <4>1 DEF DetectM
      <4>3. QED
        BY <2>1, <4>1, <4>2
    <3>3. CASE f \notin active
      <4>1. active' \ active = {f} /\ active' = active \cup {f} /\ active' \subseteq MFaults
        BY <3>1, <3>3
      <4>2. (CHOOSE g \in active' \ active : TRUE) = f
        BY <4>1
      <4>3. derate' = IF f \in DOMAIN Derate THEN Least2(derate, Derate[f]) ELSE derate
        BY <1>2, <4>1, <4>2 DEF DetectM
      <4>4. /\ derate' \in 0 .. 100 /\ derate' <= derate
            /\ f \in DOMAIN Derate => derate' <= Derate[f]
        BY <4>3, BankAssumption DEF Least2
      <4>5. \A g \in active' \cap DOMAIN Derate : derate' <= Derate[g]
        BY <4>1, <4>4, BankAssumption
      <4>6. QED
        BY <2>1, <4>1, <4>4, <4>5
    <3>4. QED
      BY <3>2, <3>3
  <2>4. QED
    BY <1>2, <2>2, <2>3 DEF DetectM
<1>3. CASE ReadPulse
  BY <1>3 DEF ReadPulse
<1>4. CASE bms_charge_power_limit
  <2>1. /\ UNCHANGED <<up, active, afault, derate, bitmap, list, timerAt, quiet>>
        /\ doAt.at = "write" /\ doAt' = [doAt EXCEPT !.at = "afaults"]
        /\ limits' = [limits EXCEPT !.cont = (doAt.read * derate) \div 100]
    BY <1>4 DEF bms_charge_power_limit, Detecting
  <2>2. (doAt.read * derate) \div 100 \in 0 .. Summed(Racks)
    <3>1. Summed(Racks) \in Nat /\ doAt.read \in Nat /\ doAt.read <= Summed(Racks)
            /\ derate \in 0 .. 100
      BY SummedNat
    <3>2. (doAt.read * derate) \div 100 \in 0 .. doAt.read
      BY <3>1, DeratedLimit
    <3> DEFINE x == (doAt.read * derate) \div 100
    <3>3. QED
      <4>1. x \in 0 .. doAt.read
        BY <3>2
      <4> HIDE DEF x
      <4>2. x \in 0 .. Summed(Racks)
        BY <3>1, <4>1
      <4>3. QED
        BY <4>2 DEF x
  <2>3. BankState'
    BY <2>1, <2>2
  <2>4. quiet => Derated'
    BY <2>1
  <2>5. QED
    BY <2>1, <2>3, <2>4
<1>5. CASE DetectA
  <2>1. /\ bms_update_a_fault_value["one"] = (up # Racks)
        /\ bms_update_a_fault_value["all"] = (up = {})
    BY DEF bms_update_a_fault_value
  <2>2. \A f \in {"one", "all"} : bms_update_a_fault_value[f] \in BOOLEAN
    BY <2>1
  <2>3. afault' \in [{"one", "all"} -> [fault : BOOLEAN, trig : ATimes, rec : ATimes]]
    BY <1>5, <2>2, DetectedAFault DEF DetectA
  <2>4. QED
    BY <1>5, <2>3 DEF DetectA, Detecting
<1>6. CASE ClearBitmap
  BY <1>6 DEF ClearBitmap, Detecting
<1>7. CASE SetBit
  BY <1>7 DEF SetBit
<1>8. CASE sync_m_fault_to_rtdb
  BY <1>8 DEF sync_m_fault_to_rtdb, Detecting
<1>9. CASE SumCont
  <2>1. Summed(up) \in 0 .. Summed(Racks)
    BY SummedNat
  <2>2. QED
    BY <1>9, <2>1 DEF SumCont, TimerStep
<1>10. CASE SumPulse
  <2>1. Summed(up) \in 0 .. Summed(Racks)
    BY SummedNat
  <2>2. QED
    BY <1>10, <2>1 DEF SumPulse, TimerStep
<1>11. CASE CopyBitmap
  BY <1>11 DEF CopyBitmap
<1>12. CASE StoreList
  BY <1>12 DEF StoreList
<1>13. CASE UNCHANGED bankVars
  BY <1>13 DEF bankVars
<1>14. QED
  BY <1>1, <1>2, <1>3, <1>4, <1>5, <1>6, <1>7, <1>8, <1>9, <1>10, <1>11, <1>12, <1>13 DEF BankNext

\* The times of an A-core fault go on counting, to the trigger time.
LEMMA CountMonotone ==
  ASSUME NEW s \in ATimes, NEW t \in ATimes, s = -1 \/ s <= t
  PROVE  Count(s) <= Count(t) /\ Count(s) \in 0 .. LostTime /\ Count(t) \in 0 .. LostTime
BY BankAssumption DEF ATimes, Count, Least2

\* Where the loss of all racks is enabled only together with the loss of one, each
\* step keeps the loss of one ahead.
LEMMA LeadsStep ==
  ASSUME "all" \in Enabled => "one" \in Enabled, BankInv, OneLeadsAll, AllClear, [BankNext]_bankVars
  PROVE  OneLeadsAll' /\ AllClear'
<1>1. CASE DetectA
  <2> DEFINE one == afault["one"]
             all == afault["all"]
             lost == up # Racks
             allLost == up = {}
  <2>1. /\ one \in [fault : BOOLEAN, trig : ATimes, rec : ATimes]
        /\ all \in [fault : BOOLEAN, trig : ATimes, rec : ATimes]
    BY DEF BankInv, BankState
  <2>2. /\ afault'["one"] = detect_a_fault("one", lost)
        /\ afault'["all"] = detect_a_fault("all", allLost)
    BY <1>1 DEF DetectA, bms_update_a_fault_value, BankInv, BankState
  <2>3. allLost => lost
    BY BankAssumption
  <2>4. /\ all.trig = -1 \/ all.trig <= one.trig
        /\ all.fault => one.fault
        /\ all.fault => one.rec = -1 \/ one.rec <= all.rec
    BY <2>1 DEF OneLeadsAll, ATimes
  <2>5. -1 \in ATimes
    BY BankAssumption DEF ATimes
  <2>6. /\ Count(all.trig) <= Count(one.trig) /\ Count(all.trig) \in 0 .. LostTime
        /\ Count(one.trig) \in 0 .. LostTime
    BY <2>1, <2>4, CountMonotone
  <2>7. all.fault => /\ Count(one.rec) <= Count(all.rec) /\ Count(all.rec) \in 0 .. LostTime
                     /\ Count(one.rec) \in 0 .. LostTime
    BY <2>1, <2>4, CountMonotone
  <2>8. LostTime \in Nat
    BY BankAssumption
  <2>9. CASE "all" \notin Enabled
    <3>1. afault'["all"] = all
      BY <2>2, <2>9 DEF detect_a_fault
    <3>2. all = Clear
      BY <2>9 DEF AllClear
    <3>3. QED
      BY <3>1, <3>2 DEF OneLeadsAll, AllClear, Clear
  <2>10. CASE "all" \in Enabled /\ allLost
    <3>1. /\ afault'["one"] = [fault |-> one.fault \/ Count(one.trig) = LostTime,
                               trig |-> Count(one.trig), rec |-> -1]
          /\ afault'["all"] = [fault |-> all.fault \/ Count(all.trig) = LostTime,
                               trig |-> Count(all.trig), rec |-> -1]
      BY <2>2, <2>3, <2>10 DEF detect_a_fault
    <3>2. Count(all.trig) = LostTime => Count(one.trig) = LostTime
      BY <2>6, <2>8
    <3>3. afault'["all"].fault => afault'["one"].fault
      <4>1. /\ afault'["one"].fault = (one.fault \/ Count(one.trig) = LostTime)
            /\ afault'["all"].fault = (all.fault \/ Count(all.trig) = LostTime)
        BY <3>1
      <4>2. QED
        BY <2>4, <3>2, <4>1
    <3>4. afault'["one"].rec = -1 /\ afault'["all"].trig <= afault'["one"].trig
      BY <2>6, <3>1
    <3>5. QED
      BY <2>6, <2>8, <2>10, <3>1, <3>3, <3>4 DEF OneLeadsAll, AllClear
  <2>11. CASE "all" \in Enabled /\ ~allLost /\ lost
    <3>1. /\ afault'["one"].rec = -1 /\ (one.fault => afault'["one"].fault)
          /\ afault'["all"].trig = -1 /\ (afault'["all"].fault => all.fault)
      <4>1. afault'["one"] = [fault |-> one.fault \/ Count(one.trig) = LostTime,
                              trig |-> Count(one.trig), rec |-> -1]
        BY <2>2, <2>11 DEF detect_a_fault
      <4>2. afault'["all"] = IF all.fault /\ Count(all.rec) # LostTime
                             THEN [fault |-> TRUE, trig |-> -1, rec |-> Count(all.rec)] ELSE Clear
        BY <2>2, <2>11 DEF detect_a_fault
      <4>3. QED
        <5>1. afault'["one"].fault = (one.fault \/ Count(one.trig) = LostTime)
          BY <4>1
        <5>2. afault'["one"].rec = -1
          BY <4>1
        <5>3. afault'["all"].trig = -1 /\ (afault'["all"].fault => all.fault)
          BY <4>2 DEF Clear
        <5>4. QED
          BY <5>1, <5>2, <5>3
    <3>2. QED
      BY <2>4, <2>11, <3>1 DEF OneLeadsAll, AllClear
  <2>12. CASE "all" \in Enabled /\ ~allLost /\ ~lost
    <3>1. /\ afault'["one"] = IF one.fault /\ Count(one.rec) # LostTime
                              THEN [fault |-> TRUE, trig |-> -1, rec |-> Count(one.rec)] ELSE Clear
          /\ afault'["all"] = IF all.fault /\ Count(all.rec) # LostTime
                              THEN [fault |-> TRUE, trig |-> -1, rec |-> Count(all.rec)] ELSE Clear
      BY <2>2, <2>12 DEF detect_a_fault
    <3>2. all.fault /\ Count(all.rec) # LostTime => Count(one.rec) # LostTime
      BY <2>7, <2>8
    <3>3. CASE all.fault /\ Count(all.rec) # LostTime
      BY <2>4, <2>7, <2>12, <3>1, <3>2, <3>3 DEF OneLeadsAll, AllClear
    <3>4. CASE ~(all.fault /\ Count(all.rec) # LostTime)
      BY <2>12, <3>1, <3>4 DEF OneLeadsAll, AllClear, Clear
    <3>5. QED
      BY <3>3, <3>4
  <2>13. QED
    BY <2>9, <2>10, <2>11, <2>12
<1>2. CASE UNCHANGED afault
  BY <1>2 DEF OneLeadsAll, AllClear
<1>3. QED
  BY <1>1, <1>2 DEF BankNext, bankVars, RackFlips, DetectM, ReadPulse, bms_charge_power_limit,
     ClearBitmap, SetBit, sync_m_fault_to_rtdb, SumCont, SumPulse, CopyBitmap, StoreList

\* The times of the A-core faults stay between -1 and the trigger time, the ratio
\* between 0 and 100 (app_bms_fault.c, app_bms_ctrl.c).
THEOREM BankTypeCorrect == BankSpec => []BankTypeOK
<1>1. BankInv => BankTypeOK
  <2> SUFFICES ASSUME BankInv PROVE BankTypeOK
    OBVIOUS
  <2>1. DOMAIN afault = {"one", "all"}
    BY DEF BankInv, BankState
  <2>2. QED
    BY <2>1 DEF BankInv, BankState, BankTypeOK, ATimes
<1>2. QED
  BY <1>1, BankInitInv, BankStep, PTL DEF BankSpec

\* What the invariant says at the end of a pass.
LEMMA QuietPass == BankInv => QuietPassRepairs
<1> SUFFICES ASSUME BankInv, doAt.at = "detect", quiet
             PROVE  /\ list = Raised /\ Derated
                    /\ \A f \in active \cap DOMAIN Derate :
                         100 * limits.cont <= limits.pulse * Derate[f]
  BY DEF QuietPassRepairs, Derated
<1>1. list = Raised /\ Derated
  BY DEF BankInv, PassSoFar
<1>2. limits.pulse \in Nat /\ derate \in 0 .. 100
  BY SummedNat DEF BankInv, BankState
<1>3. ASSUME NEW f \in active \cap DOMAIN Derate
      PROVE  100 * limits.cont <= limits.pulse * Derate[f]
  <2>1. derate <= Derate[f] /\ Derate[f] \in Nat
    BY <1>2, BankAssumption DEF BankInv, DeratedForRaised
  <2>2. 100 * limits.cont <= limits.pulse * derate
    BY <1>1, <1>2, DeratedLimit DEF Derated
  <2>3. \A a, b, c \in Nat : a <= b => c * a \in Nat /\ c * b \in Nat /\ c * a <= c * b
    OBVIOUS
  <2>4. limits.pulse * derate \in Nat /\ limits.pulse * Derate[f] \in Nat
        /\ limits.pulse * derate <= limits.pulse * Derate[f]
    BY <1>2, <2>1, <2>3
  <2>5. limits.cont \in Nat
    BY SummedNat DEF BankInv, BankState
  <2>6. QED
    BY <2>2, <2>4, <2>5
<1>4. QED
  BY <1>1, <1>3

\* For every number of racks and faults: after a pass of the DO thread during which
\* the timer thread stood still, the list and the derated limit are those of the
\* raised faults, whatever the threads overwrote before (app_bms_fault.c).
THEOREM BankQuietPassRepairs == BankSpec => []QuietPassRepairs
BY QuietPass, BankInitInv, BankStep, PTL DEF BankSpec

\* For every trigger time: all racks are lost only if one is, and a quiet pass repairs
\* the list and the limit.  The table of app_bms_fault.c enables both faults of the
\* RBMS communication, which is the hypothesis.
THEOREM BankFaultsAgree ==
  ("all" \in Enabled => "one" \in Enabled) => (BankSpec => []StackFaultsAgree)
<1> SUFFICES ASSUME "all" \in Enabled => "one" \in Enabled
             PROVE  BankSpec => []StackFaultsAgree
  OBVIOUS
<1>1. BankInit => OneLeadsAll /\ AllClear
  BY DEF BankInit, OneLeadsAll, AllClear, Clear
<1>2. BankInv /\ OneLeadsAll /\ AllClear /\ [BankNext]_bankVars => OneLeadsAll' /\ AllClear'
  BY LeadsStep
<1>3. OneLeadsAll => AllLostImpliesOne
  BY DEF OneLeadsAll, AllLostImpliesOne
<1>4. QED
  BY <1>1, <1>2, <1>3, QuietPass, BankInitInv, BankStep, PTL DEF BankSpec, StackFaultsAgree

-----------------------------------------------------------------------------
(* The choice of clusters.                                                   *)

\* Min gives the least of a set of numbers that is not empty.
LEMMA LeastNumber ==
  ASSUME NEW S, S \subseteq Nat, S # {}
  PROVE  Min(S) \in S /\ \A k \in S : Min(S) <= k
<1>1. PICK m \in S : \A j \in S : ~ (<<j, m>> \in OpToRel(<, Nat))
  BY ONLY S \subseteq Nat, S # {}, NatLessThanWellFounded, WFMin
<1>2. \A j \in S : m <= j
  <2>1. ASSUME NEW j \in S, j < m
        PROVE  FALSE
    BY <1>1, <2>1 DEF OpToRel
  <2>2. QED
    BY <2>1
<1>3. QED
  BY <1>2 DEF Min

\* Induction over numbers, with the set of the exceptions in place of a predicate.
LEMMA NoException ==
  ASSUME NEW T, T \subseteq Nat, 0 \notin T, \A k \in Nat : k \notin T => k + 1 \notin T
  PROVE  T = {}
<1> SUFFICES ASSUME T # {}
             PROVE  FALSE
  OBVIOUS
<1>1. PICK first \in T : \A k \in T : first <= k
  BY LeastNumber
<1>2. first - 1 \in Nat /\ (first - 1) + 1 = first /\ ~ (first <= first - 1)
  OBVIOUS
<1>3. first - 1 \notin T
  BY <1>1, <1>2
<1>4. QED
  BY <1>2, <1>3

\* A strict order of the elements of a set.
Orders(R, S) ==
  /\ \A a \in S : <<a, a>> \notin R
  /\ \A a, b, c \in S : <<a, b>> \in R /\ <<b, c>> \in R => <<a, c>> \in R
  /\ \A a, b \in S : a # b => <<a, b>> \in R \/ <<b, a>> \in R

Before(R, S, a) == {d \in S : <<d, a>> \in R}

\* An element has fewer elements before it than the elements behind it have.
LEMMA PlacesDiffer ==
  ASSUME NEW S, IsFiniteSet(S), NEW R, Orders(R, S), NEW a \in S
  PROVE  /\ Cardinality(Before(R, S, a)) \in 0 .. Cardinality(S) - 1
         /\ \A b \in S : <<a, b>> \in R
              => Cardinality(Before(R, S, a)) < Cardinality(Before(R, S, b))
<1>1. \A T \in SUBSET S : IsFiniteSet(T) /\ Cardinality(T) \in Nat
  BY FS_Subset, FS_CardinalityType
<1>2. ASSUME NEW T \in SUBSET S, NEW U \in SUBSET T, NEW x \in T, x \notin U
      PROVE  Cardinality(U) < Cardinality(T)
  <2>1. IsFiniteSet(T) /\ Cardinality(T) \in Nat /\ Cardinality(U) \in Nat
    BY <1>1
  <2>2. IsFiniteSet(T \ {x}) /\ Cardinality(T \ {x}) = Cardinality(T) - 1
    BY <2>1, FS_RemoveElement
  <2>3. U \in SUBSET (T \ {x})
    BY <1>2
  <2>4. Cardinality(U) <= Cardinality(T \ {x})
    BY <2>2, <2>3, FS_Subset
  <2>5. QED
    BY <2>1, <2>2, <2>4
<1>3. Before(R, S, a) \in SUBSET S /\ a \notin Before(R, S, a)
  BY DEF Before, Orders
<1>4. Cardinality(Before(R, S, a)) < Cardinality(S)
  BY <1>2, <1>3
<1>5. ASSUME NEW b \in S, <<a, b>> \in R
      PROVE  Cardinality(Before(R, S, a)) < Cardinality(Before(R, S, b))
  <2>1. /\ Before(R, S, b) \in SUBSET S /\ Before(R, S, a) \in SUBSET Before(R, S, b)
        /\ a \in Before(R, S, b)
    BY <1>5 DEF Before, Orders
  <2>2. QED
    BY <1>2, <1>3, <2>1
<1>6. QED
  BY <1>1, <1>3, <1>4, <1>5

\* What Ranked returns: every element once, in the order.
LEMMA RankedFacts ==
  ASSUME NEW S, IsFiniteSet(S), NEW R, Orders(R, S)
  PROVE  /\ Ranked(S, R) \in Seq(S) /\ Len(Ranked(S, R)) = Cardinality(S)
         /\ Cardinality(S) \in Nat
         /\ \A i, j \in 1 .. Cardinality(S) : i < j => <<Ranked(S, R)[i], Ranked(S, R)[j]>> \in R
         /\ \A c \in S : \E i \in 1 .. Cardinality(S) : Ranked(S, R)[i] = c
<1> DEFINE n == Cardinality(S)
           place(a) == Cardinality(Before(R, S, a))
           f == [a \in S |-> place(a)]
           r == Ranked(S, R)
<1>1. n \in Nat
  BY FS_CardinalityType
<1>2. \A a \in S : place(a) \in 0 .. n - 1
  BY PlacesDiffer
<1>3. \A a, b \in S : <<a, b>> \in R => place(a) < place(b)
  BY PlacesDiffer
<1> HIDE DEF place
<1>4. ASSUME NEW a \in S, NEW b \in S, place(a) = place(b)
      PROVE  a = b
  <2>1. place(a) \in Nat /\ place(b) \in Nat
    BY <1>1, <1>2
  <2>2. <<a, b>> \notin R /\ <<b, a>> \notin R
    <3>1. ~ (place(a) < place(b)) /\ ~ (place(b) < place(a))
      BY <1>4, <2>1
    <3>2. QED
      BY <1>3, <3>1
  <2>3. QED
    BY <2>2 DEF Orders
<1>5. f \in Injection(S, 0 .. n - 1)
  BY <1>2, <1>4 DEF Injection, IsInjective
<1>6. IsFiniteSet(0 .. n - 1) /\ Cardinality(0 .. n - 1) = n
  BY <1>1, FS_Interval
<1>7. f \in Surjection(S, 0 .. n - 1)
  BY <1>5, <1>6, FS_Injection
<1>8. \A k \in 0 .. n - 1 : \E a \in S : place(a) = k
  BY <1>7 DEF Surjection
<1>9. DOMAIN r = 1 .. n /\ \A i \in 1 .. n : r[i] \in S /\ place(r[i]) = i - 1
  <2>1. r = [i \in 1 .. n |-> CHOOSE c \in S : place(c) = i - 1]
    BY DEF Ranked, place, Before
  <2>2. ASSUME NEW i \in 1 .. n
        PROVE  r[i] \in S /\ place(r[i]) = i - 1
    <3>1. i - 1 \in 0 .. n - 1
      BY <1>1
    <3>2. \E c \in S : place(c) = i - 1
      BY <1>8, <3>1
    <3>3. r[i] = CHOOSE c \in S : place(c) = i - 1
      BY <2>1
    <3> HIDE DEF r
    <3>4. QED
      BY <3>2, <3>3
  <2>3. QED
    BY <2>1, <2>2
<1>10. r \in Seq(S) /\ Len(r) = n
  <2>1. r = [i \in 1 .. n |-> r[i]]
    <3> DEFINE e(i) == CHOOSE c \in S : Cardinality({d \in S : <<d, c>> \in R}) = i - 1
    <3>1. r = [i \in 1 .. n |-> e(i)]
      BY DEF Ranked
    <3> HIDE DEF e, r
    <3>2. QED
      BY <3>1
  <2> HIDE DEF r
  <2>2. r \in [1 .. n -> S]
    BY <1>9, <2>1
  <2>3. QED
    BY <1>1, <2>2
<1> HIDE DEF r
<1>11. \A i, j \in 1 .. n : i < j => <<r[i], r[j]>> \in R
  <2> SUFFICES ASSUME NEW i \in 1 .. n, NEW j \in 1 .. n, i < j
               PROVE  <<r[i], r[j]>> \in R
    OBVIOUS
  <2>1. r[i] \in S /\ r[j] \in S /\ place(r[i]) < place(r[j])
    BY <1>1, <1>9
  <2>2. r[i] # r[j]
    BY <1>2, <2>1
  <2>3. <<r[j], r[i]>> \notin R
    BY <1>2, <1>3, <2>1
  <2>4. QED
    BY <2>1, <2>2, <2>3 DEF Orders
<1>12. \A c \in S : \E i \in 1 .. n : r[i] = c
  <2> SUFFICES ASSUME NEW c \in S
               PROVE  r[place(c) + 1] = c /\ place(c) + 1 \in 1 .. n
    OBVIOUS
  <2>1. place(c) + 1 \in 1 .. n /\ (place(c) + 1) - 1 = place(c)
    BY <1>1, <1>2
  <2>2. QED
    BY <1>4, <1>9, <2>1
<1>13. QED
  BY <1>1, <1>10, <1>11, <1>12 DEF r

-----------------------------------------------------------------------------
(* The candidates and their order.                                           *)

\* The candidates are some of the clusters, of which there are N.
LEMMA CandidateFacts ==
  ASSUME NEW cl
  PROVE  /\ Candidates(cl) \subseteq Clusters /\ IsFiniteSet(Candidates(cl))
         /\ IsFiniteSet(Clusters) /\ Clusters \subseteq Int /\ Cardinality(Clusters) = N
<1>1. N \in Nat /\ RbmsNum \in Nat
  BY ChoiceAssumption
<1>2. Min({RbmsNum, N}) \in Int /\ Min({RbmsNum, N}) <= N
  <2>1. {RbmsNum, N} \subseteq Nat /\ {RbmsNum, N} # {} /\ N \in {RbmsNum, N}
    BY <1>1
  <2>2. Min({RbmsNum, N}) \in {RbmsNum, N} /\ Min({RbmsNum, N}) <= N
    BY ONLY <2>1, LeastNumber
  <2>3. QED
    BY <1>1, <2>2
<1>3. Candidates(cl) \in SUBSET Clusters
  BY <1>1, <1>2 DEF Candidates, Clusters
<1>4. IsFiniteSet(Clusters) /\ Cardinality(Clusters) = N /\ Clusters \subseteq Int
  BY <1>1, FS_Interval DEF Clusters
<1>5. QED
  BY <1>3, <1>4, FS_Subset

\* The candidates, in the order of their numbers.
LEMMA NumberedFacts ==
  ASSUME NEW cl
  PROVE  LET s == getBmsCandidateClusters(cl) IN
         /\ s \in Seq(Candidates(cl))
         /\ \A i, j \in 1 .. Len(s) : s[i] = s[j] => i = j
<1> DEFINE S == Candidates(cl)
           R == {p \in Clusters \X Clusters : p[1] < p[2]}
           s == getBmsCandidateClusters(cl)
<1>1. S \subseteq Int /\ S \subseteq Clusters /\ IsFiniteSet(S)
  BY CandidateFacts
<1>2. \A a, b \in S : <<a, b>> \in R <=> a < b
  BY <1>1
<1> HIDE DEF R, S
<1>3. Orders(R, S)
  BY <1>1, <1>2 DEF Orders
<1>4. s = Ranked(S, R)
  BY DEF getBmsCandidateClusters, S, R
<1> HIDE DEF s
<1>5. /\ s \in Seq(S) /\ Len(s) \in Nat
      /\ \A i, j \in 1 .. Len(s) : i < j => <<s[i], s[j]>> \in R
  BY <1>1, <1>3, <1>4, RankedFacts
<1>6. ASSUME NEW i \in 1 .. Len(s), NEW j \in 1 .. Len(s), s[i] = s[j]
      PROVE  i = j
  <2>1. s[i] \in S /\ <<s[i], s[i]>> \notin R
    BY <1>3, <1>5 DEF Orders
  <2>2. ~ (i < j) /\ ~ (j < i)
    BY <1>5, <1>6, <2>1
  <2>3. QED
    BY <1>5, <2>2
<1>7. QED
  BY <1>5, <1>6 DEF s, S

\* The candidates sorted: each is there once, and no voltage is below that of
\* the one before.
LEMMA SortedFacts ==
  ASSUME NEW cl, Measured(cl)
  PROVE  LET s == ByVoltage(cl) IN
         /\ s \in Seq(Candidates(cl)) /\ Len(s) = Cardinality(Candidates(cl))
         /\ \A i, j \in 1 .. Len(s) : s[i] = s[j] => i = j
         /\ \A i, j \in 1 .. Len(s) : i <= j => cl[s[i]].volt <= cl[s[j]].volt
         /\ \A c \in Candidates(cl) : \E i \in 1 .. Len(s) : s[i] = c
<1> DEFINE S == Candidates(cl)
           R == Lower(cl)
           s == ByVoltage(cl)
           v(c) == cl[c].volt
<1>1. S \subseteq Int /\ S \subseteq Clusters /\ IsFiniteSet(S) /\ \A c \in S : v(c) \in Int
  BY CandidateFacts DEF Measured
<1>2. \A a, b \in S : <<a, b>> \in R <=> v(a) < v(b) \/ (v(a) = v(b) /\ a < b)
  BY <1>1 DEF Lower
<1> HIDE DEF R, S, v
<1>3. Orders(R, S)
  <2>1. \A a \in S : <<a, a>> \notin R
    BY <1>1, <1>2
  <2>2. \A a, b, c \in S : <<a, b>> \in R /\ <<b, c>> \in R => <<a, c>> \in R
    BY <1>1, <1>2
  <2>3. \A a, b \in S : a # b => <<a, b>> \in R \/ <<b, a>> \in R
    BY <1>1, <1>2
  <2>4. QED
    BY <2>1, <2>2, <2>3 DEF Orders
<1>4. s = Ranked(S, R)
  BY DEF ByVoltage, S, R
<1> HIDE DEF s
<1>5. /\ s \in Seq(S) /\ Len(s) = Cardinality(S) /\ Len(s) \in Nat
      /\ \A i, j \in 1 .. Len(s) : i < j => <<s[i], s[j]>> \in R
      /\ \A c \in S : \E i \in 1 .. Len(s) : s[i] = c
  BY <1>1, <1>3, <1>4, RankedFacts
<1>6. ASSUME NEW i \in 1 .. Len(s), NEW j \in 1 .. Len(s), s[i] = s[j]
      PROVE  i = j
  <2>1. s[i] \in S /\ <<s[i], s[i]>> \notin R
    BY <1>3, <1>5 DEF Orders
  <2>2. ~ (i < j) /\ ~ (j < i)
    BY <1>5, <1>6, <2>1
  <2>3. QED
    BY <1>5, <2>2
<1>7. ASSUME NEW i \in 1 .. Len(s), NEW j \in 1 .. Len(s), i <= j
      PROVE  v(s[i]) <= v(s[j])
  <2>1. s[i] \in S /\ s[j] \in S /\ v(s[i]) \in Int /\ v(s[j]) \in Int
    <3>1. s[i] \in S /\ s[j] \in S
      BY <1>5
    <3>2. QED
      BY <1>1, <3>1
  <2>2. CASE i = j
    BY <2>1, <2>2
  <2>3. CASE i < j
    <3>1. <<s[i], s[j]>> \in R
      BY <1>5, <2>3
    <3>2. QED
      BY <1>2, <2>1, <3>1
  <2>4. QED
    BY <1>5, <1>7, <2>2, <2>3
<1>8. QED
  BY <1>5, <1>6, <1>7 DEF s, S, v

-----------------------------------------------------------------------------
(* The windows.                                                              *)

\* What the window that ends at tail holds: no voltage in it is too far below
\* that of tail, and those before it are.
LEMMA WindowFacts ==
  ASSUME NEW cl, NEW s \in Seq(Clusters), Measured(cl),
         \A i, j \in 1 .. Len(s) : i <= j => cl[s[i]].volt <= cl[s[j]].volt,
         NEW tail \in 1 .. Len(s)
  PROVE  LET w == Window(cl, s, tail) IN
         /\ w.start \in 1 .. tail /\ w.len = tail - w.start + 1
         /\ \A h \in 1 .. tail : cl[s[tail]].volt - cl[s[h]].volt <= AllowDiff <=> w.start <= h
<1> DEFINE v(i) == cl[s[i]].volt
           H == {h \in 1 .. tail : v(tail) - v(h) <= AllowDiff}
           w == Window(cl, s, tail)
<1>1. /\ Len(s) \in Nat /\ AllowDiff \in Nat /\ tail \in Nat
      /\ \A i \in 1 .. Len(s) : v(i) \in Int
  BY ChoiceAssumption DEF Measured
<1>2. \A i, j \in 1 .. Len(s) : i <= j => v(i) <= v(j)
  OBVIOUS
<1>3. w.start = Min(H) /\ w.len = tail - Min(H) + 1
  BY DEF Window
<1> HIDE DEF v, w
<1>4. H \subseteq Nat /\ tail \in H
  BY <1>1
<1>5. Min(H) \in H /\ \A k \in H : Min(H) <= k
  <2>1. H \subseteq Nat /\ H # {}
    BY <1>4
  <2> HIDE DEF H
  <2>2. QED
    BY <2>1, LeastNumber
<1>6. ASSUME NEW h \in 1 .. tail, Min(H) <= h
      PROVE  v(tail) - v(h) <= AllowDiff
  <2>1. h \in 1 .. Len(s) /\ Min(H) \in 1 .. Len(s) /\ tail \in 1 .. Len(s)
    BY <1>1, <1>5
  <2>2. v(Min(H)) <= v(h)
    BY <1>2, <1>6, <2>1
  <2>3. v(tail) - v(Min(H)) <= AllowDiff
    BY <1>5
  <2>4. v(tail) \in Int /\ v(h) \in Int /\ v(Min(H)) \in Int
    BY <1>1, <2>1
  <2>5. QED
    BY <1>1, <2>2, <2>3, <2>4
<1>7. \A h \in 1 .. tail : v(tail) - v(h) <= AllowDiff => Min(H) <= h
  BY <1>5
<1>8. Min(H) \in 1 .. tail
  BY <1>5
<1>9. QED
  BY <1>3, <1>6, <1>7, <1>8 DEF v, w

\* No window is longer than the best one.
LEMMA BestFacts ==
  ASSUME NEW cl, NEW s \in Seq(Clusters), s # <<>>, Measured(cl),
         \A i, j \in 1 .. Len(s) : i <= j => cl[s[i]].volt <= cl[s[j]].volt
  PROVE  \E t \in 1 .. Len(s) :
           /\ BestWindow(cl, s) = Window(cl, s, t)
           /\ \A u \in 1 .. Len(s) : Window(cl, s, u).len <= Window(cl, s, t).len
<1> DEFINE len(t) == Window(cl, s, t).len
           W == {t \in DOMAIN s : \A u \in DOMAIN s : len(u) <= len(t)}
           Short == {Len(s) - len(t) : t \in DOMAIN s}
<1>1. Len(s) \in Nat /\ DOMAIN s = 1 .. Len(s) /\ 1 \in DOMAIN s
  BY EmptySeq
<1>2. \A t \in DOMAIN s : len(t) \in 1 .. Len(s)
  <2> SUFFICES ASSUME NEW t \in 1 .. Len(s)
               PROVE  Window(cl, s, t).len \in 1 .. Len(s)
    BY <1>1
  <2> DEFINE w == Window(cl, s, t)
  <2>1. w.start \in 1 .. t /\ w.len = t - w.start + 1
    BY WindowFacts
  <2> HIDE DEF w
  <2>2. w.len \in 1 .. Len(s)
    BY <1>1, <2>1
  <2>3. QED
    BY <2>2 DEF w
<1>3. BestWindow(cl, s) = Window(cl, s, Min(W))
  BY DEF BestWindow
<1> HIDE DEF len
<1>4. PICK t \in DOMAIN s : \A u \in DOMAIN s : Len(s) - len(t) <= Len(s) - len(u)
  <2>1. Short \subseteq Nat /\ Short # {}
    BY <1>1, <1>2
  <2>2. Min(Short) \in Short /\ \A k \in Short : Min(Short) <= k
    <3> HIDE DEF Short
    <3> QED
      BY <2>1, LeastNumber
  <2>3. QED
    BY <2>2
<1>5. t \in W
  BY <1>1, <1>2, <1>4
<1>6. Min(W) \in W
  <2>1. W \subseteq Nat /\ W # {}
    BY <1>1, <1>5
  <2> HIDE DEF W
  <2>2. QED
    BY <2>1, LeastNumber
<1>7. Min(W) \in 1 .. Len(s) /\ \A u \in 1 .. Len(s) : len(u) <= len(Min(W))
  BY <1>1, <1>6
<1>8. QED
  BY <1>3, <1>7 DEF len

-----------------------------------------------------------------------------
(* The choice.                                                               *)

\* The choice of the central mode: nothing, or the best of the windows.
LEMMA CentralChoice ==
  ASSUME NEW cl, Measured(cl)
  PROVE  LET s == ByVoltage(cl)
             c == buildValidClusterSet(cl, "central")
         IN  \/ c = <<>> /\ (s = <<>> \/ \A u \in 1 .. Len(s) : Window(cl, s, u).len < MinClusters)
             \/ \E t \in 1 .. Len(s) : LET w == Window(cl, s, t) IN
                  /\ c \in Seq(Candidates(cl)) /\ Len(c) = w.len /\ Len(c) >= MinClusters
                  /\ w.start \in 1 .. t /\ w.len = t - w.start + 1
                  /\ \A i \in 1 .. w.len : c[i] = s[w.start + i - 1]
                  /\ \A u \in 1 .. Len(s) : Window(cl, s, u).len <= w.len
<1> DEFINE s == ByVoltage(cl)
           b == BestWindow(cl, s)
           c == buildValidClusterSet(cl, "central")
<1>1. c = IF s # <<>> /\ b.len >= MinClusters THEN SubSeq(s, b.start, b.start + b.len - 1) ELSE <<>>
  BY DEF buildValidClusterSet
<1>2. /\ s \in Seq(Candidates(cl)) /\ s \in Seq(Clusters)
      /\ \A i, j \in 1 .. Len(s) : i <= j => cl[s[i]].volt <= cl[s[j]].volt
  BY SortedFacts, CandidateFacts
<1> HIDE DEF s, c
<1>3. CASE s = <<>>
  BY <1>1, <1>3 DEF s, c
<1>4. CASE s # <<>>
  <2>1. PICK t \in 1 .. Len(s) :
          /\ b = Window(cl, s, t)
          /\ \A u \in 1 .. Len(s) : Window(cl, s, u).len <= Window(cl, s, t).len
    BY <1>2, <1>4, BestFacts
  <2> DEFINE w == Window(cl, s, t)
  <2>2. w.start \in 1 .. t /\ w.len = t - w.start + 1
    BY <1>2, WindowFacts
  <2>3. Len(s) \in Nat /\ t \in Nat /\ MinClusters \in Nat
    BY <1>2, ChoiceAssumption
  <2>4. \A u \in 1 .. Len(s) : Window(cl, s, u).len \in Int
    <3> SUFFICES ASSUME NEW u \in 1 .. Len(s)
                 PROVE  Window(cl, s, u).len \in Int
      OBVIOUS
    <3> DEFINE x == Window(cl, s, u)
    <3>1. x.start \in 1 .. u /\ x.len = u - x.start + 1
      BY <1>2, WindowFacts
    <3> HIDE DEF x
    <3>2. x.len \in Int
      BY <3>1
    <3>3. QED
      BY <3>2 DEF x
  <2>5. CASE w.len >= MinClusters
    <3>1. c = SubSeq(s, w.start, t)
      <4>1. w.start + w.len - 1 = t
        BY <2>2, <2>3
      <4>2. QED
        BY <1>1, <1>4, <2>1, <2>5, <4>1
    <3> HIDE DEF w
    <3>2. /\ c \in Seq(Candidates(cl)) /\ Len(c) = w.len
          /\ \A i \in 1 .. w.len : c[i] = s[w.start + i - 1]
      <4>1. w.start \in 1 .. t + 1 /\ t \in w.start .. Len(s) /\ w.start \in 1 .. Len(s)
        BY <2>2, <2>3
      <4>2. /\ c \in Seq(Candidates(cl)) /\ Len(c) = t - w.start + 1
            /\ \A i \in 1 .. t - w.start + 1 : c[i] = s[w.start + i - 1]
        BY <1>2, <2>2, <2>3, <3>1, <4>1, SubSeqProperties
      <4>3. QED
        BY <2>2, <4>2
    <3>3. QED
      BY <2>1, <2>2, <2>5, <3>2 DEF s, c, w
  <2>6. CASE ~ (w.len >= MinClusters)
    <3>1. c = <<>>
      BY <1>1, <2>1, <2>6
    <3>2. \A u \in 1 .. Len(s) : Window(cl, s, u).len < MinClusters
      BY <2>1, <2>3, <2>4, <2>6
    <3>3. QED
      BY <3>1, <3>2 DEF s, c
  <2>7. QED
    BY <2>5, <2>6
<1>5. QED
  BY <1>3, <1>4

\* No cluster is chosen twice.
LEMMA ChosenFacts ==
  ASSUME NEW cl, Measured(cl), NEW md
  PROVE  LET c == buildValidClusterSet(cl, md) IN
         /\ c \in Seq(Candidates(cl))
         /\ \A i, j \in 1 .. Len(c) : c[i] = c[j] => i = j
<1> DEFINE c == buildValidClusterSet(cl, md)
<1>1. CASE md = "distributed"
  <2>1. c = getBmsCandidateClusters(cl)
    BY <1>1 DEF buildValidClusterSet
  <2>2. QED
    BY <2>1, NumberedFacts
<1>2. CASE md = "central"
  <2> DEFINE s == ByVoltage(cl)
             d == buildValidClusterSet(cl, "central")
  <2>1. \A i, j \in 1 .. Len(s) : s[i] = s[j] => i = j
    BY SortedFacts
  <2>2. \/ d = <<>>
        \/ \E t \in 1 .. Len(s) : LET w == Window(cl, s, t) IN
             /\ d \in Seq(Candidates(cl)) /\ Len(d) = w.len
             /\ w.start \in 1 .. t /\ w.len = t - w.start + 1
             /\ \A i \in 1 .. w.len : d[i] = s[w.start + i - 1]
    BY CentralChoice
  <2>3. Len(s) \in Nat
    BY SortedFacts
  <2> HIDE DEF s, d
  <2>4. CASE d = <<>>
    <3>1. d \in Seq(Candidates(cl)) /\ 1 .. Len(d) = {}
      BY <2>4
    <3>2. QED
      BY <1>2, <3>1 DEF d
  <2>5. CASE d # <<>>
    <3>1. PICK t \in 1 .. Len(s) : LET w == Window(cl, s, t) IN
             /\ d \in Seq(Candidates(cl)) /\ Len(d) = w.len
             /\ w.start \in 1 .. t /\ w.len = t - w.start + 1
             /\ \A i \in 1 .. w.len : d[i] = s[w.start + i - 1]
      BY <2>2, <2>5
    <3> DEFINE a == Window(cl, s, t).start
    <3>2. /\ d \in Seq(Candidates(cl)) /\ Len(d) = t - a + 1 /\ a \in 1 .. t
          /\ \A i \in 1 .. Len(d) : d[i] = s[a + i - 1]
      BY <3>1
    <3> HIDE DEF a
    <3>3. ASSUME NEW i \in 1 .. Len(d), NEW j \in 1 .. Len(d), d[i] = d[j]
          PROVE  i = j
      <4>1. a + i - 1 \in 1 .. Len(s) /\ a + j - 1 \in 1 .. Len(s)
        BY <2>3, <3>2
      <4>2. a + i - 1 = a + j - 1
        BY <2>1, <3>2, <3>3, <4>1
      <4>3. QED
        BY <3>2, <4>2
    <3>4. QED
      BY <1>2, <3>2, <3>3 DEF d
  <2>6. QED
    BY <2>4, <2>5
<1>3. CASE md \notin {"central", "distributed"}
  <2>1. c = <<>>
    BY <1>3 DEF buildValidClusterSet
  <2>2. QED
    BY <2>1
<1>4. QED
  BY <1>1, <1>2, <1>3

\* Voltages in which no two differ too much.
Fits(cl, cs) == \A a, b \in cs : Diff(cl[a].volt, cl[b].volt) <= AllowDiff

\* The clusters of a window may be connected.
LEMMA WindowFits ==
  ASSUME NEW cl, Measured(cl)
  PROVE  Fits(cl, Range(buildValidClusterSet(cl, "central")))
<1> DEFINE s == ByVoltage(cl)
           c == buildValidClusterSet(cl, "central")
           v(i) == cl[s[i]].volt
<1>1. /\ s \in Seq(Clusters) /\ Len(s) \in Nat /\ AllowDiff \in Nat
      /\ \A i, j \in 1 .. Len(s) : i <= j => v(i) <= v(j)
      /\ \A i \in 1 .. Len(s) : v(i) \in Int
  <2>1. s \in Seq(Clusters) /\ \A i, j \in 1 .. Len(s) : i <= j => v(i) <= v(j)
    BY SortedFacts, CandidateFacts
  <2> HIDE DEF s
  <2>2. \A i \in 1 .. Len(s) : v(i) \in Int
    BY <2>1 DEF Measured
  <2>3. QED
    BY <2>1, <2>2, ChoiceAssumption
<1>2. \/ c = <<>>
      \/ \E t \in 1 .. Len(s) : LET w == Window(cl, s, t) IN
           /\ c \in Seq(Candidates(cl)) /\ Len(c) = w.len
           /\ w.start \in 1 .. t /\ w.len = t - w.start + 1
           /\ \A i \in 1 .. w.len : c[i] = s[w.start + i - 1]
  BY CentralChoice
<1> HIDE DEF c
<1>3. CASE c = <<>>
  <2>1. Range(c) = {}
    BY <1>3 DEF Range
  <2>2. QED
    BY <2>1 DEF Fits, c
<1>4. CASE c # <<>>
  <2>1. PICK t \in 1 .. Len(s) : LET w == Window(cl, s, t) IN
           /\ c \in Seq(Candidates(cl)) /\ Len(c) = w.len
           /\ w.start \in 1 .. t /\ w.len = t - w.start + 1
           /\ \A i \in 1 .. w.len : c[i] = s[w.start + i - 1]
    BY <1>2, <1>4
  <2> DEFINE a == Window(cl, s, t).start
  <2>2. \A h \in 1 .. t : v(t) - v(h) <= AllowDiff <=> a <= h
    <3> HIDE DEF s
    <3>1. \A i, j \in 1 .. Len(s) : i <= j => cl[s[i]].volt <= cl[s[j]].volt
      BY <1>1
    <3>2. QED
      BY <1>1, <3>1, WindowFacts
  <2>3. /\ c \in Seq(Candidates(cl)) /\ Len(c) = t - a + 1 /\ a \in 1 .. t
        /\ \A i \in 1 .. Len(c) : c[i] = s[a + i - 1]
    BY <2>1
  <2> HIDE DEF a, s
  <2>4. \A x \in Range(c) : \E i \in a .. t : x = s[i]
    <3> SUFFICES ASSUME NEW i \in 1 .. Len(c)
                 PROVE  \E j \in a .. t : c[i] = s[j]
      BY <2>3 DEF Range
    <3>1. a + i - 1 \in a .. t
      BY <2>3
    <3>2. QED
      BY <2>3, <3>1
  <2>5. ASSUME NEW i \in a .. t, NEW j \in a .. t
        PROVE  Diff(cl[s[i]].volt, cl[s[j]].volt) <= AllowDiff
    <3>1. /\ i \in 1 .. Len(s) /\ j \in 1 .. Len(s) /\ a \in 1 .. Len(s) /\ a \in 1 .. t
          /\ a <= i /\ a <= j /\ i <= t /\ j <= t /\ a <= a
      BY <1>1, <2>3
    <3>2. v(a) <= v(i) /\ v(i) <= v(t) /\ v(a) <= v(j) /\ v(j) <= v(t)
      BY <1>1, <3>1
    <3>3. v(t) - v(a) <= AllowDiff
      BY <2>2, <3>1
    <3>4. v(a) \in Int /\ v(i) \in Int /\ v(j) \in Int /\ v(t) \in Int
      BY <1>1, <3>1
    <3> HIDE DEF v
    <3>5. Diff(v(i), v(j)) <= AllowDiff
      BY <1>1, <3>2, <3>3, <3>4 DEF Diff
    <3>6. QED
      BY <3>5 DEF v
  <2>6. Fits(cl, Range(c))
    BY <2>4, <2>5 DEF Fits
  <2>7. QED
    BY <2>6 DEF c
<1>5. QED
  BY <1>3, <1>4

\* No larger set of candidates may be connected.
LEMMA NoLargerFits ==
  ASSUME NEW cl, Measured(cl), NEW cs \in SUBSET Candidates(cl), Fits(cl, cs),
         Cardinality(cs) >= MinClusters
  PROVE  Cardinality(cs) <= Len(buildValidClusterSet(cl, "central"))
<1> DEFINE s == ByVoltage(cl)
           c == buildValidClusterSet(cl, "central")
           v(i) == cl[s[i]].volt
           P == {i \in 1 .. Len(s) : s[i] \in cs}
<1>1. /\ s \in Seq(Clusters) /\ Len(s) \in Nat /\ AllowDiff \in Nat /\ MinClusters \in Nat
      /\ \A i, j \in 1 .. Len(s) : i <= j => v(i) <= v(j)
      /\ \A i \in 1 .. Len(s) : v(i) \in Int
      /\ \A x \in cs : \E i \in 1 .. Len(s) : s[i] = x
  <2>1. /\ s \in Seq(Clusters) /\ \A i, j \in 1 .. Len(s) : i <= j => v(i) <= v(j)
        /\ \A x \in cs : \E i \in 1 .. Len(s) : s[i] = x
    BY SortedFacts, CandidateFacts
  <2> HIDE DEF s
  <2>2. \A i \in 1 .. Len(s) : v(i) \in Int
    BY <2>1 DEF Measured
  <2>3. QED
    BY <2>1, <2>2, ChoiceAssumption
<1>2. \/ c = <<>> /\ (s = <<>> \/ \A u \in 1 .. Len(s) : Window(cl, s, u).len < MinClusters)
      \/ \E t \in 1 .. Len(s) :
           /\ c \in Seq(Candidates(cl)) /\ Len(c) = Window(cl, s, t).len
           /\ \A u \in 1 .. Len(s) : Window(cl, s, u).len <= Window(cl, s, t).len
  BY CentralChoice
<1>3. IsFiniteSet(cs) /\ Cardinality(cs) \in Nat
  <2>1. IsFiniteSet(cs)
    BY CandidateFacts, FS_Subset
  <2>2. QED
    BY <2>1, FS_CardinalityType
<1>4. Len(c) \in Nat
  BY ChosenFacts
<1> HIDE DEF s, c
<1>5. CASE cs = {}
  <2>1. Cardinality(cs) = 0
    BY <1>5, FS_EmptySet
  <2>2. QED
    BY <1>4, <2>1 DEF c
<1>6. CASE cs # {}
  <2>1. PICK h \in P : \A i \in P : h <= i
    <3>1. P \subseteq Nat /\ P # {}
      BY <1>1, <1>6
    <3> HIDE DEF P
    <3>2. QED
      BY <3>1, LeastNumber
  <2>2. PICK t \in P : \A i \in P : i <= t
    <3> DEFINE Q == {Len(s) - i : i \in P}
    <3>1. Q \subseteq Nat /\ Q # {}
      BY <1>1, <1>6
    <3>2. Min(Q) \in Q /\ \A k \in Q : Min(Q) <= k
      <4> HIDE DEF Q
      <4> QED
        BY <3>1, LeastNumber
    <3>3. PICK t \in P : Min(Q) = Len(s) - t
      BY <3>2
    <3>4. \A i \in P : Len(s) - t <= Len(s) - i
      BY <3>2, <3>3
    <3>5. \A i \in P : i \in Int
      OBVIOUS
    <3>6. \A i \in P : i <= t
      BY <1>1, <3>4, <3>5
    <3>7. QED
      BY <3>6
  <2>3. h \in 1 .. Len(s) /\ t \in 1 .. Len(s) /\ h \in 1 .. t
    BY <1>1, <2>1, <2>2
  <2>4. Cardinality(cs) <= t - h + 1
    <3> DEFINE g == [x \in cs |-> CHOOSE i \in 1 .. Len(s) : s[i] = x]
    <3>1. \A x \in cs : g[x] \in 1 .. Len(s) /\ s[g[x]] = x
      BY <1>1
    <3> HIDE DEF g
    <3>2. \A x \in cs : g[x] \in P
      BY <3>1
    <3>3. \A x \in cs : g[x] \in h .. t
      BY <2>1, <2>2, <3>2
    <3>4. g \in Injection(cs, h .. t)
      <4>1. g \in [cs -> h .. t]
        BY <3>3 DEF g
      <4>2. \A x, y \in cs : g[x] = g[y] => x = y
        BY <3>1
      <4>3. QED
        BY <4>1, <4>2 DEF Injection, IsInjective
    <3>5. IsFiniteSet(h .. t) /\ Cardinality(h .. t) = t - h + 1
      BY <2>3, FS_Interval
    <3>6. QED
      BY <3>4, <3>5, FS_Injection
  <2>5. v(t) - v(h) <= AllowDiff
    <3>1. Diff(v(t), v(h)) <= AllowDiff
      BY <2>1, <2>2 DEF Fits
    <3>2. v(t) \in Int /\ v(h) \in Int /\ v(h) <= v(t)
      BY <1>1, <2>3
    <3> HIDE DEF v
    <3>3. QED
      BY <3>1, <3>2 DEF Diff
  <2> DEFINE w == Window(cl, s, t)
  <2>6. w.start \in 1 .. t /\ w.len = t - w.start + 1 /\ w.start <= h
    <3>1. \A i, j \in 1 .. Len(s) : i <= j => cl[s[i]].volt <= cl[s[j]].volt
      BY <1>1
    <3>2. /\ w.start \in 1 .. t /\ w.len = t - w.start + 1
          /\ \A k \in 1 .. t : cl[s[t]].volt - cl[s[k]].volt <= AllowDiff <=> w.start <= k
      BY <1>1, <2>3, <3>1, WindowFacts
    <3>3. QED
      BY <2>3, <2>5, <3>2
  <2> HIDE DEF w
  <2>7. Cardinality(cs) <= w.len /\ w.len \in Int
    BY <1>3, <2>3, <2>4, <2>6
  <2>8. w.len <= Len(c)
    <3>1. CASE c = <<>> /\ (s = <<>> \/ \A u \in 1 .. Len(s) : Window(cl, s, u).len < MinClusters)
      <4>1. s # <<>>
        BY <2>3
      <4>2. w.len < MinClusters
        BY <2>3, <3>1, <4>1 DEF w
      <4>3. QED
        BY <1>1, <1>3, <2>7, <4>2
    <3>2. CASE \E u \in 1 .. Len(s) :
                 /\ Len(c) = Window(cl, s, u).len
                 /\ \A x \in 1 .. Len(s) : Window(cl, s, x).len <= Window(cl, s, u).len
      BY <2>3, <3>2 DEF w
    <3>3. QED
      BY <1>2, <3>1, <3>2
  <2>9. QED
    BY <1>3, <1>4, <2>7, <2>8 DEF c
<1>7. QED
  BY <1>5, <1>6

\* For any number of clusters and any voltages, the set chosen in the central
\* mode may be connected, and no larger set may.
THEOREM LargestSetIsChosen ==
  ASSUME NEW cl, Measured(cl)
  PROVE  LargestSetChosen(cl)
<1> DEFINE c == buildValidClusterSet(cl, "central")
<1>1. /\ c \in Seq(Candidates(cl))
      /\ \A i, j \in 1 .. Len(c) : c[i] = c[j] => i = j
  BY ChosenFacts
<1>2. Fits(cl, Range(c))
  BY WindowFits
<1>3. \A cs \in SUBSET Candidates(cl) :
        Fits(cl, cs) /\ Cardinality(cs) >= MinClusters => Cardinality(cs) <= Len(c)
  BY NoLargerFits
<1> HIDE DEF c
<1>4. IsInjective(c) /\ Range(c) \subseteq Candidates(cl)
  BY <1>1 DEF IsInjective, Range
<1>5. QED
  BY <1>2, <1>3, <1>4 DEF LargestSetChosen, Fits, c

\* The sums of the voltages of a list, one more at a time.
Adding(cl, cs, f, i) == IF i = 0 THEN 0 ELSE f[i - 1] + cl[cs[i]].volt
Adds(cl, cs, f, m) == f = [i \in 0 .. m |-> Adding(cl, cs, f, i)]

\* They exist.
LEMMA SumsExist ==
  ASSUME NEW cl, NEW cs, NEW m \in Nat
  PROVE  \E f : Adds(cl, cs, f, m)
<1> DEFINE T == {k \in Nat : ~ \E f : Adds(cl, cs, f, k)}
<1>1. 0 \notin T
  <2> DEFINE f == [i \in 0 .. 0 |-> 0]
  <2>1. f = [i \in 0 .. 0 |-> Adding(cl, cs, f, i)]
    BY DEF Adding
  <2>2. QED
    BY <2>1 DEF Adds
<1>2. ASSUME NEW k \in Nat, k \notin T
      PROVE  k + 1 \notin T
  <2>1. PICK f : Adds(cl, cs, f, k)
    BY <1>2
  <2> DEFINE g == [i \in 0 .. k + 1 |-> IF i = k + 1 THEN Adding(cl, cs, f, i) ELSE f[i]]
  <2>2. ASSUME NEW i \in 0 .. k + 1
        PROVE  g[i] = Adding(cl, cs, g, i)
    <3>1. i # k + 1 => i \in 0 .. k /\ f[i] = Adding(cl, cs, f, i)
      BY <2>1 DEF Adds
    <3>2. CASE i = 0
      BY <3>1, <3>2 DEF Adding
    <3>3. CASE i # 0
      <4>1. i - 1 \in 0 .. k /\ g[i - 1] = f[i - 1]
        BY <3>3
      <4>2. Adding(cl, cs, g, i) = Adding(cl, cs, f, i)
        BY <3>3, <4>1 DEF Adding
      <4>3. QED
        BY <3>1, <4>2
    <3>4. QED
      BY <3>2, <3>3
  <2>3. g = [i \in 0 .. k + 1 |-> Adding(cl, cs, g, i)]
    BY <2>2
  <2> HIDE DEF g
  <2>4. Adds(cl, cs, g, k + 1)
    BY <2>3 DEF Adds
  <2>5. QED
    BY <2>4
<1> HIDE DEF T
<1>3. T = {}
  <2>1. T \subseteq Nat
    BY DEF T
  <2>2. QED
    BY <1>1, <1>2, <2>1, NoException
<1>4. QED
  BY <1>3 DEF T

\* The master is one of the clusters of the list.
LEMMA MasterFacts ==
  ASSUME NEW cl, Measured(cl), NEW cs \in Seq(Clusters), cs # <<>>
  PROVE  getBmsMasterCluster(cl, cs) \in Range(cs)
<1> DEFINE n == Len(cs)
           v(i) == cl[cs[i]].volt
           sum == CHOOSE f : f = [i \in 0 .. n |-> IF i = 0 THEN 0 ELSE f[i - 1] + v(i)]
           Far(i) == Diff(v(i) * n, sum[n])
           nearest == {i \in DOMAIN cs : \A j \in DOMAIN cs : Far(i) <= Far(j)}
<1>1. getBmsMasterCluster(cl, cs) = cs[Min(nearest)]
  BY DEF getBmsMasterCluster
<1>2. n \in Nat /\ DOMAIN cs = 1 .. n /\ 1 \in DOMAIN cs /\ \A i \in 1 .. n : v(i) \in Int
  BY EmptySeq DEF Measured
<1>3. sum = [i \in 0 .. n |-> IF i = 0 THEN 0 ELSE sum[i - 1] + v(i)]
  <2>1. PICK f : Adds(cl, cs, f, n)
    BY <1>2, SumsExist
  <2>2. f = [i \in 0 .. n |-> IF i = 0 THEN 0 ELSE f[i - 1] + v(i)]
    BY <2>1 DEF Adds, Adding
  <2> HIDE DEF v
  <2>3. QED
    BY <2>2
<1> HIDE DEF sum, v
<1>4. sum[n] \in Int
  <2> DEFINE T == {i \in 0 .. n : sum[i] \notin Int}
  <2> SUFFICES ASSUME T # {}
               PROVE  FALSE
    BY <1>2
  <2>1. T \subseteq Nat
    OBVIOUS
  <2> HIDE DEF T
  <2>2. Min(T) \in T /\ \A k \in T : Min(T) <= k
    BY <2>1, LeastNumber
  <2> DEFINE m == Min(T)
  <2>3. m \in 0 .. n /\ sum[m] \notin Int
    BY <2>2 DEF T
  <2> HIDE DEF m
  <2>4. m # 0
    BY <1>3, <2>3
  <2>5. m - 1 \in 0 .. n /\ m - 1 \notin T
    BY <1>2, <2>1, <2>2, <2>3, <2>4 DEF m
  <2>6. sum[m - 1] \in Int /\ v(m) \in Int
    BY <1>2, <2>3, <2>4, <2>5 DEF T
  <2>7. sum[m] = sum[m - 1] + v(m)
    BY <1>3, <2>3, <2>4
  <2>8. QED
    BY <2>3, <2>6, <2>7
<1>5. \A i \in DOMAIN cs : Far(i) \in Nat
  <2> SUFFICES ASSUME NEW i \in 1 .. n
               PROVE  Far(i) \in Nat
    BY <1>2
  <2>1. v(i) * n \in Int
    BY <1>2
  <2> DEFINE a == v(i) * n
             b == sum[n]
  <2>2. a \in Int /\ b \in Int
    BY <1>4, <2>1
  <2> HIDE DEF a, b
  <2>3. Diff(a, b) \in Nat
    BY <2>2 DEF Diff
  <2>4. QED
    BY <2>3 DEF a, b
<1> HIDE DEF Far
<1>6. nearest # {}
  <2> DEFINE F == {Far(i) : i \in DOMAIN cs}
  <2>1. F \subseteq Nat /\ F # {}
    BY <1>2, <1>5
  <2>2. Min(F) \in F /\ \A k \in F : Min(F) <= k
    <3> HIDE DEF F
    <3> QED
      BY <2>1, LeastNumber
  <2>3. PICK i \in DOMAIN cs : Min(F) = Far(i)
    BY <2>2
  <2>4. \A j \in DOMAIN cs : Far(i) <= Far(j)
    BY <2>2, <2>3
  <2>5. QED
    BY <2>4
<1>7. nearest \subseteq Nat /\ nearest \subseteq DOMAIN cs
  BY <1>2
<1> HIDE DEF nearest
<1>8. Min(nearest) \in DOMAIN cs
  BY <1>6, <1>7, LeastNumber
<1>9. QED
  BY <1>1, <1>8 DEF Range

-----------------------------------------------------------------------------
(* The power-on machines.                                                    *)

\* The list that a machine prepares from is not empty and names no cluster
\* twice.
ListChosen ==
  g_state = "Prepare" =>
    /\ valid.cnt # 0
    /\ \A i, j \in 0 .. valid.cnt - 1 : valid.list[i] = valid.list[j] => i = j

CtrlInv == CtrlTypeOK /\ SelectionCounted /\ ListChosen

States == {"Init", "SelfCheck", "Standby", "Prepare", "MasterGridOn", "GridOn", "Run",
           "PowerOff", "Fault"}
ClusterTypes == [Clusters -> [online : BOOLEAN, ready : BOOLEAN, fault : BOOLEAN,
                              volt : Volts \cup {0}, on : BOOLEAN]]
ToldTypes == [Clusters -> {"none", "on", "off"}]

\* The constants of the machines.
LEMMA CtrlConstants ==
  /\ N \in 1 .. 255 /\ 0 \in Clusters /\ IsFiniteSet(Clusters) /\ Cardinality(Clusters) = N
  /\ Longest \in Nat \ {0} /\ Clusters \subseteq Nat /\ None \notin Clusters
<1>1. N \in 1 .. 255 /\ OnTimeout \in Nat /\ OffTimeout \in Nat
  BY ChoiceAssumption, CtrlAssumption
<1>2. Max({OnTimeout, OffTimeout}) \in Nat
  <2> DEFINE S == {OnTimeout, OffTimeout}
  <2>1. \E x \in S : \A y \in S : x >= y
    <3>1. CASE OnTimeout >= OffTimeout
      BY <1>1, <3>1
    <3>2. CASE OffTimeout >= OnTimeout
      BY <1>1, <3>2
    <3>3. QED
      BY <1>1, <3>1, <3>2
  <2> HIDE DEF S
  <2>2. Max(S) \in S
    BY <2>1 DEF Max
  <2>3. QED
    BY <1>1, <2>2 DEF S
<1>3. QED
  <2>1. Longest \in Nat \ {0}
    BY <1>2 DEF Longest
  <2>2. 0 \in Clusters /\ Clusters \subseteq Nat /\ None \notin Clusters
    BY <1>1 DEF Clusters, None
  <2>3. IsFiniteSet(Clusters) /\ Cardinality(Clusters) = N
    BY CandidateFacts
  <2>4. QED
    BY <1>1, <2>1, <2>2, <2>3

\* The commands keep their type.
LEMMA ToldFacts ==
  ASSUME told \in ToldTypes, NEW cs, NEW cmd \in {"on", "off"}, TellAll(cs, cmd)
  PROVE  told' \in ToldTypes
BY DEF ToldTypes, TellAll

\* The timer keeps its type.
LEMMA TimerFacts ==
  ASSUME waited \in 1 .. Longest, TimerRuns \/ TimerRestarts
  PROVE  waited' \in 1 .. Longest
<1>1. Longest \in Nat \ {0}
  BY CtrlConstants
<1>2. CASE TimerRuns
  <2> DEFINE S == {waited + 1, Longest}
  <2>1. S \subseteq Nat /\ S # {} /\ waited' = Min(S)
    BY <1>1, <1>2 DEF TimerRuns
  <2>2. Min(S) \in S /\ Min(S) <= Longest
    <3> HIDE DEF S
    <3>1. Min(S) \in S /\ \A k \in S : Min(S) <= k
      BY <2>1, LeastNumber
    <3>2. QED
      BY <3>1 DEF S
  <2> HIDE DEF S
  <2>3. waited' \in S /\ waited' <= Longest
    BY <2>1, <2>2
  <2>4. QED
    BY <1>1, <2>3 DEF S
<1>3. CASE TimerRestarts
  BY <1>1, <1>3 DEF TimerRestarts
<1>4. QED
  BY <1>2, <1>3

\* The number of values of a list without repetition.
LEMMA RangeCounted ==
  ASSUME NEW f, NEW n \in Nat, DOMAIN f = 1 .. n, f = [i \in 1 .. n |-> f[i]],
         \A i, j \in 1 .. n : f[i] = f[j] => i = j
  PROVE  IsFiniteSet(Range(f)) /\ Cardinality(Range(f)) = n
<1>1. f \in Bijection(1 .. n, Range(f))
  BY DEF Range, Bijection, Injection, Surjection, IsInjective
<1>2. IsFiniteSet(1 .. n) /\ Cardinality(1 .. n) = n
  <2>1. IsFiniteSet(1 .. n) /\ Cardinality(1 .. n) = IF 1 > n THEN 0 ELSE n - 1 + 1
    <3>1. 1 \in Int /\ n \in Int
      OBVIOUS
    <3>2. QED
      BY ONLY <3>1, FS_Interval
  <2>2. QED
    BY <2>1
<1>3. QED
  BY <1>1, <1>2, FS_Bijection DEF ExistsBijection

\* The clusters have voltages.
LEMMA ClustersMeasured ==
  ASSUME CtrlTypeOK
  PROVE  Measured(clusters)
<1>1. Volts \cup {0} \subseteq Int
  BY CtrlAssumption
<1>2. \A c \in Clusters : clusters[c].volt \in Volts \cup {0}
  BY DEF CtrlTypeOK
<1>3. QED
  BY <1>1, <1>2 DEF Measured

\* At the start.
LEMMA CtrlInitInv ==
  ASSUME CtrlInit
  PROVE  CtrlInv
<1>1. CtrlTypeOK
  BY CtrlConstants, ChoiceAssumption, CtrlAssumption DEF CtrlInit, CtrlTypeOK, Unset, None, Both
<1>2. SelectionCounted /\ ListChosen
  BY DEF CtrlInit, SelectionCounted, ListChosen
<1>3. QED
  BY <1>1, <1>2 DEF CtrlInv

\* A step that leaves the choice alone and prepares nothing.
LEMMA QuietInv ==
  ASSUME CtrlInv, ChoiceSame, g_state' \in States, mode' \in Both \cup {"other"},
         clusters' \in ClusterTypes, waited' \in 1 .. Longest, told' \in ToldTypes,
         changes' \in 0 .. MaxChanges,
         g_state' = "Prepare" => g_state = "Prepare",
         g_state' = "GridOn" => g_state \in {"MasterGridOn", "GridOn"},
         g_state' = "MasterGridOn" => g_state = "MasterGridOn"
  PROVE  CtrlInv'
<1>1. UNCHANGED <<selected, valid, master_idx, pending>>
  BY DEF ChoiceSame
<1>2. CtrlTypeOK'
  BY <1>1 DEF CtrlInv, CtrlTypeOK, States, ClusterTypes, ToldTypes
<1>3. SelectionCounted'
  BY <1>1 DEF CtrlInv, SelectionCounted
<1>4. ListChosen'
  BY <1>1 DEF CtrlInv, ListChosen
<1>5. QED
  BY <1>2, <1>3, <1>4 DEF CtrlInv

\* The types of the state that the steps below use.
LEMMA CtrlTypes ==
  ASSUME CtrlInv
  PROVE  /\ g_state \in States /\ mode \in Both \cup {"other"} /\ clusters \in ClusterTypes
         /\ waited \in 1 .. Longest /\ told \in ToldTypes /\ changes \in 0 .. MaxChanges
         /\ selected \subseteq Clusters /\ valid \in [list : [Clusters -> Clusters], cnt : 0 .. N]
         /\ master_idx \in Clusters \cup {None} /\ pending \in Clusters \cup {None}
BY DEF CtrlInv, CtrlTypeOK, States, ClusterTypes, ToldTypes

\* Standby: the list that is chosen.
LEMMA StandbyInv ==
  ASSUME CtrlInv, RunStandby
  PROVE  CtrlInv'
<1> DEFINE chosen == buildValidClusterSet(clusters, mode)
<1>1. /\ g_state = "Standby" /\ UNCHANGED <<mode, clusters, changes>>
      /\ UNCHANGED <<selected, master_idx, pending, told>> /\ waited' \in 1 .. Longest
  BY CtrlTypes, TimerFacts DEF RunStandby, At, InputsSame
<1>2. CASE chosen = <<>>
  <2>1. Go("SelfCheck") /\ UNCHANGED valid
    BY <1>2 DEF RunStandby
  <2>2. QED
    BY <1>1, <2>1, CtrlTypes, QuietInv DEF ChoiceSame, Go, States
<1>3. CASE chosen # <<>>
  <2>1. chosen \in Seq(Clusters) /\ \A i, j \in 1 .. Len(chosen) : chosen[i] = chosen[j] => i = j
    BY ClustersMeasured, ChosenFacts, CandidateFacts DEF CtrlInv
  <2>2. /\ g_state' = "Prepare"
        /\ valid' = [list |-> [i \in Clusters |->
                                 IF i < Len(chosen) THEN chosen[i + 1] ELSE valid.list[i]],
                     cnt |-> Len(chosen)]
    BY <1>3 DEF RunStandby, Go
  <2> HIDE DEF chosen
  <2>3. Len(chosen) \in 1 .. N
    <3>1. Len(chosen) \in Nat /\ Len(chosen) # 0
      BY <1>3, <2>1, EmptySeq
    <3>2. chosen \in Injection(1 .. Len(chosen), Clusters)
      BY <2>1 DEF Injection, IsInjective
    <3>3. Cardinality(1 .. Len(chosen)) = Len(chosen)
      BY <3>1, FS_Interval
    <3>4. Len(chosen) <= N
      BY <3>2, <3>3, CtrlConstants, FS_Injection
    <3>5. QED
      BY <3>1, <3>4, CtrlConstants
  <2>4. \A i \in Clusters : i < Len(chosen) => chosen[i + 1] \in Clusters
    BY <2>1, <2>3, CtrlConstants
  <2>5. valid.list \in [Clusters -> Clusters]
    BY CtrlTypes
  <2>6. valid' \in [list : [Clusters -> Clusters], cnt : 0 .. N]
    BY <2>2, <2>3, <2>4, <2>5, CtrlConstants
  <2>7. CtrlTypeOK'
    BY <1>1, <2>2, <2>6 DEF CtrlInv, CtrlTypeOK
  <2>8. ASSUME NEW i \in 0 .. Len(chosen) - 1, NEW j \in 0 .. Len(chosen) - 1,
               valid'.list[i] = valid'.list[j]
        PROVE  i = j
    <3>1. i \in Clusters /\ j \in Clusters /\ i < Len(chosen) /\ j < Len(chosen)
      BY <2>3, CtrlConstants DEF Clusters
    <3>2. chosen[i + 1] = chosen[j + 1]
      BY <2>2, <2>8, <3>1
    <3>3. i + 1 = j + 1
      BY <2>1, <2>3, <3>2
    <3>4. QED
      BY <3>3
  <2>9. ListChosen'
    <3>1. valid'.cnt = Len(chosen) /\ valid'.cnt # 0
      BY <2>2, <2>3
    <3>2. QED
      BY <2>8, <3>1 DEF ListChosen
  <2>10. SelectionCounted'
    BY <2>2 DEF SelectionCounted
  <2>11. QED
    BY <2>7, <2>9, <2>10 DEF CtrlInv
<1>4. QED
  BY <1>2, <1>3

\* What the machine selects has as many clusters as the list.
LEMMA ListedFacts ==
  ASSUME CtrlInv, g_state = "Prepare"
  PROVE  /\ Listed \in Seq(Clusters) /\ Listed # <<>>
         /\ Range(Listed) \subseteq Clusters /\ Cardinality(Range(Listed)) = valid.cnt
<1>1. /\ valid.list \in [Clusters -> Clusters] /\ valid.cnt \in 1 .. N
      /\ \A i, j \in 0 .. valid.cnt - 1 : valid.list[i] = valid.list[j] => i = j
  <2>1. valid.list \in [Clusters -> Clusters] /\ valid.cnt \in 0 .. N
    BY CtrlTypes
  <2>2. QED
    BY <2>1, CtrlConstants DEF CtrlInv, ListChosen
<1> DEFINE l == Listed
           n == valid.cnt
<1>2. l = [i \in 1 .. n |-> valid.list[i - 1]]
  BY DEF Listed
<1>3. n \in Nat /\ n # 0 /\ \A i \in 1 .. n : i - 1 \in Clusters /\ i - 1 \in 0 .. n - 1
  BY <1>1, CtrlConstants, SMTT(30) DEF Clusters
<1> HIDE DEF l, n
<1>4. l \in [1 .. n -> Clusters]
  BY <1>1, <1>2, <1>3
<1>5. l \in Seq(Clusters) /\ Len(l) = n
  BY <1>3, <1>4
<1>6. \A i, j \in 1 .. n : l[i] = l[j] => i = j
  <2> SUFFICES ASSUME NEW i \in 1 .. n, NEW j \in 1 .. n, l[i] = l[j]
               PROVE  i = j
    OBVIOUS
  <2>1. i - 1 = j - 1
    BY <1>1, <1>2, <1>3 DEF n
  <2>2. QED
    BY <2>1
<1>7. Cardinality(Range(l)) = n
  BY <1>3, <1>4, <1>6, RangeCounted
<1>8. Range(l) \subseteq Clusters
  BY <1>4 DEF Range
<1>9. l # <<>>
  BY <1>3, <1>5, EmptySeq
<1>10. QED
  BY <1>5, <1>7, <1>8, <1>9 DEF l, n

\* A machine prepares: its selection is the list, and the master is in it.
LEMMA PrepareInv ==
  ASSUME CtrlInv, PrepareCentral \/ PrepareDistributed
  PROVE  CtrlInv'
<1>1. /\ g_state = "Prepare" /\ UNCHANGED <<mode, clusters, changes, valid>>
      /\ selected' = Range(Listed) /\ told' \in ToldTypes /\ waited' \in 1 .. Longest
      /\ g_state' \in {"MasterGridOn", "GridOn"}
  <2>1. /\ g_state = "Prepare" /\ UNCHANGED <<mode, clusters, changes, valid>>
        /\ selected' = Range(Listed) /\ TimerRestarts /\ g_state' \in {"MasterGridOn", "GridOn"}
        /\ \E cs : TellAll(cs, "on")
    BY DEF PrepareCentral, PrepareDistributed, At, Go, InputsSame
  <2>2. QED
    BY <2>1, CtrlTypes, TimerFacts, ToldFacts
<1>2. /\ Listed \in Seq(Clusters) /\ Listed # <<>>
      /\ Range(Listed) \subseteq Clusters /\ Cardinality(Range(Listed)) = valid.cnt
  BY <1>1, ListedFacts
<1>3. /\ master_idx' \in Clusters \cup {None} /\ pending' \in Clusters \cup {None}
      /\ g_state' = "MasterGridOn" => master_idx' \in selected'
  <2>1. CASE PrepareCentral
    <3>1. master_idx' = getBmsMasterCluster(clusters, Listed) /\ pending' = None
      BY <2>1 DEF PrepareCentral
    <3>2. master_idx' \in Range(Listed)
      BY <1>2, <3>1, ClustersMeasured, MasterFacts DEF CtrlInv
    <3>3. QED
      BY <1>1, <1>2, <3>1, <3>2
  <2>2. CASE PrepareDistributed
    <3>1. UNCHANGED <<master_idx, pending>> /\ g_state' = "GridOn"
      BY <2>2 DEF PrepareDistributed, Go
    <3>2. QED
      BY <3>1, CtrlTypes
  <2>3. QED
    BY <2>1, <2>2
<1>4. CtrlTypeOK'
  BY <1>1, <1>2, <1>3 DEF CtrlInv, CtrlTypeOK, ToldTypes
<1>5. SelectionCounted'
  BY <1>1, <1>2, <1>3 DEF SelectionCounted
<1>6. ListChosen'
  BY <1>1 DEF ListChosen
<1>7. QED
  BY <1>4, <1>5, <1>6 DEF CtrlInv

\* A pending cluster closes or is left out: one cluster less is selected and
\* counted, or none.
LEMMA AwaitInv ==
  ASSUME CtrlInv, AwaitPending
  PROVE  CtrlInv'
<1>1. /\ g_state = "GridOn" /\ pending \in Clusters /\ UNCHANGED <<mode, clusters, changes>>
      /\ UNCHANGED <<master_idx, told>> /\ waited' \in 1 .. Longest
      /\ g_state' \in {"GridOn", "PowerOff"} /\ pending' \in Clusters \cup {None}
  <2>1. /\ g_state = "GridOn" /\ pending # None /\ UNCHANGED <<mode, clusters, changes>>
        /\ UNCHANGED <<master_idx, told>> /\ TimerRuns /\ g_state' \in {g_state, "PowerOff"}
        /\ pending' \in {pending, None}
    BY DEF AwaitPending, At, Go, InputsSame
  <2>2. QED
    BY <2>1, CtrlTypes, TimerFacts
<1>2. selected \subseteq Clusters /\ valid.cnt = Cardinality(selected) /\ valid.cnt \in 0 .. N
      /\ valid \in [list : [Clusters -> Clusters], cnt : 0 .. N]
  BY <1>1, CtrlTypes DEF CtrlInv, SelectionCounted
<1>3. /\ selected' \subseteq Clusters /\ valid'.cnt = Cardinality(selected')
      /\ valid' \in [list : [Clusters -> Clusters], cnt : 0 .. N]
  <2>1. CASE UNCHANGED <<selected, valid>>
    BY <1>2, <2>1
  <2>2. CASE SkipPending
    <3>1. /\ valid' = [valid EXCEPT !.cnt = IF pending \in selected THEN (@ - 1) % 256 ELSE @]
          /\ selected' = selected \ {pending}
      BY <2>2 DEF SkipPending
    <3>2. IsFiniteSet(selected)
      BY <1>2, CtrlConstants, FS_Subset
    <3>3. Cardinality(selected') = IF pending \in selected THEN valid.cnt - 1 ELSE valid.cnt
      BY <1>2, <3>1, <3>2, FS_RemoveElement
    <3>4. pending \in selected => valid.cnt \in 1 .. N /\ (valid.cnt - 1) % 256 = valid.cnt - 1
      <4> SUFFICES ASSUME pending \in selected
                   PROVE  valid.cnt \in 1 .. N /\ (valid.cnt - 1) % 256 = valid.cnt - 1
        OBVIOUS
      <4>1. valid.cnt # 0
        BY <1>2, <3>2, FS_EmptySet
      <4>2. valid.cnt \in 1 .. 255 /\ valid.cnt \in 1 .. N
        BY <1>2, <4>1, CtrlConstants
      <4>3. valid.cnt - 1 \in 0 .. 255
        BY <4>2
      <4>4. \A k \in 0 .. 255 : k % 256 = k
        OBVIOUS
      <4>5. QED
        BY <4>2, <4>3, <4>4
    <3>5. valid'.cnt = Cardinality(selected')
      BY <1>2, <3>1, <3>3, <3>4
    <3>6. valid'.cnt \in 0 .. N
      BY <1>2, <3>1, <3>4, CtrlConstants
    <3>7. valid' \in [list : [Clusters -> Clusters], cnt : 0 .. N]
      <4>1. valid' = [valid EXCEPT !.cnt = valid'.cnt]
        BY <1>2, <3>1
      <4>2. QED
        BY <1>2, <3>6, <4>1
    <3>8. QED
      BY <1>2, <3>1, <3>5, <3>7
  <2>3. QED
    BY <2>1, <2>2 DEF AwaitPending
<1>4. CtrlTypeOK'
  BY <1>1, <1>3 DEF CtrlInv, CtrlTypeOK
<1>5. SelectionCounted' /\ ListChosen'
  BY <1>1, <1>3 DEF SelectionCounted, ListChosen
<1>6. QED
  BY <1>4, <1>5 DEF CtrlInv

\* The next cluster of the selection becomes pending.
LEMMA NextPendingInv ==
  ASSUME CtrlInv, NextPending
  PROVE  CtrlInv'
<1>1. PICK v \in IF master_idx = None THEN Volts ELSE {clusters[master_idx].volt} :
        LET open == {c \in selected \ {master_idx} :
                       ~clusters[c].fault /\ ~On(c) /\ Diff(clusters[c].volt, v) < AllowDiff}
        IN  IF open = {} THEN TimerRuns /\ UNCHANGED <<pending, told>>
            ELSE pending' = Min(open) /\ TellAll({Min(open)}, "on") /\ TimerRestarts
  BY DEF NextPending
<1>2. /\ g_state = "GridOn" /\ UNCHANGED <<mode, clusters, changes>>
      /\ UNCHANGED <<selected, valid, master_idx>> /\ g_state' \in {"GridOn", "Run"}
  BY DEF NextPending, At, Go, InputsSame
<1>3. /\ waited' \in 1 .. Longest /\ told' \in ToldTypes /\ pending' \in Clusters \cup {None}
  <2> DEFINE open == {c \in selected \ {master_idx} :
                        ~clusters[c].fault /\ ~On(c) /\ Diff(clusters[c].volt, v) < AllowDiff}
  <2>1. open \subseteq Clusters /\ open \subseteq Nat
    BY CtrlTypes, CtrlConstants
  <2>2. IF open = {} THEN TimerRuns /\ UNCHANGED <<pending, told>>
        ELSE pending' = Min(open) /\ TellAll({Min(open)}, "on") /\ TimerRestarts
    BY <1>1
  <2> HIDE DEF open
  <2>3. CASE open = {}
    BY <2>2, <2>3, CtrlTypes, TimerFacts
  <2>4. CASE open # {}
    <3>1. Min(open) \in open
      BY <2>1, <2>4, LeastNumber
    <3>2. QED
      BY <2>1, <2>2, <2>4, <3>1, CtrlTypes, TimerFacts, ToldFacts
  <2>5. QED
    BY <2>3, <2>4
<1>4. CtrlTypeOK'
  BY <1>2, <1>3 DEF CtrlInv, CtrlTypeOK, ToldTypes
<1>5. SelectionCounted' /\ ListChosen'
  BY <1>2 DEF CtrlInv, SelectionCounted, ListChosen
<1>6. QED
  BY <1>4, <1>5 DEF CtrlInv

\* A pass that leaves the choice alone.
LEMMA PassInv ==
  ASSUME CtrlInv,
         \/ RunInit \/ RunSelfCheck \/ MasterGridOn \/ GridOnDistributed \/ RunCentral
         \/ RunDistributed \/ PowerOff \/ RunFault \/ RunDefault
  PROVE  CtrlInv'
<1> USE DEF Go, At
<1>1. /\ waited \in 1 .. Longest /\ told \in ToldTypes /\ g_state \in States
      /\ mode \in Both \cup {"other"} /\ clusters \in ClusterTypes /\ changes \in 0 .. MaxChanges
  BY CtrlTypes
<1>2. ChoiceSame /\ UNCHANGED <<mode, clusters, changes>> /\ (TimerRuns \/ TimerRestarts)
  BY DEF RunInit, RunSelfCheck, MasterGridOn, GridOnDistributed, RunCentral, RunDistributed,
         PowerOff, RunFault, RunDefault, InputsSame
<1>3. waited' \in 1 .. Longest
  BY <1>1, <1>2, TimerFacts
<1>4. \A cs : \A cmd \in {"on", "off"} : TellAll(cs, cmd) => told' \in ToldTypes
  BY <1>1, ToldFacts
<1>5. CASE RunInit
  <2>1. g_state' = "SelfCheck" /\ UNCHANGED told
    BY <1>5 DEF RunInit
  <2>2. QED
    BY <1>1, <1>2, <1>3, <2>1, QuietInv DEF States
<1>6. CASE RunSelfCheck
  <2>1. g_state' \in {"Standby", "Fault"} /\ UNCHANGED told
    BY <1>6 DEF RunSelfCheck
  <2>2. QED
    BY <1>1, <1>2, <1>3, <2>1, QuietInv DEF States
<1>7. CASE MasterGridOn
  <2>1. g_state = "MasterGridOn" /\ g_state' \in {"GridOn", "PowerOff", g_state} /\ UNCHANGED told
    BY <1>7 DEF MasterGridOn
  <2>2. QED
    BY <1>1, <1>2, <1>3, <2>1, QuietInv DEF States
<1>8. CASE GridOnDistributed
  <2>1. g_state = "GridOn" /\ g_state' \in {"Run", g_state}
    BY <1>8 DEF GridOnDistributed
  <2>2. told' = told \/ \E cs : TellAll(cs, "off")
    BY <1>8 DEF GridOnDistributed
  <2>3. told' \in ToldTypes
    BY <1>1, <1>4, <2>2
  <2>4. QED
    BY <1>1, <1>2, <1>3, <2>1, <2>3, QuietInv DEF States
<1>9. CASE RunCentral
  <2>1. g_state' \in {"PowerOff", "Run"} /\ \E cs : TellAll(cs, "off")
    BY <1>9 DEF RunCentral
  <2>2. told' \in ToldTypes
    BY <1>4, <2>1
  <2>3. QED
    BY <1>1, <1>2, <1>3, <2>1, <2>2, QuietInv DEF States
<1>10. CASE RunDistributed
  <2>1. g_state' \in {"Standby", "Run"}
    BY <1>10 DEF RunDistributed
  <2>2. told' \in ToldTypes
    <3> DEFINE bad == {c \in selected : clusters[c].fault /\ On(c)}
               again == {c \in selected : ~clusters[c].fault /\ ~On(c)}
    <3>1. told' = [c \in Clusters |-> IF c \in bad THEN "off"
                                      ELSE IF c \in again THEN "on" ELSE told[c]]
      BY <1>10 DEF RunDistributed
    <3> HIDE DEF bad, again
    <3>2. QED
      BY <1>1, <3>1 DEF ToldTypes
  <2>3. QED
    BY <1>1, <1>2, <1>3, <2>1, <2>2, QuietInv DEF States
<1>11. CASE PowerOff
  <2>1. g_state' \in {"Standby", "PowerOff"} /\ \E cs : TellAll(cs, "off")
    BY <1>11 DEF PowerOff
  <2>2. told' \in ToldTypes
    BY <1>4, <2>1
  <2>3. QED
    BY <1>1, <1>2, <1>3, <2>1, <2>2, QuietInv DEF States
<1>12. CASE RunFault
  <2>1. g_state' \in {"Standby", "Fault"} /\ \E cs : TellAll(cs, "off")
    BY <1>12 DEF RunFault
  <2>2. told' \in ToldTypes
    BY <1>4, <2>1
  <2>3. QED
    BY <1>1, <1>2, <1>3, <2>1, <2>2, QuietInv DEF States
<1>13. CASE RunDefault
  <2>1. g_state' \in {"Init", "Fault"} /\ UNCHANGED told
    BY <1>13 DEF RunDefault
  <2>2. QED
    BY <1>1, <1>2, <1>3, <2>1, QuietInv DEF States
<1>14. QED
  BY <1>5, <1>6, <1>7, <1>8, <1>9, <1>10, <1>11, <1>12, <1>13

\* The inputs change between two passes.
LEMMA InputInv ==
  ASSUME CtrlInv, syncClustersFromRtdb \/ LoseCluster \/ ReadMode
  PROVE  CtrlInv'
<1>1. /\ waited \in 1 .. Longest /\ told \in ToldTypes /\ g_state \in States
      /\ mode \in Both \cup {"other"} /\ clusters \in ClusterTypes /\ changes \in 0 .. MaxChanges
  BY CtrlTypes
<1>2. ChoiceSame /\ UNCHANGED <<g_state, waited, told>> /\ changes' \in 0 .. MaxChanges
  <2>1. ChoiceSame /\ UNCHANGED <<g_state, waited, told>> /\ Change
    BY DEF syncClustersFromRtdb, LoseCluster, ReadMode, ChoiceSame
  <2>2. QED
    BY <1>1, <2>1, CtrlAssumption DEF Change
<1>3. mode' \in Both \cup {"other"}
  BY <1>1 DEF syncClustersFromRtdb, LoseCluster, ReadMode, Both
<1>4. clusters' \in ClusterTypes
  <2>1. CASE syncClustersFromRtdb
    <3> DEFINE C == [online : BOOLEAN, ready : BOOLEAN, fault : BOOLEAN,
                     volt : Volts \cup {0}, on : BOOLEAN]
    <3>1. PICK c \in 0 .. RbmsNum - 1, v \in Volts, fault \in BOOLEAN, on \in BOOLEAN :
            clusters' = [clusters EXCEPT ![c] =
              [online |-> TRUE, ready |-> TRUE, fault |-> fault, volt |-> v, on |-> on]]
      BY <2>1 DEF syncClustersFromRtdb
    <3>2. [online |-> TRUE, ready |-> TRUE, fault |-> fault, volt |-> v, on |-> on] \in C
      OBVIOUS
    <3>3. clusters \in [Clusters -> C]
      BY <1>1 DEF ClusterTypes
    <3> HIDE DEF C
    <3>4. clusters' \in [Clusters -> C]
      BY <3>1, <3>2, <3>3
    <3>5. QED
      BY <3>4 DEF ClusterTypes, C
  <2>2. CASE LoseCluster
    <3> DEFINE C == [online : BOOLEAN, ready : BOOLEAN, fault : BOOLEAN,
                     volt : Volts \cup {0}, on : BOOLEAN]
    <3>1. PICK c \in 0 .. RbmsNum - 1 : clusters' = [clusters EXCEPT ![c].online = FALSE]
      BY <2>2 DEF LoseCluster
    <3>2. \A r \in C : [r EXCEPT !.online = FALSE] \in C
      OBVIOUS
    <3>3. clusters \in [Clusters -> C]
      BY <1>1 DEF ClusterTypes
    <3>4. clusters' = [clusters EXCEPT ![c] = [clusters[c] EXCEPT !.online = FALSE]]
      BY <3>1
    <3> HIDE DEF C
    <3>5. clusters' \in [Clusters -> C]
      BY <3>2, <3>3, <3>4
    <3>6. QED
      BY <3>5 DEF ClusterTypes, C
  <2>3. CASE ReadMode
    BY <1>1, <2>3 DEF ReadMode
  <2>4. QED
    BY <2>1, <2>2, <2>3
<1>5. QED
  BY <1>1, <1>2, <1>3, <1>4, QuietInv

\* Every step keeps the invariant.
LEMMA CtrlStepInv ==
  ASSUME CtrlInv, [CtrlNext]_ctrlVars
  PROVE  CtrlInv'
<1>1. CASE RunStandby
  BY <1>1, StandbyInv
<1>2. CASE PrepareCentral \/ PrepareDistributed
  BY <1>2, PrepareInv
<1>3. CASE AwaitPending
  BY <1>3, AwaitInv
<1>4. CASE NextPending
  BY <1>4, NextPendingInv
<1>5. CASE \/ RunInit \/ RunSelfCheck \/ MasterGridOn \/ GridOnDistributed \/ RunCentral
           \/ RunDistributed \/ PowerOff \/ RunFault \/ RunDefault
  BY <1>5, PassInv
<1>6. CASE syncClustersFromRtdb \/ LoseCluster \/ ReadMode
  BY <1>6, InputInv
<1>7. CASE UNCHANGED ctrlVars
  BY <1>7 DEF ctrlVars, CtrlInv, CtrlTypeOK, SelectionCounted, ListChosen
<1>8. QED
  BY <1>1, <1>2, <1>3, <1>4, <1>5, <1>6, <1>7 DEF CtrlNext, bmsStackRunControl

\* The invariant holds always.
LEMMA CtrlInvariance == CtrlSpec => []CtrlInv
<1>1. CtrlInit => CtrlInv
  BY CtrlInitInv
<1>2. CtrlInv /\ [CtrlNext]_ctrlVars => CtrlInv'
  BY CtrlStepInv
<1>3. QED
  BY <1>1, <1>2, PTL DEF CtrlSpec

\* The state of the power-on machines has its types, whatever the clusters and
\* the configuration do.
THEOREM CtrlTypeCorrect == CtrlSpec => []CtrlTypeOK
<1>1. CtrlInv => CtrlTypeOK
  BY DEF CtrlInv
<1>2. QED
  BY <1>1, CtrlInvariance, PTL

\* The number that the machines compare with the clusters that have closed is
\* the number of clusters selected, for every number of clusters, all voltages
\* and every change of the mode in between; the master is one of them.
THEOREM CtrlSelectionCounted == CtrlSpec => []SelectionCounted
<1>1. CtrlInv => SelectionCounted
  BY DEF CtrlInv
<1>2. QED
  BY <1>1, CtrlInvariance, PTL
===============================================================================
