-------------------------- MODULE SafetyChain_proofs --------------------------
(***************************************************************************)
(* The fault detection keeps its durations for every table of faults, any  *)
(* number of them, and every clock modulus that exceeds the durations by   *)
(* the time between two passes.  The invariant TimerInv relates the timers *)
(* of fault_state_t, which wrap around, to the true durations.             *)
(***************************************************************************)
EXTENDS SafetyChain, TLAPS

\* A running trigger timer has measured no more than the true duration, unless
\* that saturated; before the fault appears it has measured it exactly, and
\* the last pass found it below the trigger time.
TriggerTimerInv(f) ==
  /\ st[f].trig = Off <=> persist[f] = Off
  /\ st[f].trig # Off =>
       /\ st[f].rec = Off
       /\ persist[f] = Horizon \/ persist[f] >= Elapsed(st[f].trig)
       /\ ~st[f].fault => /\ persist[f] <= Elapsed(st[f].trig)
                          /\ Elapsed(st[f].trig) < TriggerTime[f] + gap

\* A recovery timer runs only while the fault is active, and has measured no
\* more than the true duration, unless that saturated.
RecoverTimerInv(f) ==
  st[f].rec # Off =>
    /\ st[f].fault
    /\ calm[f] # Off
    /\ calm[f] = Horizon \/ calm[f] >= Elapsed(st[f].rec)

TimerInv == \A f \in Faults : TriggerTimerInv(f) /\ RecoverTimerInv(f)

IInv == TypeOK /\ TimerInv /\ LimitCoversFaults

-----------------------------------------------------------------------------
(* The clock.                                                              *)

\* The difference of two readings of the clock, when it wrapped at most once.
LEMMA Difference ==
  ASSUME NEW a \in Time, NEW b \in Time
  PROVE  /\ (a - b) % Wrap = IF a >= b THEN a - b ELSE a - b + Wrap
         /\ (a - b) % Wrap \in Time
<1>1. Wrap \in Nat /\ Wrap > 0 /\ a \in 0 .. Wrap - 1 /\ b \in 0 .. Wrap - 1
  BY TimeAssumption DEF Time
<1>2. CASE a >= b
  <2> DEFINE d == a - b
  <2>1. d \in 0 .. Wrap - 1
    BY <1>1, <1>2
  <2>2. d % Wrap = d
    <3> HIDE DEF d
    <3> QED BY <1>1, <2>1
  <2>3. QED
    BY <1>1, <1>2, <2>1, <2>2 DEF Time
<1>3. CASE ~(a >= b)
  <2> DEFINE d == a - b
  <2>1. d + Wrap \in 0 .. Wrap - 1 /\ d \in Int
    BY <1>1, <1>3
  <2>2. d % Wrap = d + Wrap
    <3> HIDE DEF d
    <3> QED BY <1>1, <2>1
  <2>3. QED
    BY <1>1, <1>3, <2>1, <2>2 DEF Time
<1>4. QED
  BY <1>2, <1>3

\* One tick adds one to a difference that is not yet at the modulus.
LEMMA DifferenceAfterTick ==
  ASSUME NEW a \in Time, NEW b \in Time
  PROVE  /\ (a + 1) % Wrap \in Time
         /\ (((a + 1) % Wrap) - b) % Wrap = IF (a - b) % Wrap = Wrap - 1
                                            THEN 0 ELSE ((a - b) % Wrap) + 1
<1>1. Wrap \in Nat /\ Wrap > 0 /\ a \in 0 .. Wrap - 1 /\ b \in 0 .. Wrap - 1
  BY TimeAssumption DEF Time
<1> DEFINE n == (a + 1) % Wrap
<1>2. n = IF a = Wrap - 1 THEN 0 ELSE a + 1
  BY <1>1
<1>3. n \in Time
  BY <1>1, <1>2 DEF Time
<1>4. (n - b) % Wrap = IF n >= b THEN n - b ELSE n - b + Wrap
  <2> HIDE DEF n
  <2> QED BY <1>3, Difference
<1>5. (a - b) % Wrap = IF a >= b THEN a - b ELSE a - b + Wrap
  BY Difference
<1>6. (n - b) % Wrap = IF (a - b) % Wrap = Wrap - 1 THEN 0 ELSE ((a - b) % Wrap) + 1
  <2> HIDE DEF n
  <2> QED BY <1>1, <1>2, <1>4, <1>5
<1>7. QED
  BY <1>3, <1>6

-----------------------------------------------------------------------------
(* One pass of the detection.                                              *)

\* What detect_m_fault leaves of a fault is a state of a fault.
LEMMA DetectedType ==
  ASSUME TypeOK, NEW f \in Faults
  PROVE  Detected(f) \in [fault : BOOLEAN, trig : Time \cup {Off}, rec : Time \cup {Off}]
<1> DEFINE s == st[f]
<1>1. s \in [fault : BOOLEAN, trig : Time \cup {Off}, rec : Time \cup {Off}] /\ now \in Time
  BY DEF TypeOK
<1>2. QED
  BY <1>1 DEF Detected

\* The timers of a fault after a pass of the detection.
LEMMA DetectTimers ==
  ASSUME TypeOK, NEW f \in Faults, TriggerTimerInv(f), RecoverTimerInv(f), DoDetect
  PROVE  TriggerTimerInv(f)' /\ RecoverTimerInv(f)'
<1>1. /\ st[f] \in [fault : BOOLEAN, trig : Time \cup {Off}, rec : Time \cup {Off}]
      /\ now \in Time /\ gap \in 0 .. MaxGap
      /\ persist[f] \in {Off} \cup 0 .. Horizon
      /\ calm[f] \in {Off} \cup 0 .. Horizon
  BY DEF TypeOK
<1>2. /\ Horizon \in Nat /\ Wrap \in Nat /\ MaxGap \in Nat
      /\ TriggerTime[f] \in Nat /\ RecoverTime[f] \in Nat
  BY TimeAssumption
<1>3. /\ st'[f] = Detected(f) /\ now' = now /\ gap' = 0
      /\ persist'[f] = IF ~Triggers(f) THEN Off ELSE IF persist[f] = Off THEN 0 ELSE persist[f]
      /\ calm'[f] = IF Triggers(f) \/ ~Recovers(f) \/ ~st[f].fault THEN Off
                    ELSE IF calm[f] = Off THEN 0 ELSE calm[f]
  BY DEF DoDetect
<1>4. /\ \A b \in Time : (now - b) % Wrap \in Nat
      /\ (now - now) % Wrap = 0
  BY <1>1, <1>2, Difference DEF Time
<1> DEFINE t == st'[f]
<1>5. Off \notin Time
  BY DEF Off, Time
<1>6. CASE Triggers(f)
  <2>1. /\ t.trig = IF st[f].trig = Off THEN now ELSE st[f].trig
        /\ t.rec = Off
        /\ t.fault = (st[f].fault \/ (now - t.trig) % Wrap >= TriggerTime[f])
    BY <1>1, <1>3, <1>6 DEF Detected, TriggerTimerInv, Elapsed
  <2>2. persist'[f] = IF persist[f] = Off THEN 0 ELSE persist[f]
    BY <1>3, <1>6
  <2>3. t.trig \in Time /\ t.trig # Off
    BY <1>1, <1>5, <2>1
  <2>4. persist'[f] # Off /\ (persist'[f] = Horizon \/ persist'[f] >= (now - t.trig) % Wrap)
    BY <1>1, <1>2, <1>4, <2>1, <2>2 DEF TriggerTimerInv, Elapsed, Off
  <2> DEFINE e == (now - t.trig) % Wrap
  <2>5. ~t.fault => persist'[f] <= e /\ e < TriggerTime[f]
    <3>1. e \in Nat
      BY <1>4, <2>3
    <3>2. ~t.fault => persist'[f] <= e
      BY <1>1, <1>4, <2>1, <2>2 DEF TriggerTimerInv, Elapsed, Off
    <3>3. ~t.fault => ~(e >= TriggerTime[f])
      BY <2>1
    <3>4. QED
      <4> HIDE DEF e
      <4> QED BY <1>2, <3>1, <3>2, <3>3
  <2>6. TriggerTimerInv(f)'
    <3>1. Elapsed(st[f].trig)' = (now - t.trig) % Wrap
      BY <1>3 DEF Elapsed
    <3>2. (TriggerTime[f] + gap)' = TriggerTime[f]
      BY <1>2, <1>3
    <3>3. QED
      BY <2>1, <2>3, <2>4, <2>5, <3>1, <3>2 DEF TriggerTimerInv
  <2>7. RecoverTimerInv(f)'
    BY <2>1 DEF RecoverTimerInv
  <2>8. QED
    BY <2>6, <2>7
<1>7. CASE ~Triggers(f)
  <2>1. t.trig = Off /\ persist'[f] = Off
    BY <1>1, <1>3, <1>7 DEF Detected
  <2>2. CASE st[f].fault /\ Recovers(f)
    BY <1>1, <1>2, <1>3, <1>4, <1>5, <1>7, <2>1, <2>2
       DEF TriggerTimerInv, RecoverTimerInv, Detected, Elapsed, Off
  <2>3. CASE ~(st[f].fault /\ Recovers(f))
    BY <1>1, <1>2, <1>3, <1>4, <1>5, <1>7, <2>1, <2>3
       DEF TriggerTimerInv, RecoverTimerInv, Detected, Elapsed, Off
  <2>4. QED
    BY <2>2, <2>3
<1>8. QED
  BY <1>6, <1>7

\* A tick ages the true durations and the timers alike.
LEMMA TickTimers ==
  ASSUME TypeOK, NEW f \in Faults, TriggerTimerInv(f), RecoverTimerInv(f), Tick
  PROVE  TriggerTimerInv(f)' /\ RecoverTimerInv(f)'
<1>1. /\ st[f] \in [fault : BOOLEAN, trig : Time \cup {Off}, rec : Time \cup {Off}]
      /\ now \in Time /\ gap \in 0 .. MaxGap
      /\ persist[f] \in {Off} \cup 0 .. Horizon
      /\ calm[f] \in {Off} \cup 0 .. Horizon
  BY DEF TypeOK
<1>2. /\ Horizon \in Nat /\ Wrap \in Nat /\ MaxGap \in Nat
      /\ TriggerTime[f] \in Nat /\ TriggerTime[f] <= Horizon
      /\ TriggerTime[f] + MaxGap < Wrap
  BY TimeAssumption
<1>3. /\ st' = st /\ gap' = gap + 1 /\ gap < MaxGap
      /\ now' = (now + 1) % Wrap
      /\ persist'[f] = Saturated(persist[f]) /\ calm'[f] = Saturated(calm[f])
  BY DEF Tick
<1>4. \A b \in Time : /\ Elapsed(b) \in 0 .. Wrap - 1
                      /\ (now' - b) % Wrap = IF Elapsed(b) = Wrap - 1 THEN 0 ELSE Elapsed(b) + 1
  BY <1>1, <1>3, Difference, DifferenceAfterTick DEF Elapsed, Time
<1>5. TriggerTimerInv(f)'
  <2>1. CASE st[f].trig = Off
    BY <1>3, <2>1 DEF TriggerTimerInv, Saturated
  <2>2. CASE st[f].trig # Off
    <3> DEFINE e == Elapsed(st[f].trig)
               n == Elapsed(st[f].trig)'
    <3>1. st[f].trig \in Time
      BY <1>1, <2>2
    <3>2. e \in 0 .. Wrap - 1 /\ n = IF e = Wrap - 1 THEN 0 ELSE e + 1
      BY <1>3, <1>4, <3>1 DEF Elapsed
    <3>3. /\ st[f].rec = Off /\ persist[f] # Off
          /\ persist[f] = Horizon \/ persist[f] >= e
          /\ ~st[f].fault => persist[f] <= e /\ e < TriggerTime[f] + gap
      BY <2>2 DEF TriggerTimerInv
    <3> HIDE DEF e, n
    <3>4. /\ persist'[f] # Off
          /\ persist'[f] = Horizon \/ persist'[f] >= n
      BY <1>1, <1>2, <1>3, <3>2, <3>3 DEF Saturated, Off
    <3>5. ~st[f].fault => persist'[f] <= n /\ n < TriggerTime[f] + (gap + 1)
      BY <1>1, <1>2, <1>3, <3>2, <3>3 DEF Saturated, Off
    <3>6. QED
      BY <1>3, <2>2, <3>3, <3>4, <3>5 DEF TriggerTimerInv, n
  <2>3. QED
    BY <2>1, <2>2
<1>6. RecoverTimerInv(f)'
  <2>1. CASE st[f].rec # Off
    <3> DEFINE e == Elapsed(st[f].rec)
               n == Elapsed(st[f].rec)'
    <3>1. st[f].rec \in Time
      BY <1>1, <2>1
    <3>2. e \in 0 .. Wrap - 1 /\ n = IF e = Wrap - 1 THEN 0 ELSE e + 1
      BY <1>3, <1>4, <3>1 DEF Elapsed
    <3>3. st[f].fault /\ calm[f] # Off /\ (calm[f] = Horizon \/ calm[f] >= e)
      BY <2>1 DEF RecoverTimerInv
    <3> HIDE DEF e, n
    <3>4. calm'[f] # Off /\ (calm'[f] = Horizon \/ calm'[f] >= n)
      BY <1>1, <1>2, <1>3, <3>2, <3>3 DEF Saturated, Off
    <3>5. QED
      BY <1>3, <3>3, <3>4 DEF RecoverTimerInv, n
  <2>2. QED
    BY <1>3, <2>1 DEF RecoverTimerInv
<1>7. QED
  BY <1>5, <1>6

-----------------------------------------------------------------------------
(* The invariant.                                                          *)

\* The invariant holds at the start.
LEMMA InitIInv == Init => IInv
<1> SUFFICES ASSUME Init PROVE IInv
  OBVIOUS
<1>1. TypeOK
  <2>1. 1 \in DOMAIN DiRows
    BY InputAssumption
  <2>2. QED
    BY <2>1, TimeAssumption DEF Init, TypeOK, NoFault, None, Off, Time
<1>2. TimerInv
  BY DEF Init, TimerInv, TriggerTimerInv, RecoverTimerInv, NoFault
<1>3. LimitCoversFaults
  BY FaultAssumption DEF Init, LimitCoversFaults, NoFault
<1>4. QED
  BY <1>1, <1>2, <1>3 DEF IInv

\* What the pass samples are numbers.
LEMMA SampledType ==
  ASSUME TypeOK, NEW measured \in [Analog -> Values]
  PROVE  Sampled(measured) \in [Faults -> Int]
<1>1. \A f \in DOMAIN SignalOf : latched[SignalOf[f]] \in Int
  BY InputAssumption DEF TypeOK, None, Trigger, ReadError
<1>2. \A f \in Analog : measured[f] \in Int
  BY FaultAssumption
<1>3. \A f \in Faults : value[f] \in Int
  BY DEF TypeOK
<1>4. QED
  BY <1>1, <1>2, <1>3 DEF Sampled

\* A row of di_config leaves signals in diSignalValue, and the next row is one.
LEMMA ScanType ==
  ASSUME TypeOK, NEW read \in Reads
  PROVE  /\ Latch(DiRows[diRow], read) \in [Signals -> {None, Trigger, ReadError}]
         /\ NextRow \in DOMAIN DiRows
<1>1. /\ DiRows[diRow] \in [pin : Signals, signal : Signals, mode : {"open", "closed", "disabled"}]
      /\ DOMAIN DiRows = 1 .. Len(DiRows) /\ Len(DiRows) \in Nat
      /\ diRow \in 1 .. Len(DiRows)
  <2> DEFINE R == [pin : Signals, signal : Signals, mode : {"open", "closed", "disabled"}]
  <2>1. DiRows \in Seq(R) /\ diRow \in DOMAIN DiRows
    BY InputAssumption DEF TypeOK
  <2>2. DOMAIN DiRows = 1 .. Len(DiRows) /\ Len(DiRows) \in Nat /\ DiRows[diRow] \in R
    <3> HIDE DEF R
    <3> QED BY <2>1
  <2>3. QED
    BY <2>1, <2>2
<1>2. Latch(DiRows[diRow], read) \in [Signals -> {None, Trigger, ReadError}]
  BY <1>1, InputAssumption DEF TypeOK, Latch
<1>3. NextRow \in 1 .. Len(DiRows)
  BY <1>1 DEF NextRow
<1>4. QED
  BY <1>1, <1>2, <1>3

\* A step keeps the types.
LEMMA TypeStep == ASSUME TypeOK, Next PROVE TypeOK'
<1> USE DEF TypeOK, inputVars, clockVars, faultVars, commandVars
<1>1. CASE \E r \in Rbms : LinkChange(r)
  BY <1>1 DEF LinkChange
<1>2. CASE Tick
  <2>1. now' \in Time
    BY <1>2, DifferenceAfterTick DEF Tick
  <2>2. \A n \in {Off} \cup 0 .. Horizon : Saturated(n) \in {Off} \cup 0 .. Horizon
    <3>1. Horizon \in Nat
      BY TimeAssumption
    <3>2. QED
      BY <3>1 DEF Saturated, Off
  <2>3. gap' \in 0 .. MaxGap
    BY <1>2, TimeAssumption DEF Tick
  <2>4. QED
    BY <1>2, <2>1, <2>2, <2>3 DEF Tick
<1>3. CASE DiThread
  BY <1>3, ScanType DEF DiThread, DiScan
<1>4. CASE DoSample
  BY <1>4, SampledType DEF DoSample
<1>5. CASE DoDetect
  <2>1. st' \in [Faults -> [fault : BOOLEAN, trig : Time \cup {Off}, rec : Time \cup {Off}]]
    BY <1>5, DetectedType DEF DoDetect
  <2>2. derating' \in 0 .. 100
    BY <1>5, FaultAssumption DEF DoDetect, Limits
  <2>3. offFrames' \subseteq Shutdown \X Rbms
    BY <1>5 DEF DoDetect
  <2>4. persist' \in [Faults -> {Off} \cup 0 .. Horizon] /\ calm' \in [Faults -> {Off} \cup 0 .. Horizon]
    BY <1>5, TimeAssumption DEF DoDetect
  <2>5. gap' \in 0 .. MaxGap
    BY <1>5, TimeAssumption DEF DoDetect
  <2>6. QED
    BY <1>5, <2>1, <2>2, <2>3, <2>4, <2>5 DEF DoDetect
<1>6. CASE DoOutput
  BY <1>6 DEF DoOutput, Lit
<1>7. CASE DispatchOff
  BY <1>7 DEF DispatchOff
<1>8. QED
  BY <1>1, <1>2, <1>3, <1>4, <1>5, <1>6, <1>7 DEF Next, DoThread

\* The timers change only with the clock and in a pass of the detection.
LEMMA TimerStep == ASSUME TypeOK, TimerInv, Next PROVE TimerInv'
<1> SUFFICES ASSUME NEW f \in Faults PROVE TriggerTimerInv(f)' /\ RecoverTimerInv(f)'
  BY DEF TimerInv
<1>1. TriggerTimerInv(f) /\ RecoverTimerInv(f)
  BY DEF TimerInv
<1>2. CASE Tick
  BY <1>1, <1>2, TickTimers
<1>3. CASE DoDetect
  BY <1>1, <1>3, DetectTimers
<1>4. CASE ~Tick /\ ~DoDetect
  <2>1. UNCHANGED <<now, gap, st, persist, calm>>
    BY <1>4 DEF Next, DiThread, DoThread, LinkChange, DiScan, DoSample, DoOutput, DispatchOff,
                inputVars, clockVars, faultVars, commandVars
  <2>2. QED
    BY <1>1, <2>1 DEF TriggerTimerInv, RecoverTimerInv, Elapsed
<1>5. QED
  BY <1>2, <1>3, <1>4

\* A fault that appears lowers the limit to its ratio in the same pass.
LEMMA LimitStep == ASSUME TypeOK, LimitCoversFaults, Next PROVE LimitCoversFaults'
<1> SUFFICES ASSUME NEW f \in DOMAIN Ratio, st'[f].fault PROVE derating' <= Ratio[f]
  BY DEF LimitCoversFaults
<1>1. f \in Faults /\ Ratio[f] \in 0 .. 100 /\ derating \in 0 .. 100
  BY FaultAssumption DEF TypeOK
<1>2. CASE DoDetect
  <2> DEFINE limits == Limits({g \in DOMAIN Ratio : Rising(g)})
  <2>1. derating' \in limits /\ \A r \in limits : derating' <= r
    BY <1>2 DEF DoDetect
  <2>2. CASE st[f].fault
    <3>1. derating' <= derating
      BY <2>1 DEF Limits
    <3>2. limits \subseteq Nat
      BY <1>1, FaultAssumption DEF Limits
    <3>3. derating <= Ratio[f]
      BY <2>2 DEF LimitCoversFaults
    <3>4. derating' \in Nat
      BY <2>1, <3>2
    <3>5. QED
      BY <1>1, <3>1, <3>3, <3>4
  <2>3. CASE ~st[f].fault
    <3>1. Rising(f)
      BY <1>1, <1>2, <2>3 DEF DoDetect, Rising
    <3>2. Ratio[f] \in limits
      BY <3>1 DEF Limits
    <3>3. QED
      BY <2>1, <3>2
  <2>4. QED
    BY <2>2, <2>3
<1>3. CASE ~DoDetect
  <2>1. UNCHANGED <<st, derating>>
    BY <1>3 DEF Next, DiThread, DoThread, LinkChange, Tick, DiScan, DoSample, DoOutput,
                DispatchOff, inputVars, clockVars, faultVars, commandVars
  <2>2. QED
    BY <2>1 DEF LimitCoversFaults
<1>4. QED
  BY <1>2, <1>3

\* Every step keeps the invariant.
LEMMA NextIInv == IInv /\ [Next]_vars => IInv'
<1>1. ASSUME IInv, Next PROVE IInv'
  BY <1>1, TypeStep, TimerStep, LimitStep DEF IInv
<1>2. ASSUME IInv, UNCHANGED vars PROVE IInv'
  BY <1>2 DEF IInv, TypeOK, TimerInv, TriggerTimerInv, RecoverTimerInv, LimitCoversFaults, Elapsed,
              vars, inputVars, clockVars, faultVars, commandVars
<1>3. QED
  BY <1>1, <1>2

\* The invariant holds always.
LEMMA Invariance == Spec => []IInv
  BY InitIInv, NextIInv, PTL DEF Spec

\* The state of the chain keeps its types, for every table of faults.
THEOREM TypeCorrect == Spec => []TypeOK
  BY Invariance, PTL DEF IInv

\* The power limit covers every active fault (app_bms_fault.c:694-707).
THEOREM LimitCovers == Spec => []LimitCoversFaults
  BY Invariance, PTL DEF IInv

-----------------------------------------------------------------------------
(* What a pass of the detection may do to a fault.                         *)

\* The status of a fault changes in a pass of the detection only.
LEMMA FaultChanges ==
  ASSUME Next, ~DoDetect
  PROVE  st' = st
  BY DEF Next, DiThread, DoThread, LinkChange, Tick, DiScan, DoSample, DoOutput, DispatchOff,
         inputVars, clockVars, faultVars, commandVars

\* The types of what the detection reads of a fault.
LEMMA FaultFacts ==
  ASSUME TypeOK, NEW f \in Faults
  PROVE  /\ st[f].trig \in Time \cup {Off} /\ st[f].rec \in Time \cup {Off}
         /\ st[f].fault \in BOOLEAN
         /\ persist[f] \in {Off} \cup 0 .. Horizon /\ calm[f] \in {Off} \cup 0 .. Horizon
         /\ TriggerTime[f] \in 0 .. Horizon /\ RecoverTime[f] \in 0 .. Horizon
         /\ Off \notin Time
         /\ Elapsed(now) = 0
         /\ \A b \in Time : Elapsed(b) \in Nat
<1>1. /\ st[f] \in [fault : BOOLEAN, trig : Time \cup {Off}, rec : Time \cup {Off}]
      /\ now \in Time
  BY DEF TypeOK
<1>2. \A b \in Time : Elapsed(b) \in Nat
  BY <1>1, Difference DEF Elapsed, Time
<1>3. Elapsed(now) = 0
  BY <1>1, Difference, TimeAssumption DEF Elapsed, Time
<1>4. TriggerTime[f] \in 0 .. Horizon /\ RecoverTime[f] \in 0 .. Horizon
  BY TimeAssumption
<1>5. QED
  BY <1>1, <1>2, <1>3, <1>4 DEF TypeOK, Off, Time

\* When a fault is active after a pass.
LEMMA DetectedFault ==
  ASSUME TypeOK, NEW f \in Faults, DoDetect
  PROVE  /\ st'[f].fault \in BOOLEAN
         /\ Triggers(f) =>
              (st'[f].fault <=> \/ st[f].fault
                                \/ Elapsed(IF st[f].trig = Off THEN now ELSE st[f].trig)
                                     >= TriggerTime[f])
         /\ ~Triggers(f) =>
              (~st'[f].fault <=> \/ ~st[f].fault
                                 \/ /\ Recovers(f)
                                    /\ Elapsed(IF st[f].rec = Off THEN now ELSE st[f].rec)
                                         >= RecoverTime[f])
<1> DEFINE s == st[f]
           d == st'[f]
<1>1. s.fault \in BOOLEAN
  BY FaultFacts
<1>2. d = Detected(f)
  BY DEF DoDetect
<1>3. d.fault \in BOOLEAN
  BY <1>2, DetectedType
<1>4. CASE Triggers(f)
  <2>1. d.fault = (s.fault \/ Elapsed(IF s.trig = Off THEN now ELSE s.trig) >= TriggerTime[f])
    BY <1>2, <1>4 DEF Detected
  <2>2. QED
    BY <1>3, <1>4, <2>1
<1>5. CASE ~Triggers(f) /\ s.fault /\ Recovers(f)
  <2>1. d.fault = ~(Elapsed(IF s.rec = Off THEN now ELSE s.rec) >= RecoverTime[f])
    BY <1>2, <1>5 DEF Detected
  <2>2. QED
    BY <1>3, <1>5, <2>1
<1>6. CASE ~Triggers(f) /\ ~(s.fault /\ Recovers(f))
  <2>1. d.fault = s.fault
    BY <1>2, <1>6 DEF Detected
  <2>2. QED
    BY <1>1, <1>6, <2>1
<1>7. QED
  BY <1>4, <1>5, <1>6

\* A fault appears only after its condition held for the trigger time.
LEMMA RaiseStep ==
  ASSUME IInv, DoDetect, NEW f \in Faults, ~st[f].fault, st'[f].fault
  PROVE  persist'[f] >= TriggerTime[f]
<1> DEFINE since == IF st[f].trig = Off THEN now ELSE st[f].trig
<1>1. persist'[f] = IF ~Triggers(f) THEN Off ELSE IF persist[f] = Off THEN 0 ELSE persist[f]
  BY DEF DoDetect
<1>2. Triggers(f) /\ Elapsed(since) >= TriggerTime[f]
  BY DetectedFault DEF IInv
<1>3. TriggerTimerInv(f)
  BY DEF IInv, TimerInv
<1>4. CASE st[f].trig = Off
  BY <1>1, <1>2, <1>3, <1>4, FaultFacts DEF IInv, TriggerTimerInv
<1>5. CASE st[f].trig # Off
  BY <1>1, <1>2, <1>3, <1>5, FaultFacts DEF IInv, TriggerTimerInv, Off
<1>6. QED
  BY <1>4, <1>5

\* A fault disappears only after its recovery condition held for the recovery time.
LEMMA ClearStep ==
  ASSUME IInv, DoDetect, NEW f \in Faults, st[f].fault, ~st'[f].fault
  PROVE  calm'[f] >= RecoverTime[f]
<1> DEFINE since == IF st[f].rec = Off THEN now ELSE st[f].rec
<1>1. calm'[f] = IF Triggers(f) \/ ~Recovers(f) \/ ~st[f].fault THEN Off
                 ELSE IF calm[f] = Off THEN 0 ELSE calm[f]
  BY DEF DoDetect
<1>2. ~Triggers(f) /\ Recovers(f) /\ Elapsed(since) >= RecoverTime[f]
  BY DetectedFault DEF IInv
<1>3. RecoverTimerInv(f)
  BY DEF IInv, TimerInv
<1>4. CASE st[f].rec = Off
  BY <1>1, <1>2, <1>4, FaultFacts DEF IInv, Off
<1>5. CASE st[f].rec # Off
  BY <1>1, <1>2, <1>3, <1>5, FaultFacts DEF IInv, RecoverTimerInv, Off
<1>6. QED
  BY <1>4, <1>5

\* A condition that held for the trigger time is a fault after the pass.
LEMMA InTimeStep ==
  ASSUME IInv, DoDetect, NEW f \in Faults, persist'[f] # Off, persist'[f] >= TriggerTime[f]
  PROVE  st'[f].fault
<1>1. persist'[f] = IF ~Triggers(f) THEN Off ELSE IF persist[f] = Off THEN 0 ELSE persist[f]
  BY DEF DoDetect
<1>2. Triggers(f)
  BY <1>1
<1>3. TriggerTimerInv(f)
  BY DEF IInv, TimerInv
<1>4. CASE st[f].fault
  BY <1>2, <1>4, DetectedFault DEF IInv
<1>5. CASE ~st[f].fault /\ st[f].trig = Off
  <2>1. TriggerTime[f] = 0
    BY <1>1, <1>2, <1>3, <1>5, FaultFacts DEF IInv, TriggerTimerInv
  <2>2. QED
    BY <1>2, <1>5, <2>1, FaultFacts, DetectedFault DEF IInv
<1>6. CASE ~st[f].fault /\ st[f].trig # Off
  <2>1. Elapsed(st[f].trig) >= TriggerTime[f]
    BY <1>1, <1>2, <1>3, <1>6, FaultFacts DEF IInv, TriggerTimerInv, Off
  <2>2. QED
    BY <1>2, <1>6, <2>1, DetectedFault DEF IInv
<1>7. QED
  BY <1>4, <1>5, <1>6

\* Debouncing of faults (app_bms_fault.c:519-531), for every table and clock.
THEOREM RaisePersists == Spec => FaultNeedsPersistence
<1> DEFINE P == \A f \in Faults :
                  ~st[f].fault /\ st'[f].fault => persist'[f] >= TriggerTime[f]
<1>1. IInv /\ [Next]_vars => [P]_vars
  BY RaiseStep, FaultChanges
<1>2. QED
  BY <1>1, Invariance, PTL DEF Spec, FaultNeedsPersistence

\* Debouncing of recoveries (app_bms_fault.c:538-561), for every table and clock.
THEOREM ClearPersists == Spec => ClearNeedsPersistence
<1> DEFINE P == \A f \in Faults :
                  st[f].fault /\ ~st'[f].fault => calm'[f] >= RecoverTime[f]
<1>1. IInv /\ [Next]_vars => [P]_vars
  BY ClearStep, FaultChanges
<1>2. QED
  BY <1>1, Invariance, PTL DEF Spec, ClearNeedsPersistence

\* No fault is late (app_bms_fault.c:519-531): the wrap-around of the clock never
\* hides a condition that held for its trigger time.
THEOREM RaiseInTime == Spec => FaultRaisedInTime
<1> DEFINE P == DoDetect => \A f \in Faults :
                  persist'[f] # Off /\ persist'[f] >= TriggerTime[f] => st'[f].fault
<1>1. IInv /\ [Next]_vars => [P]_vars
  BY InTimeStep
<1>2. QED
  BY <1>1, Invariance, PTL DEF Spec, FaultRaisedInTime
=============================================================================
