----------------------------- MODULE SafetyChain -----------------------------
(***************************************************************************)
(* The protection chain of the BBMS: the DI thread (logic/logic_di.c)      *)
(* latches the digital inputs, the DO thread (logic/logic_do.c) runs the   *)
(* fault detection (app/app_bms_fault.c) on them and on the measured       *)
(* values, drives the outputs, limits the power and commands the RBMS      *)
(* devices off through send_queue.                                         *)
(*                                                                         *)
(* Every fault of the tables compares with >=, so a value is a number and  *)
(* a threshold the least value that meets it.                              *)
(***************************************************************************)
EXTENDS Integers, Sequences

CONSTANTS
  Faults,       \* enabled faults of m_fault_configs
  TriggerAt,    \* trigger_threshold of each fault
  RecoverAt,    \* recover_threshold of each fault
  TriggerTime,  \* trigger_time_ms of each fault, in ticks
  RecoverTime,  \* recover_time_ms of each fault, in ticks
  Level1,       \* s_do_level1_faults
  Shutdown,     \* faults handled by kFaultHandle_Shutdown
  Ratio,        \* derating_ratio of the faults handled by kFaultHandle_Derating
  SignalOf,     \* DI signal of the faults that are fed by one
  Analog,       \* faults fed by a measured value
  AllLost,      \* kBmsMFault_AllRackCommLost
  OneLost,      \* kBmsMFault_OneRackCommLost
  Signals,      \* indices of diSignalValue
  DiRows,       \* rows of di_config: input pin, signal and valid mode
  FireSignals,  \* signals that enable QF1 undelayed
  FireFaults,   \* faults that enable QF1
  Rbms,         \* configured RBMS devices, by devId
  Values,       \* values a measurement takes
  Wrap,         \* modulus of the uint32_t millisecond clock
  MaxGap,       \* bound: ticks between two passes of the DO thread
  Horizon,      \* bound: where the true durations saturate
  Reads         \* what drvGpioRead returns, as a uint8_t

None == 0
Trigger == 1
ReadError == 255   \* a negative result of drvGpioRead, as a uint8_t
Off == -1          \* a timer that is not active

Time == 0 .. Wrap - 1

ASSUME TimeAssumption ==
  /\ {Wrap, MaxGap, Horizon} \subseteq Nat
  /\ TriggerTime \in [Faults -> Nat] /\ RecoverTime \in [Faults -> Nat]
  /\ \A f \in Faults : /\ TriggerTime[f] <= Horizon /\ RecoverTime[f] <= Horizon
                       /\ TriggerTime[f] + MaxGap < Wrap
                       /\ RecoverTime[f] + MaxGap < Wrap
ASSUME FaultAssumption ==
  /\ TriggerAt \in [Faults -> Int] /\ RecoverAt \in [Faults -> Int]
  /\ DOMAIN Ratio \subseteq Faults /\ Shutdown \subseteq Faults /\ Level1 \subseteq Faults
  /\ Ratio \in [DOMAIN Ratio -> 0 .. 100]
  /\ Values \subseteq Int
ASSUME InputAssumption ==
  /\ SignalOf \in [DOMAIN SignalOf -> Signals]
  /\ DiRows \in Seq([pin : Signals, signal : Signals, mode : {"open", "closed", "disabled"}])
  /\ DiRows # <<>>
  /\ Reads \subseteq {None, Trigger, ReadError}

VARIABLES
  diRow,      \* row the DI thread handles next
  latched,    \* diSignalValue
  online,     \* RBMS devices whose kRbms_Online_State is 1
  now,        \* get_current_time_ms
  gap,        \* ticks since the last pass of the detection
  do,         \* where the DO thread is in its loop
  value,      \* m_fault_values
  st,         \* m_fault_states
  derating,   \* derating_ratio
  offFrames,  \* power-off frames in send_queue, by the fault and RBMS they are for
  on,         \* RBMS devices that are not kBms_ChargeStatus_NotConnected
  output,     \* levels written to the outputs
  persist,    \* history: ticks each fault's trigger condition has held, or Off
  calm        \* history: ticks each fault's recovery condition has held, or Off

inputVars == <<diRow, latched, online>>
clockVars == <<now, gap>>
faultVars == <<value, st, derating, persist, calm>>
commandVars == <<offFrames, on>>
vars == <<inputVars, clockVars, faultVars, commandVars, do, output>>

NoFault == [fault |-> FALSE, trig |-> Off, rec |-> Off]

Init ==
  /\ diRow = 1
  /\ latched = [s \in Signals |-> None]
  /\ online = {}
  /\ now \in Time
  /\ gap = 0
  /\ do = "sample"
  /\ value = [f \in Faults |-> 0]
  /\ st = [f \in Faults |-> NoFault]
  /\ derating = 100
  /\ offFrames = {}
  /\ on \in SUBSET Rbms
  /\ output = [pcs |-> 0, qf1 |-> 0, yellow |-> 0]
  /\ persist = [f \in Faults |-> Off]
  /\ calm = [f \in Faults |-> Off]

-----------------------------------------------------------------------------
(* Devices and time.                                                       *)

LinkChange(r) ==
  /\ online' = IF r \in online THEN online \ {r} ELSE online \cup {r}
  /\ UNCHANGED <<diRow, latched, clockVars, faultVars, commandVars, do, output>>

Saturated(n) == IF n = Off \/ n = Horizon THEN n ELSE n + 1

\* Time passes; the DO thread detects at least every MaxGap ticks.
Tick ==
  /\ gap < MaxGap
  /\ gap' = gap + 1
  /\ now' = (now + 1) % Wrap
  /\ persist' = [f \in Faults |-> Saturated(persist[f])]
  /\ calm' = [f \in Faults |-> Saturated(calm[f])]
  /\ UNCHANGED <<inputVars, value, st, derating, commandVars, do, output>>

-----------------------------------------------------------------------------
(* DI thread: one row of di_config per step.                               *)

\* mutant of NextRow: the loop runs to di_config_num inclusive
NextRowPast == (diRow % (Len(DiRows) + 1)) + 1

NextRow == (diRow % Len(DiRows)) + 1

\* mutant of Latch: the signal follows its input
LatchFollows(row, read) ==
  IF row.mode = "open" THEN [latched EXCEPT ![row.signal] = read] ELSE latched

\* A normally open input latches its signal.  A normally closed one stores what
\* it read under the number of its pin, and its signal stays as it is.
Latch(row, read) ==
  IF row.mode = "open" /\ read = Trigger THEN [latched EXCEPT ![row.signal] = Trigger]
  ELSE IF row.mode = "closed" /\ read # Trigger THEN [latched EXCEPT ![row.pin] = read]
  ELSE latched

DiScan(read) ==
  /\ latched' = Latch(DiRows[diRow], read)
  /\ diRow' = NextRow
  /\ UNCHANGED <<online, clockVars, faultVars, commandVars, do, output>>

-----------------------------------------------------------------------------
(* DO thread, first part: bms_update_m_fault_value.                        *)

\* With every RBMS offline the value of OneLost is left as it was.
Sampled(measured) ==
  [f \in Faults |->
     IF f \in DOMAIN SignalOf THEN latched[SignalOf[f]]
     ELSE IF f \in Analog THEN measured[f]
     ELSE IF f = AllLost THEN (IF online = {} THEN 1 ELSE 0)
     ELSE IF online = {} THEN value[f] ELSE IF online = Rbms THEN 0 ELSE 1]

DoSample ==
  /\ do = "sample"
  /\ do' = "detect"
  /\ \E measured \in [Analog -> Values] : value' = Sampled(measured)
  /\ UNCHANGED <<inputVars, clockVars, st, derating, persist, calm, commandVars, output>>

-----------------------------------------------------------------------------
(* DO thread, second part: detect_m_fault and execute_fault_handle.        *)

\* mutant of Elapsed: without the wrap-around of uint32_t
ElapsedSigned(since) == now - since

\* uint32_t subtraction
Elapsed(since) == (now - since) % Wrap

Triggers(f) == value[f] >= TriggerAt[f]
Recovers(f) == value[f] >= RecoverAt[f]

\* mutant of Detected: the trigger timer is not stopped when the value drops
DetectedTimerKept(f) ==
  LET s == st[f]
      trig == IF s.trig = Off THEN now ELSE s.trig IN
    IF Triggers(f)
      THEN [fault |-> s.fault \/ Elapsed(trig) >= TriggerTime[f], trig |-> trig, rec |-> Off]
      ELSE [s EXCEPT !.rec = Off]

\* mutant of Detected: the recovery timer survives a new trigger
DetectedRecoveryKept(f) ==
  LET s == st[f]
      trig == IF s.trig = Off THEN now ELSE s.trig
      rec == IF s.rec = Off THEN now ELSE s.rec IN
    IF Triggers(f)
      THEN [fault |-> s.fault \/ Elapsed(trig) >= TriggerTime[f], trig |-> trig, rec |-> s.rec]
    ELSE IF s.fault /\ Recovers(f)
      THEN LET over == Elapsed(rec) >= RecoverTime[f] IN
             [fault |-> ~over, trig |-> Off, rec |-> IF over THEN Off ELSE rec]
    ELSE [fault |-> s.fault, trig |-> Off, rec |-> s.rec]

Detected(f) ==
  LET s == st[f]
      trig == IF s.trig = Off THEN now ELSE s.trig
      rec == IF s.rec = Off THEN now ELSE s.rec IN
    IF Triggers(f)
      THEN [fault |-> s.fault \/ Elapsed(trig) >= TriggerTime[f],
            trig |-> trig,
            rec |-> IF s.trig = Off THEN Off ELSE s.rec]
    ELSE IF s.fault /\ Recovers(f)
      THEN LET over == Elapsed(rec) >= RecoverTime[f] IN
             [fault |-> ~over, trig |-> Off, rec |-> IF over THEN Off ELSE rec]
    ELSE [fault |-> s.fault, trig |-> Off, rec |-> IF s.fault THEN Off ELSE s.rec]

Rising(f) == ~st[f].fault /\ Detected(f).fault

\* mutant of Limits: the limit follows the faults of this pass only
LimitsNow(rising) == {100} \cup {Ratio[f] : f \in rising}

\* The limit is the lowest of the one before and those the new faults ask for.
Limits(rising) == {derating} \cup {Ratio[f] : f \in rising}

\* A fault that appears is handled once; one that persists is not handled again.
DoDetect ==
  /\ do = "detect"
  /\ do' = "output"
  /\ gap' = 0
  /\ st' = [f \in Faults |-> Detected(f)]
  /\ LET limits == Limits({f \in DOMAIN Ratio : Rising(f)}) IN
       derating' \in limits /\ \A r \in limits : derating' <= r
  /\ offFrames' = offFrames \cup {f \in Shutdown : Rising(f)} \X on
  /\ persist' = [f \in Faults |->
       IF ~Triggers(f) THEN Off ELSE IF persist[f] = Off THEN 0 ELSE persist[f]]
  /\ calm' = [f \in Faults |->
       IF Triggers(f) \/ ~Recovers(f) \/ ~st[f].fault THEN Off
       ELSE IF calm[f] = Off THEN 0 ELSE calm[f]]
  /\ UNCHANGED <<inputVars, now, value, on, output>>

-----------------------------------------------------------------------------
(* DO thread, third part: the outputs in mode kDO_Ctrl_Normal.             *)

Lit(condition) == IF condition THEN 1 ELSE 0

DoOutput ==
  /\ do = "output"
  /\ do' = "sample"
  /\ \E extreme \in BOOLEAN :  \* an "extreme" fault bit of some RBMS
       output' = [pcs |-> Lit(\A f \in Level1 : ~st[f].fault),
                  qf1 |-> Lit(\/ extreme
                              \/ \E s \in FireSignals : latched[s] = Trigger
                              \/ \E f \in FireFaults : st[f].fault),
                  yellow |-> Lit(\E f \in Faults : st[f].fault)]
  /\ UNCHANGED <<inputVars, clockVars, faultVars, commandVars>>

-----------------------------------------------------------------------------
(* The way of a power-off command: the dispatcher hands it to the RBMS     *)
(* whose devId is its destSub.                                             *)

\* generateRbmsPowerOffCmd ignores its argument: RBMS_SUB_TYPE_SIGN is 0
destSub(r) == 0

DispatchOff ==
  \E frame \in offFrames :
    /\ offFrames' = offFrames \ {frame}
    /\ on' = on \ {destSub(frame[2])}
    /\ UNCHANGED <<inputVars, clockVars, faultVars, do, output>>

-----------------------------------------------------------------------------
DiThread == \E read \in Reads : DiScan(read)
DoThread == DoSample \/ DoDetect \/ DoOutput

Next ==
  \/ \E r \in Rbms : LinkChange(r)
  \/ Tick
  \/ DiThread
  \/ DoThread
  \/ DispatchOff

Spec == Init /\ [][Next]_vars

\* Time passes and the threads run.
FairSpec == Spec /\ WF_vars(Tick) /\ WF_vars(DiThread) /\ WF_vars(DoThread) /\ WF_vars(DispatchOff)

-----------------------------------------------------------------------------
(* Properties.                                                             *)

TypeOK ==
  /\ diRow \in DOMAIN DiRows
  /\ latched \in [Signals -> {None, Trigger, ReadError}]
  /\ online \subseteq Rbms
  /\ now \in Time /\ gap \in 0 .. MaxGap
  /\ do \in {"sample", "detect", "output"}
  /\ value \in [Faults -> Int]
  /\ st \in [Faults -> [fault : BOOLEAN, trig : Time \cup {Off}, rec : Time \cup {Off}]]
  /\ derating \in 0 .. 100
  /\ offFrames \subseteq Shutdown \X Rbms /\ on \subseteq Rbms
  /\ output \in [pcs : {0, 1}, qf1 : {0, 1}, yellow : {0, 1}]
  /\ persist \in [Faults -> {Off} \cup 0 .. Horizon]
  /\ calm \in [Faults -> {Off} \cup 0 .. Horizon]

\* Debouncing: a fault appears only after its condition held, in every pass,
\* for its trigger time, although the clock wraps around (app_bms_fault.c:519-531).
FaultNeedsPersistence ==
  [][\A f \in Faults : ~st[f].fault /\ st'[f].fault => persist'[f] >= TriggerTime[f]]_vars

\* A fault disappears only after its recovery condition held, in every pass,
\* for its recovery time (app_bms_fault.c:538-561).
ClearNeedsPersistence ==
  [][\A f \in Faults : st[f].fault /\ ~st'[f].fault => calm'[f] >= RecoverTime[f]]_vars

\* A condition that held for the trigger time is reported by the pass that sees
\* it, wherever the clock wrapped around in between.
FaultRaisedInTime ==
  [][DoDetect => \A f \in Faults :
       persist'[f] # Off /\ persist'[f] >= TriggerTime[f] => st'[f].fault]_vars

\* The power is never limited less than an active fault asks for, whatever other
\* faults came and went before it (app_bms_fault.c:694-707, 1011-1013).
LimitCoversFaults ==
  \A f \in DOMAIN Ratio : st[f].fault => derating <= Ratio[f]

\* A level 1 signal that was seen once opens the loop of the PCS and keeps it
\* open, unless a normally closed input writes over the signal (logic_do.c:117-133).
SignalOpensPcs ==
  \A f \in Level1 \cap DOMAIN SignalOf :
    SignalOf[f] \notin {DiRows[i].pin : i \in {j \in DOMAIN DiRows : DiRows[j].mode = "closed"}} =>
      [](latched[SignalOf[f]] = Trigger => <>[](output.pcs = 0))

\* The comment at app_bms_fault.c:712 says that the shutdown handling powers all
\* RBMS devices off.
ShutdownReaches ==
  \A f \in Shutdown, r \in Rbms :
    (r \in on /\ st[f].fault) ~> (r \notin on \/ ~st[f].fault)

\* app_bms_fault.h:392 calls recover_threshold the threshold at which a fault
\* recovers: a fault whose value stays below it goes away.
FaultClears ==
  \A f \in Faults :
    (st[f].fault /\ value[f] < RecoverAt[f]) ~> (~st[f].fault \/ value[f] >= RecoverAt[f])

\* kit_data.h:972-974 offers normally closed inputs: one that opens raises its
\* signal.
ClosedInputRaises ==
  [][\A read \in Reads \ {Trigger, ReadError} :
       DiScan(read) /\ DiRows[diRow].mode = "closed" =>
         latched'[DiRows[diRow].signal] = Trigger]_vars
=============================================================================
