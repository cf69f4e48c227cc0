----------------------------- MODULE BankFaults -----------------------------
(* What two threads publish for the stack in the RTDB without a lock: the DO  *)
(* thread after its detection (app_bms_fault.c, bms_fault_detect_loop) the    *)
(* fault list and the derated power limit, the timer thread                   *)
(* (app_bms_statistics.c) a copy of the fault list and the limits summed over *)
(* the racks.  Detection of the M-core faults is module SafetyChain; here     *)
(* they come and go.  The A-core faults are detected here; a pass of the DO   *)
(* thread is their unit of time.                                              *)
EXTENDS Integers, FiniteSets

CONSTANTS
  Racks,        \* RBMS devices
  Share,        \* power limit of one rack
  MFaults,      \* M-core faults
  Derate,       \* derating_ratio of those handled by derating
  Enabled,      \* enabled A-core faults, of {"one", "all"} (communication lost)
  LostTime,     \* trigger_time_ms and recover_time_ms of the A-core faults
  MaxFlips      \* bound: changes of a rack or a fault

ASSUME BankAssumption ==
  /\ IsFiniteSet(Racks) /\ Racks # {} /\ Share \in Nat
  /\ \A f \in DOMAIN Derate : Derate[f] \in 0 .. 100
  /\ LostTime \in Nat /\ MaxFlips \in Nat

VARIABLES
  up,           \* racks that are online
  active,       \* M-core faults that are raised
  afault,       \* a_fault_states
  derate,       \* derating_ratio
  bitmap,       \* bms_m_fault, with bms_a_fault
  limits,       \* Max60sChrgPower and MaxContChrgPower in the RTDB
  list,         \* fault list in the RTDB
  doAt,         \* where the DO thread is, and the limit it has read
  timerAt,      \* where the timer thread is, and what it has computed
  quiet,        \* no step of the timer thread since the pass began
  flips         \* changes so far

bankVars == <<up, active, afault, derate, bitmap, limits, list, doAt, timerAt, quiet, flips>>

\* No fault, and neither of its timers active.
Clear == [fault |-> FALSE, trig |-> -1, rec |-> -1]

\* Every rack gives its share to both limits.
Summed(racks) == Cardinality(racks) * Share
Least2(a, b) == IF a < b THEN a ELSE b

BankInit ==
  /\ up = {}
  /\ active = {}
  /\ afault = [f \in {"one", "all"} |-> Clear]
  /\ derate = 100
  /\ bitmap = {}
  /\ limits = [pulse |-> 0, cont |-> 0]
  /\ list = {}
  /\ doAt = [at |-> "detect", read |-> 0]
  /\ timerAt = [at |-> "cont", has |-> {}]
  /\ quiet = FALSE
  /\ flips = 0

RackFlips ==
  /\ flips < MaxFlips
  /\ flips' = flips + 1
  /\ \E r \in Racks : up' = IF r \in up THEN up \ {r} ELSE up \cup {r}
  /\ UNCHANGED <<active, afault, derate, bitmap, limits, list, doAt, timerAt, quiet>>

-----------------------------------------------------------------------------
(* DO thread.                                                                *)

\* bms_update_a_fault_value, for the racks that are configured.
bms_update_a_fault_value == [one |-> up # Racks, all |-> up = {}]

\* A timer that is active counts passes.
Count(timer) == IF timer = -1 THEN 0 ELSE Least2(timer + 1, LostTime)

\* The recovery condition compares with >= 0, which every value meets.
detect_a_fault(f, value) ==
  LET s == afault[f] IN
  IF f \notin Enabled THEN s
  ELSE IF value
    THEN [fault |-> s.fault \/ Count(s.trig) = LostTime, trig |-> Count(s.trig), rec |-> -1]
  ELSE IF ~s.fault THEN Clear
  ELSE IF Count(s.rec) = LostTime THEN Clear
  ELSE [fault |-> TRUE, trig |-> -1, rec |-> Count(s.rec)]

Detecting(at, next) == doAt.at = at /\ doAt' = [doAt EXCEPT !.at = next]
Raised == active \cup {f \in DOMAIN afault : afault[f].fault}

\* detect_m_fault raises and clears faults; the limit decreases when one is raised.
DetectM ==
  /\ Detecting("detect", "read")
  /\ \/ UNCHANGED <<active, flips>>
     \/ /\ flips < MaxFlips
        /\ flips' = flips + 1
        /\ \E f \in MFaults : active' = IF f \in active THEN active \ {f} ELSE active \cup {f}
  /\ derate' = IF \E f \in active' \ active : f \in DOMAIN Derate
                 THEN Least2(derate, Derate[CHOOSE f \in active' \ active : TRUE]) ELSE derate
  /\ quiet' = TRUE
  /\ UNCHANGED <<up, afault, bitmap, limits, list, timerAt>>

\* The limit is derated from the pulse limit in the RTDB, read first.
ReadPulse ==
  /\ doAt.at = "read"
  /\ doAt' = [at |-> "write", read |-> limits.pulse]
  /\ UNCHANGED <<up, active, afault, derate, bitmap, limits, list, timerAt, quiet, flips>>

\* mutant of bms_charge_power_limit: the limit is only ever lowered.
LimitLowered ==
  /\ Detecting("write", "afaults")
  /\ limits' = [limits EXCEPT !.cont = Least2(@, (doAt.read * derate) \div 100)]
  /\ UNCHANGED <<up, active, afault, derate, bitmap, list, timerAt, quiet, flips>>

bms_charge_power_limit ==
  /\ Detecting("write", "afaults")
  /\ limits' = [limits EXCEPT !.cont = (doAt.read * derate) \div 100]
  /\ UNCHANGED <<up, active, afault, derate, bitmap, list, timerAt, quiet, flips>>

DetectA ==
  /\ Detecting("afaults", "clear")
  /\ afault' = [f \in DOMAIN afault |-> detect_a_fault(f, bms_update_a_fault_value[f])]
  /\ UNCHANGED <<up, active, derate, bitmap, limits, list, timerAt, quiet, flips>>

\* The bitmap is cleared and its bits are set one by one.
ClearBitmap ==
  /\ Detecting("clear", "bits")
  /\ bitmap' = {}
  /\ UNCHANGED <<up, active, afault, derate, limits, list, timerAt, quiet, flips>>

SetBit ==
  /\ doAt.at = "bits"
  /\ \E f \in Raised \ bitmap : bitmap' = bitmap \cup {f}
  /\ UNCHANGED <<up, active, afault, derate, limits, list, doAt, timerAt, quiet, flips>>

sync_m_fault_to_rtdb ==
  /\ Detecting("bits", "detect")
  /\ Raised \subseteq bitmap
  /\ list' = bitmap
  /\ UNCHANGED <<up, active, afault, derate, bitmap, limits, timerAt, quiet, flips>>

-----------------------------------------------------------------------------
(* Timer thread: the continuous limit, the pulse limit, then the fault list.  *)

TimerStep(at, next) == timerAt.at = at /\ timerAt' = [timerAt EXCEPT !.at = next] /\ quiet' = FALSE

SumCont ==
  /\ TimerStep("cont", "pulse")
  /\ limits' = [limits EXCEPT !.cont = Summed(up)]
  /\ UNCHANGED <<up, active, afault, derate, bitmap, list, doAt, flips>>

SumPulse ==
  /\ TimerStep("pulse", "copy")
  /\ limits' = [limits EXCEPT !.pulse = Summed(up)]
  /\ UNCHANGED <<up, active, afault, derate, bitmap, list, doAt, flips>>

CopyBitmap ==
  /\ timerAt.at = "copy"
  /\ timerAt' = [at |-> "store", has |-> bitmap]
  /\ quiet' = FALSE
  /\ UNCHANGED <<up, active, afault, derate, bitmap, limits, list, doAt, flips>>

StoreList ==
  /\ timerAt.at = "store"
  /\ timerAt' = [at |-> "cont", has |-> {}]
  /\ quiet' = FALSE
  /\ list' = timerAt.has
  /\ UNCHANGED <<up, active, afault, derate, bitmap, limits, doAt, flips>>

BankNext ==
  \/ RackFlips \/ DetectM \/ ReadPulse \/ bms_charge_power_limit \/ DetectA
  \/ ClearBitmap \/ SetBit \/ sync_m_fault_to_rtdb
  \/ SumCont \/ SumPulse \/ CopyBitmap \/ StoreList

BankSpec == BankInit /\ [][BankNext]_bankVars

-----------------------------------------------------------------------------
(* Properties.                                                               *)

\* Types of the state.
BankTypeOK ==
  /\ up \subseteq Racks /\ active \subseteq MFaults /\ derate \in 0 .. 100
  /\ bitmap \cup list \cup timerAt.has \subseteq MFaults \cup DOMAIN afault
  /\ \A f \in DOMAIN afault : {afault[f].trig, afault[f].rec} \subseteq -1 .. LostTime
  /\ limits.cont \in 0 .. Summed(Racks) /\ limits.pulse \in 0 .. Summed(Racks)

\* The timer thread undoes the derating and may store a fault list it copied
\* while the DO thread rebuilt it; one pass of the DO thread without a step of
\* the timer thread repairs both: the limit is derated for each fault that is
\* raised, and the list has these faults and no other.
QuietPassRepairs ==
  doAt.at = "detect" /\ quiet =>
    /\ list = Raised
    /\ limits.cont = (limits.pulse * derate) \div 100
    /\ \A f \in active \cap DOMAIN Derate : 100 * limits.cont <= limits.pulse * Derate[f]

\* Whatever the order in which racks are lost and found, the loss of all racks
\* is never reported without the loss of one.
AllLostImpliesOne == afault["all"].fault => afault["one"].fault

\* What the two threads publish for the stack agrees again after a quiet pass,
\* and all racks are never lost without one being lost (app_bms_fault.c).
StackFaultsAgree == QuietPassRepairs /\ AllLostImpliesOne
=============================================================================
