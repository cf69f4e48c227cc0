----------------------------- MODULE TmsStrategy -----------------------------
(* app_cool_ctrl.c: what the temperature control asks of the TMS, computed    *)
(* once a second from the cell temperatures [max, min, avg].                  *)
EXTENDS Integers

CONSTANTS
  CoolHigh,       \* TMS_COOL_ENTER_TMAX_HI
  CircDelta,      \* TMS_CIRC_DELTA_T
  NotFinite       \* what isfinite refuses

\* Thresholds of the RTDB; one that is not finite is replaced by its default.
Threshold(rtdb, default) == IF rtdb = NotFinite THEN default ELSE rtdb
Thresholds(rtdb, defaults) == [k \in DOMAIN defaults |-> Threshold(rtdb[k], defaults[k])]

CoolWanted(t, th) ==
  t.max >= CoolHigh \/ (t.max >= th.coolMax /\ t.max < CoolHigh /\ t.avg >= th.coolAvg)
HeatWanted(t, th) == t.min <= th.heatMin /\ t.avg <= th.heatAvg
CoolDone(t, th) == t.max <= th.coolExitMax /\ t.avg <= th.coolExitAvg
HeatDone(t, th) == t.min >= th.heatExitMin \/ t.avg >= th.heatExitAvg

\* From shutdown, from circulation, and when cooling or heating is done.
Chosen(t, th) ==
  CASE CoolWanted(t, th) /\ HeatWanted(t, th) -> "CIRCULATE"
    [] CoolWanted(t, th) /\ ~HeatWanted(t, th) -> "COOLING"
    [] ~CoolWanted(t, th) /\ HeatWanted(t, th) -> "HEATING"
    [] OTHER -> IF t.max - t.min <= CircDelta THEN "CIRCULATE" ELSE "SHUTDOWN"

\* mutant of NextMode: cooling that is done shuts down and chooses no mode.
NextModeShutsDown(s, t, th) ==
  CASE s = "COOLING" -> IF CoolDone(t, th) THEN "SHUTDOWN" ELSE s
    [] s = "HEATING" -> IF HeatDone(t, th) THEN Chosen(t, th) ELSE s
    [] OTHER -> Chosen(t, th)

NextMode(s, t, th) ==
  CASE s = "COOLING" -> IF CoolDone(t, th) THEN Chosen(t, th) ELSE s
    [] s = "HEATING" -> IF HeatDone(t, th) THEN Chosen(t, th) ELSE s
    [] OTHER -> Chosen(t, th)

\* The temperature of the coolant.  Racks charging next to racks discharging
\* count as charging.
Charging == {"Charge", "FullCharge"}
Discharging == {"Discharge", "FullDischarge"}
CoolTemp(charge, racks) ==
  LET states == {r.charging : r \in {q \in racks : q.online}}
      mixed == states \cap Charging # {} /\ states \cap Discharging # {}
  IN  CASE mixed \/ charge \in Charging -> 20
        [] ~mixed /\ charge \in Discharging -> 26
        [] OTHER -> 22
TargetTemp(s, charge, racks) ==
  CASE s = "COOLING" -> CoolTemp(charge, racks)
    [] s = "HEATING" -> 30
    [] OTHER -> 22

\* tms_strategy_step: the state, the target and what the RTDB shows of it.
\* Manual control replaces the target and leaves the state and the RTDB alone.
tms_strategy_step(s, shown, in) ==
  IF in.manual.enabled
    THEN [state |-> s, target |-> [mode |-> in.manual.mode, temp |-> in.manual.temp],
          shown |-> shown]
  ELSE LET next == NextMode(s, in.t, Thresholds(in.rtdb, in.defaults))
           target == [mode |-> next, temp |-> TargetTemp(next, in.charge, in.racks)]
       IN  [state |-> next, target |-> target, shown |-> target]

-----------------------------------------------------------------------------
(* Property.                                                                 *)

\* Whatever it did before, the control does not chatter: while temperatures,
\* thresholds and the state of charging stay as they are, its second request is
\* its first, and the RTDB shows it.
StrategySettles(s, shown, in) ==
  LET first == tms_strategy_step(s, shown, in)
      second == tms_strategy_step(first.state, first.shown, in)
  IN  /\ second = first
      /\ ~in.manual.enabled => first.shown = first.target
=============================================================================
