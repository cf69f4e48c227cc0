---------------------------- MODULE MCSafetyChain ----------------------------
(* SafetyChain for TLC: thresholds and handling of m_fault_configs with short *)
(* durations.  First an emergency stop and a temperature spread, then a lost *)
(* RBMS, whose fault shuts the other one down.                                *)
EXTENDS SafetyChain, TLC

EStop == "ContainerEmergStop"
Spread == "AllCluDeltaTempOver"

MCFaults == {EStop, Spread}
MCTriggerAt == (EStop :> 1) @@ (Spread :> 15)
MCRecoverAt == (EStop :> 0) @@ (Spread :> 10)
MCTriggerTime == (EStop :> 2) @@ (Spread :> 2)
MCRecoverTime == (EStop :> 0) @@ (Spread :> 1)
MCLevel1 == {EStop}
MCShutdown == {EStop}
MCRatio == (Spread :> 50)
MCSignalOf == (EStop :> 1)
MCAnalog == {Spread}
MCValues == {5, 12, 20}
MCSignals == 0 .. 2

\* The emergency stop is normally open; the input with pin 2 is normally closed.
MCDiRows ==
  << [pin |-> 1, signal |-> 1, mode |-> "open"],
     [pin |-> 2, signal |-> 2, mode |-> "closed"] >>

OffFaults == {OneLost}
OffTriggerAt == (OneLost :> 1)
OffRecoverAt == (OneLost :> 0)
OffTriggerTime == (OneLost :> 2)
OffRecoverTime == (OneLost :> 0)
OffRatio == <<>>
OffSignalOf == <<>>
=============================================================================
