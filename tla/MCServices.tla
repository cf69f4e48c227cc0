------------------------------ MODULE MCServices ------------------------------
(* The services around the hub and the protection chain on one small instance. *)
(* They share no variable, so an interleaving of two of them shows nothing     *)
(* that each does not show alone: a behaviour follows one of them, and the     *)
(* others stay as they begin.                                                  *)
EXTENDS Storage, WebSign, BankFaults, StackCtrl, TmsCan, Uplink, ModbusShared

VARIABLE part

TP == <<"t1", "t2", "t3">>
FP == <<"f">>
EP == <<"e">>
Derating == "hot" :> 50

Init ==
  /\ part \in {"storage", "sign", "bank", "ctrl", "tms", "uplink", "modbus"}
  /\ StoreInit /\ SignInit /\ BankInit /\ CtrlInit /\ TmsInit /\ UplinkInit /\ SharedInit
  /\ part # "storage" => task = "business"
  /\ part # "sign" => kind = "di"
  /\ part # "ctrl" => mode = "central"
  /\ part # "tms" => msg.id = Foreign

Next ==
  /\ part' = part
  /\ \/ /\ part = "storage" /\ StoreNext
        /\ UNCHANGED <<signVars, bankVars, ctrlVars, tmsVars, uplinkVars, sharedVars>>
     \/ /\ part = "sign" /\ SignNext
        /\ UNCHANGED <<storeVars, bankVars, ctrlVars, tmsVars, uplinkVars, sharedVars>>
     \/ /\ part = "bank" /\ BankNext
        /\ UNCHANGED <<storeVars, signVars, ctrlVars, tmsVars, uplinkVars, sharedVars>>
     \/ /\ part = "ctrl" /\ CtrlNext
        /\ UNCHANGED <<storeVars, signVars, bankVars, tmsVars, uplinkVars, sharedVars>>
     \/ /\ part = "tms" /\ TmsNext
        /\ UNCHANGED <<storeVars, signVars, bankVars, ctrlVars, uplinkVars, sharedVars>>
     \/ /\ part = "uplink" /\ UplinkNext
        /\ UNCHANGED <<storeVars, signVars, bankVars, ctrlVars, tmsVars, sharedVars>>
     \/ /\ part = "modbus" /\ SharedNext
        /\ UNCHANGED <<storeVars, signVars, bankVars, ctrlVars, tmsVars, uplinkVars>>

Spec ==
  Init /\ [][Next]_<<part, storeVars, signVars, bankVars, ctrlVars, tmsVars, uplinkVars, sharedVars>>

\* The states of the services have their types, the bounds of counters, queues
\* and positions included (all seven modules).
ServicesTypeOK ==
  /\ StoreTypeOK /\ SignTypeOK /\ BankTypeOK /\ CtrlTypeOK /\ TmsTypeOK /\ UplinkTypeOK /\ SharedTypeOK
===============================================================================
