------------------------------ MODULE StackCtrl ------------------------------
(* The power-on and power-off machines of app_bms_ctrl.c: one thread runs one *)
(* of them every 100 ms, after the mode that the configuration gives.  Racks  *)
(* (RBMS devices) are its clusters.  What a command does on its way to a rack *)
(* is the matter of BbmsCom; here the last command meant for a cluster is     *)
(* kept.  As built nobody calls syncClustersFromRtdb and nobody sets ready:   *)
(* the clusters, an input here, stay all zero and the machine goes round from *)
(* self-check to fault and standby.                                           *)
EXTENDS ClusterChoice

CONSTANTS
  Volts,          \* voltages
  OnTimeout,      \* poweron_timeout_ms, in passes
  OffTimeout,     \* poweroff_timeout_ms, in passes
  MaxChanges      \* bound: changes of the inputs

ASSUME CtrlAssumption ==
  Volts \subseteq Int /\ OnTimeout \in Nat /\ OffTimeout \in Nat /\ MaxChanges \in Nat

VARIABLES
  g_state,
  mode,           \* cluster_crtl_mode: "central", "distributed" or "other"
  clusters,       \* g_clusters, without selected
  selected,       \* the clusters whose selected is set
  valid,          \* g_valid_list and g_valid_cnt
  master_idx, pending,
  waited,         \* passes since state_timer was set
  told,           \* the last command meant for a cluster
  changes         \* changes of the inputs so far

ctrlVars == <<g_state, mode, clusters, selected, valid, master_idx, pending, waited, told, changes>>

Unset == [online |-> FALSE, ready |-> FALSE, fault |-> FALSE, volt |-> 0, on |-> FALSE]
Longest == Max({OnTimeout, OffTimeout}) + 1

CtrlInit ==
  /\ g_state = "Init"
  /\ mode \in {"central", "distributed"}
  /\ clusters = [c \in Clusters |-> Unset]
  /\ selected = {}
  /\ valid = [list |-> [i \in Clusters |-> 0], cnt |-> 0]
  /\ master_idx = None /\ pending = None
  /\ waited = Longest
  /\ told = [c \in Clusters |-> "none"]
  /\ changes = 0

-----------------------------------------------------------------------------
(* Helpers.                                                                  *)

On(c) == clusters[c].on
Listed == [i \in 1 .. valid.cnt |-> valid.list[i - 1]]

\* bms_get_bank_max_flt_level of the stack itself: an input.
bbmsSelfCheckOk(level1) ==
  ~level1 /\ \A c \in 0 .. RbmsNum - 1 : clusters[c].online /\ ~clusters[c].fault

-----------------------------------------------------------------------------
(* One pass.  Every state of a machine is an action.                         *)

TellAll(cs, cmd) == told' = [c \in Clusters |-> IF c \in cs THEN cmd ELSE told[c]]
At(modes, st) == mode \in modes /\ g_state = st
Go(st) == g_state' = st
Both == {"central", "distributed"}
Late(timeout) == waited > timeout
TimerRuns == waited' = Min({waited + 1, Longest})
TimerRestarts == waited' = 1
InputsSame == UNCHANGED <<mode, clusters, changes>>
ChoiceSame == UNCHANGED <<selected, valid, master_idx, pending>>

RunInit ==
  /\ At(Both, "Init") /\ Go("SelfCheck")
  /\ InputsSame /\ ChoiceSame /\ TimerRuns /\ UNCHANGED told

RunSelfCheck ==
  /\ At(Both, "SelfCheck")
  /\ \E level1 \in BOOLEAN : Go(IF bbmsSelfCheckOk(level1) THEN "Standby" ELSE "Fault")
  /\ InputsSame /\ ChoiceSame /\ TimerRuns /\ UNCHANGED told

\* The list keeps what it had behind the clusters written.
RunStandby ==
  /\ At(Both, "Standby")
  /\ LET chosen == buildValidClusterSet(clusters, mode) IN
     IF chosen = <<>> THEN Go("SelfCheck") /\ UNCHANGED valid
     ELSE /\ Go("Prepare")
          /\ valid' = [list |-> [i \in Clusters |->
                                   IF i < Len(chosen) THEN chosen[i + 1] ELSE valid.list[i]],
                       cnt |-> Len(chosen)]
  /\ InputsSame /\ TimerRuns /\ UNCHANGED <<selected, master_idx, pending, told>>

\* A list that was chosen is not empty: there is a master.
PrepareCentral ==
  /\ At({"central"}, "Prepare")
  /\ selected' = Range(Listed)
  /\ master_idx' = getBmsMasterCluster(clusters, Listed)
  /\ TellAll({master_idx'}, "on")
  /\ TimerRestarts
  /\ pending' = None
  /\ Go("MasterGridOn")
  /\ InputsSame /\ UNCHANGED valid

\* The argument of the command for the selected cluster i is g_valid_list[i].
PrepareDistributed ==
  /\ At({"distributed"}, "Prepare")
  /\ selected' = Range(Listed)
  /\ TellAll({valid.list[c] : c \in selected'}, "on")
  /\ TimerRestarts
  /\ Go("GridOn")
  /\ InputsSame /\ UNCHANGED <<valid, master_idx, pending>>

MasterGridOn ==
  /\ At({"central"}, "MasterGridOn")
  /\ LET lost == ~clusters[master_idx].online \/ clusters[master_idx].fault
         closed == ~lost /\ On(master_idx)
     IN  /\ g_state' = CASE closed -> "GridOn"
                         [] ~closed /\ (lost \/ Late(OnTimeout)) -> "PowerOff"
                         [] OTHER -> g_state
         /\ IF closed THEN TimerRestarts ELSE TimerRuns
  /\ InputsSame /\ ChoiceSame /\ UNCHANGED told

\* mutant of SkipPending: a cluster that is skipped stays selected.
SkipPendingSelected ==
  /\ valid' = [valid EXCEPT !.cnt = IF pending \in selected THEN (@ - 1) % 256 ELSE @]
  /\ UNCHANGED selected

\* A cluster that does not close in time is left out.
SkipPending ==
  /\ valid' = [valid EXCEPT !.cnt = IF pending \in selected THEN (@ - 1) % 256 ELSE @]
  /\ selected' = selected \ {pending}

\* The cluster that is pending closes, or is left out.
AwaitPending ==
  /\ At({"central"}, "GridOn")
  /\ pending # None
  /\ IF On(pending) THEN pending' = None /\ UNCHANGED <<g_state, selected, valid>>
     ELSE IF Late(OnTimeout)
       THEN /\ SkipPending
            /\ IF valid'.cnt < MinClusters THEN Go("PowerOff") /\ UNCHANGED pending
               ELSE pending' = None /\ UNCHANGED g_state
     ELSE UNCHANGED <<g_state, selected, valid, pending>>
  /\ InputsSame /\ TimerRuns /\ UNCHANGED <<master_idx, told>>

\* After a change of the mode there may be no master: what is read as its
\* voltage lies before the array.
NextPending ==
  /\ At({"central"}, "GridOn")
  /\ pending = None
  /\ \E v \in IF master_idx = None THEN Volts ELSE {clusters[master_idx].volt} :
       LET open == {c \in selected \ {master_idx} :
                      ~clusters[c].fault /\ ~On(c) /\ Diff(clusters[c].volt, v) < AllowDiff}
       IN  IF open = {} THEN TimerRuns /\ UNCHANGED <<pending, told>>
           ELSE /\ pending' = Min(open)
                /\ TellAll({Min(open)}, "on")
                /\ TimerRestarts
  /\ Go(IF pending' = None /\ \A c \in selected : On(c) THEN "Run" ELSE g_state)
  /\ InputsSame /\ UNCHANGED <<selected, valid, master_idx>>

GridOnDistributed ==
  /\ At({"distributed"}, "GridOn")
  /\ LET closed == {c \in selected : On(c)} IN
     IF Cardinality(closed) = valid.cnt THEN Go("Run") /\ UNCHANGED told
     ELSE IF Late(OnTimeout) THEN Go("Run") /\ TellAll(selected \ closed, "off")
     ELSE UNCHANGED <<g_state, told>>
  /\ InputsSame /\ ChoiceSame /\ TimerRuns

\* Too few clusters closed, or voltages too far apart, end the run; a cluster
\* that is closed and not selected is opened.
RunCentral ==
  /\ At({"central"}, "Run")
  /\ LET closed == {c \in selected : On(c)}
         few == Cardinality(closed) < MinClusters
         apart == \E a, b \in closed : clusters[a].volt - clusters[b].volt > AllowDiff
     IN  /\ TellAll({c \in selected : clusters[c].fault}
                    \cup (IF few THEN {} ELSE {c \in Clusters \ selected : On(c)}), "off")
         /\ Go(IF few \/ apart THEN "PowerOff" ELSE "Run")
  /\ InputsSame /\ ChoiceSame /\ TimerRuns

\* A faulty cluster that is closed does not count as closed.
RunDistributed ==
  /\ At({"distributed"}, "Run")
  /\ LET bad == {c \in selected : clusters[c].fault /\ On(c)}
         again == {c \in selected : ~clusters[c].fault /\ ~On(c)}
     IN  /\ told' = [c \in Clusters |-> IF c \in bad THEN "off"
                                        ELSE IF c \in again THEN "on" ELSE told[c]]
         /\ Go(IF again = {} /\ \A c \in selected : On(c) => c \in bad THEN "Standby" ELSE "Run")
  /\ InputsSame /\ ChoiceSame /\ TimerRuns

\* The timer restarts whenever a cluster is told to open, so the timeout of
\* this state does not elapse.
PowerOff ==
  /\ At({"central"}, "PowerOff")
  /\ LET closed == {c \in Clusters : On(c)} IN
     /\ TellAll(closed, "off")
     /\ IF closed = {} THEN TimerRuns /\ Go("Standby") ELSE TimerRestarts /\ Go("PowerOff")
  /\ InputsSame /\ ChoiceSame

\* All clusters are told to open; a distributed stack does not wait for those
\* that are offline.
RunFault ==
  /\ At(Both, "Fault")
  /\ TellAll(Clusters, "off")
  /\ Go(IF \A c \in Clusters : On(c) => (mode = "distributed" /\ ~clusters[c].online)
          THEN "Standby" ELSE "Fault")
  /\ InputsSame /\ ChoiceSame /\ TimerRuns

\* States that the distributed machine does not have, and modes that are none.
RunDefault ==
  /\ \/ At({"distributed"}, "MasterGridOn") /\ Go("Init")
     \/ At({"distributed"}, "PowerOff") /\ Go("Init")
     \/ mode = "other" /\ Go("Fault")
  /\ InputsSame /\ ChoiceSame /\ TimerRuns /\ UNCHANGED told

bmsStackRunControl ==
  \/ RunInit \/ RunSelfCheck \/ RunStandby \/ PrepareCentral \/ PrepareDistributed
  \/ MasterGridOn \/ AwaitPending \/ NextPending \/ GridOnDistributed
  \/ RunCentral \/ RunDistributed \/ PowerOff \/ RunFault \/ RunDefault

-----------------------------------------------------------------------------
(* Inputs.                                                                   *)

Change == changes < MaxChanges /\ changes' = changes + 1

syncClustersFromRtdb ==
  /\ Change
  /\ \E c \in 0 .. RbmsNum - 1, v \in Volts, fault, on \in BOOLEAN :
       clusters' = [clusters EXCEPT ![c] =
                      [online |-> TRUE, ready |-> TRUE, fault |-> fault, volt |-> v, on |-> on]]
  /\ UNCHANGED <<g_state, mode, selected, valid, master_idx, pending, waited, told>>

LoseCluster ==
  /\ Change
  /\ \E c \in 0 .. RbmsNum - 1 : clusters' = [clusters EXCEPT ![c].online = FALSE]
  /\ UNCHANGED <<g_state, mode, selected, valid, master_idx, pending, waited, told>>

\* readBmsCtrlFromDb, between two passes.
ReadMode ==
  /\ Change
  /\ mode' \in {"central", "distributed", "other"} \ {mode}
  /\ UNCHANGED <<g_state, clusters, selected, valid, master_idx, pending, waited, told>>

CtrlNext == bmsStackRunControl \/ syncClustersFromRtdb \/ LoseCluster \/ ReadMode
CtrlSpec == CtrlInit /\ [][CtrlNext]_ctrlVars

-----------------------------------------------------------------------------
(* Properties.                                                               *)

\* Types of the state.
CtrlTypeOK ==
  /\ g_state \in {"Init", "SelfCheck", "Standby", "Prepare", "MasterGridOn", "GridOn", "Run",
                  "PowerOff", "Fault"}
  /\ mode \in Both \cup {"other"}
  /\ clusters \in [Clusters -> [online : BOOLEAN, ready : BOOLEAN, fault : BOOLEAN,
                               volt : Volts \cup {0}, on : BOOLEAN]]
  /\ selected \subseteq Clusters
  /\ valid \in [list : [Clusters -> Clusters], cnt : 0 .. N]
  /\ {master_idx, pending} \subseteq Clusters \cup {None}
  /\ waited \in 1 .. Longest
  /\ told \in [Clusters -> {"none", "on", "off"}]
  /\ changes \in 0 .. MaxChanges

\* Clusters are dropped from the selection one by one while the others close,
\* and the configuration may change the machine in between: the number that
\* the machine compares with the clusters that have closed, and with the
\* minimum, is the number of clusters selected, and the master is one of them.
SelectionCounted ==
  g_state \in {"MasterGridOn", "GridOn"} =>
    /\ valid.cnt = Cardinality(selected)
    /\ g_state = "MasterGridOn" => master_idx \in selected
=============================================================================
