---------------------------- MODULE ClusterChoice ----------------------------
(* app_bms_ctrl.c: which clusters the stack connects, and which of them first. *)
EXTENDS Integers, SequencesExt, FiniteSetsExt, Ranking

CONSTANTS
  N,              \* MAX_CLUSTER_NUM
  RbmsNum,        \* get_rbms_num
  AllowDiff,      \* allow_grid_volt_diff
  MinClusters     \* min_online_cluster_num

\* Clusters are counted by a uint8_t.
ASSUME ChoiceAssumption ==
  N \in 1 .. 255 /\ RbmsNum \in Nat /\ AllowDiff \in Nat /\ MinClusters \in Nat

Clusters == 0 .. N - 1
None == -1
Diff(a, b) == IF a < b THEN b - a ELSE a - b

\* getBmsCandidateClusters: in their order.
Candidates(cl) ==
  {c \in 0 .. Min({RbmsNum, N}) - 1 : cl[c].online /\ cl[c].ready /\ ~cl[c].fault}
getBmsCandidateClusters(cl) ==
  Ranked(Candidates(cl), {p \in Clusters \X Clusters : p[1] < p[2]})

\* Bubble sort of the candidates: by voltage, equal ones in their order.
Lower(cl) ==
  {p \in Clusters \X Clusters :
     \/ cl[p[1]].volt < cl[p[2]].volt
     \/ cl[p[1]].volt = cl[p[2]].volt /\ p[1] < p[2]}
ByVoltage(cl) == Ranked(Candidates(cl), Lower(cl))

\* mutant of Window: the head of the window stays where it is.
WindowFromFirst(cl, sorted, tail) ==
  [start |-> 1, len |-> IF cl[sorted[tail]].volt - cl[sorted[1]].volt > AllowDiff THEN 0 ELSE tail]

\* The window that ends at tail: its head moves on while the voltages differ
\* too much.
Window(cl, sorted, tail) ==
  LET head == Min({h \in 1 .. tail : cl[sorted[tail]].volt - cl[sorted[h]].volt <= AllowDiff})
  IN  [start |-> head, len |-> tail - head + 1]

\* The first of the longest windows.
BestWindow(cl, sorted) ==
  Window(cl, sorted,
         Min({t \in DOMAIN sorted : \A u \in DOMAIN sorted :
                Window(cl, sorted, u).len <= Window(cl, sorted, t).len}))

\* buildValidClusterSet: the clusters chosen, or none.
buildValidClusterSet(cl, md) ==
  LET sorted == ByVoltage(cl)
      best == BestWindow(cl, sorted)
  IN  CASE md = "distributed" -> getBmsCandidateClusters(cl)
        [] md = "central" /\ sorted # <<>> /\ best.len >= MinClusters ->
             SubSeq(sorted, best.start, best.start + best.len - 1)
        [] OTHER -> <<>>

\* getBmsMasterCluster: the first cluster closest to the average voltage.
getBmsMasterCluster(cl, list) ==
  LET sum[i \in 0 .. Len(list)] == IF i = 0 THEN 0 ELSE sum[i - 1] + cl[list[i]].volt
      Far(i) == Diff(cl[list[i]].volt * Len(list), sum[Len(list)])
      nearest == {i \in DOMAIN list : \A j \in DOMAIN list : Far(i) <= Far(j)}
  IN  IF list = <<>> THEN None ELSE list[Min(nearest)]

-----------------------------------------------------------------------------
(* Property.                                                                 *)

\* The voltages are numbers.
Measured(cl) == \A c \in Clusters : cl[c].volt \in Int

\* For any clusters, the set chosen in the central mode may be connected (no
\* two of its voltages differ too much), and no larger set may.
LargestSetChosen(cl) ==
  LET Fit(cs) == \A a, b \in cs : Diff(cl[a].volt, cl[b].volt) <= AllowDiff
      chosen == buildValidClusterSet(cl, "central")
  IN  /\ IsInjective(chosen) /\ Range(chosen) \subseteq Candidates(cl) /\ Fit(Range(chosen))
      /\ \A cs \in SUBSET Candidates(cl) :
           Fit(cs) /\ Cardinality(cs) >= MinClusters => Cardinality(cs) <= Len(chosen)
==============================================================================
