------------------------------- MODULE Ranking -------------------------------
(* What the bubble sorts of the firmware compute (buildValidClusterSet of       *)
(* app_bms_ctrl.c, modbusSort of bsp_modbus.c): they swap neighbours that are   *)
(* out of order only, so equal elements keep their places.  The order, a set    *)
(* of pairs, tells equal ones apart by their places.                            *)
EXTENDS Integers, FiniteSets

\* The sequence of the elements of a finite set in an order.
Ranked(S, before) ==
  [i \in 1 .. Cardinality(S) |->
     CHOOSE c \in S : Cardinality({d \in S : <<d, c>> \in before}) = i - 1]
===============================================================================
