----------------------------- MODULE MCKitQueue -----------------------------
(* KitQueue for TLC: two producers (a callback thread and a control thread) *)
(* and the one consumer every queue of bsp_bms_com.c has.                   *)
EXTENDS KitQueue, TLC

\* Producers and elements are interchangeable.
Symmetry == Permutations(Producers) \cup Permutations(Data)
=============================================================================
