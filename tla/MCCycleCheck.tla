---------------------------- MODULE MCCycleCheck ----------------------------
(* Every graph on three nodes, cyclic ones included, and every acyclic     *)
(* graph on four nodes up to renaming, with every edge added to it.        *)
EXTENDS CycleCheck

MCNodes == 1..4

MCExisting ==
  SUBSET ((1..3) \X (1..3)) \cup SUBSET {e \in (1..4) \X (1..4) : e[1] < e[2]}
=============================================================================
