----------------------------- MODULE MCTaskPool -----------------------------
(* The instance of TaskPool: one agent whose concurrency cap is edited while *)
(* its tasks run.                                                            *)
EXTENDS TaskPool, TLC

CONSTANT a1

EditedCap == a1 :> {1, 2}
==============================================================================
