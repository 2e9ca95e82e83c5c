------------------------------ MODULE MCOutbox ------------------------------
(* Three projectors: the participants, one that rejects the creation of the   *)
(* task for ever, and one that rejects the event after it, which is not about *)
(* the task.                                                                  *)
EXTENDS Participants

MCSameTx == {1}

MCPoison == {<<2, 1>>, <<3, 2>>}

MCAbout == {1, 3, 4}

MCNeeds == {<<1, 1, 3>>, <<1, 1, 4>>}
==============================================================================
