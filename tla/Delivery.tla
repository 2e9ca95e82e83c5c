------------------------------ MODULE Delivery ------------------------------
(***************************************************************************)
(* What the outbox promises its producers and projectors: an event that    *)
(* committed reaches every projector at least once, exactly once a         *)
(* projector that records it in its own transaction, and is done only when *)
(* all have confirmed it.  There is no relay, batch or failure here.       *)
(***************************************************************************)
EXTENDS Naturals

CONSTANTS Events, Projectors, SameTx

VARIABLES
  appended,   \* events whose producer committed
  effects,    \* how often each projector's effect of an event took place
  confirmed,  \* the (projector, event) pairs that are confirmed
  done        \* events that need no more work

dvars == <<appended, effects, confirmed, done>>

DInit ==
  /\ appended = {}
  /\ effects = [x \in Projectors \X Events |-> 0]
  /\ confirmed = {}
  /\ done = {}

Commit(e) ==
  /\ e \notin appended
  /\ appended' = appended \cup {e}
  /\ UNCHANGED <<effects, confirmed, done>>

Deliver(p, e) ==
  /\ e \in appended
  /\ <<p, e>> \notin confirmed
  /\ effects' = [effects EXCEPT ![<<p, e>>] = @ + 1]
  /\ confirmed' = IF p \in SameTx THEN confirmed \cup {<<p, e>>} ELSE confirmed
  /\ UNCHANGED <<appended, done>>

Confirm(p, e) ==
  /\ effects[<<p, e>>] > 0
  /\ confirmed' = confirmed \cup {<<p, e>>}
  /\ UNCHANGED <<appended, effects, done>>

Finish(e) ==
  /\ e \in appended
  /\ \A p \in Projectors : <<p, e>> \in confirmed
  /\ done' = done \cup {e}
  /\ UNCHANGED <<appended, effects, confirmed>>

DNext ==
  \E e \in Events :
    \/ Commit(e)
    \/ \E p \in Projectors : Deliver(p, e) \/ Confirm(p, e)
    \/ Finish(e)

DSpec == DInit /\ [][DNext]_dvars
==============================================================================
