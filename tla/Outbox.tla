------------------------------- MODULE Outbox -------------------------------
(***************************************************************************)
(* The transactional outbox: producers append events, and one pump         *)
(* goroutine drains them with Relay.RunOnce, one pass after another until  *)
(* a pass finishes nothing.  Every store call is a step of its own, so a   *)
(* crash or a store error can fall between a projector's effect and the    *)
(* ledger row that records it.  Events are their ULIDs, that is numbers;   *)
(* projectors are numbered in the order of their registration.             *)
(***************************************************************************)
EXTENDS Naturals, FiniteSets

CONSTANTS
  Events,          \* event ids; a smaller id need not commit first
  NumProjectors,   \* registered projectors
  SameTx,          \* the ones that call MarkApplied in their own transaction
  Poison,          \* (projector, event) pairs whose Project always fails
  Needs,           \* triples: the projector fails on the last until it applied the first
  BatchSize,       \* limit of FetchUnprocessed
  MaxFaults        \* bound: crashes, store errors and passing projector failures

Projectors == 1..NumProjectors

ASSUME OutboxAssumption ==
  /\ Events \subseteq Nat
  /\ NumProjectors \in Nat
  /\ SameTx \subseteq Projectors
  /\ Poison \subseteq Projectors \X Events
  /\ Needs \subseteq {x \in Projectors \X Events \X Events : x[2] < x[3]}
  /\ \A x, y \in Needs : x[3] # y[2]
  /\ BatchSize \in Nat
  /\ MaxFaults \in Nat

VARIABLES
  appended,   \* outbox_events
  processed,  \* the ones with processed_at set
  applied,    \* outbox_applied
  effects,    \* how often each projector's effect of an event took place
  phase,      \* the pump: "idle" between ticks, "fetch", or "run" through a batch
  batch,      \* the fetched events RunOnce has not left behind yet
  proj,       \* the projector the loop is at
  projected,  \* its Project returned, its MarkApplied has not
  n,          \* events this pass processed
  faults      \* faults so far

store == <<appended, processed, applied, effects>>

relay == <<phase, batch, proj, projected, n>>

vars == <<store, relay, faults>>

\* Append, inside the producer's transaction.  An event that needs another is
\* about what the other one created.
Append(e) ==
  /\ e \notin appended
  /\ \A x \in Needs : x[3] = e => x[2] \in appended
  /\ appended' = appended \cup {e}
  /\ UNCHANGED <<processed, applied, effects, relay, faults>>

Unprocessed == appended \ processed

\* The boot drain or the ticker; tick hooks only append events.
Tick ==
  /\ phase = "idle"
  /\ phase' = "fetch"
  /\ UNCHANGED <<store, batch, proj, projected, n, faults>>

\* ORDER BY id LIMIT BatchSize
OldestUnprocessed ==
  {e \in Unprocessed : Cardinality({f \in Unprocessed : f < e}) < BatchSize}

FetchUnprocessed ==
  /\ phase = "fetch"
  /\ phase' = "run"
  /\ batch' = OldestUnprocessed
  /\ proj' = 1
  /\ projected' = FALSE
  /\ n' = 0
  /\ UNCHANGED <<store, faults>>

\* The loop is at projector proj of event e, the oldest left in the batch.
At(e) ==
  /\ phase = "run"
  /\ e \in batch
  /\ \A f \in batch : e <= f

\* RunOnce goes on to the next event.
LeaveEvent(e) ==
  /\ batch' = batch \ {e}
  /\ proj' = 1
  /\ projected' = FALSE
  /\ UNCHANGED phase

\* IsApplied is true: nothing to do for this projector.
SkipApplied(e) ==
  /\ At(e)
  /\ ~ projected
  /\ proj \in Projectors
  /\ <<proj, e>> \in applied
  /\ proj' = proj + 1
  /\ UNCHANGED <<store, phase, batch, projected, n, faults>>

\* Mutant: the ledger is not consulted.
ToProject_NoDedup(e) == At(e) /\ ~ projected /\ proj \in Projectors

\* IsApplied is false.
ToProject(e) ==
  /\ At(e)
  /\ ~ projected
  /\ proj \in Projectors
  /\ <<proj, e>> \notin applied

\* Project fails on the event, this time and the next.
Rejects(p, e) ==
  \/ <<p, e>> \in Poison
  \/ \E x \in Needs : x[1] = p /\ x[3] = e /\ <<p, x[2]>> \notin applied

Effect(e) == effects' = [effects EXCEPT ![<<proj, e>>] = @ + 1]

\* Mutant: no projector writes its ledger row in its transaction.
Project_SeparateTx(e) ==
  /\ ToProject(e)
  /\ ~ Rejects(proj, e)
  /\ Effect(e)
  /\ projected' = TRUE
  /\ UNCHANGED <<appended, processed, applied, phase, batch, proj, n, faults>>

Project(e) ==
  /\ ToProject(e)
  /\ ~ Rejects(proj, e)
  /\ Effect(e)
  /\ applied' = IF proj \in SameTx THEN applied \cup {<<proj, e>>} ELSE applied
  /\ projected' = TRUE
  /\ UNCHANGED <<appended, processed, phase, batch, proj, n, faults>>

\* Mutant: the failure does not leave the event for the next pass.
ProjectFails_GoesOn(e) ==
  /\ ToProject(e)
  /\ Rejects(proj, e)
  /\ proj' = proj + 1
  /\ UNCHANGED <<store, phase, batch, projected, n, faults>>

\* Mutant: the failure ends the pass.
ProjectFails_AbortsPass(e) ==
  /\ ToProject(e)
  /\ Rejects(proj, e)
  /\ phase' = "idle"
  /\ UNCHANGED <<store, batch, proj, projected, n, faults>>

\* Project rejects the event: it is left for the next pass, the projectors after
\* this one do not see it, the pass goes on.
ProjectFails(e) ==
  /\ ToProject(e)
  /\ Rejects(proj, e)
  /\ LeaveEvent(e)
  /\ UNCHANGED <<store, n, faults>>

\* Project fails this time.  A projector that is not one transaction may have
\* had its effect.
ProjectFailsOnce(e) ==
  /\ ToProject(e)
  /\ ~ Rejects(proj, e)
  /\ faults < MaxFaults
  /\ faults' = faults + 1
  /\ LeaveEvent(e)
  /\ UNCHANGED effects \/ (proj \notin SameTx /\ Effect(e))
  /\ UNCHANGED <<appended, processed, applied, n>>

\* Mutant: the ledger row is not written.
MarkApplied_Skipped(e) ==
  /\ At(e)
  /\ projected
  /\ proj' = proj + 1
  /\ projected' = FALSE
  /\ UNCHANGED <<store, phase, batch, n, faults>>

\* The relay's own INSERT OR IGNORE.
MarkApplied(e) ==
  /\ At(e)
  /\ projected
  /\ applied' = applied \cup {<<proj, e>>}
  /\ proj' = proj + 1
  /\ projected' = FALSE
  /\ UNCHANGED <<appended, processed, effects, phase, batch, n, faults>>

MarkProcessed(e) ==
  /\ At(e)
  /\ proj = NumProjectors + 1
  /\ processed' = processed \cup {e}
  /\ n' = n + 1
  /\ LeaveEvent(e)
  /\ UNCHANGED <<appended, applied, effects, faults>>

\* drain: again while the pass processed something, else until the next tick.
\* (Its cap of 1000 passes is more than there are events.)
PassEnds ==
  /\ phase = "run"
  /\ batch = {}
  /\ phase' = IF n = 0 THEN "idle" ELSE "fetch"
  /\ UNCHANGED <<store, batch, proj, projected, n, faults>>

\* A store call fails and RunOnce and drain return, or the server crashes and
\* starts again: what the relay had in memory is gone, the tables are not.
Abort ==
  /\ phase # "idle"
  /\ faults < MaxFaults
  /\ faults' = faults + 1
  /\ phase' = "idle"
  /\ batch' = {}
  /\ projected' = FALSE
  /\ UNCHANGED <<store, proj, n>>

------------------------------------------------------------------------------
Init ==
  /\ appended = {}
  /\ processed = {}
  /\ applied = {}
  /\ effects = [x \in Projectors \X Events |-> 0]
  /\ phase = "fetch"
  /\ batch = {}
  /\ proj = 1
  /\ projected = FALSE
  /\ n = 0
  /\ faults = 0

RelayStep ==
  \/ Tick
  \/ FetchUnprocessed
  \/ PassEnds
  \/ \E e \in Events : \/ SkipApplied(e)
                       \/ Project(e)
                       \/ ProjectFails(e)
                       \/ MarkApplied(e)
                       \/ MarkProcessed(e)

Fault == Abort \/ \E e \in Events : ProjectFailsOnce(e)

Next == (\E e \in Events : Append(e)) \/ RelayStep \/ Fault

\* The pump goroutine keeps going: its ticker fires and its loop never waits.
Spec == Init /\ [][Next]_vars /\ WF_vars(RelayStep)

------------------------------------------------------------------------------
TypeOK ==
  /\ appended \subseteq Events
  /\ processed \subseteq Events
  /\ applied \subseteq Projectors \X Events
  /\ effects \in [Projectors \X Events -> Nat]
  /\ phase \in {"idle", "fetch", "run"}
  /\ batch \subseteq Events
  /\ proj \in 1..(NumProjectors + 1)
  /\ projected \in BOOLEAN
  /\ n \in Nat
  /\ faults \in 0..MaxFaults

\* An event is marked processed only when every projector has it in the ledger,
\* and nothing is in the ledger whose effect did not take place: no crash, store
\* error or failure makes the relay forget a projector.
ProcessedMeansApplied ==
  /\ processed \subseteq appended
  /\ \A e \in processed, p \in Projectors : <<p, e>> \in applied
  /\ \A x \in applied : effects[x] > 0 /\ x[2] \in appended

\* A projector that records the event in its own transaction applies it exactly
\* once, whatever is retried.
SameTxExactlyOnce ==
  \A p \in SameTx, e \in Events : effects[<<p, e>>] = IF <<p, e>> \in applied THEN 1 ELSE 0

\* For the others, every effect beyond the first costs a crash, a store error or a
\* failure: dedup by the ledger leaves no other way to apply an event again.
Working(p, e) == projected /\ proj = p /\ e \in batch /\ \A f \in batch : e <= f

DuplicatesNeedFaults ==
  \A p \in Projectors, e \in Events :
    effects[<<p, e>>] <= faults + (IF <<p, e>> \in applied \/ Working(p, e) THEN 1 ELSE 0)

\* Where the loop is agrees with the tables: what it left behind for the current
\* event is in the ledger, what it has projected has had its effect.
LoopAgrees ==
  /\ batch \subseteq Unprocessed
  /\ phase # "run" => batch = {}
  /\ projected => batch # {} /\ proj \in Projectors
  /\ \A e \in batch : (\A f \in batch : e <= f) =>
       /\ \A q \in Projectors : q < proj => <<q, e>> \in applied
       /\ projected => effects[<<proj, e>>] > 0

IInv ==
  /\ TypeOK
  /\ ProcessedMeansApplied
  /\ SameTxExactlyOnce
  /\ DuplicatesNeedFaults
  /\ LoopAgrees

\* The outbox implements Delivery: the ledger is the confirmation.
D == INSTANCE Delivery WITH confirmed <- applied, done <- processed

ImplementsDelivery == D!DSpec

\* Every event that no projector rejects for good is processed in the end,
\* though events ahead of it fail on every pass, as long as they do not fill a
\* whole batch.
Healthy(e) ==
  /\ \A p \in Projectors : <<p, e>> \notin Poison
  /\ \A x \in Needs, p \in Projectors : x[3] = e /\ p <= x[1] => <<p, x[2]>> \notin Poison

HealthyEventsDrain ==
  Cardinality({e \in Events : ~ Healthy(e)}) < BatchSize =>
    \A e \in Events : Healthy(e) => (e \in appended ~> e \in processed)

==============================================================================
