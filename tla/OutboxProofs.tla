---------------------------- MODULE OutboxProofs ----------------------------
(***************************************************************************)
(* Proofs about Outbox for any events, projectors, batch size and number   *)
(* of faults.  The four promises are not inductive by themselves: that an  *)
(* event is processed only when every projector confirmed it, and that a   *)
(* confirmed projector had its effect, depends on where the loop stands,   *)
(* which is what LoopAgrees adds.  The second part is about Participants:  *)
(* the outbox under the projector keeps its invariant, and with it         *)
(* FollowInv, which says in which order the events about the task pass it. *)
(***************************************************************************)
EXTENDS Participants, FiniteSetTheorems, TLAPS


(* Counting an effect of projector proj for event e changes that counter   *)
(* only.                                                                   *)
LEMMA EffectCounts ==
  ASSUME TypeOK, NEW e \in Events, proj \in Projectors, Effect(e)
  PROVE  /\ effects' \in [Projectors \X Events -> Nat]
         /\ effects'[<<proj, e>>] = effects[<<proj, e>>] + 1
         /\ \A x \in Projectors \X Events : x # <<proj, e>> => effects'[x] = effects[x]
<1>1. effects \in [Projectors \X Events -> Nat] BY DEF TypeOK
<1>2. <<proj, e>> \in Projectors \X Events OBVIOUS
<1>3. effects[<<proj, e>>] + 1 \in Nat
  <2>1. effects[<<proj, e>>] \in Nat BY <1>1, <1>2
  <2>2. \A x \in Nat : x + 1 \in Nat OBVIOUS
  <2> QED BY <2>1, <2>2
<1> QED BY <1>1, <1>2, <1>3 DEF Effect

(* Init satisfies the invariant. *)
LEMMA InitEstablishes == Init => IInv
<1> SUFFICES ASSUME Init PROVE IInv OBVIOUS
<1> USE OutboxAssumption DEF Init
<1>1. TypeOK
  <2>1. 1 \in 1..(NumProjectors + 1) /\ 0 \in 0..MaxFaults /\ 0 \in Nat OBVIOUS
  <2>2. effects \in [Projectors \X Events -> Nat] BY <2>1
  <2> QED BY <2>1, <2>2 DEF TypeOK
<1>2. ProcessedMeansApplied BY DEF ProcessedMeansApplied
<1>3. SameTxExactlyOnce BY DEF SameTxExactlyOnce, Projectors
<1>4. DuplicatesNeedFaults BY DEF DuplicatesNeedFaults, Working, Projectors
<1>5. LoopAgrees BY DEF LoopAgrees
<1> QED BY <1>1, <1>2, <1>3, <1>4, <1>5 DEF IInv

(* Every step keeps the types. *)
LEMMA TypesKept == TypeOK /\ LoopAgrees /\ [Next]_vars => TypeOK'
<1> SUFFICES ASSUME TypeOK, LoopAgrees, [Next]_vars PROVE TypeOK' OBVIOUS
<1>0. /\ 1 \in 1..(NumProjectors + 1)
      /\ \A q \in Projectors : q + 1 \in 1..(NumProjectors + 1)
      /\ \A f \in 0..MaxFaults : f < MaxFaults => f + 1 \in 0..MaxFaults
      /\ \A i \in Nat : i + 1 \in Nat
  BY OutboxAssumption DEF Projectors
<1>1. ASSUME NEW e \in Events, Append(e) PROVE TypeOK'
  BY <1>1 DEF Append, TypeOK, relay
<1>2. CASE Tick BY <1>2 DEF Tick, TypeOK, store
<1>3. CASE FetchUnprocessed
  BY <1>0, <1>3 DEF FetchUnprocessed, OldestUnprocessed, Unprocessed, TypeOK, store
<1>4. CASE PassEnds BY <1>4 DEF PassEnds, TypeOK, store
<1>5. ASSUME NEW e \in Events, SkipApplied(e) PROVE TypeOK'
  BY <1>0, <1>5 DEF SkipApplied, TypeOK, store, Projectors
<1>6. ASSUME NEW e \in Events, Project(e) PROVE TypeOK'
  BY <1>6, EffectCounts DEF Project, ToProject, TypeOK
<1>7. ASSUME NEW e \in Events, ProjectFails(e) PROVE TypeOK'
  BY <1>0, <1>7 DEF ProjectFails, LeaveEvent, TypeOK, store
<1>8. ASSUME NEW e \in Events, MarkApplied(e) PROVE TypeOK'
  BY <1>0, <1>8 DEF MarkApplied, LoopAgrees, TypeOK, Projectors
<1>9. ASSUME NEW e \in Events, MarkProcessed(e) PROVE TypeOK'
  BY <1>0, <1>9 DEF MarkProcessed, LeaveEvent, TypeOK
<1>10. CASE Abort BY <1>0, <1>10 DEF Abort, TypeOK, store
<1>11. ASSUME NEW e \in Events, ProjectFailsOnce(e) PROVE TypeOK'
  <2>1. effects' \in [Projectors \X Events -> Nat]
    BY <1>11, EffectCounts DEF ProjectFailsOnce, ToProject, TypeOK
  <2> QED BY <1>0, <1>11, <2>1 DEF ProjectFailsOnce, LeaveEvent, TypeOK
<1>12. CASE UNCHANGED vars BY <1>12 DEF vars, store, relay, TypeOK
<1> QED BY <1>1, <1>2, <1>3, <1>4, <1>5, <1>6, <1>7, <1>8, <1>9, <1>10, <1>11, <1>12
        DEF Next, RelayStep, Fault

(* The oldest event of the batch is one event. *)
LEMMA OldestIsUnique ==
  ASSUME TypeOK, NEW e \in batch, NEW f \in batch,
         \A g \in batch : e <= g, \A g \in batch : f <= g
  PROVE  e = f
<1>1. e \in Nat /\ f \in Nat BY OutboxAssumption DEF TypeOK
<1>2. e <= f /\ f <= e OBVIOUS
<1> QED BY <1>1, <1>2

(* A step that changes no table, counts no fault and leaves the relay     *)
(* nothing in hand keeps the three promises about the tables.              *)
LEMMA TablesKept ==
  ASSUME IInv, UNCHANGED <<processed, applied, effects, faults>>, ~ projected,
         appended \subseteq appended'
  PROVE  ProcessedMeansApplied' /\ SameTxExactlyOnce' /\ DuplicatesNeedFaults'
<1>1. ProcessedMeansApplied' BY DEF IInv, ProcessedMeansApplied
<1>2. SameTxExactlyOnce' BY DEF IInv, SameTxExactlyOnce
<1>3. DuplicatesNeedFaults'
  <2> SUFFICES ASSUME NEW p \in Projectors, NEW e \in Events
               PROVE  effects[<<p, e>>] <=
                        faults + (IF <<p, e>> \in applied \/ Working(p, e)' THEN 1 ELSE 0)
    BY DEF DuplicatesNeedFaults
  <2>1. effects[<<p, e>>] <= faults + (IF <<p, e>> \in applied THEN 1 ELSE 0)
    BY DEF IInv, DuplicatesNeedFaults, Working
  <2>2. effects[<<p, e>>] \in Nat /\ faults \in Nat
    BY OutboxAssumption DEF IInv, TypeOK
  <2> QED BY <2>1, <2>2
<1> QED BY <1>1, <1>2, <1>3

(* The steps that write no table, Append among them, keep the invariant.   *)
LEMMA QuietStepsKeep ==
  ASSUME IInv, TypeOK',
         \/ Tick \/ FetchUnprocessed \/ PassEnds
         \/ \E e \in Events : Append(e) \/ SkipApplied(e) \/ ProjectFails(e)
  PROVE  IInv'
<1> USE DEF IInv
<1>1. ASSUME NEW e \in Events, Append(e) PROVE IInv'
  <2>1. ProcessedMeansApplied'
    BY <1>1 DEF Append, relay, ProcessedMeansApplied
  <2>2. SameTxExactlyOnce'
    BY <1>1 DEF Append, relay, SameTxExactlyOnce
  <2>3. DuplicatesNeedFaults'
    BY <1>1 DEF Append, relay, DuplicatesNeedFaults, Working
  <2>4. LoopAgrees'
    BY <1>1 DEF Append, relay, LoopAgrees, Unprocessed
  <2> QED BY <2>1, <2>2, <2>3, <2>4
<1>2. CASE Tick \/ PassEnds
  <2>1. ~ projected /\ batch = {}
    BY <1>2 DEF Tick, PassEnds, LoopAgrees
  <2>2. ProcessedMeansApplied' /\ SameTxExactlyOnce' /\ DuplicatesNeedFaults'
    BY <1>2, <2>1, TablesKept DEF Tick, PassEnds, store
  <2>3. LoopAgrees'
    BY <1>2, <2>1 DEF Tick, PassEnds, store, LoopAgrees
  <2> QED BY <2>2, <2>3
<1>3. CASE FetchUnprocessed
  <2>1. ~ projected
    BY <1>3 DEF FetchUnprocessed, LoopAgrees
  <2>2. ProcessedMeansApplied' /\ SameTxExactlyOnce' /\ DuplicatesNeedFaults'
    BY <1>3, <2>1, TablesKept DEF FetchUnprocessed, store
  <2>3. \A q \in Projectors : ~ (q < 1)
    BY OutboxAssumption DEF Projectors
  <2>4. LoopAgrees'
    BY <1>3, <2>3 DEF FetchUnprocessed, OldestUnprocessed, Unprocessed, store, LoopAgrees
  <2> QED BY <2>2, <2>4
<1>4. ASSUME NEW e \in Events, SkipApplied(e) PROVE IInv'
  <2>1. ProcessedMeansApplied' /\ SameTxExactlyOnce' /\ DuplicatesNeedFaults'
    BY <1>4, TablesKept DEF SkipApplied, store
  <2>2. ASSUME NEW f \in batch, \A g \in batch : f <= g,
               NEW q \in Projectors, q < proj + 1
        PROVE  <<q, f>> \in applied
    <3>1. f = e BY <1>4, <2>2, OldestIsUnique DEF SkipApplied, At
    <3>2. q < proj \/ q = proj
      BY <1>4, <2>2, OutboxAssumption DEF SkipApplied, Projectors
    <3> QED BY <1>4, <2>2, <3>1, <3>2 DEF SkipApplied, LoopAgrees
  <2>3. LoopAgrees'
    BY <1>4, <2>2 DEF SkipApplied, At, store, LoopAgrees, Unprocessed
  <2> QED BY <2>1, <2>3
<1>5. ASSUME NEW e \in Events, ProjectFails(e) PROVE IInv'
  <2>1. ProcessedMeansApplied' /\ SameTxExactlyOnce' /\ DuplicatesNeedFaults'
    BY <1>5, TablesKept DEF ProjectFails, ToProject, store
  <2>2. \A q \in Projectors : ~ (q < 1)
    BY OutboxAssumption DEF Projectors
  <2>3. LoopAgrees'
    BY <1>5, <2>2 DEF ProjectFails, ToProject, At, LeaveEvent, store, LoopAgrees, Unprocessed
  <2> QED BY <2>1, <2>3
<1> QED BY <1>1, <1>2, <1>3, <1>4, <1>5

(* Project: the effect, and in the same transaction the ledger row of a    *)
(* projector that writes it.                                               *)
LEMMA ProjectKeeps ==
  ASSUME IInv, TypeOK', NEW e \in Events, Project(e)
  PROVE  IInv'
<1> USE DEF IInv
<1> DEFINE x == <<proj, e>>
<1>1. /\ proj \in Projectors /\ ~ projected /\ x \notin applied
      /\ e \in batch /\ e \in appended /\ phase = "run"
      /\ applied' = IF proj \in SameTx THEN applied \cup {x} ELSE applied
  BY DEF Project, ToProject, At, LoopAgrees, Unprocessed
<1>2. /\ effects'[x] = effects[x] + 1
      /\ \A y \in Projectors \X Events : y # x => effects'[y] = effects[y]
  BY <1>1, EffectCounts DEF Project
<1>3. effects[x] \in Nat /\ faults \in Nat
  BY <1>1, OutboxAssumption DEF TypeOK
<1>4. \A y \in Projectors \X Events : effects[y] > 0 => effects'[y] > 0
  BY <1>2, <1>3
<1>5. effects'[x] > 0 BY <1>2, <1>3
<1>6. ProcessedMeansApplied'
  <2>1. \A y \in applied' : effects'[y] > 0 /\ y[2] \in appended
    BY <1>1, <1>4, <1>5 DEF TypeOK, ProcessedMeansApplied
  <2> QED BY <1>1, <2>1 DEF Project, ProcessedMeansApplied
<1>7. SameTxExactlyOnce'
  <2> SUFFICES ASSUME NEW p \in SameTx, NEW f \in Events
               PROVE  effects'[<<p, f>>] = IF <<p, f>> \in applied' THEN 1 ELSE 0
    BY DEF SameTxExactlyOnce
  <2>0. p \in Projectors BY OutboxAssumption
  <2>1. CASE <<p, f>> = x
    <3>1. effects[x] = 0 BY <1>1, <2>1 DEF SameTxExactlyOnce
    <3>2. x \in applied' BY <1>1, <2>1
    <3> QED BY <1>2, <2>1, <3>1, <3>2
  <2>2. CASE <<p, f>> # x
    BY <1>1, <1>2, <2>0, <2>2 DEF SameTxExactlyOnce
  <2> QED BY <2>1, <2>2
<1>8. DuplicatesNeedFaults'
  <2> SUFFICES ASSUME NEW p \in Projectors, NEW f \in Events
               PROVE  effects'[<<p, f>>] <=
                        faults + (IF <<p, f>> \in applied' \/ Working(p, f)' THEN 1 ELSE 0)
    BY DEF Project, DuplicatesNeedFaults
  <2>1. effects[<<p, f>>] <= faults + (IF <<p, f>> \in applied THEN 1 ELSE 0)
    BY <1>1 DEF DuplicatesNeedFaults, Working
  <2>2. CASE <<p, f>> = x
    <3>1. effects[x] <= faults BY <1>1, <1>3, <2>1, <2>2
    <3>2. Working(p, f)' BY <2>2 DEF Working, Project, ToProject, At
    <3> QED BY <1>2, <1>3, <2>2, <3>1, <3>2
  <2>3. CASE <<p, f>> # x
    <3>1. effects'[<<p, f>>] = effects[<<p, f>>] BY <1>2, <2>3
    <3>2. <<p, f>> \in applied' <=> <<p, f>> \in applied BY <1>1, <2>3
    <3>3. effects[<<p, f>>] \in Nat BY DEF TypeOK
    <3> QED BY <1>3, <2>1, <3>1, <3>2, <3>3
  <2> QED BY <2>2, <2>3
<1>9. LoopAgrees'
  <2>1. ASSUME NEW f \in batch, \A g \in batch : f <= g PROVE f = e
    BY <2>1, OldestIsUnique DEF Project, ToProject, At
  <2>2. UNCHANGED <<appended, processed, phase, batch, proj>> /\ projected'
    BY DEF Project
  <2>3. applied \subseteq applied' BY <1>1
  <2> QED BY <1>1, <1>5, <2>1, <2>2, <2>3 DEF LoopAgrees, Unprocessed
<1> QED BY <1>6, <1>7, <1>8, <1>9

(* MarkApplied: the projector had its effect; a transactional one wrote    *)
(* the row itself.                                                         *)
LEMMA MarkAppliedKeeps ==
  ASSUME IInv, TypeOK', NEW e \in Events, MarkApplied(e)
  PROVE  IInv'
<1> USE DEF IInv
<1> DEFINE x == <<proj, e>>
<1>1. /\ proj \in Projectors /\ projected /\ e \in batch /\ e \in appended
      /\ effects[x] > 0 /\ phase = "run"
      /\ \A g \in batch : e <= g
      /\ applied' = applied \cup {x} /\ proj' = proj + 1 /\ ~ projected'
      /\ UNCHANGED <<appended, processed, effects, phase, batch, n, faults>>
  BY DEF MarkApplied, At, LoopAgrees, Unprocessed
<1>2. effects[x] \in Nat /\ faults \in Nat
  BY <1>1, OutboxAssumption DEF TypeOK
<1>3. ASSUME NEW f \in batch, \A g \in batch : f <= g PROVE f = e
  BY <1>1, <1>3, OldestIsUnique
<1>4. ProcessedMeansApplied' BY <1>1 DEF ProcessedMeansApplied
<1>5. SameTxExactlyOnce'
  <2>1. proj \in SameTx => x \in applied
    BY <1>1, <1>2 DEF SameTxExactlyOnce
  <2> QED BY <1>1, <2>1 DEF SameTxExactlyOnce
<1>6. DuplicatesNeedFaults'
  <2> SUFFICES ASSUME NEW p \in Projectors, NEW f \in Events
               PROVE  effects[<<p, f>>] <=
                        faults + (IF <<p, f>> \in applied' \/ Working(p, f)' THEN 1 ELSE 0)
    BY <1>1 DEF DuplicatesNeedFaults
  <2>1. <<p, f>> \in applied \/ Working(p, f) => <<p, f>> \in applied'
    BY <1>1, <1>3 DEF Working
  <2>2. effects[<<p, f>>] <=
          faults + (IF <<p, f>> \in applied \/ Working(p, f) THEN 1 ELSE 0)
    BY DEF DuplicatesNeedFaults
  <2>3. effects[<<p, f>>] \in Nat BY DEF TypeOK
  <2> QED BY <1>2, <2>1, <2>2, <2>3
<1>7. LoopAgrees'
  <2>1. ASSUME NEW f \in batch, \A g \in batch : f <= g,
               NEW q \in Projectors, q < proj + 1
        PROVE  <<q, f>> \in applied'
    <3>1. f = e BY <1>3, <2>1
    <3>2. q < proj \/ q = proj BY <1>1, <2>1, OutboxAssumption DEF Projectors
    <3> QED BY <1>1, <2>1, <3>1, <3>2 DEF LoopAgrees
  <2> QED BY <1>1, <2>1 DEF LoopAgrees, Unprocessed
<1> QED BY <1>4, <1>5, <1>6, <1>7

(* MarkProcessed: the loop is past the last projector, so the ledger has   *)
(* them all.                                                               *)
LEMMA MarkProcessedKeeps ==
  ASSUME IInv, TypeOK', NEW e \in Events, MarkProcessed(e)
  PROVE  IInv'
<1> USE DEF IInv
<1>1. \A q \in Projectors : q < NumProjectors + 1 /\ ~ (q < 1) /\ q # NumProjectors + 1
  BY OutboxAssumption DEF Projectors
<1>2. /\ e \in batch /\ e \in appended /\ ~ projected
      /\ \A q \in Projectors : <<q, e>> \in applied
      /\ processed' = processed \cup {e} /\ batch' = batch \ {e}
      /\ proj' = 1 /\ ~ projected'
      /\ UNCHANGED <<appended, applied, effects, faults, phase>>
  BY <1>1 DEF MarkProcessed, At, LeaveEvent, LoopAgrees, Unprocessed
<1>3. ProcessedMeansApplied' BY <1>2 DEF ProcessedMeansApplied
<1>4. SameTxExactlyOnce' BY <1>2 DEF SameTxExactlyOnce
<1>5. DuplicatesNeedFaults' BY <1>2 DEF DuplicatesNeedFaults, Working
<1>6. LoopAgrees' BY <1>1, <1>2 DEF LoopAgrees, Unprocessed
<1> QED BY <1>3, <1>4, <1>5, <1>6

(* Abort: the effect in hand is lost to the ledger and paid for by the     *)
(* fault.                                                                  *)
LEMMA AbortKeeps ==
  ASSUME IInv, TypeOK', Abort
  PROVE  IInv'
<1> USE DEF IInv
<1>1. /\ batch' = {} /\ ~ projected' /\ faults' = faults + 1 /\ phase' = "idle"
      /\ UNCHANGED <<appended, processed, applied, effects>>
  BY DEF Abort, store
<1>2. ProcessedMeansApplied' BY <1>1 DEF ProcessedMeansApplied
<1>3. SameTxExactlyOnce' BY <1>1 DEF SameTxExactlyOnce
<1>4. DuplicatesNeedFaults'
  <2> SUFFICES ASSUME NEW p \in Projectors, NEW e \in Events
               PROVE  effects[<<p, e>>] <=
                        faults + 1 + (IF <<p, e>> \in applied \/ Working(p, e)' THEN 1 ELSE 0)
    BY <1>1 DEF DuplicatesNeedFaults
  <2>1. effects[<<p, e>>] <=
          faults + (IF <<p, e>> \in applied \/ Working(p, e) THEN 1 ELSE 0)
    BY DEF DuplicatesNeedFaults
  <2>2. effects[<<p, e>>] \in Nat /\ faults \in Nat BY OutboxAssumption DEF TypeOK
  <2> QED BY <2>1, <2>2
<1>5. LoopAgrees' BY <1>1 DEF LoopAgrees
<1> QED BY <1>2, <1>3, <1>4, <1>5

(* ProjectFailsOnce: an effect without a ledger row, paid for by the       *)
(* fault; a transactional projector has none.                              *)
LEMMA ProjectFailsOnceKeeps ==
  ASSUME IInv, TypeOK', NEW e \in Events, ProjectFailsOnce(e)
  PROVE  IInv'
<1> USE DEF IInv
<1> DEFINE x == <<proj, e>>
<1>1. /\ proj \in Projectors /\ ~ projected /\ x \notin applied
      /\ faults' = faults + 1
      /\ batch' = batch \ {e} /\ proj' = 1 /\ ~ projected'
      /\ UNCHANGED <<appended, processed, applied, phase>>
  BY DEF ProjectFailsOnce, ToProject, LeaveEvent
<1>2. /\ effects'[x] = effects[x] \/ (proj \notin SameTx /\ effects'[x] = effects[x] + 1)
      /\ \A y \in Projectors \X Events : y # x => effects'[y] = effects[y]
  BY <1>1, EffectCounts DEF ProjectFailsOnce
<1>3. \A y \in Projectors \X Events : effects[y] \in Nat BY DEF TypeOK
<1>4. x \in Projectors \X Events /\ faults \in Nat
  BY <1>1, OutboxAssumption DEF TypeOK
<1>5. ProcessedMeansApplied'
  <2>1. \A y \in applied : effects'[y] = effects[y] BY <1>1, <1>2 DEF TypeOK
  <2> QED BY <1>1, <2>1 DEF ProcessedMeansApplied
<1>6. SameTxExactlyOnce'
  <2>1. \A p \in SameTx, f \in Events : effects'[<<p, f>>] = effects[<<p, f>>]
    BY <1>2, OutboxAssumption
  <2> QED BY <1>1, <2>1 DEF SameTxExactlyOnce
<1>7. DuplicatesNeedFaults'
  <2> SUFFICES ASSUME NEW p \in Projectors, NEW f \in Events
               PROVE  effects'[<<p, f>>] <=
                        faults + 1 + (IF <<p, f>> \in applied \/ Working(p, f)' THEN 1 ELSE 0)
    BY <1>1 DEF DuplicatesNeedFaults
  <2>1. effects[<<p, f>>] <= faults + (IF <<p, f>> \in applied THEN 1 ELSE 0)
    BY <1>1 DEF DuplicatesNeedFaults, Working
  <2>2. effects[<<p, f>>] \in Nat BY <1>3
  <2>3. CASE <<p, f>> = x
    <3>1. effects[x] <= faults BY <1>1, <1>4, <2>1, <2>3
    <3> QED BY <1>2, <1>4, <2>2, <2>3, <3>1
  <2>4. CASE <<p, f>> # x BY <1>2, <1>4, <2>1, <2>2, <2>4
  <2> QED BY <2>3, <2>4
<1>8. LoopAgrees'
  <2>1. \A q \in Projectors : ~ (q < 1) BY OutboxAssumption DEF Projectors
  <2> QED BY <1>1, <2>1 DEF LoopAgrees, Unprocessed
<1> QED BY <1>5, <1>6, <1>7, <1>8

LEMMA StepKeeps == IInv /\ [Next]_vars => IInv'
<1> SUFFICES ASSUME IInv, [Next]_vars PROVE IInv' OBVIOUS
<1>1. TypeOK' BY TypesKept DEF IInv
<1>2. CASE UNCHANGED vars
  <2>1. UNCHANGED <<appended, processed, applied, effects, phase, batch, proj,
                    projected, n, faults>>
    BY <1>2 DEF vars, store, relay
  <2> QED BY <1>1, <2>1 DEF IInv, ProcessedMeansApplied, SameTxExactlyOnce,
        DuplicatesNeedFaults, Working, LoopAgrees, Unprocessed
<1>3. CASE Tick \/ FetchUnprocessed \/ PassEnds BY <1>1, <1>3, QuietStepsKeep
<1>4. ASSUME NEW e \in Events, Append(e) \/ SkipApplied(e) \/ ProjectFails(e)
      PROVE  IInv'
  BY <1>1, <1>4, QuietStepsKeep
<1>5. ASSUME NEW e \in Events, Project(e) PROVE IInv'
  BY <1>1, <1>5, ProjectKeeps
<1>6. ASSUME NEW e \in Events, MarkApplied(e) PROVE IInv'
  BY <1>1, <1>6, MarkAppliedKeeps
<1>7. ASSUME NEW e \in Events, MarkProcessed(e) PROVE IInv'
  BY <1>1, <1>7, MarkProcessedKeeps
<1>8. CASE Abort BY <1>1, <1>8, AbortKeeps
<1>9. ASSUME NEW e \in Events, ProjectFailsOnce(e) PROVE IInv'
  BY <1>1, <1>9, ProjectFailsOnceKeeps
<1> QED BY <1>2, <1>3, <1>4, <1>5, <1>6, <1>7, <1>8, <1>9 DEF Next, RelayStep, Fault

(* The relay keeps its promises about the ledger, whatever crashes, store  *)
(* errors and projector failures interrupt RunOnce.                        *)
THEOREM OutboxInvariant == Spec => []IInv
<1>1. Init => IInv BY InitEstablishes
<1>2. IInv /\ [Next]_vars => IInv' BY StepKeeps
<1> QED BY <1>1, <1>2, PTL DEF Spec

(* MarkProcessed never loses a projector.                                  *)
THEOREM NothingSkipped == Spec => []ProcessedMeansApplied
<1>1. IInv => ProcessedMeansApplied BY DEF IInv
<1> QED BY <1>1, OutboxInvariant, PTL

(* A projector that calls MarkApplied in its own transaction applies every *)
(* event at most once, and exactly once when the event is processed.       *)
THEOREM ExactlyOnceInOneTx == Spec => []SameTxExactlyOnce
<1>1. IInv => SameTxExactlyOnce BY DEF IInv
<1> QED BY <1>1, OutboxInvariant, PTL

(* The relay applies an event to a projector again only after a fault.     *)
THEOREM DuplicatesAreFaults == Spec => []DuplicatesNeedFaults
<1>1. IInv => DuplicatesNeedFaults BY DEF IInv
<1> QED BY <1>1, OutboxInvariant, PTL

(* Every step of the relay is one step of Delivery or changes none of its  *)
(* state.                                                                  *)
LEMMA StepImplements == IInv /\ [Next]_vars => [D!DNext]_(D!dvars)
<1> SUFFICES ASSUME IInv, [Next]_vars PROVE [D!DNext]_(D!dvars) OBVIOUS
<1> USE DEF D!dvars, D!DNext
<1>1. ASSUME NEW e \in Events, Append(e) PROVE D!DNext
  <2>1. D!Commit(e) BY <1>1 DEF Append, D!Commit
  <2> QED BY <2>1
<1>2. ASSUME NEW e \in Events, Project(e) PROVE D!DNext
  <2>1. proj \in Projectors /\ e \in appended
    BY <1>2 DEF Project, ToProject, At, IInv, LoopAgrees, Unprocessed
  <2>2. D!Deliver(proj, e)
    BY <1>2, <2>1 DEF Project, ToProject, Effect, D!Deliver
  <2> QED BY <2>1, <2>2
<1>3. ASSUME NEW e \in Events, MarkApplied(e) PROVE D!DNext
  <2>1. proj \in Projectors /\ effects[<<proj, e>>] > 0
    BY <1>3 DEF MarkApplied, At, IInv, LoopAgrees
  <2>2. D!Confirm(proj, e) BY <1>3, <2>1 DEF MarkApplied, D!Confirm
  <2> QED BY <2>1, <2>2
<1>4. ASSUME NEW e \in Events, MarkProcessed(e) PROVE D!DNext
  <2>1. e \in appended /\ \A q \in Projectors : <<q, e>> \in applied
    <3>1. \A q \in Projectors : q < NumProjectors + 1
      BY OutboxAssumption DEF Projectors
    <3> QED BY <1>4, <3>1 DEF MarkProcessed, At, IInv, LoopAgrees, Unprocessed
  <2>2. D!Finish(e) BY <1>4, <2>1 DEF MarkProcessed, D!Finish
  <2> QED BY <2>2
<1>5. ASSUME NEW e \in Events, ProjectFailsOnce(e) PROVE [D!DNext]_(D!dvars)
  <2>1. proj \in Projectors /\ e \in appended /\ <<proj, e>> \notin applied
    BY <1>5 DEF ProjectFailsOnce, ToProject, At, IInv, LoopAgrees, Unprocessed
  <2>2. CASE UNCHANGED effects BY <1>5, <2>2 DEF ProjectFailsOnce
  <2>3. CASE proj \notin SameTx /\ Effect(e)
    <3>1. D!Deliver(proj, e)
      BY <1>5, <2>1, <2>3 DEF ProjectFailsOnce, Effect, D!Deliver
    <3> QED BY <2>1, <3>1
  <2> QED BY <1>5, <2>2, <2>3 DEF ProjectFailsOnce
<1>6. CASE Tick \/ FetchUnprocessed \/ PassEnds \/ Abort \/ UNCHANGED vars
  BY <1>6 DEF Tick, FetchUnprocessed, PassEnds, Abort, vars, store
<1>7. ASSUME NEW e \in Events, SkipApplied(e) \/ ProjectFails(e)
      PROVE  UNCHANGED D!dvars
  BY <1>7 DEF SkipApplied, ProjectFails, store
<1> QED BY <1>1, <1>2, <1>3, <1>4, <1>5, <1>6, <1>7 DEF Next, RelayStep, Fault

(* The relay implements the delivery the outbox promises its producers and *)
(* projectors, with the outbox_applied ledger as the confirmation.         *)
THEOREM RelayImplementsDelivery == Spec => ImplementsDelivery
<1>1. Init => D!DInit BY DEF Init, D!DInit
<1>2. IInv /\ [Next]_vars => [D!DNext]_(D!dvars) BY StepImplements
<1> QED BY <1>1, <1>2, OutboxInvariant, PTL DEF Spec, ImplementsDelivery, D!DSpec
-----------------------------------------------------------------------------
(* The participants of a conversation.                                     *)


(* A batch is the oldest of what is unprocessed: no older event is missing. *)
LEMMA BatchHasNoGap ==
  ASSUME TypeOK, NEW e \in Unprocessed, NEW f \in OldestUnprocessed, e < f
  PROVE  e \in OldestUnprocessed
<1> DEFINE Before(x) == {g \in Unprocessed : g < x}
<1>1. Unprocessed \subseteq Nat /\ f \in Unprocessed /\ BatchSize \in Nat
  BY OutboxAssumption DEF TypeOK, Unprocessed, OldestUnprocessed
<1>2. Before(e) \subseteq Before(f)
  <2>1. \A x, y, z \in Nat : x < y /\ y < z => x < z OBVIOUS
  <2>2. e \in Nat /\ f \in Nat /\ e < f BY <1>1
  <2> QED BY <1>1, <2>1, <2>2
<1>3. f \in Nat /\ Before(f) \in SUBSET Nat BY <1>1
<1>4. \A g \in Before(f) : g <= f BY <1>1
<1>5. IsFiniteSet(Before(f)) BY <1>3, <1>4, FS_BoundedSetOfNaturals
<1>6. /\ Cardinality(Before(e)) <= Cardinality(Before(f))
      /\ IsFiniteSet(Before(e))
  BY <1>2, <1>5, FS_Subset
<1>7. Cardinality(Before(e)) \in Nat /\ Cardinality(Before(f)) \in Nat
  BY <1>5, <1>6, FS_CardinalityType
<1>8. Cardinality(Before(f)) < BatchSize BY DEF OldestUnprocessed
<1>9. Cardinality(Before(e)) < BatchSize BY <1>1, <1>6, <1>7, <1>8
<1> QED BY <1>9 DEF OldestUnprocessed

(* Every step is one of the outbox.                                        *)
LEMMA StepIsOutboxStep == [ParticipantsNext]_pvars => [Next]_vars
BY DEF ParticipantsNext, PumpStep, Pump, Stop, Emit, ProjectParticipants,
       ProjectorFails, Relay, Next, RelayStep, Fault, pvars

(* What the proofs need of the constants.                                  *)
LEMMA Constants ==
  /\ About \subseteq Events /\ Events \subseteq Nat
  /\ Created \in About /\ Created # 0 /\ 0 \notin About
  /\ \A e \in About : Created <= e
  /\ ParticipantProjector \in Projectors
  /\ NumProjectors \in Nat
BY OutboxAssumption, ParticipantsAssumption

(* The loop leaves an event about the task behind when the projector has    *)
(* seen it, failed on it, or rejects it, for good or for the missing        *)
(* creation.                                                               *)
LEMMA LeftBehind ==
  ASSUME IInv, NEW e \in About,
         (ProjectFails(e) /\ UNCHANGED failed) \/ ProjectorFails(e)
           \/ (MarkProcessed(e) /\ UNCHANGED failed)
  PROVE  Settled(e)' \/ (Created \notin batch' /\ ~ Projected(Created)')
<1> USE Constants
<1>0. proj \in 1..(NumProjectors + 1) BY DEF IInv, TypeOK
<1>1. CASE proj # ParticipantProjector
  <2>1. At(e) /\ applied' = applied
    BY DEF ProjectFails, ProjectorFails, ProjectFailsOnce, MarkProcessed, ToProject, store
  <2>2. ParticipantProjector < proj BY <1>0, <1>1 DEF ParticipantProjector
  <2>3. Projected(e) BY <2>1, <2>2 DEF IInv, LoopAgrees, At, Projected
  <2> QED BY <2>1, <2>3 DEF Settled, Projected
<1>2. CASE ProjectorFails(e) /\ proj = ParticipantProjector
  BY <1>2 DEF ProjectorFails, Settled
<1>3. CASE ProjectFails(e) /\ proj = ParticipantProjector
  <2>1. applied' = applied /\ batch' = batch \ {e} /\ e \in batch
        /\ \A f \in batch : e <= f
    BY <1>3 DEF ProjectFails, LeaveEvent, ToProject, At, store
  <2>2. CASE <<ParticipantProjector, e>> \in Poison BY <2>2 DEF Settled
  <2>3. CASE \E x \in Needs : x[1] = proj /\ x[3] = e /\ <<proj, x[2]>> \notin applied
    <3>1. ~ Projected(Created)
      BY <1>3, <2>3, ParticipantsAssumption DEF Projected
    <3>2. Created \notin batch'
      <4> SUFFICES ASSUME Created \in batch, Created # e PROVE FALSE BY <2>1
      <4>1. e <= Created /\ Created <= e BY <2>1
      <4> QED BY <4>1
    <3> QED BY <2>1, <3>1, <3>2 DEF Projected
  <2> QED BY <1>3, <2>2, <2>3 DEF ProjectFails, Rejects
<1>4. CASE MarkProcessed(e) /\ proj = ParticipantProjector
  BY <1>4 DEF MarkProcessed, Projectors
<1> QED BY <1>1, <1>2, <1>3, <1>4

(* What is projected, shown and left behind stays as it is in a step that   *)
(* only fetches, forgets or leaves events.                                 *)
LEMMA LoopStepsFollow ==
  ASSUME IInv, FollowInv,
         UNCHANGED <<appended, applied, shown>>, failed \subseteq failed',
         \A e, f \in About : f \in batch' /\ e \notin batch' /\ e < f =>
           \/ f \in batch /\ e \notin batch /\ batch' \subseteq batch
           \/ Settled(e)' \/ (Created \notin batch' /\ ~ Projected(Created)')
  PROVE  FollowInv'
<1>1. \A e \in About : (Projected(e)' <=> Projected(e)) /\ (Settled(e) => Settled(e)')
  BY DEF Projected, Settled
<1>2. Projected(Created)' <=> Projected(Created) BY DEF Projected
<1>3. ParticipantsFollow' BY <1>1 DEF FollowInv, ParticipantsFollow
<1>4. \A e, f \in About : f \in batch' /\ e \notin batch' /\ e < f =>
        Settled(e)' \/ (Created \notin batch' /\ ~ Projected(Created)')
  BY <1>1, <1>2 DEF FollowInv
<1> QED BY <1>1, <1>3, <1>4 DEF FollowInv

(* FetchUnprocessed: what is older than a fetched event and not fetched was *)
(* processed.                                                              *)
LEMMA FetchFollows ==
  ASSUME IInv, FollowInv, FetchUnprocessed, UNCHANGED <<shown, failed>>
  PROVE  FollowInv'
<1>1. batch' = OldestUnprocessed /\ UNCHANGED <<appended, processed, applied>>
  BY DEF FetchUnprocessed, store
<1>2. ASSUME NEW e \in About, NEW f \in About, f \in batch', e \notin batch', e < f
      PROVE  Settled(e)'
  <2>1. e \in appended
    BY <1>1, <1>2 DEF OldestUnprocessed, Unprocessed, FollowInv
  <2>2. e \in processed BY <1>1, <1>2, <2>1, BatchHasNoGap DEF Unprocessed, IInv
  <2> QED BY <1>1, <2>2, Constants DEF IInv, ProcessedMeansApplied, Settled, Projected
<1> QED BY <1>1, <1>2, LoopStepsFollow

(* Project: the participants move forward, or back to events whose newer    *)
(* ones the projector saw after it had failed on them.                     *)
LEMMA ProjectFollows ==
  ASSUME IInv, FollowInv, NEW e \in Events, ProjectParticipants(e)
  PROVE  FollowInv'
<1> USE Constants
<1>1. /\ At(e) /\ e \in batch /\ \A f \in batch : e <= f
      /\ <<proj, e>> \notin applied /\ ~ Rejects(proj, e) /\ proj \in Projectors
      /\ UNCHANGED <<appended, batch, failed>>
      /\ applied' = IF proj \in SameTx THEN applied \cup {<<proj, e>>} ELSE applied
      /\ shown' = IF proj = ParticipantProjector /\ e \in About THEN e ELSE shown
  BY DEF ProjectParticipants, Project, ToProject, At
<1>2. CASE proj = ParticipantProjector /\ e \in About
  <2>1. applied' = applied \cup {<<ParticipantProjector, e>>} /\ shown' = e
    BY <1>1, <1>2, ParticipantsAssumption
  <2>2. \A f \in About : Projected(f)' <=> Projected(f) \/ f = e
    BY <2>1 DEF Projected
  <2>3. \A f \in About : Settled(f) => Settled(f)'
    BY <1>1, <2>2 DEF Settled
  <2>4. ~ Projected(e) /\ <<ParticipantProjector, e>> \notin Poison
    BY <1>1, <1>2 DEF Projected, Rejects
  <2>5. e # Created => Projected(Created)
    <3> SUFFICES ASSUME e # Created PROVE Projected(Created) OBVIOUS
    <3> DEFINE x == <<ParticipantProjector, Created, e>>
    <3>1. x \in Needs BY <1>2, ParticipantsAssumption
    <3>2. x[1] = proj /\ x[2] = Created /\ x[3] = e BY <1>2
    <3> QED BY <1>1, <1>2, <3>1, <3>2 DEF Rejects, Projected
  <2>6. ParticipantsFollow'
    <3> SUFFICES ASSUME NEW f \in About, Projected(f)', e < f PROVE e \in failed
      BY <1>1, <2>1 DEF ParticipantsFollow
    <3>1. Projected(f) BY <2>2
    <3> QED BY <1>2, <2>4, <3>1 DEF FollowInv, Settled
  <2>7. ASSUME NEW f \in About, NEW g \in About, Projected(g)', f < g
        PROVE  Settled(f)'
    <3>1. CASE Projected(g) BY <2>3, <2>7, <3>1 DEF FollowInv
    <3>2. CASE g = e
      <4>1. f \notin batch BY <1>1, <2>7, <3>2
      <4>2. Projected(Created) BY <2>5, <2>7, <3>2
      <4> QED BY <1>1, <1>2, <2>3, <2>7, <3>2, <4>1, <4>2 DEF FollowInv
    <3> QED BY <2>2, <2>7, <3>1, <3>2
  <2>8. ASSUME NEW f \in About, NEW g \in About, g \in batch', f \notin batch', f < g
        PROVE  Settled(f)'
    <3>1. Settled(f) \/ (Created \notin batch /\ ~ Projected(Created))
      BY <1>1, <2>8 DEF FollowInv
    <3>2. e # Created => Settled(f) BY <2>5, <3>1
    <3>3. e = Created => Settled(f) BY <1>1, <3>1
    <3> QED BY <2>3, <3>2, <3>3
  <2>9. shown' \in About \cup {0} /\ shown' # 0 BY <1>2, <2>1
  <2> QED BY <1>1, <2>6, <2>7, <2>8, <2>9 DEF FollowInv
<1>3. CASE ~ (proj = ParticipantProjector /\ e \in About)
  <2>1. \A f \in About : (Projected(f)' <=> Projected(f)) /\ (Settled(f)' <=> Settled(f))
    BY <1>1, <1>3 DEF Projected, Settled
  <2>2. Projected(Created)' <=> Projected(Created) BY <2>1
  <2>3. shown' = shown BY <1>1, <1>3
  <2>4. ParticipantsFollow' BY <1>1, <2>1, <2>3 DEF FollowInv, ParticipantsFollow
  <2> QED BY <1>1, <2>1, <2>2, <2>3, <2>4 DEF FollowInv
<1> QED BY <1>2, <1>3

(* Emit: the event is newer than all the others about the task.            *)
LEMMA EmitFollows ==
  ASSUME IInv, FollowInv, NEW e \in Events, Emit(e)
  PROVE  FollowInv'
<1> USE Constants
<1>1. /\ e \notin appended /\ appended' = appended \cup {e}
      /\ UNCHANGED <<applied, batch, shown, failed>>
      /\ e \in About => \A f \in About : f < e => f \in appended
  BY DEF Emit, Append, relay
<1>2. \A f, g \in About : g \in appended' /\ f < g => f \in appended'
  BY <1>1 DEF FollowInv
<1>3. \A f \in About : (Projected(f)' <=> Projected(f)) /\ (Settled(f)' <=> Settled(f))
  BY <1>1 DEF Projected, Settled
<1>4. Projected(Created)' <=> Projected(Created) BY <1>3
<1>5. ParticipantsFollow' BY <1>1, <1>3 DEF FollowInv, ParticipantsFollow
<1> QED BY <1>1, <1>2, <1>3, <1>4, <1>5 DEF FollowInv

(* The relay's own row for a projector that wrote it already is no news.    *)
LEMMA MarkAppliedFollows ==
  ASSUME IInv, FollowInv, NEW e \in Events, MarkApplied(e), UNCHANGED <<shown, failed>>
  PROVE  FollowInv'
<1>1. /\ At(e) /\ projected /\ UNCHANGED <<appended, batch>>
      /\ applied' = applied \cup {<<proj, e>>}
  BY DEF MarkApplied
<1>2. proj = ParticipantProjector => <<proj, e>> \in applied
  <2>1. effects[<<proj, e>>] > 0 BY <1>1 DEF IInv, LoopAgrees, At
  <2> QED BY <2>1, ParticipantsAssumption DEF IInv, SameTxExactlyOnce
<1>3. \A f \in About : (Projected(f)' <=> Projected(f)) /\ (Settled(f)' <=> Settled(f))
  BY <1>1, <1>2 DEF Projected, Settled
<1>4. Projected(Created)' <=> Projected(Created) BY <1>3, Constants
<1>5. ParticipantsFollow' BY <1>3 DEF FollowInv, ParticipantsFollow
<1> QED BY <1>1, <1>3, <1>4, <1>5 DEF FollowInv

LEMMA FollowKept == IInv /\ FollowInv /\ [ParticipantsNext]_pvars => FollowInv'
<1> SUFFICES ASSUME IInv, FollowInv, [ParticipantsNext]_pvars PROVE FollowInv' OBVIOUS
<1>1. CASE Tick /\ UNCHANGED <<shown, failed>>
  BY <1>1, LoopStepsFollow DEF Tick, store
<1>2. CASE FetchUnprocessed /\ UNCHANGED <<shown, failed>> BY <1>2, FetchFollows
<1>3. CASE PassEnds /\ UNCHANGED <<shown, failed>>
  BY <1>3, LoopStepsFollow DEF PassEnds, store
<1>4. CASE Stop BY <1>4, LoopStepsFollow DEF Stop, Abort, store
<1>5. ASSUME NEW e \in Events, Emit(e) PROVE FollowInv' BY <1>5, EmitFollows
<1>6. ASSUME NEW e \in Events, ProjectParticipants(e) PROVE FollowInv'
  BY <1>6, ProjectFollows
<1>7. ASSUME NEW e \in Events, MarkApplied(e), UNCHANGED <<shown, failed>>
      PROVE  FollowInv'
  BY <1>7, MarkAppliedFollows
<1>8. ASSUME NEW e \in Events, SkipApplied(e), UNCHANGED <<shown, failed>>
      PROVE  FollowInv'
  BY <1>8, LoopStepsFollow DEF SkipApplied, store
<1>9. ASSUME NEW e \in Events,
             \/ ProjectFails(e) /\ UNCHANGED <<shown, failed>>
             \/ ProjectorFails(e)
             \/ MarkProcessed(e) /\ UNCHANGED <<shown, failed>>
      PROVE  FollowInv'
  <2>1. batch' = batch \ {e} /\ UNCHANGED <<appended, applied, shown>>
        /\ failed \subseteq failed'
    BY <1>9 DEF ProjectFails, ProjectorFails, ProjectFailsOnce, MarkProcessed,
                LeaveEvent, store
  <2>2. e \in About =>
          Settled(e)' \/ (Created \notin batch' /\ ~ Projected(Created)')
    BY <1>9, LeftBehind
  <2> QED BY <2>1, <2>2, LoopStepsFollow
<1>10. CASE UNCHANGED pvars
  BY <1>10, LoopStepsFollow DEF pvars, vars, store, relay
<1> QED BY <1>1, <1>2, <1>3, <1>4, <1>5, <1>6, <1>7, <1>8, <1>9, <1>10
        DEF ParticipantsNext, PumpStep, Pump, Relay

LEMMA FollowStarts == ParticipantsInit => FollowInv
BY Constants DEF ParticipantsInit, Init, FollowInv, ParticipantsFollow, Projected

(* The outbox under the projector keeps its invariant.                      *)
LEMMA OutboxUnderneath == ParticipantsSpec => []IInv
<1>1. ParticipantsInit => IInv BY InitEstablishes DEF ParticipantsInit
<1>2. IInv /\ [ParticipantsNext]_pvars => IInv' BY StepKeeps, StepIsOutboxStep
<1> QED BY <1>1, <1>2, PTL DEF ParticipantsSpec

(* The participants of a conversation are those of the newest event the     *)
(* projector has seen, except after a failure of its own on an older one.   *)
THEOREM ParticipantsFollowTheTask == ParticipantsSpec => []ParticipantsFollow
<1>1. FollowInv => ParticipantsFollow BY DEF FollowInv
<1>2. ParticipantsInit => FollowInv BY FollowStarts
<1>3. IInv /\ FollowInv /\ [ParticipantsNext]_pvars => FollowInv' BY FollowKept
<1> QED BY <1>1, <1>2, <1>3, OutboxUnderneath, PTL DEF ParticipantsSpec
=============================================================================
