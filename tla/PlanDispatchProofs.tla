------------------------- MODULE PlanDispatchProofs -------------------------
(***************************************************************************)
(* Proofs about PlanDispatch for any authored tasks and dependencies, any  *)
(* number of rounds and mishaps.                                           *)
(***************************************************************************)
EXTENDS PlanDispatch, TLAPS

(* Nobody waits: taking one task off the rows, or pruning the holds,       *)
(* leaves nobody.                                                          *)
LEMMA NobodyStays ==
  /\ \A t \in TaskId : [Nobody EXCEPT ![t] = {}] = Nobody
  /\ \A w : Pruned(Nobody, w) = Nobody
BY DEF Nobody, Pruned

(* Completion at the end of a transaction: when it closes the plan, no row *)
(* and no hold is left; when it leaves a closed plan alone, it leaves the  *)
(* rows and holds of the transaction.                                      *)
LEMMA CompletionHoldsNothing ==
  ASSUME NEW w, NEW h, plan = "done" => w = Nobody /\ h = Nobody,
         CompletePlanIfEligible(w, h)
  PROVE  DoneHoldsNothing'
<1> DEFINE live == Pruned(h, w)
<1>1. CASE plan \notin {"running", "paused"}
  BY <1>1 DEF CompletePlanIfEligible, DoneHoldsNothing
<1>2. CASE plan \in {"running", "paused"} /\ NoHold(live) /\ CanComplete'
  <2>1. wait' = Nobody /\ hold' = live BY <1>2 DEF CompletePlanIfEligible, MarkPlanDone
  <2> QED BY <1>2, <2>1 DEF NoHold, DoneHoldsNothing
<1>3. CASE plan \in {"running", "paused"} /\ ~ (NoHold(live) /\ CanComplete')
  <2>1. plan' = plan BY <1>3 DEF CompletePlanIfEligible
  <2> QED BY <1>3, <2>1 DEF DoneHoldsNothing
<1> QED BY <1>1, <1>2, <1>3

(* A status written by taskStateOp, with the rows that follow from it.     *)
LEMMA StateOpHoldsNothing ==
  ASSUME DoneHoldsNothing, NEW t \in TaskId, NEW s, TaskStateOp(t, s)
  PROVE  DoneHoldsNothing'
<1>1. PICK w, h : /\ plan = "done" => w = Nobody /\ h = Nobody
                  /\ CompletePlanIfEligible(w, h)
  <2>1. CASE s \in Terminal
    <3>1. PICK w : w = [wait EXCEPT ![t] = {}] OBVIOUS
    <3>2. CompletePlanIfEligible(w, hold) BY <2>1, <3>1 DEF TaskStateOp
    <3>3. plan = "done" => w = Nobody /\ hold = Nobody BY <3>1, NobodyStays DEF DoneHoldsNothing
    <3> QED BY <3>2, <3>3
  <2>2. CASE s \notin Terminal /\ plan \in {"running", "paused"}
    <3>1. PICK w : w = BlockedOn' OBVIOUS
    <3>2. CompletePlanIfEligible(w, w) BY <2>2, <3>1 DEF TaskStateOp
    <3> QED BY <2>2, <3>2
  <2>3. CASE s \notin Terminal /\ plan \notin {"running", "paused"}
    <3>1. CompletePlanIfEligible(wait, hold) BY <2>3 DEF TaskStateOp
    <3>2. PICK w, h : w = wait /\ h = hold OBVIOUS
    <3>3. CompletePlanIfEligible(w, h) BY <3>1, <3>2
    <3> QED BY <3>2, <3>3 DEF DoneHoldsNothing
  <2> QED BY <2>1, <2>2, <2>3
<1> QED BY <1>1, CompletionHoldsNothing

LEMMA WorkHoldsNothing ==
  ASSUME DoneHoldsNothing, Work
  PROVE  DoneHoldsNothing'
<1>1. CASE StartPlan \/ PausePlan \/ ResumePlan \/ DiscardPlan
  BY <1>1 DEF StartPlan, PausePlan, ResumePlan, DiscardPlan, DoneHoldsNothing
<1>2. CASE CompletePlan(FALSE)
  BY <1>2 DEF CompletePlan, MarkPlanDone, NoHold, DoneHoldsNothing
<1>3. CASE Dispatch
  <2>1. PICK w, h : w = wait /\ h = Nobody OBVIOUS
  <2>2. CompletePlanIfEligible(w, h) /\ plan = "running" BY <1>3, <2>1 DEF Dispatch
  <2> QED BY <2>2, CompletionHoldsNothing
<1>4. CASE MaterializeBlockedOn
  BY <1>4 DEF MaterializeBlockedOn, DoneHoldsNothing
<1>5. ASSUME NEW t \in TaskId, StartTask(t) PROVE DoneHoldsNothing'
  BY <1>5, NobodyStays DEF StartTask, DoneHoldsNothing
<1>6. ASSUME NEW t \in TaskId, NEW v, CompleteTask(t, v) PROVE DoneHoldsNothing'
  BY <1>6, StateOpHoldsNothing DEF CompleteTask
<1>7. ASSUME NEW t \in TaskId, NEW v, RecordDecisionOutcome(t, v) PROVE DoneHoldsNothing'
  BY <1>7, NobodyStays DEF RecordDecisionOutcome, DoneHoldsNothing
<1> QED BY <1>1, <1>2, <1>3, <1>4, <1>5, <1>6, <1>7 DEF Work

LEMMA TroubleHoldsNothing ==
  ASSUME DoneHoldsNothing, Trouble
  PROVE  DoneHoldsNothing'
<1>1. CASE ReopenPlan BY <1>1 DEF ReopenPlan, DoneHoldsNothing
<1>2. CASE CompletePlan(TRUE)
  BY <1>2 DEF CompletePlan, MarkPlanDone, NoHold, DoneHoldsNothing
<1>3. ASSUME NEW t \in TaskId, RerunFailedNode(t) PROVE DoneHoldsNothing'
  BY <1>3 DEF RerunFailedNode, waiting, DoneHoldsNothing
<1>4. ASSUME NEW t \in TaskId, NEW v, RecordDecisionOutcome(t, v) PROVE DoneHoldsNothing'
  BY <1>4, NobodyStays DEF RecordDecisionOutcome, DoneHoldsNothing
<1>5. ASSUME NEW t \in TaskId, NEW s, SetTaskStatus(t, s) PROVE DoneHoldsNothing'
  BY <1>5, StateOpHoldsNothing DEF SetTaskStatus
<1>6. ASSUME NEW t \in TaskId, NEW s, BatchUpdateTask(t, s) PROVE DoneHoldsNothing'
  BY <1>6 DEF BatchUpdateTask, waiting, DoneHoldsNothing
<1>7. ASSUME NEW t \in TaskId, BlockTask(t) PROVE DoneHoldsNothing'
  BY <1>7, NobodyStays DEF BlockTask, DoneHoldsNothing
<1>8. ASSUME NEW t \in TaskId, ResetTask(t) \/ ReconcileStuckNode(t) PROVE DoneHoldsNothing'
  BY <1>8 DEF ResetTask, ReconcileStuckNode, waiting, DoneHoldsNothing
<1> QED BY <1>1, <1>2, <1>3, <1>4, <1>5, <1>6, <1>7, <1>8 DEF Trouble

(* However a plan came to be done, and whatever happens to its tasks after *)
(* that, it waits for nothing and holds nothing (markPlanDone, the guards  *)
(* of dispatch and completion, pruneStaleBlockedOnProgressForTask).        *)
THEOREM DoneStaysFree == Spec => []DoneHoldsNothing
<1>1. Init => DoneHoldsNothing BY DEF Init, DoneHoldsNothing
<1>2. DoneHoldsNothing /\ [Next]_vars => DoneHoldsNothing'
  <2>1. DoneHoldsNothing /\ UNCHANGED vars => DoneHoldsNothing' BY DEF vars, waiting, DoneHoldsNothing
  <2> QED BY <2>1, WorkHoldsNothing, TroubleHoldsNothing DEF Next
<1> QED BY <1>1, <1>2, PTL DEF Spec

-----------------------------------------------------------------------------
(* The body of the loop.                                                   *)

(* What lies after a task is the least set with the task in it that the    *)
(* dependencies do not lead out of.                                        *)
LEMMA AfterIsClosure ==
  ASSUME NEW all, NEW edges, NEW x \in all
  PROVE  /\ x \in After(x, all, edges) /\ After(x, all, edges) \subseteq all
         /\ \A d \in edges : d.kind # "loopback" /\ d.from \in all /\ d.to \in After(x, all, edges)
              => d.from \in After(x, all, edges)
         /\ \A c \in SUBSET all :
              x \in c /\ (\A d \in edges : d.kind # "loopback" /\ d.to \in c => d.from \in c)
                => After(x, all, edges) \subseteq c
BY DEF After

(* The same for what lies before it.                                       *)
LEMMA BeforeIsClosure ==
  ASSUME NEW all, NEW edges, NEW x \in all
  PROVE  /\ x \in Before(x, all, edges) /\ Before(x, all, edges) \subseteq all
         /\ \A d \in edges : d.kind # "loopback" /\ d.to \in all /\ d.from \in Before(x, all, edges)
              => d.to \in Before(x, all, edges)
         /\ \A c \in SUBSET all :
              x \in c /\ (\A d \in edges : d.kind # "loopback" /\ d.from \in c => d.to \in c)
                => Before(x, all, edges) \subseteq c
BY DEF Before

LEMMA AuthoredTypes ==
  ASSUME NEW d \in Authored
  PROVE  /\ d.from \in Tasks /\ d.to \in Tasks /\ d.kind \in {"seq", "conditional", "loopback"}
         /\ d = [from |-> d.from, to |-> d.to, kind |-> d.kind, when |-> d.when]
BY PlanAssumption

(* There is one loop, and its decision and its target are in its body.     *)
LEMMA BodyOfLoop ==
  ASSUME NEW lb \in Authored, lb.kind = "loopback"
  PROVE  /\ Body = After(lb.to, Tasks, Authored) \cap Before(lb.from, Tasks, Authored)
         /\ lb.from \in Body /\ lb.to \in Body
<1> DEFINE A == After(lb.to, Tasks, Authored)
<1> DEFINE B == Before(lb.from, Tasks, Authored)
<1>1. Body = A \cap B
  <2>1. {a \in Authored : a.kind = "loopback"} = {lb} BY PlanAssumption
  <2> QED BY <2>1 DEF Body, LoopbackResetSet
<1>2. lb.from \in Tasks /\ lb.to \in Tasks BY AuthoredTypes
<1>3. lb.from \in A BY LoopAssumption
<1>4. lb.from \in B BY <1>2, BeforeIsClosure
<1>5. lb.to \in A BY <1>2, AfterIsClosure
<1>6. lb.to \in B
  <2>1. SUFFICES ASSUME NEW c \in SUBSET Tasks, lb.from \in c,
                        \A d \in Authored : d.kind # "loopback" /\ d.from \in c => d.to \in c
                 PROVE  lb.to \in c
    BY <1>2 DEF Before
  <2> DEFINE C == {m \in Tasks : m \in c => lb.to \in c}
  <2>2. lb.to \in C BY <1>2
  <2>3. \A d \in Authored : d.kind # "loopback" /\ d.to \in C => d.from \in C BY <2>1, AuthoredTypes
  <2>4. A \subseteq C
    <3>1. C \in SUBSET Tasks OBVIOUS
    <3> HIDE DEF C
    <3> QED BY <1>2, <2>2, <2>3, <3>1, AfterIsClosure
  <2> QED BY <1>3, <2>1, <2>4
<1> QED BY <1>1, <1>3, <1>4, <1>5, <1>6

LEMMA RoundsCount == MaxRounds \in Nat /\ MaxMishaps \in Nat
BY PlanAssumption

LEMMA IdTypes ==
  ASSUME NEW t \in TaskId
  PROVE  t = <<t[1], t[2]>> /\ t[1] \in Tasks /\ t[2] \in 0..MaxRounds /\ t[2] \in Nat
<1>1. t \in Tasks \X (0..MaxRounds) BY DEF TaskId
<1>2. t = <<t[1], t[2]>> /\ t[1] \in Tasks /\ t[2] \in 0..MaxRounds BY <1>1
<1> QED BY <1>2

LEMMA IdOf ==
  ASSUME NEW n \in Tasks, NEW j \in 0..MaxRounds
  PROVE  <<n, j>> \in TaskId /\ <<n, j>>[1] = n /\ <<n, j>>[2] = j
BY DEF TaskId

(* A dependency of the plan, and what it was authored as.                  *)
LEMMA AuthoredAsFields ==
  ASSUME NEW d \in Dependency
  PROVE  /\ d.from \in TaskId /\ d.to \in TaskId
         /\ AuthoredAs(d).from = d.from[1] /\ AuthoredAs(d).to = d.to[1]
         /\ AuthoredAs(d).kind = d.kind /\ AuthoredAs(d).when = d.when
BY DEF Dependency, AuthoredAs, Between

LEMMA InRoundFields ==
  ASSUME NEW a \in Authored, NEW j
  PROVE  /\ InRound(a, j).from = <<a.from, j>> /\ InRound(a, j).to = <<a.to, j>>
         /\ InRound(a, j).kind = a.kind /\ InRound(a, j).when = a.when
BY DEF InRound, Between

(* In the last round the reset set of the loop is the body in that round.  *)
LEMMA ResetIsARound ==
  ASSUME TypeOK, NEW k \in 0..MaxRounds, TasksOfRounds(k), DepsOfRounds(k),
         NEW lb \in deps, lb.kind = "loopback", lb.from[2] = k
  PROVE  ResetSet(lb) = {<<n, k>> : n \in Body} /\ lb.from \in ResetSet(lb)
<1> DEFINE a == AuthoredAs(lb)
<1> DEFINE A == After(a.to, Tasks, Authored)
<1> DEFINE B == Before(a.from, Tasks, Authored)
<1>1. /\ lb \in Dependency /\ a \in Authored /\ a.kind = "loopback"
      /\ a.from = lb.from[1] /\ a.to = lb.to[1]
  BY AuthoredAsFields DEF TypeOK, DepsOfRounds
<1>2. Body = A \cap B /\ a.from \in Body /\ a.to \in Body BY <1>1, BodyOfLoop
<1>3. a.from \in Tasks /\ a.to \in Tasks BY <1>1, AuthoredTypes
<1>4. lb.from = <<a.from, k>> /\ lb.to = <<a.to, k>>
  BY <1>1, <1>2, IdTypes, AuthoredAsFields DEF DepsOfRounds
<1>5. lb.from \in Existing /\ lb.to \in Existing BY DEF DepsOfRounds
<1>6. Existing \subseteq TaskId BY DEF Existing
<1>7. \A d \in deps : /\ d \in Dependency /\ AuthoredAs(d) \in Authored
                      /\ d.from \in Existing /\ d.to \in Existing
                      /\ AuthoredAs(d).from = d.from[1] /\ AuthoredAs(d).to = d.to[1]
                      /\ AuthoredAs(d).kind = d.kind
                      /\ (d.from[1] \in Body /\ d.to[1] \in Body => d.from[2] = d.to[2])
  BY AuthoredAsFields DEF TypeOK, DepsOfRounds
<1>8. \A n \in Body : <<n, k>> \in Existing
  <2>1. \A n \in Body : n \in Tasks BY <1>2, <1>3, AfterIsClosure
  <2>2. \A n \in Body : <<n, k>> \in TaskId /\ <<n, k>>[1] \in Body /\ <<n, k>>[2] = k BY <2>1, IdOf
  <2>3. k <= k OBVIOUS
  <2> QED BY <2>2, <2>3 DEF TasksOfRounds, Existing
<1>9. ResetSet(lb) \subseteq {<<n, k>> : n \in Body}
  <2> DEFINE C == {t \in Existing : t[1] \in A /\ (t[1] \in Body => t[2] = k)}
  <2> DEFINE D == {t \in Existing : t[1] \in B}
  <2>1. After(lb.to, Existing, deps) \subseteq C
    <3>1. lb.to \in C BY <1>1, <1>3, <1>4, <1>5, AfterIsClosure
    <3>2. ASSUME NEW d \in deps, d.kind # "loopback", d.to \in C PROVE d.from \in C
      <4>1. d.from[1] \in Tasks /\ d.to[1] \in Tasks BY <1>6, <1>7, IdTypes
      <4>2. d.from[1] \in A BY <1>3, <1>7, <3>2, <4>1, AfterIsClosure
      <4>3. ASSUME d.from[1] \in Body PROVE d.from[2] = k
        <5>1. d.to[1] \in B BY <1>2, <1>3, <1>7, <3>2, <4>1, <4>3, BeforeIsClosure
        <5> QED BY <1>2, <1>7, <3>2, <4>3, <5>1
      <4> QED BY <1>7, <4>2, <4>3
    <3> QED BY <1>5, <3>1, <3>2, AfterIsClosure
  <2>2. Before(lb.from, Existing, deps) \subseteq D
    <3>1. lb.from \in D BY <1>1, <1>2, <1>5
    <3>2. ASSUME NEW d \in deps, d.kind # "loopback", d.from \in D PROVE d.to \in D
      <4>1. d.from[1] \in Tasks /\ d.to[1] \in Tasks BY <1>6, <1>7, IdTypes
      <4> QED BY <1>3, <1>7, <3>2, <4>1, BeforeIsClosure
    <3> QED BY <1>5, <3>1, <3>2, BeforeIsClosure
  <2>3. \A t \in C \cap D : t \in TaskId /\ t[1] \in Body /\ t[2] = k BY <1>2, <1>6
  <2>4. \A t \in C \cap D : t = <<t[1], k>> /\ t[1] \in Body BY <2>3, IdTypes
  <2> QED BY <2>1, <2>2, <2>4 DEF ResetSet, LoopbackResetSet
<1>10. ASSUME NEW n \in Body PROVE <<n, k>> \in ResetSet(lb)
  <2>0. n \in A /\ n \in B BY <1>2, <1>10
  <2>1. <<n, k>> \in After(lb.to, Existing, deps)
    <3>1. SUFFICES ASSUME NEW c \in SUBSET Existing, lb.to \in c,
                          \A d \in deps : d.kind # "loopback" /\ d.to \in c => d.from \in c
                   PROVE  <<n, k>> \in c
      BY <1>8, <1>10 DEF After
    <3> DEFINE C == {m \in A : m \in B => <<m, k>> \in c}
    <3>2. a.to \in C /\ C \subseteq Tasks BY <1>2, <1>3, <1>4, <3>1, AfterIsClosure
    <3>3. ASSUME NEW d \in Authored, d.kind # "loopback", d.to \in C PROVE d.from \in C
      <4>1. d.from \in Tasks /\ d.to \in Tasks BY AuthoredTypes
      <4>2. d.from \in A BY <1>3, <3>3, <4>1, AfterIsClosure
      <4>3. ASSUME d.from \in B PROVE <<d.from, k>> \in c
        <5>1. d.to \in B BY <1>3, <3>3, <4>1, <4>3, BeforeIsClosure
        <5>2. d.from \in Body /\ d.to \in Body BY <1>2, <3>3, <4>2, <4>3, <5>1
        <5>3. InRound(d, k) \in deps BY <5>2 DEF DepsOfRounds
        <5> QED BY <3>1, <3>3, <5>1, <5>3, InRoundFields
      <4> QED BY <4>2, <4>3
    <3>4. A \subseteq C
      <4>1. C \in SUBSET Tasks BY <3>2
      <4> HIDE DEF C
      <4> QED BY <1>3, <3>2, <3>3, <4>1, AfterIsClosure
    <3> QED BY <2>0, <3>4
  <2>2. <<n, k>> \in Before(lb.from, Existing, deps)
    <3>1. SUFFICES ASSUME NEW c \in SUBSET Existing, lb.from \in c,
                          \A d \in deps : d.kind # "loopback" /\ d.from \in c => d.to \in c
                   PROVE  <<n, k>> \in c
      BY <1>8, <1>10 DEF Before
    <3> DEFINE C == {m \in B : m \in A => <<m, k>> \in c}
    <3>2. a.from \in C /\ C \subseteq Tasks BY <1>2, <1>3, <1>4, <3>1, BeforeIsClosure
    <3>3. ASSUME NEW d \in Authored, d.kind # "loopback", d.from \in C PROVE d.to \in C
      <4>1. d.from \in Tasks /\ d.to \in Tasks BY AuthoredTypes
      <4>2. d.to \in B BY <1>3, <3>3, <4>1, BeforeIsClosure
      <4>3. ASSUME d.to \in A PROVE <<d.to, k>> \in c
        <5>1. d.from \in A BY <1>3, <3>3, <4>1, <4>3, AfterIsClosure
        <5>2. d.from \in Body /\ d.to \in Body BY <1>2, <3>3, <4>2, <4>3, <5>1
        <5>3. InRound(d, k) \in deps BY <5>2 DEF DepsOfRounds
        <5> QED BY <3>1, <3>3, <5>1, <5>3, InRoundFields
      <4> QED BY <4>2, <4>3
    <3>4. B \subseteq C
      <4>1. C \in SUBSET Tasks BY <3>2
      <4> HIDE DEF C
      <4> QED BY <1>3, <3>2, <3>3, <4>1, BeforeIsClosure
    <3> QED BY <2>0, <3>4
  <2> QED BY <2>1, <2>2 DEF ResetSet, LoopbackResetSet
<1> QED BY <1>1, <1>2, <1>4, <1>9, <1>10

-----------------------------------------------------------------------------
(* Rows and holds.                                                         *)

LEMMA PrunedTypes ==
  ASSUME NEW h \in [TaskId -> SUBSET TaskId], NEW w
  PROVE  Pruned(h, w) \in [TaskId -> SUBSET TaskId]
BY DEF Pruned

LEMMA NobodyTypes == Nobody \in [TaskId -> SUBSET TaskId]
BY DEF Nobody

LEMMA BlockedOnTypes ==
  ASSUME deps \subseteq Dependency
  PROVE  BlockedOn \in [TaskId -> SUBSET TaskId]
<1>1. ASSUME NEW t \in TaskId, NEW view PROVE AwaitsDecision(t, view) \subseteq TaskId
  BY <1>1 DEF AwaitsDecision, Forward, Dependency
<1> QED BY <1>1 DEF BlockedOn

LEMMA BlockedOnTypesNext ==
  ASSUME deps' \subseteq Dependency
  PROVE  BlockedOn' \in [TaskId -> SUBSET TaskId]
<1> DEFINE Await(t, view) == AwaitsDecision(t, view)'
<1>1. \A t \in TaskId : AwaitsDecision(t, View({}))' \subseteq TaskId
  BY DEF AwaitsDecision, Forward, Dependency
<1> QED BY <1>1 DEF BlockedOn

(* Completion leaves rows and holds of the right type, and opens no plan.  *)
LEMMA CompletionTypes ==
  ASSUME TypeOK, NEW w \in [TaskId -> SUBSET TaskId], NEW h \in [TaskId -> SUBSET TaskId],
         CompletePlanIfEligible(w, h)
  PROVE  /\ plan' \in {"pending", "running", "paused", "done", "discarded"}
         /\ plan' = "pending" => plan = "pending"
         /\ wait' \in [TaskId -> SUBSET TaskId] /\ hold' \in [TaskId -> SUBSET TaskId]
<1>1. Pruned(h, w) \in [TaskId -> SUBSET TaskId] BY PrunedTypes
<1>2. CASE plan \notin {"running", "paused"}
  BY <1>2 DEF CompletePlanIfEligible, TypeOK
<1>3. CASE plan \in {"running", "paused"} /\ NoHold(Pruned(h, w)) /\ CanComplete'
  <2>1. plan' = "done" /\ wait' = Nobody /\ hold' = Pruned(h, w)
    BY <1>3 DEF CompletePlanIfEligible, MarkPlanDone
  <2> QED BY <1>1, <2>1, NobodyTypes
<1>4. CASE plan \in {"running", "paused"} /\ ~ (NoHold(Pruned(h, w)) /\ CanComplete')
  <2>1. plan' = plan /\ wait' = w /\ hold' = Pruned(h, w) BY <1>4 DEF CompletePlanIfEligible
  <2> QED BY <1>1, <2>1 DEF TypeOK
<1> QED BY <1>2, <1>3, <1>4

(* The same for taskStateOp.                                               *)
LEMMA StateOpTypes ==
  ASSUME TypeOK, NEW t \in TaskId, NEW s \in Terminal \cup {"open", "running"},
         TaskStateOp(t, s), deps' = deps
  PROVE  /\ task' = [task EXCEPT ![t] = s]
         /\ plan' \in {"pending", "running", "paused", "done", "discarded"}
         /\ plan' = "pending" => plan = "pending"
         /\ wait' \in [TaskId -> SUBSET TaskId] /\ hold' \in [TaskId -> SUBSET TaskId]
<1>1. PICK w \in [TaskId -> SUBSET TaskId], h \in [TaskId -> SUBSET TaskId] :
        CompletePlanIfEligible(w, h)
  <2>0. wait \in [TaskId -> SUBSET TaskId] /\ hold \in [TaskId -> SUBSET TaskId] BY DEF TypeOK
  <2>1. CASE s \in Terminal
    <3>1. PICK w : w = [wait EXCEPT ![t] = {}] OBVIOUS
    <3>2. CompletePlanIfEligible(w, hold) BY <2>1, <3>1 DEF TaskStateOp
    <3>3. w \in [TaskId -> SUBSET TaskId] BY <2>0, <3>1
    <3> QED BY <2>0, <3>2, <3>3
  <2>2. CASE s \notin Terminal /\ plan \in {"running", "paused"}
    <3>1. PICK w : w = BlockedOn' OBVIOUS
    <3>2. CompletePlanIfEligible(w, w) BY <2>2, <3>1 DEF TaskStateOp
    <3>3. w \in [TaskId -> SUBSET TaskId] BY <3>1, BlockedOnTypesNext DEF TypeOK
    <3> QED BY <3>2, <3>3
  <2>3. CASE s \notin Terminal /\ plan \notin {"running", "paused"}
    <3>1. CompletePlanIfEligible(wait, hold) BY <2>3 DEF TaskStateOp
    <3> QED BY <2>0, <3>1
  <2> QED BY <2>1, <2>2, <2>3
<1>2. task' = [task EXCEPT ![t] = s] BY DEF TaskStateOp
<1> QED BY <1>1, <1>2, CompletionTypes

-----------------------------------------------------------------------------
(* Steps that leave the rounds and the graph's edges alone.                *)

(* No task comes or goes or takes back its completion, no node and no      *)
(* condition is settled, no outcome is lost, nothing is announced.         *)
LEMMA QuietStep ==
  ASSUME IInv, deps' = deps, links' = links, gates' = gates, cond' = cond,
         dispatched' \subseteq dispatched, plan' = "pending" => plan = "pending",
         \A t \in TaskId : /\ task[t] = "completed" => task'[t] = "completed"
                           /\ task'[t] = "none" <=> task[t] = "none"
                           /\ outcome'[t] # "" => task'[t] = "completed"
                           /\ outcome[t] # "" => outcome'[t] # ""
                           /\ node'[t] = "completed" => node[t] = "completed"
                           /\ node'[t] # "none" => node[t] # "none"
  PROVE  RoundsAgree' /\ GraphAgrees' /\ ReleasedInOrder' /\ Existing' = Existing
<1>1. Existing' = Existing BY DEF Existing
<1>2. RoundsAgree'
  <2>1. PICK k \in 0..MaxRounds : /\ plan = "pending" => k = 0
                                  /\ TasksOfRounds(k) /\ DepsOfRounds(k) /\ RoundsBefore(k)
    BY DEF IInv, RoundsAgree
  <2>2. TasksOfRounds(k)' BY <2>1 DEF TasksOfRounds
  <2>3. DepsOfRounds(k)' BY <1>1, <2>1 DEF DepsOfRounds
  <2>4. RoundsBefore(k)'
    <3>1. ASSUME NEW a \in Authored, a.kind = "loopback", NEW j \in 0..MaxRounds, j < k
          PROVE  Settled(<<a.from, j>>)'
      <4>1. Settled(<<a.from, j>>) BY <2>1, <3>1 DEF RoundsBefore
      <4>2. <<a.from, j>> \in TaskId BY AuthoredTypes, IdOf
      <4> QED BY <4>1, <4>2 DEF Settled
    <3> QED BY <3>1 DEF RoundsBefore
  <2>5. plan' = "pending" => k = 0 BY <2>1
  <2> QED BY <2>2, <2>3, <2>4, <2>5 DEF RoundsAgree
<1>3. GraphAgrees' BY DEF IInv, GraphAgrees
<1>4. ReleasedInOrder'
  <2>1. \A l \in links : l[1] \in TaskId BY DEF IInv, TypeOK
  <2>2. \A g \in gates : g[1] \in TaskId BY DEF IInv, TypeOK
  <2> QED BY <2>1, <2>2 DEF IInv, ReleasedInOrder
<1> QED BY <1>1, <1>2, <1>3, <1>4

(* taskStateOp, a decision's outcome with it.                              *)
LEMMA StateOpKeepsIInv ==
  ASSUME IInv, NEW t \in TaskId, NEW s \in Terminal \cup {"open", "running"},
         task[t] \in {"open", "running"}, TaskStateOp(t, s),
         outcome' \in [TaskId -> Verdicts \cup {"", "exhausted"}],
         \A u \in TaskId : outcome'[u] = outcome[u] \/ (u = t /\ s = "completed"),
         UNCHANGED <<deps, dispatched, graph>>, mishaps' \in 0..MaxMishaps
  PROVE  IInv'
<1>1. TypeOK BY DEF IInv
<1>2. /\ task' = [task EXCEPT ![t] = s]
      /\ plan' \in {"pending", "running", "paused", "done", "discarded"}
      /\ plan' = "pending" => plan = "pending"
      /\ wait' \in [TaskId -> SUBSET TaskId] /\ hold' \in [TaskId -> SUBSET TaskId]
  BY <1>1, StateOpTypes
<1>3. RoundsAgree' /\ GraphAgrees' /\ ReleasedInOrder' /\ Existing' = Existing
  <2>1. \A u \in TaskId : /\ task[u] = "completed" => task'[u] = "completed"
                          /\ task'[u] = "none" <=> task[u] = "none"
    BY <1>1, <1>2 DEF TypeOK, Terminal
  <2>2. \A u \in TaskId : outcome'[u] # "" => task'[u] = "completed"
    <3>1. ASSUME NEW u \in TaskId, outcome[u] # "" PROVE task'[u] = "completed"
      BY <2>1, <3>1 DEF IInv, GraphAgrees
    <3>2. s = "completed" => task'[t] = "completed" BY <1>1, <1>2 DEF TypeOK
    <3> QED BY <3>1, <3>2
  <2>3. \A u \in TaskId : outcome[u] # "" => outcome'[u] # ""
    BY DEF IInv, GraphAgrees
  <2> QED BY <1>2, <2>1, <2>2, <2>3, QuietStep DEF graph
<1>4. TypeOK'
  <2>1. task' \in [TaskId -> Terminal \cup {"none", "open", "running"}] BY <1>1, <1>2 DEF TypeOK
  <2> QED BY <1>1, <1>2, <1>3, <2>1 DEF TypeOK, graph
<1> QED BY <1>3, <1>4 DEF IInv

-----------------------------------------------------------------------------
(* The graph.                                                              *)

(* A node follows its task: it is settled with a completed task only, and  *)
(* there is none for a task that does not exist.                           *)
LEMMA NodeFollowsTask ==
  ASSUME IInv, NEW t \in TaskId
  PROVE  /\ AdvanceNodeTo(t) \in {"none", "open", "running", "reopen", "completed"}
         /\ AdvanceNodeTo(t) = "completed" => task[t] = "completed"
         /\ AdvanceNodeTo(t) # "none" => task[t] # "none"
         /\ SyncGraphToTasks[t] = AdvanceNodeTo(t)
<1>1. /\ node[t] \in {"none", "open", "running", "reopen", "completed"}
      /\ node[t] = "completed" => task[t] = "completed"
      /\ node[t] # "none" => task[t] # "none"
  BY DEF IInv, TypeOK, GraphAgrees
<1> QED BY <1>1 DEF AdvanceNodeTo, SyncGraphToTasks

LEMMA StartPlanKeepsIInv ==
  ASSUME IInv, StartPlan, mishaps' = mishaps
  PROVE  IInv'
<1>1. plan = "pending" /\ plan' = "running" /\ UNCHANGED <<rows, dispatched, waiting>>
  BY DEF StartPlan
<1>2. dispatched' = {} /\ Existing' = Existing
  BY <1>1 DEF IInv, GraphAgrees, rows, Existing
<1>3. RoundsAgree'
  <2>1. PICK k \in 0..MaxRounds : k = 0 /\ TasksOfRounds(k) /\ DepsOfRounds(k)
    BY <1>1 DEF IInv, RoundsAgree
  <2>2. TasksOfRounds(k)' BY <1>1, <2>1 DEF TasksOfRounds, rows
  <2>3. DepsOfRounds(k)' BY <1>1, <1>2, <2>1 DEF DepsOfRounds, rows
  <2>4. RoundsBefore(k)' BY <2>1 DEF RoundsBefore
  <2> QED BY <1>1, <2>2, <2>3, <2>4 DEF RoundsAgree
<1>4. /\ \A t \in TaskId : /\ node'[t] \in {"none", "open", "running", "completed"}
                           /\ node'[t] = "completed" => task[t] = "completed"
                           /\ node'[t] # "none" => task[t] # "none"
      /\ node' \in [TaskId -> {"none", "open", "running", "reopen", "completed"}]
  <2>1. node' = [t \in TaskId |->
                   CASE task[t] = "none"                     -> "none"
                     [] task[t] \in {"running", "completed"} -> task[t]
                     [] OTHER                                -> "open"]
    BY DEF StartPlan, BuildGraph
  <2>2. \A t \in TaskId : /\ node'[t] \in {"none", "open", "running", "completed"}
                          /\ node'[t] = "completed" => task[t] = "completed"
                          /\ node'[t] # "none" => task[t] # "none"
    BY <2>1
  <2> QED BY <2>1, <2>2
<1>5. cond' \in [TaskId -> {"none", "open"}] BY DEF StartPlan, BuildGraph
<1>6. GraphAgrees' BY <1>1, <1>4, <1>5 DEF IInv, GraphAgrees, rows
<1>7. ReleasedInOrder' BY <1>2 DEF ReleasedInOrder
<1>8. TypeOK'
  <2>1. links' \subseteq TaskId \X TaskId /\ gates' \subseteq TaskId \X TaskId
    <3>1. \A d \in deps : d.from \in TaskId /\ d.to \in TaskId BY DEF IInv, TypeOK, Dependency
    <3>2. /\ links' = {<<d.to, d.from>> : d \in {e \in deps : e.kind = "seq"}}
          /\ gates' = {<<d.to, d.from>> : d \in {e \in deps : e.kind = "conditional"}}
      BY DEF StartPlan, BuildGraph
    <3> QED BY <3>1, <3>2
  <2>2. cond' \in [TaskId -> {"none", "open", "completed"}] BY <1>5
  <2> QED BY <1>1, <1>2, <1>4, <2>1, <2>2 DEF IInv, TypeOK, rows, waiting
<1> QED BY <1>3, <1>6, <1>7, <1>8 DEF IInv

(* A decision that a dispatch finds undriven is decided, and its last.     *)
LEMMA UndrivenIsDecided ==
  ASSUME IInv, NEW d \in Undriven
  PROVE  d \in TaskId /\ cond[d] = "open" /\ outcome[d] # "" /\ task[d] = "completed"
BY DEF IInv, GraphAgrees, Undriven

LEMMA ConditionOfTypes ==
  ASSUME IInv, NEW t \in TaskId
  PROVE  /\ ConditionOf(t) \in {"none", "open", "completed"}
         /\ ConditionOf(t) = "completed" => task[t] = "completed"
         /\ cond[t] = "completed" => ConditionOf(t) = "completed"
BY UndrivenIsDecided DEF ConditionOf, IInv, TypeOK, GraphAgrees

(* What a dispatch owes to every state it leaves behind, whether it forks  *)
(* or not; ReleasedInOrder of what was released before is part of it.      *)
Driven ==
  /\ task' \in [TaskId -> Terminal \cup {"none", "open", "running"}]
  /\ deps' \subseteq Dependency
  /\ outcome' \in [TaskId -> Verdicts \cup {"", "exhausted"}]
  /\ node' \in [TaskId -> {"none", "open", "running", "reopen", "completed"}]
  /\ cond' \in [TaskId -> {"none", "open", "completed"}]
  /\ links' \subseteq TaskId \X TaskId
  /\ gates' \subseteq TaskId \X TaskId
  /\ Existing \subseteq Existing'
  /\ \E k \in 0..MaxRounds : TasksOfRounds(k)' /\ DepsOfRounds(k)' /\ RoundsBefore(k)'
  /\ \A t \in TaskId :
       /\ outcome'[t] # "" => task'[t] = "completed"
       /\ cond'[t] = "completed" => task'[t] = "completed"
       /\ node'[t] = "completed" => task'[t] = "completed"
       /\ node'[t] # "none" => task'[t] # "none"
  /\ \A t \in dispatched :
       /\ \A l \in links' : l[2] = t => task'[l[1]] = "completed"
       /\ \A g \in gates' : g[2] = t => cond'[g[1]] = "completed" /\ task'[g[1]] = "completed"

(* A dispatch that forks nothing.                                          *)
LEMMA DriveWithoutFork ==
  ASSUME IInv,
         node' = SyncGraphToTasks,
         cond' = [t \in TaskId |-> ConditionOf(t)],
         outcome' = [t \in TaskId |-> IF t \in Rejected THEN "exhausted" ELSE outcome[t]],
         UNCHANGED <<task, deps, links, gates>>
  PROVE  Driven
<1>1. \A t \in TaskId : t \in Rejected => outcome[t] # "" /\ task[t] = "completed"
  BY UndrivenIsDecided DEF Rejected
<1>2. outcome' \in [TaskId -> Verdicts \cup {"", "exhausted"}] BY DEF IInv, TypeOK
<1>3. \A t \in TaskId : /\ outcome'[t] # "" => task[t] = "completed"
                        /\ outcome[t] # "" => outcome'[t] # ""
  BY <1>1 DEF IInv, GraphAgrees
<1>4. /\ node' \in [TaskId -> {"none", "open", "running", "reopen", "completed"}]
      /\ \A t \in TaskId : /\ node'[t] = "completed" => task[t] = "completed"
                           /\ node'[t] # "none" => task[t] # "none"
  BY NodeFollowsTask DEF SyncGraphToTasks
<1>5. /\ cond' \in [TaskId -> {"none", "open", "completed"}]
      /\ \A t \in TaskId : /\ cond'[t] = "completed" => task[t] = "completed"
                           /\ cond[t] = "completed" => cond'[t] = "completed"
  BY ConditionOfTypes
<1>6. \E k \in 0..MaxRounds : TasksOfRounds(k)' /\ DepsOfRounds(k)' /\ RoundsBefore(k)'
  <2>1. PICK k \in 0..MaxRounds : TasksOfRounds(k) /\ DepsOfRounds(k) /\ RoundsBefore(k)
    BY DEF IInv, RoundsAgree
  <2>2. TasksOfRounds(k)' BY <2>1 DEF TasksOfRounds
  <2>3. DepsOfRounds(k)' BY <2>1 DEF DepsOfRounds, Existing
  <2>4. RoundsBefore(k)'
    <3>1. ASSUME NEW a \in Authored, a.kind = "loopback", NEW j \in 0..MaxRounds, j < k
          PROVE  Settled(<<a.from, j>>)'
      <4>1. Settled(<<a.from, j>>) BY <2>1, <3>1 DEF RoundsBefore
      <4>2. <<a.from, j>> \in TaskId BY AuthoredTypes, IdOf
      <4> QED BY <1>3, <1>5, <4>1, <4>2 DEF Settled
    <3> QED BY <3>1 DEF RoundsBefore
  <2> QED BY <2>2, <2>3, <2>4
<1>7. \A t \in dispatched :
        /\ \A l \in links' : l[2] = t => task'[l[1]] = "completed"
        /\ \A g \in gates' : g[2] = t => cond'[g[1]] = "completed" /\ task'[g[1]] = "completed"
  <2>1. \A g \in gates : g[1] \in TaskId BY DEF IInv, TypeOK
  <2> QED BY <1>5, <2>1 DEF IInv, ReleasedInOrder
<1>8. Existing' = Existing BY DEF Existing
<1> QED BY <1>2, <1>3, <1>4, <1>5, <1>6, <1>7, <1>8 DEF Driven, IInv, TypeOK

(* The clones of a round of the body are the next round of it, and nothing *)
(* of that round is there yet.                                             *)
LEMMA ClonesAreFresh ==
  ASSUME NEW k \in 0..MaxRounds, k + 1 <= MaxRounds, TasksOfRounds(k), Body \subseteq Tasks,
         NEW reset, reset = {<<n, k>> : n \in Body}
  PROVE  /\ reset \subseteq TaskId
         /\ \A t \in TaskId : t \in reset <=> t[1] \in Body /\ t[2] = k
         /\ \A r \in reset : Clone(r) = <<r[1], k + 1>> /\ Clone(r) \in TaskId
         /\ \A t \in TaskId : t \in {Clone(r) : r \in reset} <=> t[1] \in Body /\ t[2] = k + 1
         /\ \A t \in TaskId : t \in {Clone(r) : r \in reset} => task[t] = "none"
<1>0. k \in Nat /\ k + 1 \in 0..MaxRounds BY RoundsCount
<1>1. \A n \in Body : /\ <<n, k>> \in TaskId /\ <<n, k + 1>> \in TaskId
                      /\ Clone(<<n, k>>) = <<n, k + 1>>
  BY <1>0, IdOf DEF Clone
<1>2. \A t \in TaskId : t \in reset <=> t[1] \in Body /\ t[2] = k
  <2>1. ASSUME NEW t \in TaskId, t \in reset PROVE t[1] \in Body /\ t[2] = k BY <2>1
  <2>2. ASSUME NEW t \in TaskId, t[1] \in Body, t[2] = k PROVE t \in reset BY <2>2, IdTypes
  <2> QED BY <2>1, <2>2
<1>3. {Clone(r) : r \in reset} = {<<n, k + 1>> : n \in Body} BY <1>1
<1>4. \A t \in TaskId : t \in {Clone(r) : r \in reset} <=> t[1] \in Body /\ t[2] = k + 1
  <2>1. ASSUME NEW t \in TaskId, t \in {<<n, k + 1>> : n \in Body} PROVE t[1] \in Body /\ t[2] = k + 1
    BY <2>1
  <2>2. ASSUME NEW t \in TaskId, t[1] \in Body, t[2] = k + 1 PROVE t \in {<<n, k + 1>> : n \in Body}
    BY <2>2, IdTypes
  <2> QED BY <1>3, <2>1, <2>2
<1>5. \A t \in TaskId : t[2] = k + 1 => task[t] = "none" BY <1>0 DEF TasksOfRounds
<1>6. reset \subseteq TaskId BY <1>1
<1>7. \A r \in reset : Clone(r) = <<r[1], k + 1>> /\ Clone(r) \in TaskId
  <2>1. ASSUME NEW n \in Body PROVE <<n, k>>[1] = n OBVIOUS
  <2> QED BY <1>1, <2>1
<1> QED BY <1>2, <1>4, <1>5, <1>6, <1>7

(* The dependencies of the next round are those of the rounds before it    *)
(* and the same again.                                                     *)
LEMMA DepsOfNextRound ==
  ASSUME IInv, NEW k \in 0..MaxRounds, k + 1 <= MaxRounds, TasksOfRounds(k), DepsOfRounds(k),
         Body \subseteq Tasks, NEW reset, reset = {<<n, k>> : n \in Body},
         deps' = deps \cup NextRoundDeps(reset),
         Existing \subseteq Existing', \A r \in reset : Clone(r) \in Existing'
  PROVE  deps' \subseteq Dependency /\ DepsOfRounds(k + 1)'
<1> DEFINE Up(t) == IF t \in reset THEN Clone(t) ELSE t
<1> DEFINE Moved(d) == Between(d, Up(d.from), Up(d.to))
<1>0. k \in Nat /\ k + 1 \in 0..MaxRounds BY RoundsCount
<1>1. /\ reset \subseteq TaskId
      /\ \A t \in TaskId : t \in reset <=> t[1] \in Body /\ t[2] = k
      /\ \A r \in reset : Clone(r) = <<r[1], k + 1>> /\ Clone(r) \in TaskId
  BY ClonesAreFresh
<1>2. NextRoundDeps(reset) = {Moved(d) : d \in {e \in deps : e.from \in reset \/ e.to \in reset}}
  BY DEF NextRoundDeps
<1>3. \A t \in TaskId : Up(t) \in TaskId /\ Up(t)[1] = t[1] BY <1>1
<1>4. \A d \in deps : /\ d \in Dependency /\ AuthoredAs(d) \in Authored
                      /\ d.from \in Existing /\ d.to \in Existing
                      /\ d.from \in TaskId /\ d.to \in TaskId
                      /\ (d.from[1] \in Body /\ d.to[1] \in Body => d.from[2] = d.to[2])
  BY AuthoredAsFields DEF IInv, TypeOK, DepsOfRounds
<1>5. ASSUME NEW d \in deps
      PROVE  /\ Moved(d).from = Up(d.from) /\ Moved(d).to = Up(d.to)
             /\ Moved(d).kind = d.kind /\ Moved(d).when = d.when
             /\ Moved(d) = [from |-> Up(d.from), to |-> Up(d.to), kind |-> d.kind, when |-> d.when]
  <2> HIDE DEF Up
  <2> QED BY DEF Between
<1>6. ASSUME NEW d \in deps, d.from \in reset \/ d.to \in reset
      PROVE  /\ Moved(d) \in Dependency
             /\ AuthoredAs(Moved(d)) \in Authored
             /\ Moved(d).from \in Existing' /\ Moved(d).to \in Existing'
             /\ (Moved(d).from[1] \in Body /\ Moved(d).to[1] \in Body => Moved(d).from[2] = Moved(d).to[2])
  <2>1. Up(d.from) \in TaskId /\ Up(d.to) \in TaskId BY <1>3, <1>4
  <2>2. Moved(d) \in Dependency
    <3> HIDE DEF Up, Moved
    <3> QED BY <1>4, <1>5, <2>1 DEF Dependency
  <2>3. AuthoredAs(Moved(d)) = AuthoredAs(d)
    <3>1. Up(d.from)[1] = d.from[1] /\ Up(d.to)[1] = d.to[1] BY <1>3, <1>4
    <3> HIDE DEF Up, Moved
    <3> QED BY <1>5, <3>1 DEF AuthoredAs, Between
  <2>4. Moved(d).from \in Existing' /\ Moved(d).to \in Existing'
    <3>1. Up(d.from) \in Existing' /\ Up(d.to) \in Existing' BY <1>4
    <3> HIDE DEF Up, Moved
    <3> QED BY <1>5, <3>1
  <2>5. ASSUME Moved(d).from[1] \in Body, Moved(d).to[1] \in Body
        PROVE  Moved(d).from[2] = Moved(d).to[2]
    <3>1. d.from[1] \in Body /\ d.to[1] \in Body
      <4> HIDE DEF Up, Moved
      <4> QED BY <1>3, <1>4, <1>5, <2>5
    <3>2. d.from \in reset /\ d.to \in reset BY <1>1, <1>4, <1>6, <3>1
    <3>3. Up(d.from)[2] = k + 1 /\ Up(d.to)[2] = k + 1 BY <1>1, <3>2
    <3> HIDE DEF Up, Moved
    <3> QED BY <1>5, <3>3
  <2> QED BY <1>4, <2>2, <2>3, <2>4, <2>5
<1> HIDE DEF Moved
<1>7. \A d \in deps' : /\ d \in Dependency /\ AuthoredAs(d) \in Authored
                       /\ d.from \in Existing' /\ d.to \in Existing'
                       /\ (d.from[1] \in Body /\ d.to[1] \in Body => d.from[2] = d.to[2])
  BY <1>2, <1>4, <1>6
<1>8. ASSUME NEW a \in Authored, a.from \in Body, a.to \in Body, NEW j \in 0..(k + 1)
      PROVE  InRound(a, j) \in deps'
  <2>1. CASE j \in 0..k BY <1>8, <2>1 DEF DepsOfRounds
  <2>2. CASE j = k + 1
    <3> DEFINE d == InRound(a, k)
    <3>1. d \in deps BY <1>0, <1>8 DEF DepsOfRounds
    <3>2. d.from = <<a.from, k>> /\ d.to = <<a.to, k>> /\ d.kind = a.kind /\ d.when = a.when
      BY InRoundFields
    <3>3. d.from \in reset /\ d.to \in reset BY <1>8, <3>2
    <3>4. Up(d.from) = <<a.from, k + 1>> /\ Up(d.to) = <<a.to, k + 1>> BY <1>1, <3>2, <3>3
    <3>5. Moved(d) = [from |-> <<a.from, k + 1>>, to |-> <<a.to, k + 1>>, kind |-> a.kind, when |-> a.when]
      <4> HIDE DEF d, Up
      <4> QED BY <1>5, <3>1, <3>2, <3>4
    <3>6. InRound(a, k + 1) = [from |-> <<a.from, k + 1>>, to |-> <<a.to, k + 1>>, kind |-> a.kind, when |-> a.when]
      BY DEF InRound, Between
    <3>7. Moved(d) \in NextRoundDeps(reset)
      <4> HIDE DEF d
      <4> QED BY <1>2, <3>1, <3>3
    <3> QED BY <2>2, <3>5, <3>6, <3>7
  <2> QED BY <1>0, <2>1, <2>2
<1> QED BY <1>7, <1>8 DEF DepsOfRounds

(* A dispatch that forks the next round of the loop.                       *)
LEMMA DriveWithFork ==
  ASSUME IInv, NEW d \in Rejected, NEW lb \in Loopback(d), RoundsLeft(d),
         ForkLoopSubgraph(d, ResetSet(lb))
  PROVE  Driven
<1> DEFINE reset == ResetSet(lb)
<1> DEFINE clones == {Clone(r) : r \in reset}
<1> DEFINE a == AuthoredAs(lb)
<1>0. TypeOK /\ GraphAgrees BY DEF IInv
<1>1. /\ d \in Undriven /\ d \in TaskId /\ cond[d] = "open"
      /\ outcome[d] # "" /\ task[d] = "completed"
  BY UndrivenIsDecided DEF Rejected
<1>2. PICK k \in 0..MaxRounds : TasksOfRounds(k) /\ DepsOfRounds(k) /\ RoundsBefore(k)
  BY DEF IInv, RoundsAgree
<1>3. lb \in deps /\ lb.kind = "loopback" /\ lb.from = d BY DEF Loopback
<1>4. /\ a \in Authored /\ a.kind = "loopback" /\ a.from = d[1]
      /\ a.from \in Body /\ Body \subseteq Tasks
  <2>1. a \in Authored /\ a.kind = "loopback" /\ a.from = d[1]
    BY <1>0, <1>2, <1>3, AuthoredAsFields DEF TypeOK, DepsOfRounds
  <2>2. a.to \in Tasks BY <2>1, AuthoredTypes
  <2> QED BY <2>1, <2>2, BodyOfLoop, AfterIsClosure
<1>5. d[2] = k /\ k \in Nat /\ k + 1 <= MaxRounds
  <2>0. k \in Nat BY RoundsCount
  <2>1. d = <<d[1], d[2]>> /\ d[2] \in 0..MaxRounds /\ d[2] \in Nat BY <1>1, IdTypes
  <2>2. d[2] <= k
    <3>1. d[2] = 0 \/ d[2] <= k BY <1>1, <1>2 DEF TasksOfRounds
    <3> QED BY <2>0, <2>1, <3>1
  <2>3. ASSUME d[2] < k PROVE FALSE
    <3>1. Settled(<<a.from, d[2]>>) BY <1>2, <1>4, <2>1, <2>3 DEF RoundsBefore
    <3>2. Settled(d) BY <1>4, <2>1, <3>1
    <3> QED BY <1>1, <3>2 DEF Settled
  <2> QED BY <2>0, <2>1, <2>2, <2>3 DEF RoundsLeft
<1>6. reset = {<<n, k>> : n \in Body} /\ d \in reset BY <1>0, <1>2, <1>3, <1>5, ResetIsARound
<1>7. /\ reset \subseteq TaskId
      /\ \A r \in reset : Clone(r) = <<r[1], k + 1>> /\ Clone(r) \in TaskId
      /\ \A t \in TaskId : t \in clones <=> t[1] \in Body /\ t[2] = k + 1
      /\ \A t \in TaskId : t \in clones => task[t] = "none"
  BY <1>2, <1>4, <1>5, <1>6, ClonesAreFresh
<1> HIDE DEF reset
<1>8. /\ Clone(d) \in clones /\ Clone(d) \in TaskId /\ task[Clone(d)] = "none" /\ Clone(d) # d
  BY <1>1, <1>6, <1>7
<1>9. /\ \A t \in TaskId : task'[t] = IF t \in clones THEN "open" ELSE task[t]
      /\ task' \in [TaskId -> Terminal \cup {"none", "open", "running"}]
  <2>1. task' = [t \in TaskId |-> IF t \in clones THEN "open" ELSE task[t]]
    BY DEF ForkLoopSubgraph, reset
  <2> HIDE DEF clones
  <2> QED BY <1>0, <2>1 DEF TypeOK
<1>10. /\ outcome' = outcome
       /\ deps' = deps \cup NextRoundDeps(reset)
       /\ gates' = NextRoundGates(d)
       /\ node' = [t \in TaskId |-> IF t \in clones THEN "open" ELSE SyncGraphToTasks[t]]
       /\ links' = links \cup {<<Clone(e.to), Clone(e.from)>> :
                      e \in {x \in deps : x.kind = "seq" /\ x.from \in reset /\ x.to \in reset}}
       /\ cond' = [t \in TaskId |-> CASE t = Clone(d) -> "open"
                                      [] t = d        -> "completed"
                                      [] OTHER        -> ConditionOf(t)]
  BY DEF ForkLoopSubgraph, reset
<1> HIDE DEF clones
<1>11. /\ \A t \in TaskId : task[t] = "completed" => task'[t] = "completed"
       /\ \A t \in TaskId : task'[t] # "none" <=> task[t] # "none" \/ t \in clones
       /\ Existing \subseteq Existing'
       /\ clones \subseteq Existing'
  <2>1. \A t \in TaskId : /\ task[t] = "completed" => task'[t] = "completed"
                          /\ task'[t] # "none" <=> task[t] # "none" \/ t \in clones
    BY <1>7, <1>9
  <2>2. clones \subseteq TaskId BY <1>7 DEF clones
  <2> QED BY <2>1, <2>2 DEF Existing
<1>12. /\ node' \in [TaskId -> {"none", "open", "running", "reopen", "completed"}]
       /\ \A t \in TaskId : /\ node'[t] = "completed" => task'[t] = "completed"
                            /\ node'[t] # "none" => task'[t] # "none"
  BY <1>10, <1>11, NodeFollowsTask
<1>13. /\ cond' \in [TaskId -> {"none", "open", "completed"}]
       /\ cond'[d] = "completed"
       /\ \A t \in TaskId : /\ cond'[t] = "completed" => task'[t] = "completed"
                            /\ cond[t] = "completed" /\ t # Clone(d) => cond'[t] = "completed"
  <2>1. \A t \in TaskId : /\ t = Clone(d) => cond'[t] = "open"
                          /\ t = d => cond'[t] = "completed"
                          /\ t # d /\ t # Clone(d) => cond'[t] = ConditionOf(t)
    BY <1>8, <1>10
  <2>2. DOMAIN cond' = TaskId /\ cond' = [t \in TaskId |-> cond'[t]] BY <1>10
  <2>3. \A t \in TaskId : cond'[t] \in {"none", "open", "completed"} BY <2>1, ConditionOfTypes
  <2>4. cond' \in [TaskId -> {"none", "open", "completed"}] BY <2>2, <2>3
  <2> QED BY <1>1, <1>11, <2>1, <2>4, ConditionOfTypes
<1>14. outcome' \in [TaskId -> Verdicts \cup {"", "exhausted"}]
       /\ \A t \in TaskId : outcome'[t] # "" => task'[t] = "completed"
  BY <1>0, <1>10, <1>11 DEF TypeOK, GraphAgrees
<1>15. /\ \A g \in gates' : \/ g \in gates /\ g[1] # d
                            \/ g[1] = Clone(d) /\ \E x \in gates : x[1] = d /\ g[2] = x[2]
       /\ gates' \subseteq TaskId \X TaskId
  <2>1. \A x \in gates : x \in TaskId \X TaskId BY <1>0 DEF TypeOK
  <2>2. gates' = {g \in gates : g[1] # d} \cup {<<Clone(d), g[2]>> : g \in {x \in gates : x[1] = d}}
    BY <1>10 DEF NextRoundGates
  <2> QED BY <1>8, <2>1, <2>2
<1>16. /\ \A l \in links' : l \in links \/ (l \in TaskId \X TaskId /\ l[2] \in clones)
       /\ links' \subseteq TaskId \X TaskId
  <2>1. \A e \in deps : e.from \in reset /\ e.to \in reset =>
          Clone(e.to) \in TaskId /\ Clone(e.from) \in TaskId /\ Clone(e.from) \in clones
    BY <1>7 DEF clones
  <2>2. links \subseteq TaskId \X TaskId BY <1>0 DEF TypeOK
  <2> QED BY <1>10, <2>1, <2>2
<1>17. \A t \in dispatched :
         /\ \A l \in links' : l[2] = t => task'[l[1]] = "completed"
         /\ \A g \in gates' : g[2] = t => cond'[g[1]] = "completed" /\ task'[g[1]] = "completed"
  <2>1. SUFFICES ASSUME NEW t \in dispatched
                 PROVE  /\ \A l \in links' : l[2] = t => task'[l[1]] = "completed"
                        /\ \A g \in gates' : g[2] = t => cond'[g[1]] = "completed" /\ task'[g[1]] = "completed"
    OBVIOUS
  <2>2. t \in TaskId /\ task[t] # "none" BY <1>0 DEF TypeOK, Existing
  <2>3. /\ \A l \in links : l[1] \in TaskId /\ (l[2] = t => task[l[1]] = "completed")
        /\ \A g \in gates : g[1] \in TaskId /\ (g[2] = t => cond[g[1]] = "completed" /\ task[g[1]] = "completed")
    BY <1>0, <2>1 DEF IInv, ReleasedInOrder, TypeOK
  <2>4. ASSUME NEW l \in links', l[2] = t PROVE task'[l[1]] = "completed"
    BY <1>7, <1>11, <1>16, <2>2, <2>3, <2>4
  <2>5. ASSUME NEW g \in gates', g[2] = t PROVE cond'[g[1]] = "completed" /\ task'[g[1]] = "completed"
    <3>1. CASE g \in gates
      <4>1. g[1] \in TaskId /\ cond[g[1]] = "completed" /\ task[g[1]] = "completed" BY <2>3, <2>5, <3>1
      <4> QED BY <1>8, <1>11, <1>13, <4>1
    <3>2. CASE \E x \in gates : x[1] = d /\ g[2] = x[2] BY <1>1, <2>3, <2>5, <3>2
    <3> QED BY <1>15, <3>1, <3>2
  <2> QED BY <2>4, <2>5
<1>18. k + 1 \in 0..MaxRounds BY <1>5, RoundsCount
<1>19. TasksOfRounds(k + 1)'
  <2>1. ASSUME NEW t \in TaskId
        PROVE  task'[t] # "none" <=> (t[2] = 0 \/ (t[1] \in Body /\ t[2] <= k + 1))
    <3>1. t[2] \in Nat BY IdTypes
    <3>2. task[t] # "none" <=> (t[2] = 0 \/ (t[1] \in Body /\ t[2] <= k)) BY <1>2 DEF TasksOfRounds
    <3>3. t[2] <= k + 1 <=> t[2] <= k \/ t[2] = k + 1 BY <1>5, <3>1
    <3> QED BY <1>7, <1>11, <3>2, <3>3
  <2> QED BY <2>1 DEF TasksOfRounds
<1>20. deps' \subseteq Dependency /\ DepsOfRounds(k + 1)'
  <2>1. \A r \in reset : Clone(r) \in Existing' BY <1>11 DEF clones
  <2> QED BY <1>2, <1>4, <1>5, <1>6, <1>10, <1>11, <2>1, DepsOfNextRound
<1>21. RoundsBefore(k + 1)'
  <2>1. ASSUME NEW b \in Authored, b.kind = "loopback", NEW j \in 0..MaxRounds, j < k + 1
        PROVE  Settled(<<b.from, j>>)'
    <3> DEFINE r == <<b.from, j>>
    <3>1. b = a BY <1>4, <2>1, PlanAssumption
    <3>2. r \in TaskId /\ r[2] = j BY <2>1, AuthoredTypes, IdOf
    <3>3. Clone(d)[2] = k + 1 /\ j # k + 1 BY <1>5, <1>6, <1>7, <2>1
    <3>4. r # Clone(d) BY <3>2, <3>3
    <3>5. cond'[r] = "completed" /\ task'[r] = "completed" /\ outcome'[r] # "" /\ (\A g \in gates' : g[1] # r)
      <4>1. CASE j = k
        <5>1. r = d BY <1>1, <1>4, <1>5, <3>1, <4>1, IdTypes
        <5> QED BY <1>1, <1>8, <1>10, <1>11, <1>13, <1>15, <5>1
      <4>2. CASE j # k
        <5>1. Settled(r) BY <1>2, <1>5, <2>1, <4>2 DEF RoundsBefore
        <5> QED BY <1>10, <1>11, <1>13, <1>15, <3>2, <3>4, <5>1 DEF Settled
      <4> QED BY <4>1, <4>2
    <3> QED BY <3>5 DEF Settled
  <2> QED BY <2>1 DEF RoundsBefore
<1> QED BY <1>9, <1>11, <1>12, <1>13, <1>14, <1>15, <1>16, <1>17, <1>18, <1>19, <1>20, <1>21 DEF Driven

LEMMA DispatchKeepsIInv ==
  ASSUME IInv, Dispatch, mishaps' = mishaps
  PROVE  IInv'
<1>1. TypeOK BY DEF IInv
<1>2. Driven
  <2>1. CASE \E d \in Rejected : RoundsLeft(d)
    <3>1. PICK d \in Rejected : \E lb \in Loopback(d) : RoundsLeft(d) /\ ForkLoopSubgraph(d, ResetSet(lb))
      BY <2>1 DEF Dispatch, DriveGraphDecisions
    <3> QED BY <3>1, DriveWithFork
  <2>2. CASE ~ \E d \in Rejected : RoundsLeft(d)
    BY <2>2, DriveWithoutFork DEF Dispatch, DriveGraphDecisions
  <2> QED BY <2>1, <2>2
<1>3. /\ plan' \in {"pending", "running", "paused", "done", "discarded"} /\ plan' # "pending"
      /\ wait' \in [TaskId -> SUBSET TaskId] /\ hold' \in [TaskId -> SUBSET TaskId]
  <2>1. plan = "running" /\ CompletePlanIfEligible(wait, Nobody) BY DEF Dispatch
  <2>2. wait \in [TaskId -> SUBSET TaskId] BY <1>1 DEF TypeOK
  <2> QED BY <1>1, <2>1, <2>2, NobodyTypes, CompletionTypes
<1>4. dispatched' = dispatched \cup GraphReadySet' BY DEF Dispatch
<1>5. \A t \in GraphReadySet' :
        /\ t \in TaskId /\ node'[t] # "none"
        /\ \A l \in links' : l[2] = t => node'[l[1]] = "completed"
        /\ \A g \in gates' : g[2] = t => cond'[g[1]] = "completed"
  BY DEF GraphReadySet
<1>6. dispatched' \subseteq Existing'
  <2>1. \A t \in GraphReadySet' : t \in TaskId /\ task'[t] # "none" BY <1>2, <1>5 DEF Driven
  <2>2. dispatched \subseteq Existing' BY <1>1, <1>2 DEF TypeOK, Driven
  <2> QED BY <1>4, <2>1, <2>2 DEF Existing
<1>7. ReleasedInOrder'
  <2>1. /\ \A l \in links' : l[1] \in TaskId
        /\ \A g \in gates' : g[1] \in TaskId
    BY <1>2 DEF Driven
  <2>2. \A t \in TaskId : /\ cond'[t] = "completed" => task'[t] = "completed"
                          /\ node'[t] = "completed" => task'[t] = "completed"
    BY <1>2 DEF Driven
  <2>3. ASSUME NEW t \in GraphReadySet'
        PROVE  /\ \A l \in links' : l[2] = t => task'[l[1]] = "completed"
               /\ \A g \in gates' : g[2] = t => cond'[g[1]] = "completed" /\ task'[g[1]] = "completed"
    BY <1>5, <2>1, <2>2, <2>3
  <2>4. \A t \in dispatched :
          /\ \A l \in links' : l[2] = t => task'[l[1]] = "completed"
          /\ \A g \in gates' : g[2] = t => cond'[g[1]] = "completed" /\ task'[g[1]] = "completed"
    BY <1>2 DEF Driven
  <2> HIDE DEF GraphReadySet
  <2> QED BY <1>4, <2>3, <2>4 DEF ReleasedInOrder
<1>8. RoundsAgree' BY <1>2, <1>3 DEF Driven, RoundsAgree
<1>9. GraphAgrees' BY <1>2, <1>3 DEF Driven, GraphAgrees
<1>10. TypeOK' BY <1>1, <1>2, <1>3, <1>6 DEF Driven, TypeOK
<1> QED BY <1>7, <1>8, <1>9, <1>10 DEF IInv

-----------------------------------------------------------------------------
(* The other steps.                                                        *)

(* A step that changes no task, outcome or node.                           *)
LEMMA SameTasksKeepIInv ==
  ASSUME IInv, UNCHANGED <<rows, graph>>, dispatched' \subseteq dispatched,
         plan' \in {"pending", "running", "paused", "done", "discarded"},
         plan' = "pending" => plan = "pending",
         wait' \in [TaskId -> SUBSET TaskId], hold' \in [TaskId -> SUBSET TaskId],
         mishaps' \in 0..MaxMishaps
  PROVE  IInv'
<1>1. RoundsAgree' /\ GraphAgrees' /\ ReleasedInOrder' /\ Existing' = Existing
  <2>1. \A t \in TaskId : outcome[t] # "" => task[t] = "completed" BY DEF IInv, GraphAgrees
  <2> QED BY <2>1, QuietStep DEF rows, graph
<1>2. TypeOK' BY <1>1 DEF IInv, TypeOK, rows, graph
<1> QED BY <1>1, <1>2 DEF IInv

LEMMA CompletePlanKeepsIInv ==
  ASSUME IInv, NEW force, CompletePlan(force), mishaps' \in 0..MaxMishaps
  PROVE  IInv'
<1>1. /\ UNCHANGED <<rows, graph>> /\ dispatched' = dispatched
      /\ plan' = "done" /\ wait' = Nobody /\ hold' = Pruned(hold, wait)
  BY DEF CompletePlan, MarkPlanDone
<1>2. hold \in [TaskId -> SUBSET TaskId] BY DEF IInv, TypeOK
<1> QED BY <1>1, <1>2, PrunedTypes, NobodyTypes, SameTasksKeepIInv

(* A step of one task that moves no completed one.                         *)
LEMMA OneTaskKeepsIInv ==
  ASSUME IInv, NEW t \in TaskId, NEW s \in Terminal \cup {"open", "running"},
         task[t] \in {"open", "running"}, task' = [task EXCEPT ![t] = s],
         UNCHANGED <<plan, deps, outcome, cond, links, gates>>,
         dispatched' \subseteq dispatched,
         node' \in [TaskId -> {"none", "open", "running", "reopen", "completed"}],
         \A u \in TaskId : /\ node'[u] = "completed" => node[u] = "completed"
                           /\ node'[u] # "none" => node[u] # "none",
         wait' \in [TaskId -> SUBSET TaskId], hold' \in [TaskId -> SUBSET TaskId],
         mishaps' \in 0..MaxMishaps
  PROVE  IInv'
<1>0. TypeOK BY DEF IInv
<1>1. \A u \in TaskId : /\ task[u] = "completed" => task'[u] = "completed"
                        /\ task'[u] = "none" <=> task[u] = "none"
  BY <1>0 DEF TypeOK, Terminal
<1>2. \A u \in TaskId : outcome[u] # "" => task[u] = "completed" BY DEF IInv, GraphAgrees
<1>3. RoundsAgree' /\ GraphAgrees' /\ ReleasedInOrder' /\ Existing' = Existing
  BY <1>1, <1>2, QuietStep
<1>4. task' \in [TaskId -> Terminal \cup {"none", "open", "running"}] BY <1>0 DEF TypeOK
<1>5. TypeOK' BY <1>0, <1>3, <1>4 DEF TypeOK
<1> QED BY <1>3, <1>5 DEF IInv

LEMMA ReopenNodeTypes ==
  ASSUME TypeOK, NEW t \in TaskId, ReopenStuckPlanNode(t)
  PROVE  /\ node' \in [TaskId -> {"none", "open", "running", "reopen", "completed"}]
         /\ \A u \in TaskId : /\ node'[u] = "completed" => node[u] = "completed"
                              /\ node'[u] # "none" => node[u] # "none"
         /\ dispatched' \subseteq dispatched
<1>1. CASE node[t] = "none" BY <1>1 DEF ReopenStuckPlanNode, TypeOK
<1>2. CASE node[t] # "none"
  <2>1. node' = [node EXCEPT ![t] = IF node[t] = "running" THEN "reopen" ELSE node[t]]
        /\ dispatched' = dispatched \ {t}
    BY <1>2 DEF ReopenStuckPlanNode
  <2> QED BY <1>2, <2>1 DEF TypeOK
<1> QED BY <1>1, <1>2

(* A decision that is recorded, again or for the first time, was completed. *)
LEMMA OutcomeKeepsIInv ==
  ASSUME IInv, NEW t \in TaskId, NEW v \in Verdicts, RecordDecisionOutcome(t, v),
         mishaps' \in 0..MaxMishaps
  PROVE  IInv'
<1>0. TypeOK BY DEF IInv
<1>1. /\ task[t] = "completed" /\ outcome' = [outcome EXCEPT ![t] = v]
      /\ UNCHANGED <<plan, task, deps, dispatched, graph, wait>>
      /\ hold' = [hold EXCEPT ![t] = IF v \in PassTokens THEN {} ELSE hold[t]]
  BY DEF RecordDecisionOutcome
<1>2. v # "" BY PlanAssumption DEF Verdicts
<1>3. \A u \in TaskId : outcome'[u] = IF u = t THEN v ELSE outcome[u] BY <1>0, <1>1 DEF TypeOK
<1>4. \A u \in TaskId : /\ outcome'[u] # "" => task[u] = "completed"
                        /\ outcome[u] # "" => outcome'[u] # ""
  BY <1>1, <1>2, <1>3 DEF IInv, GraphAgrees
<1>5. RoundsAgree' /\ GraphAgrees' /\ ReleasedInOrder' /\ Existing' = Existing
  BY <1>1, <1>4, QuietStep DEF graph
<1>6. outcome' \in [TaskId -> Verdicts \cup {"", "exhausted"}] BY <1>0, <1>1 DEF TypeOK
<1>7. hold' \in [TaskId -> SUBSET TaskId] BY <1>0, <1>1 DEF TypeOK
<1>8. TypeOK' BY <1>0, <1>1, <1>5, <1>6, <1>7 DEF TypeOK, graph
<1> QED BY <1>5, <1>8 DEF IInv

LEMMA WorkKeepsIInv ==
  ASSUME IInv, Work, mishaps' = mishaps
  PROVE  IInv'
<1>0. /\ TypeOK /\ mishaps' \in 0..MaxMishaps
      /\ wait \in [TaskId -> SUBSET TaskId] /\ hold \in [TaskId -> SUBSET TaskId]
  BY DEF IInv, TypeOK
<1>1. CASE StartPlan BY <1>1, StartPlanKeepsIInv
<1>2. CASE PausePlan \/ ResumePlan
  BY <1>0, <1>2, SameTasksKeepIInv DEF PausePlan, ResumePlan, waiting
<1>3. CASE DiscardPlan
  <2>1. /\ plan' = "discarded" /\ wait' = Nobody /\ hold' = hold
        /\ UNCHANGED <<deps, outcome, dispatched, graph>>
        /\ task' = [t \in TaskId |-> IF task[t] \in {"open", "running"} THEN "discarded" ELSE task[t]]
    BY <1>3 DEF DiscardPlan
  <2>2. \A t \in TaskId : /\ task[t] = "completed" => task'[t] = "completed"
                          /\ task'[t] = "none" <=> task[t] = "none"
    BY <2>1
  <2>3. \A t \in TaskId : outcome[t] # "" => task[t] = "completed" BY DEF IInv, GraphAgrees
  <2>4. RoundsAgree' /\ GraphAgrees' /\ ReleasedInOrder' /\ Existing' = Existing
    BY <2>1, <2>2, <2>3, QuietStep DEF graph
  <2>5. task' \in [TaskId -> Terminal \cup {"none", "open", "running"}]
    BY <1>0, <2>1 DEF TypeOK, Terminal
  <2>6. TypeOK' BY <1>0, <2>1, <2>4, <2>5, NobodyTypes DEF TypeOK, graph
  <2> QED BY <2>4, <2>6 DEF IInv
<1>4. CASE CompletePlan(FALSE) BY <1>0, <1>4, CompletePlanKeepsIInv
<1>5. CASE Dispatch BY <1>5, DispatchKeepsIInv
<1>6. CASE MaterializeBlockedOn
  <2>1. BlockedOn \in [TaskId -> SUBSET TaskId] BY <1>0, BlockedOnTypes DEF TypeOK
  <2>2. /\ plan' = plan /\ wait' = BlockedOn /\ hold' = BlockedOn
        /\ UNCHANGED <<rows, dispatched, graph>>
    BY <1>6 DEF MaterializeBlockedOn
  <2> QED BY <1>0, <2>1, <2>2, SameTasksKeepIInv DEF TypeOK
<1>7. ASSUME NEW t \in TaskId, StartTask(t) PROVE IInv'
  <2>1. /\ task[t] = "open" /\ task' = [task EXCEPT ![t] = "running"]
        /\ UNCHANGED <<plan, deps, outcome, dispatched, graph, wait>>
        /\ hold' = [hold EXCEPT ![t] = {}]
    BY <1>7 DEF StartTask
  <2>2. hold' \in [TaskId -> SUBSET TaskId] BY <1>0, <2>1
  <2>3. node \in [TaskId -> {"none", "open", "running", "reopen", "completed"}] BY <1>0 DEF TypeOK
  <2> QED BY <1>0, <2>1, <2>2, <2>3, OneTaskKeepsIInv DEF graph
<1>8. ASSUME NEW t \in TaskId, NEW v \in Verdicts \cup {""}, CompleteTask(t, v) PROVE IInv'
  <2>1. /\ task[t] \in {"open", "running"} /\ TaskStateOp(t, "completed")
        /\ UNCHANGED <<deps, dispatched, graph>>
        /\ outcome' = [outcome EXCEPT ![t] = IF v = "" THEN outcome[t] ELSE v]
    BY <1>8 DEF CompleteTask
  <2>2. outcome' \in [TaskId -> Verdicts \cup {"", "exhausted"}] BY <1>0, <2>1 DEF TypeOK
  <2>3. \A u \in TaskId : outcome'[u] = outcome[u] \/ u = t BY <1>0, <2>1 DEF TypeOK
  <2> QED BY <1>0, <2>1, <2>2, <2>3, StateOpKeepsIInv DEF Terminal
<1>9. ASSUME NEW t \in TaskId, NEW v \in Verdicts, RecordDecisionOutcome(t, v) PROVE IInv'
  BY <1>0, <1>9, OutcomeKeepsIInv
<1> QED BY <1>1, <1>2, <1>3, <1>4, <1>5, <1>6, <1>7, <1>8, <1>9 DEF Work

LEMMA TroubleKeepsIInv ==
  ASSUME IInv, Trouble, Mishap
  PROVE  IInv'
<1>0. /\ TypeOK /\ mishaps' \in 0..MaxMishaps
      /\ wait \in [TaskId -> SUBSET TaskId] /\ hold \in [TaskId -> SUBSET TaskId]
      /\ node \in [TaskId -> {"none", "open", "running", "reopen", "completed"}]
  <2>1. mishaps \in 0..MaxMishaps /\ TypeOK BY DEF IInv, TypeOK
  <2>2. mishaps < MaxMishaps /\ mishaps' = mishaps + 1 BY DEF Mishap
  <2>3. mishaps' \in 0..MaxMishaps BY RoundsCount, <2>1, <2>2
  <2> QED BY <2>1, <2>3 DEF TypeOK
<1>1. CASE ReopenPlan BY <1>0, <1>1, SameTasksKeepIInv DEF ReopenPlan, waiting
<1>2. CASE CompletePlan(TRUE) BY <1>0, <1>2, CompletePlanKeepsIInv
<1>3. ASSUME NEW t \in TaskId, RerunFailedNode(t) PROVE IInv'
  BY <1>0, <1>3, SameTasksKeepIInv DEF RerunFailedNode, waiting, TypeOK
<1>4. ASSUME NEW t \in TaskId, NEW v \in Verdicts, RecordDecisionOutcome(t, v) PROVE IInv'
  BY <1>0, <1>4, OutcomeKeepsIInv
<1>5. Overrides \subseteq Terminal \cup {"open", "running"} BY PlanAssumption DEF Terminal
<1>6. ASSUME NEW t \in TaskId, NEW s \in Overrides, SetTaskStatus(t, s) PROVE IInv'
  <2>1. /\ task[t] \in {"open", "running"} /\ TaskStateOp(t, s)
        /\ UNCHANGED <<deps, outcome, dispatched, graph>>
    BY <1>6 DEF SetTaskStatus
  <2>2. outcome' \in [TaskId -> Verdicts \cup {"", "exhausted"}] BY <1>0, <2>1 DEF TypeOK
  <2> QED BY <1>0, <1>5, <2>1, <2>2, StateOpKeepsIInv
<1>7. ASSUME NEW t \in TaskId, NEW s \in Overrides, BatchUpdateTask(t, s) PROVE IInv'
  BY <1>0, <1>5, <1>7, OneTaskKeepsIInv DEF BatchUpdateTask, graph, waiting
<1>8. ASSUME NEW t \in TaskId, BlockTask(t) PROVE IInv'
  <2>1. /\ task[t] = "running" /\ task' = [task EXCEPT ![t] = "failed"]
        /\ wait' = [wait EXCEPT ![t] = {}]
        /\ UNCHANGED <<plan, deps, outcome, dispatched, graph, hold>>
    BY <1>8 DEF BlockTask
  <2>2. wait' \in [TaskId -> SUBSET TaskId] BY <1>0, <2>1
  <2>3. "failed" \in Terminal BY DEF Terminal
  <2> QED BY <1>0, <2>1, <2>2, <2>3, OneTaskKeepsIInv DEF graph
<1>9. ASSUME NEW t \in TaskId, ResetTask(t) PROVE IInv'
  <2>1. /\ task[t] = "running" /\ task' = [task EXCEPT ![t] = "open"]
        /\ ReopenStuckPlanNode(t)
        /\ UNCHANGED <<plan, deps, outcome, cond, links, gates, waiting>>
    BY <1>9 DEF ResetTask
  <2> QED BY <1>0, <2>1, ReopenNodeTypes, OneTaskKeepsIInv DEF waiting
<1>10. ASSUME NEW t \in TaskId, ReconcileStuckNode(t) PROVE IInv'
  <2>1. /\ ReopenStuckPlanNode(t)
        /\ UNCHANGED <<plan, rows, cond, links, gates, waiting>>
    BY <1>10 DEF ReconcileStuckNode
  <2>2. /\ node' \in [TaskId -> {"none", "open", "running", "reopen", "completed"}]
        /\ \A u \in TaskId : /\ node'[u] = "completed" => node[u] = "completed"
                             /\ node'[u] # "none" => node[u] # "none"
        /\ dispatched' \subseteq dispatched
    BY <1>0, <2>1, ReopenNodeTypes
  <2>3. \A u \in TaskId : outcome[u] # "" => task[u] = "completed" BY DEF IInv, GraphAgrees
  <2>4. RoundsAgree' /\ GraphAgrees' /\ ReleasedInOrder' /\ Existing' = Existing
    BY <2>1, <2>2, <2>3, QuietStep DEF rows
  <2>5. TypeOK' BY <1>0, <2>1, <2>2, <2>4 DEF TypeOK, rows, waiting
  <2> QED BY <2>4, <2>5 DEF IInv
<1> QED BY <1>1, <1>2, <1>3, <1>4, <1>6, <1>7, <1>8, <1>9, <1>10 DEF Trouble

LEMMA InitHasIInv == Init => IInv
<1> SUFFICES ASSUME Init PROVE IInv OBVIOUS
<1>0. 0 \in 0..MaxRounds /\ 0 \in 0..MaxMishaps BY RoundsCount
<1>1. \A t \in TaskId : task[t] # "none" <=> t[2] = 0 BY DEF Init
<1>2. task \in [TaskId -> Terminal \cup {"none", "open", "running"}] BY DEF Init, Terminal
<1>3. ASSUME NEW d \in deps
      PROVE  \E a \in Authored :
               /\ d = [from |-> <<a.from, 0>>, to |-> <<a.to, 0>>, kind |-> a.kind, when |-> a.when]
               /\ <<a.from, 0>> \in TaskId /\ <<a.to, 0>> \in TaskId
  <2>1. PICK a \in Authored : d = Between(a, <<a.from, 0>>, <<a.to, 0>>) BY <1>3 DEF Init
  <2> QED BY <1>0, <2>1, AuthoredTypes, IdOf DEF Between
<1>4. deps \subseteq Dependency
  <2>1. \A a \in Authored : a.kind \in {"seq", "conditional", "loopback"} /\ a.when \in STRING
    BY PlanAssumption
  <2>2. ASSUME NEW d \in deps PROVE d \in Dependency
    <3>1. PICK a \in Authored :
            /\ d = [from |-> <<a.from, 0>>, to |-> <<a.to, 0>>, kind |-> a.kind, when |-> a.when]
            /\ <<a.from, 0>> \in TaskId /\ <<a.to, 0>> \in TaskId
      BY <1>3, <2>2
    <3> QED BY <2>1, <3>1 DEF Dependency
  <2> QED BY <2>2
<1>5. TasksOfRounds(0)
  <2>1. \A t \in TaskId : t[2] <= 0 => t[2] = 0 BY IdTypes
  <2> QED BY <1>1, <2>1 DEF TasksOfRounds
<1>6. DepsOfRounds(0)
  <2>1. ASSUME NEW d \in deps
        PROVE  /\ AuthoredAs(d) \in Authored
               /\ d.from \in Existing /\ d.to \in Existing
               /\ d.from[2] = d.to[2]
    <3>1. PICK a \in Authored :
            /\ d = [from |-> <<a.from, 0>>, to |-> <<a.to, 0>>, kind |-> a.kind, when |-> a.when]
            /\ <<a.from, 0>> \in TaskId /\ <<a.to, 0>> \in TaskId
      BY <1>3, <2>1
    <3>2. AuthoredAs(d) = [from |-> a.from, to |-> a.to, kind |-> a.kind, when |-> a.when]
      BY <3>1 DEF AuthoredAs, Between
    <3>3. d.from \in Existing /\ d.to \in Existing BY <1>1, <3>1 DEF Existing
    <3> QED BY <3>1, <3>2, <3>3, AuthoredTypes
  <2>2. \A a \in Authored : \A j \in 0..0 : InRound(a, j) \in deps
    <3>1. \A a \in Authored : InRound(a, 0) \in deps BY DEF InRound, Init
    <3>2. \A j \in 0..0 : j = 0 OBVIOUS
    <3> QED BY <3>1, <3>2
  <2> QED BY <2>1, <2>2 DEF DepsOfRounds
<1>7. RoundsBefore(0) BY DEF RoundsBefore
<1>8. RoundsAgree BY <1>0, <1>5, <1>6, <1>7 DEF RoundsAgree
<1>9. GraphAgrees BY DEF Init, GraphAgrees
<1>10. ReleasedInOrder BY DEF Init, ReleasedInOrder
<1>11. TypeOK
  <2>1. wait \in [TaskId -> SUBSET TaskId] /\ hold \in [TaskId -> SUBSET TaskId] BY NobodyTypes DEF Init
  <2> QED BY <1>0, <1>2, <1>4, <2>1 DEF Init, TypeOK
<1> QED BY <1>8, <1>9, <1>10, <1>11 DEF IInv

(* Whatever people, agents and sweeps do to the tasks of a plan: the rows  *)
(* of the tasks, the graph and the dispatch records agree, and the tasks   *)
(* are those of whole rounds of the loop's body, one after the other.      *)
THEOREM PlanStaysSound == Spec => []IInv
<1>1. IInv /\ [Next]_vars => IInv'
  <2>1. ASSUME IInv, UNCHANGED vars PROVE IInv'
    <3>1. UNCHANGED <<rows, graph>> /\ UNCHANGED <<plan, dispatched, waiting, mishaps>> BY <2>1 DEF vars
    <3> QED BY <2>1, <3>1, SameTasksKeepIInv DEF IInv, TypeOK, waiting
  <2> QED BY <2>1, WorkKeepsIInv, TroubleKeepsIInv DEF Next
<1> QED BY <1>1, InitHasIInv, PTL DEF Spec

(* A round of the loop begins when the one before it is decided, settled   *)
(* and detached from what it gated (ForkLoopSubgraph).                     *)
LEMMA RoundsFollow == IInv => RowsAreSound
<1> SUFFICES ASSUME IInv PROVE RoundsInSequence BY DEF IInv, RowsAreSound
<1>1. SUFFICES ASSUME NEW d \in Existing, Clone(d) \in Existing,
                      NEW e \in deps, e.kind = "loopback", e.from = d
               PROVE  Settled(d)
  BY DEF RoundsInSequence
<1>2. PICK k \in 0..MaxRounds : TasksOfRounds(k) /\ DepsOfRounds(k) /\ RoundsBefore(k)
  BY DEF IInv, RoundsAgree
<1>3. /\ d = <<d[1], d[2]>> /\ d[2] \in 0..MaxRounds /\ d[2] \in Nat /\ k \in Nat
      /\ Clone(d) \in TaskId /\ Clone(d)[2] = d[2] + 1
  BY <1>1, IdTypes, RoundsCount DEF Existing, Clone
<1>4. d[2] < k BY <1>1, <1>2, <1>3 DEF TasksOfRounds, Existing
<1>5. AuthoredAs(e) \in Authored /\ AuthoredAs(e).kind = "loopback" /\ AuthoredAs(e).from = d[1]
  BY <1>1, <1>2, AuthoredAsFields DEF IInv, TypeOK, DepsOfRounds
<1>6. Settled(<<d[1], d[2]>>) BY <1>2, <1>3, <1>4, <1>5 DEF RoundsBefore
<1> QED BY <1>3, <1>6

(* Every row has its type and the rounds of a loop follow one another,     *)
(* whatever the plan was authored with (driveGraphDecisions and            *)
(* forkLoopSubgraph).                                                      *)
THEOREM RoundsStayInSequence == Spec => []RowsAreSound
BY PlanStaysSound, RoundsFollow, PTL

(* What was announced as ready had everything before it finished, and      *)
(* keeps it so (dispatchReadyNodes and advanceNodeTo).                     *)
THEOREM NothingRunsAhead == Spec => []ReleasedInOrder
<1>1. IInv => ReleasedInOrder BY DEF IInv
<1> QED BY <1>1, PlanStaysSound, PTL
=============================================================================
