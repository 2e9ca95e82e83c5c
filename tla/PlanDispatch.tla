---------------------------- MODULE PlanDispatch ----------------------------
(***************************************************************************)
(* A structured plan and the graph it is dispatched off                    *)
(* (internal/projectmanager/service: plan_lifecycle, plan_completion and   *)
(* plan_orchestration_graph; plan_view.go and plan_dag.go).  Three records *)
(* of the same work have to agree: the task rows that people and agents    *)
(* change, the nodes and conditions of the orchestration graph that decide *)
(* what is dispatched, and the view derived from tasks and dependencies    *)
(* that decides when the plan is done.  A dispatch brings the graph up to  *)
(* the tasks, settles the decisions (a reject forks the next round of the  *)
(* loop as fresh tasks), mentions what became ready and closes the plan.   *)
(*                                                                         *)
(* An action is one transaction.  The sweep's dispatch and the ones the    *)
(* outbox and AdvancePlan trigger are the same action, taken at any time.  *)
(*                                                                         *)
(* Left out: stages and their gates, plan evolution and remediation, the   *)
(* acceptance gate of merge tasks, a paused executor, deadlines, who may   *)
(* act, and the assignee (somebody is assigned before a task starts).      *)
(***************************************************************************)
EXTENDS Naturals

CONSTANTS
  Tasks,      \* the tasks the plan was authored with
  Authored,   \* their dependencies [from, to, kind, when]: from waits for to;
              \* one loopback at most
  MaxRounds,  \* max_rounds of the loopback
  Overrides,  \* the statuses the override menu is used for
  MaxMishaps  \* bound on failures, resets and what people do by hand

ASSUME PlanAssumption ==
  /\ MaxRounds \in Nat \ {0}
  /\ MaxMishaps \in Nat
  /\ Overrides \subseteq {"open", "running", "completed", "failed", "discarded"}
  /\ Authored \subseteq [from : Tasks, to : Tasks,
                         kind : {"seq", "conditional", "loopback"}, when : STRING]
  /\ \A d \in Authored : d.kind # "seq" => d.when # ""
  /\ \A d, e \in Authored : d.kind = "loopback" /\ e.kind = "loopback" => d = e

\* "closure" over the tasks all, in either direction of the dependencies of
\* edges that are not loopbacks: what lies after x, and what lies before it.
After(x, all, edges) ==
  {t \in all : \A c \in SUBSET all :
     x \in c /\ (\A d \in edges : d.kind # "loopback" /\ d.to \in c => d.from \in c) => t \in c}

Before(x, all, edges) ==
  {t \in all : \A c \in SUBSET all :
     x \in c /\ (\A d \in edges : d.kind # "loopback" /\ d.from \in c => d.to \in c) => t \in c}

\* LoopbackResetSet: what lies on a forward path from the loop's target to
\* the decision.
LoopbackResetSet(lb, all, edges) == After(lb.to, all, edges) \cap Before(lb.from, all, edges)

\* ValidateLoopback, when a loopback is added or the topology edited: its target
\* is upstream of its decision.  (To remove a dependency does not check again.)
ASSUME LoopAssumption ==
  \A d \in Authored : d.kind = "loopback" => d.from \in After(d.to, Tasks, Authored)

\* A task is an authored task and the round of the loop it was made for.
TaskId == Tasks \X (0..MaxRounds)

Clone(t) == <<t[1], t[2] + 1>>

\* The dependency d between other tasks.
Between(d, f, t) == [from |-> f, to |-> t, kind |-> d.kind, when |-> d.when]

Verdicts == {d.when : d \in {e \in Authored : e.kind # "seq"}}

Terminal == {"completed", "failed", "discarded"}

VARIABLES
  plan,        \* status of the plan
  task,        \* status of each task, "none" before it exists
  deps,        \* pm_task_dependencies of the plan
  outcome,     \* recorded outcome of each decision, "" for none
  dispatched,  \* tasks with a dispatch record
  node,        \* status of each task's business node
  cond,        \* status of the condition node of each decision
  links,       \* graph edges between business nodes <<upstream, node>>
  gates,       \* graph edges of the conditions <<decision, gated node>>
  wait,        \* blocked_on rows: the decisions a task waits for
  hold,        \* open progress hold of each task: the decisions it is for
  mishaps      \* bounding: failures, resets and interventions so far

rows    == <<task, deps, outcome>>
graph   == <<node, cond, links, gates>>
waiting == <<wait, hold>>
vars    == <<plan, rows, dispatched, graph, waiting, mishaps>>

Existing == {t \in TaskId : task[t] # "none"}

Mishap == mishaps < MaxMishaps /\ mishaps' = mishaps + 1

Nobody == [t \in TaskId |-> {}]

-----------------------------------------------------------------------------
(* DerivePlanView.  "old" are the tasks that others took over.             *)

Forward(t, old) ==
  {d \in deps : d.from = t /\ d.kind # "loopback" /\ t \notin old /\ d.to \notin old}

\* A conditional dependency is met when its decision took this branch.
Matches(d, old) ==
  \E e \in Forward(d.from, old) :
    e.to = d.to /\ e.kind = "conditional" /\ e.when = outcome[d.to]

\* A branch some finished decision did not take.
DeadBranch(t, old) ==
  \E d \in Forward(t, old) :
    d.kind = "conditional" /\ task[d.to] = "completed" /\ ~ Matches(d, old)

\* Dead branches, and what is only reached through them, are skipped.
Skipped(old) ==
  LET alive[t \in TaskId] ==
        \/ task[t] = "completed"
        \/ /\ ~ DeadBranch(t, old)
           /\ \/ Forward(t, old) = {}
              \/ \E d \in Forward(t, old) : alive[d.to]
  IN  {t \in Existing : ~ alive[t]}

ForwardReady(t, old) ==
  \A d \in Forward(t, old) :
    task[d.to] = "completed" /\ (d.kind = "conditional" => Matches(d, old))

NodeStatus(t, old, skipped) ==
  IF task[t] = "completed" THEN "done"
  ELSE IF task[t] = "running" THEN "running"
  ELSE IF task[t] = "failed" /\ (t \in old \/ t \notin skipped) THEN "failed"
  ELSE IF task[t] = "discarded" \/ t \in skipped THEN "skipped"
  ELSE IF ~ ForwardReady(t, old) THEN "blocked"
  ELSE IF t \in dispatched THEN "dispatched" ELSE "ready"

View(old) ==
  LET skipped == Skipped(old)
  IN  [t \in Existing |-> NodeStatus(t, old, skipped)]

\* planViewOptions: a failed task whose next round exists is history.
Superseded == {t \in Existing : task[t] = "failed" /\ Clone(t) \in Existing}

IsDecision(t) ==
  \E d \in deps : \/ d.kind = "loopback" /\ d.from = t
                  \/ d.kind = "conditional" /\ d.to = t

-----------------------------------------------------------------------------
(* Blocked-on rows and progress holds.                                     *)

\* classifyBlockedOn, of which only the wait for a decision opens a hold.
AwaitsDecision(t, view) ==
  IF view[t] \in {"done", "failed", "skipped", "running"} THEN {}
  ELSE IF IsDecision(t) /\ outcome[t] = "" THEN {t}
  ELSE IF view[t] # "blocked" THEN {}
  ELSE {u \in {d.to : d \in Forward(t, {})} :
          view[u] \notin {"done", "skipped"} /\ IsDecision(u) /\ outcome[u] = ""}

\* What materializeBlockedOn leaves in the rows, and in the holds: a task has
\* the hold of its present row and no other.
BlockedOn ==
  LET view == View({})
  IN  [t \in TaskId |-> IF t \in Existing THEN AwaitsDecision(t, view) ELSE {}]

\* Before a guard looks at the holds it releases those whose row changed.
Pruned(h, w) == [t \in TaskId |-> IF h[t] = w[t] THEN h[t] ELSE {}]

\* Mutant: the guard lets a held plan through.
NoHold_Never(h) == TRUE

NoHold(h) == h = Nobody

-----------------------------------------------------------------------------
(* Completion.                                                             *)

CanComplete ==
  LET view == View(Superseded) IN
  /\ Existing \ Superseded # {}
  /\ \A t \in Existing \ Superseded :
       view[t] \in {"done", "skipped"} /\ cond[t] # "open"

MarkPlanDone == plan' = "done" /\ wait' = Nobody

\* completePlanIfEligible at the end of a transaction that leaves the rows w
\* and the holds h: a held plan is silently not completed.
CompletePlanIfEligible(w, h) ==
  LET live == Pruned(h, w) IN
  IF plan \notin {"running", "paused"}
  THEN plan' = plan /\ wait' = w /\ hold' = h
  ELSE IF NoHold(live) /\ CanComplete'
  THEN MarkPlanDone /\ hold' = live
  ELSE plan' = plan /\ wait' = w /\ hold' = live

\* The explicit command; forced, it skips the evaluation but not the guard.
CompletePlan(force) ==
  /\ plan \in {"running", "paused"}
  /\ NoHold(Pruned(hold, wait))
  /\ force \/ CanComplete
  /\ MarkPlanDone
  /\ hold' = Pruned(hold, wait)
  /\ UNCHANGED <<rows, dispatched, graph>>

-----------------------------------------------------------------------------
(* The graph.                                                              *)

\* buildPlanGraph, synced to the tasks that already started or finished.
BuildGraph ==
  /\ node' = [t \in TaskId |->
                CASE task[t] = "none"                    -> "none"
                  [] task[t] \in {"running", "completed"} -> task[t]
                  [] OTHER                               -> "open"]
  /\ cond' = [t \in TaskId |-> IF IsDecision(t) THEN "open" ELSE "none"]
  /\ links' = {<<d.to, d.from>> : d \in {e \in deps : e.kind = "seq"}}
  /\ gates' = {<<d.to, d.from>> : d \in {e \in deps : e.kind = "conditional"}}

\* Mutant: a failed task settles its node like a finished one.
AdvanceNodeTo_SettlesFailed(t) ==
  CASE task[t] \in {"completed", "failed"}                -> "completed"
    [] task[t] = "running" /\ node[t] = "open"            -> "running"
    [] task[t] = "running" /\ node[t] = "reopen"
         /\ t \in dispatched                              -> "running"
    [] OTHER                                              -> node[t]

\* A failed task keeps its node, so that what follows stays blocked; a node
\* reopened under a running task waits for its next dispatch.
AdvanceNodeTo(t) ==
  CASE task[t] = "completed"                              -> "completed"
    [] task[t] = "running" /\ node[t] = "open"            -> "running"
    [] task[t] = "running" /\ node[t] = "reopen"
         /\ t \in dispatched                              -> "running"
    [] OTHER                                              -> node[t]

SyncGraphToTasks == [t \in TaskId |-> AdvanceNodeTo(t)]

Passed(d) ==
  \E e \in deps : e.kind = "conditional" /\ e.to = d /\ e.when = outcome[d]

\* Decisions recorded and not yet driven through their condition.
Undriven == {d \in TaskId : cond[d] = "open" /\ outcome[d] \notin {"", "exhausted"}}

Loopback(d) ==
  {e \in deps : e.kind = "loopback" /\ e.from = d /\ e.when = outcome[d]}

\* Mutant: a pass is not driven through its condition.
ConditionOf_Waits(d) == cond[d]

\* A pass resolves the condition and so releases what it gates.
ConditionOf(d) == IF d \in Undriven /\ Passed(d) THEN "completed" ELSE cond[d]

Rejected == {d \in Undriven : ~ Passed(d) /\ Loopback(d) # {}}

RoundsLeft(d) == d[2] + 1 <= MaxRounds

ResetSet(lb) == LoopbackResetSet(lb, Existing, deps)

\* The dependencies of the next round: each one that touches the reset set,
\* with the ends in it replaced by their clones.
NextRoundDeps(reset) ==
  LET Up(t) == IF t \in reset THEN Clone(t) ELSE t
  IN  {Between(d, Up(d.from), Up(d.to)) :
         d \in {e \in deps : e.from \in reset \/ e.to \in reset}}

\* Mutant: the old condition keeps the edges to what it gates.
NextRoundGates_Shared(d) ==
  gates \cup {<<Clone(d), g[2]>> : g \in {x \in gates : x[1] = d}}

NextRoundGates(d) ==
  {g \in gates : g[1] # d} \cup
  {<<Clone(d), g[2]>> : g \in {x \in gates : x[1] = d}}

\* forkLoopSubgraph: the old condition is detached and settled, the clones
\* get graph edges among themselves, and the new condition gates what the
\* old one did.
ForkLoopSubgraph(d, reset) ==
  /\ task' = [t \in TaskId |-> IF t \in {Clone(r) : r \in reset} THEN "open" ELSE task[t]]
  /\ deps' = deps \cup NextRoundDeps(reset)
  /\ node' = [t \in TaskId |-> IF t \in {Clone(r) : r \in reset} THEN "open"
                               ELSE SyncGraphToTasks[t]]
  /\ cond' = [t \in TaskId |-> CASE t = Clone(d) -> "open"
                                 [] t = d        -> "completed"
                                 [] OTHER        -> ConditionOf(t)]
  /\ links' = links \cup {<<Clone(e.to), Clone(e.from)>> :
                e \in {x \in deps : x.kind = "seq" /\ x.from \in reset /\ x.to \in reset}}
  /\ gates' = NextRoundGates(d)
  /\ UNCHANGED outcome

\* driveGraphDecisions over the synced graph: a pass resolves its condition,
\* a reject forks the next round or, past the last one, is exhausted and
\* leaves its condition open.
DriveGraphDecisions ==
  IF \E d \in Rejected : RoundsLeft(d)
  THEN \E d \in Rejected : \E lb \in Loopback(d) :
         RoundsLeft(d) /\ ForkLoopSubgraph(d, ResetSet(lb))
  ELSE /\ node' = SyncGraphToTasks
       /\ cond' = [t \in TaskId |-> ConditionOf(t)]
       /\ outcome' = [t \in TaskId |-> IF t \in Rejected THEN "exhausted" ELSE outcome[t]]
       /\ UNCHANGED <<task, deps, links, gates>>

\* GetReadyNodes, less the failed.
GraphReadySet ==
  {t \in TaskId :
     /\ node[t] \in {"open", "reopen"}
     /\ \A l \in links : l[2] = t => node[l[1]] = "completed"
     /\ \A g \in gates : g[2] = t => cond[g[1]] = "completed"
     /\ task[t] # "failed"}

\* dispatchReadyNodes: no hold may be open; a record already there stays.
Dispatch ==
  /\ plan = "running"
  /\ NoHold(Pruned(hold, wait))
  /\ DriveGraphDecisions
  /\ dispatched' = dispatched \cup GraphReadySet'
  /\ CompletePlanIfEligible(wait, Nobody)

-----------------------------------------------------------------------------
(* The plan.                                                               *)

StartPlan ==
  /\ plan = "pending"
  /\ plan' = "running"
  /\ BuildGraph
  /\ UNCHANGED <<rows, dispatched, waiting>>

PausePlan ==
  /\ plan = "running"
  /\ plan' = "paused"
  /\ UNCHANGED <<rows, dispatched, graph, waiting>>

ResumePlan ==
  /\ plan = "paused"
  /\ plan' = "running"
  /\ UNCHANGED <<rows, dispatched, graph, waiting>>

ReopenPlan ==
  /\ plan = "done"
  /\ plan' = "paused"
  /\ UNCHANGED <<rows, dispatched, graph, waiting>>

\* Its live tasks are discarded with it; its holds are not released.
DiscardPlan ==
  /\ plan \in {"pending", "running", "paused"}
  /\ plan' = "discarded"
  /\ task' = [t \in TaskId |-> IF task[t] \in {"open", "running"} THEN "discarded"
                               ELSE task[t]]
  /\ wait' = Nobody
  /\ UNCHANGED <<deps, outcome, dispatched, graph, hold>>

RerunFailedNode(t) ==
  /\ t \in dispatched
  /\ dispatched' = dispatched \ {t}
  /\ UNCHANGED <<plan, rows, graph, waiting>>

\* Mutant: the sweep opens holds and never releases one.
MaterializeBlockedOn_Opens ==
  /\ plan \in {"running", "paused"}
  /\ wait' = BlockedOn
  /\ hold' = [t \in TaskId |-> IF BlockedOn[t] = {} THEN hold[t] ELSE BlockedOn[t]]
  /\ UNCHANGED <<plan, rows, dispatched, graph>>

\* The second half of a sweep over a running or paused plan.
MaterializeBlockedOn ==
  /\ plan \in {"running", "paused"}
  /\ wait' = BlockedOn
  /\ hold' = BlockedOn
  /\ UNCHANGED <<plan, rows, dispatched, graph>>

-----------------------------------------------------------------------------
(* The tasks.                                                              *)

\* ensurePlannedTaskEffectiveForStart and the guard on the task's own hold.
\* Whether the node was dispatched is not asked.
StartTask(t) ==
  /\ task[t] = "open"
  /\ t \notin Superseded
  /\ Pruned(hold, wait)[t] = {}
  /\ task' = [task EXCEPT ![t] = "running"]
  /\ hold' = [hold EXCEPT ![t] = {}]
  /\ UNCHANGED <<plan, deps, outcome, dispatched, graph, wait>>

\* taskStateOp: the new status, the blocked-on rows after it, completion.
TaskStateOp(t, status) ==
  /\ task' = [task EXCEPT ![t] = status]
  /\ IF status \in Terminal
     THEN CompletePlanIfEligible([wait EXCEPT ![t] = {}], hold)
     ELSE IF plan \in {"running", "paused"}
     THEN CompletePlanIfEligible(BlockedOn', BlockedOn')
     ELSE CompletePlanIfEligible(wait, hold)

\* complete_task, of an open task too.  A decision's outcome is recorded
\* after the completion in the same transaction, or left to a human.
CompleteTask(t, verdict) ==
  /\ task[t] \in {"open", "running"}
  /\ Pruned(hold, wait)[t] = {}
  /\ verdict # "" => IsDecision(t)
  /\ outcome' = [outcome EXCEPT ![t] = IF verdict = "" THEN @ ELSE verdict]
  /\ UNCHANGED <<deps, dispatched, graph>>
  /\ TaskStateOp(t, "completed")

\* The verdicts that the task's own hold refuses; the guard prunes the hold.
PassTokens == {"pass", "success"}

\* The outcome of a decision that is completed already: the last one counts.
\* complete_task's handler sends only those here, to be recorded again.
RecordDecisionOutcome(t, verdict) ==
  /\ task[t] = "completed"
  /\ IsDecision(t)
  /\ verdict \in PassTokens => Pruned(hold, wait)[t] = {}
  /\ hold' = [hold EXCEPT ![t] = IF verdict \in PassTokens THEN {} ELSE @]
  /\ outcome' = [outcome EXCEPT ![t] = verdict]
  /\ UNCHANGED <<plan, task, deps, dispatched, graph, wait>>

\* fail_task, discard_task and the override menu, which no hold guards.
SetTaskStatus(t, status) ==
  /\ task[t] \in {"open", "running"}
  /\ status = "running" => t \notin Superseded
  /\ UNCHANGED <<deps, outcome, dispatched, graph>>
  /\ TaskStateOp(t, status)

\* The batch edit changes the row and nothing else.
BatchUpdateTask(t, status) ==
  /\ task[t] \in {"open", "running"}
  /\ task' = [task EXCEPT ![t] = status]
  /\ UNCHANGED <<plan, deps, outcome, dispatched, graph, waiting>>

\* BlockTask and the exhausted recovery: the task fails, outside taskStateOp.
BlockTask(t) ==
  /\ task[t] = "running"
  /\ task' = [task EXCEPT ![t] = "failed"]
  /\ wait' = [wait EXCEPT ![t] = {}]
  /\ UNCHANGED <<plan, deps, outcome, dispatched, graph, hold>>

\* reopenStuckPlanNode: back into the ready set, once there is a graph.
ReopenStuckPlanNode(t) ==
  IF node[t] = "none"
  THEN UNCHANGED <<node, dispatched>>
  ELSE /\ node' = [node EXCEPT ![t] = IF @ = "running" THEN "reopen" ELSE @]
       /\ dispatched' = dispatched \ {t}

\* The executor is dead: the task goes back to open, or keeps running while
\* the lease checker has its node dispatched again.
ResetTask(t) ==
  /\ task[t] = "running"
  /\ task' = [task EXCEPT ![t] = "open"]
  /\ ReopenStuckPlanNode(t)
  /\ UNCHANGED <<plan, deps, outcome, cond, links, gates, waiting>>

ReconcileStuckNode(t) ==
  /\ task[t] = "running"
  /\ node[t] = "running"
  /\ ReopenStuckPlanNode(t)
  /\ UNCHANGED <<plan, rows, cond, links, gates, waiting>>

-----------------------------------------------------------------------------
Init ==
  /\ plan = "pending"
  /\ task = [t \in TaskId |-> IF t[2] = 0 THEN "open" ELSE "none"]
  /\ deps = {Between(d, <<d.from, 0>>, <<d.to, 0>>) : d \in Authored}
  /\ outcome = [t \in TaskId |-> ""]
  /\ dispatched = {}
  /\ node = [t \in TaskId |-> "none"]
  /\ cond = node
  /\ links = {}
  /\ gates = {}
  /\ wait = Nobody
  /\ hold = Nobody
  /\ mishaps = 0

\* What the plan, the sweep and the agents do when nothing goes wrong.
Work ==
  \/ StartPlan \/ PausePlan \/ ResumePlan \/ DiscardPlan
  \/ CompletePlan(FALSE)
  \/ Dispatch
  \/ MaterializeBlockedOn
  \/ \E t \in TaskId :
       \/ StartTask(t)
       \/ \E v \in Verdicts \cup {""} : CompleteTask(t, v)
       \/ outcome[t] = "" /\ \E v \in Verdicts : RecordDecisionOutcome(t, v)

\* Failures, recoveries and what people do by hand.
Trouble ==
  \/ ReopenPlan \/ CompletePlan(TRUE)
  \/ \E t \in TaskId :
       \/ RerunFailedNode(t)
       \/ outcome[t] # "" /\ \E v \in Verdicts : RecordDecisionOutcome(t, v)
       \/ \E s \in Overrides : SetTaskStatus(t, s) \/ BatchUpdateTask(t, s)
       \/ BlockTask(t)
       \/ ResetTask(t)
       \/ ReconcileStuckNode(t)

Next ==
  \/ Work /\ UNCHANGED mishaps
  \/ Trouble /\ Mishap

\* The reconcile loop: every tick dispatches, then materializes.
Fairness ==
  /\ WF_vars(Dispatch /\ UNCHANGED mishaps)
  /\ WF_vars(MaterializeBlockedOn /\ UNCHANGED mishaps)

Spec == Init /\ [][Next]_vars /\ Fairness

-----------------------------------------------------------------------------
(* Properties.                                                             *)

Dependency == [from : TaskId, to : TaskId,
               kind : {"seq", "conditional", "loopback"}, when : STRING]

\* Every row has its type: only a task that exists is dispatched, and a node
\* knows no failure of its task (advanceNodeTo).
TypeOK ==
  /\ plan \in {"pending", "running", "paused", "done", "discarded"}
  /\ task \in [TaskId -> Terminal \cup {"none", "open", "running"}]
  /\ deps \subseteq Dependency
  /\ outcome \in [TaskId -> Verdicts \cup {"", "exhausted"}]
  /\ dispatched \subseteq Existing
  /\ node \in [TaskId -> {"none", "open", "running", "reopen", "completed"}]
  /\ cond \in [TaskId -> {"none", "open", "completed"}]
  /\ links \subseteq TaskId \X TaskId
  /\ gates \subseteq TaskId \X TaskId
  /\ wait \in [TaskId -> SUBSET TaskId]
  /\ hold \in [TaskId -> SUBSET TaskId]
  /\ mishaps \in 0..MaxMishaps

\* What was ever mentioned as ready had everything before it finished, and
\* keeps it so: its upstream tasks are completed, not failed or discarded,
\* and every condition in front of it was resolved by a decision that is
\* completed, through forks, resets, overrides and re-recorded outcomes.
ReleasedInOrder ==
  \A t \in dispatched :
    /\ \A l \in links : l[2] = t => task[l[1]] = "completed"
    /\ \A g \in gates : g[2] = t => cond[g[1]] = "completed" /\ task[g[1]] = "completed"

\* A round of a decision that is over: it is decided, its condition settled and
\* detached.
Settled(d) ==
  /\ cond[d] = "completed"
  /\ task[d] = "completed" /\ outcome[d] # ""
  /\ \A g \in gates : g[1] # d

\* A decision is looped in sequence: at most one of its conditions is open,
\* that of the last round, which alone gates what the decision releases; an
\* earlier round is over.
RoundsInSequence ==
  \A d \in Existing :
    Clone(d) \in Existing /\ (\E e \in deps : e.kind = "loopback" /\ e.from = d) => Settled(d)

\* Every row has its type, and the rounds of a decision follow one another.
RowsAreSound == TypeOK /\ RoundsInSequence

\* A finished plan waits for nothing and holds nothing: markPlanDone, the
\* guards and the pruning leave no blocked-on row or hold behind.
DoneHoldsNothing == plan = "done" => wait = Nobody /\ hold = Nobody

\* What the safety properties rest on: the tasks are those the plan was
\* authored with and the rounds of the loop's body up to round k; a
\* dependency is an authored one in some round, in one and the same for the
\* body; and the loop's decision is over in the rounds before k.
Body == UNION {LoopbackResetSet(lb, Tasks, Authored) : lb \in {a \in Authored : a.kind = "loopback"}}

AuthoredAs(d) == Between(d, d.from[1], d.to[1])

InRound(a, j) == Between(a, <<a.from, j>>, <<a.to, j>>)

TasksOfRounds(k) ==
  \A t \in TaskId : task[t] # "none" <=> (t[2] = 0 \/ (t[1] \in Body /\ t[2] <= k))

DepsOfRounds(k) ==
  /\ \A d \in deps :
       /\ AuthoredAs(d) \in Authored
       /\ d.from \in Existing /\ d.to \in Existing
       /\ d.from[1] \in Body /\ d.to[1] \in Body => d.from[2] = d.to[2]
  /\ \A a \in Authored : a.from \in Body /\ a.to \in Body => \A j \in 0..k : InRound(a, j) \in deps

RoundsBefore(k) ==
  \A a \in Authored : a.kind = "loopback" => \A j \in 0..MaxRounds : j < k => Settled(<<a.from, j>>)

RoundsAgree ==
  \E k \in 0..MaxRounds :
    /\ plan = "pending" => k = 0
    /\ TasksOfRounds(k) /\ DepsOfRounds(k) /\ RoundsBefore(k)

\* The graph, the outcomes and the dispatch records follow the tasks.
GraphAgrees ==
  /\ \A t \in TaskId :
       /\ outcome[t] # "" => task[t] = "completed"
       /\ cond[t] = "completed" => task[t] = "completed"
       /\ node[t] = "completed" => task[t] = "completed"
       /\ node[t] # "none" => task[t] # "none"
  /\ plan = "pending" => dispatched = {}

IInv == TypeOK /\ RoundsAgree /\ GraphAgrees /\ ReleasedInOrder

\* The tasks say that t may begin and nobody was told.
Owed(t) ==
  /\ plan = "running"
  /\ task[t] = "open" /\ t \notin dispatched
  /\ \A l \in links : l[2] = t => task[l[1]] = "completed"
  /\ \A g \in gates : g[2] = t => task[g[1]] = "completed" /\ Passed(g[1])

NoneOwed == \A t \in TaskId : ~ Owed(t)

Held == \E t \in TaskId : hold[t] # {}

\* While nothing is held, the sweep dispatches what is ready whatever event
\* was missed.
ReadyIsDispatched == (\E t \in TaskId : Owed(t)) ~> (NoneOwed \/ Held)

\* A hold is let go once the decisions it waits for are taken.
Outdated(t) ==
  /\ plan \in {"running", "paused"}
  /\ hold[t] # {} /\ \A d \in hold[t] : outcome[d] # ""

HoldsAreReleased ==
  (\E t \in TaskId : Outdated(t)) ~> (\A t \in TaskId : ~ Outdated(t))

\* The sweep is the safety net: what is ready is dispatched as long as the
\* plan runs, and observing what a node is blocked on can not stop that.
SweepDispatches == (\E t \in TaskId : Owed(t)) ~> NoneOwed

\* The run-ahead gate asks the same question as the dispatcher: a task that was
\* mentioned as ready, and whose turn it still is, may be started.
GateAgreesWithDispatch ==
  \A t \in dispatched : task[t] = "open" => View(Superseded)[t] \in {"ready", "dispatched"}
=============================================================================
