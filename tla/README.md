# agent-center in TLA+

A formal model of the parts of agent-center whose correctness depends on the
order in which things happen: the orchestration graph, the dispatch of a plan
off that graph, the task pool and its auto-assign sweep, the transactional
outbox, the control stream to a worker, the executors of an agent runtime, and
the reminders. TLC checks each on a small instance; TLAPS proves, for every
value of the constants, each invariant and each action property that a passing
run checks, and the refinement of the outbox. Paths below are relative to `src/internal`, unless they start with `docs`.

To check a run: `tlc -workers 2 -config MCTaskPool.cfg MCTaskPool`.
To check the proofs of a module: `tlapm TaskPoolProofs.tla`.

## 1. The system

One server, the *center* (Go, SQLite in WAL mode with immediate transactions),
serves a web console, a CLI and an admin API. *Worker daemons* run on other
machines; each launches *agent supervisors*, and each supervisor an *agent
runtime* that runs executors (language-model sessions working on one task).
`docs/design/architecture/strategic/02-system-overview.md` and the ADRs under
`docs/design/decisions` describe it; the models follow the code.

Every state change at the center is a SQLite transaction that may also append
an event to the outbox. Once a second a pump hands events to projectors, which
derive further state (participants, wake-ups, control messages to workers).
Background tickers sweep for what was missed: auto-assign, lease expiry, wake
sweep, stuck nodes, reminders.

### Inventory

Lines are those of the non-test Go code, rounded.

| Component (packages) | State it keeps | Operations | Interacts with | What is hard | What makes it correct |
|---|---|---|---|---|---|
| Orchestration graph (`projectmanager/orchestration`, 1.5k) | graph, node and edge rows; per node status, outcome, action log, bound task, condition config | start and finish a graph; add, remove, edit, start, complete, discard, reopen a node; add, remove an edge; resolve a condition | called by the plan lifecycle, in or out of its transaction | reads outside the transaction, whole-row writes, loops driven by conditions | stays a DAG; terminal nodes stay terminal; loops are capped; something can always be done next |
| Tasks (`projectmanager/task.go`, `projectmanager/service/assign_flow.go`, `appservices.go`) | status, assignee, lease, recovery counter | create, assign, start, heartbeat, block, fail, discard, complete, retry, override, batch edit, reset, archive the project | pool, lease checker, worker runtime | late heartbeats, resets of a live owner, override paths that skip a check | an agent's run slots are never overfilled; concluded work stays concluded; an archived project has no live work |
| Assignment pool and auto-assign (`claim_flow.go`, `auto_assign_reconciler.go`) | pool rows with their claimer; a sweep's snapshot, cached caps and reservations | add, remove, claim, release; the sweep | the same task rows | two tables for one owner; a sweep acting on an old snapshot | no claim steals; waiting tasks are assigned in the end |
| Outbox (`outbox`, 400) | events, processed marks, the applied ledger | append; relay pass; pump | every producer and projector | crash between effect and ledger row; a projector that always fails; a full batch of such events | each event reaches each projector, exactly once where the projector is transactional; healthy events are not starved |
| Projectors of the project manager | participants, plan progress | project one event | outbox | an old event retried after newer ones | old participants do not come back, except after a failure of their own projector |
| Plan lifecycle, dispatch, generations, remediation (`projectmanager/service/plan_*.go`) | plan, dependencies, decision outcomes, dispatch records, blocked-on rows, holds | start, pause, advance, dispatch, complete, reopen, discard, evolve | orchestration graph, tasks | three records of the same work: task rows, graph, derived view; loops; holds | what is dispatched had everything before it finished; rounds follow one another; a finished plan holds nothing; what is ready is dispatched |
| Stuck-node reconciler | none of its own | scan and repair | plan, graph | repairing what is only slow | only truly stuck nodes are reopened |
| Plan stages, gates, decisions, deadlines | stage and decision rows | open, decide, time out | plan lifecycle | a timeout racing a decision | one outcome per decision |
| Agent runtime and executors (`agentruntime`, 14k, with `executor`, 7k) | executor directories, pool slots, orphan set, recovery budgets, processes | fork, drain, renew, fuse, sweep, relaunch, adopt after a restart | center's lease and reset operations | three goroutines over one pool; executors that outlive the runtime | one process a task, none unwatched, no slot lost, budgets kept |
| Control log and stream (`environment`, `environment/controlstream`) | per-worker command log, acknowledged offset, cursors, queues | append, push, catch up, poll, acknowledge, park, prune | projectors, worker daemons | a push that is dropped or overtaken under a cumulative ack; crashes of both sides | no command lost, none handled out of order, none blocking for ever |
| Wake projectors, sweep, guard | wake records, backoff | wake, suppress, sweep | outbox, agents | a wake lost between sweep and guard | an agent with work is woken in the end |
| Reminders (`cognition/reminder`) | reminder rows, firings, due times | create, edit, pause, resume, cancel, delete, fire, skip, arm, deliver | outbox, pump | a scan acting on rows read earlier; a crash between firing, delivery and ledger | counts and limits agree with the history; nothing fires that was silenced; nothing due is forgotten |
| Supervisor manager, agent supervisor | epoch file, lock, process table | start, stop, reap, adopt | worker daemon | two supervisors for one agent | one supervisor per agent |
| Worker daemon, launcher, controllers (6k) | connections, launched processes | connect, launch, adopt, stop | control stream, supervisors | mostly process management | no orphan process |
| Workforce and identity | workers, bootstrap tokens | enrol, redeem, revoke | admin API | one-row changes in one transaction | a token is redeemed once |
| Conversations | messages, read cursors | append, mark read | participants projector | little | append only |
| Persistence (`persistence/tx.go`) | none | `RunInTx`: join an open transaction, replay on a busy database | everything | a replayed function that touched memory | a transaction is atomic |
| File lock, helpers | lock files | lock, unlock | supervisors | thin wrappers | |
| HTTP and admin APIs (38k), CLI (13k), web console | sessions | parse, authorize, render | services | none of their own | |

`PROJECT.json` lists the same components with their files, and 40 hazards, each
at the line where it bites and with the properties that cover it.

## 2. The modules

    Dag ── acyclicity, the reference definition
     ├─ CycleCheck ── ValidateNoCycle, one loop iteration a step
     │    └─ CycleCheckProofs, MCCycleCheck
     └─ GraphOps ── what Node and Graph methods compute, as operators
          └─ OrchestrationGraph ── the operations, one at a time
               ├─ MCOrchestrationGraph
               └─ OrchestrationService ── the same under concurrent callers
                    └─ OrchestrationProofs (of both), MCOrchestrationService
    TaskPool ── standalone tasks, pool, auto-assign sweep, lease clock
     └─ TaskPoolProofs, MCTaskPool
    Delivery ── what the outbox promises
     └─ Outbox ── relay and pump, one store call a step; implements Delivery
          └─ Participants ── what the first projector does with the events of a task
               └─ OutboxProofs (of both), MCOutbox
    PlanDispatch ── tasks, dependencies, decisions and holds of one plan and its graph
     └─ PlanDispatchProofs, MCPlanDispatch
    ControlStream ── the control log of one worker, its stream, poll and loop
     └─ ControlStreamProofs
    ExecutorRuntime ── forks, slots, leases, recovery and restart of one runtime
     └─ ExecutorRuntimeProofs
    Reminders ── rows, scan, firing, delivery, with the pump's drain
     └─ RemindersProofs, MCReminders

`CycleCheck` is what lets `OrchestrationGraph!AddEdge` say "the graph with the
edge is acyclic" instead of running the search: `VerdictCorrect` proves the two
the same. `OrchestrationGraph` is the specification of an operation that is not
interleaved; `OrchestrationService` splits each into its reads and its write
and relates them by `CurrentCommitIsAtomic`. `Delivery` is the abstract
specification of the outbox, `ImplementsDelivery` the refinement. The modules
after them restate only what they need of the others: `PlanDispatch` keeps the
graph of a plan as edges and two kinds of node (what the node and graph methods
do to it is `GraphOps`), `ExecutorRuntime` sees a task as the center shows it
(how it moves there is `TaskPool`), and `Reminders` has the relay's pass with
two projectors and no batch limit (the general one is `Outbox`).

Operators whose name has an underscore and whose comment begins "Mutant:" are
not part of the model: each is what a plausible bug would make of the
definition after it, and shows that a property notices.

### CycleCheck (`orchestration/edge.go`)

The three-colour depth-first search with an explicit stack. `color`, `stack`
and `todo` are the code's map, slice of frames and per-frame child index;
`PickRoot`, `VisitChild`, `PopFrame` and `Accept` are its loops. Go iterates
maps in random order and the repository returns edges in no particular one, so
roots and children are chosen nondeterministically.

### GraphOps and OrchestrationGraph (`types.go`, `node.go`, `graph.go`, `condition.go`, `edge.go`)

A node row is a record of kind, status, outcome, the number of "reopened" log
entries (the loop counter is read from the log), and metadata: the bound task
and the parsed condition config. `ReopenChain` is the code's three
breadth-first searches, a search being what it finds: the least set that holds
its start and that no pair leads out of. `ApplyConditionResult` keeps its order
of tests. Each
action of `OrchestrationGraph` is one method of the service, checks and write
included. `ResolveCondition` is allowed on any node, as in the code, which does
not look at the kind.

Left out: `Graph.Archive`, `Graph.Revert` and `EvaluateUpstream`, which no code
outside the tests calls; names, positions, timestamps.

### OrchestrationService (`orchestration/service.go`, `orchestration/sqlite`)

Each client has at most one call in flight: `Begin`, one `Read` for each SELECT
it makes outside the transaction, then `Commit`, whose guard is the domain
check on the snapshot together with what the database enforces (primary and
foreign keys, "no rows updated"). No write compares the version column, so a
row is written back as it was read. `Fail` is any error, at any point. A caller
that has a transaction open already joins it; its call is the interleaving in
which nobody else moves.

### TaskPool (`task.go`, `assign_flow.go`, `appservices.go`, `claim_flow.go`, `auto_assign_reconciler.go`, `lease_checker.go`, `project_flow.go` and the repositories)

`task` and `claimedBy` are the two tables that name an owner. Operators such as
`Started` and `ResetToOpen` are the mutators of `Task`; an action is a service
method, which is one immediate transaction. The lease is kept as the clock sees
it (unset, in the future, past), and `LeaseLapses` is the clock. The sweep
reads outside its transactions: `AutoAssignSweep` takes the lock and the
snapshot, `SelectAutoAssignee` picks for one task with caps that are read once
a sweep, `AutoAssignPoolTask` is the transaction that checks the task again.
The snapshot is all open tasks or the pool's members, by what triggered the
sweep; an error at one task ends it (`SweepFails`).

Abstracted: text, tags, events, audit rows; membership checks (they pass); the
delivery evidence and progress holds, which can only refuse a call; capability
matching, agent presence and the master switch of auto-assign (any agent is
eligible, the switch is on). `Unblock` changes no modelled field and `ExpireLease` has no caller.
Tasks of a structured plan are in `PlanDispatch`.

### Delivery and Outbox (`outbox/outbox.go`, `relay.go`, `pump.go`, `sqlite`)

`appended` and `processed` are `outbox_events`, `applied` is `outbox_applied`;
`effects` counts how often a projector's effect took place and exists only to
state properties. `phase`, `batch`, `proj`, `projected` and `n` are the
position of the pump in its loops. A projector is one of two kinds, and both
occur in the code: those in `SameTx` write their ledger row in their own
transaction, for the others the relay writes it afterwards. `Poison` pairs fail
for ever; a pair of `Needs` fails until the projector has applied the other
event. `Abort` is a crash with a restart, or a store call that fails and
makes `RunOnce` return; it can fall between any two store calls.

### Participants (`participant_projector.go`, with the events it reads)

The outbox with what its first projector does. The participants of a task's
conversation are `shown`, the event whose effective subscribers they are: every
event about the task carries the whole set, and the projector overwrites the
row with it in the transaction of its ledger row. The conversation is created
from the task's first event; a later one that comes before it is rejected
(only the creation carries the organization), which is `Needs`. `Emit` appends
in the transaction that changed the task, so events about one task have the
order of their ids, while ids of others may commit late. `failed` is history.
Issues are the same with fewer events.

Left out: the names in the set, and the other writer of the list, the join of
an agent that is woken (below). The participants of a plan's conversation
are only ever added to (`plan_participant_projector.go`), whatever the order.

### PlanDispatch (`plan_lifecycle.go`, `plan_orchestration_graph.go`, `plan_completion.go`, `progress_control.go`, `plan_view.go`, `plan_dag.go`)

An action is one transaction. `Dispatch` is `dispatchReadyNodes` whole: it
refuses while a hold is open, brings the graph up to the tasks
(`SyncGraphToTasks`), settles the decisions (`DriveGraphDecisions`, whose reject
forks the next round in `ForkLoopSubgraph`), records what became ready and
tries to finish the plan. The sweep, `AdvancePlan` and the projectors of the
outbox all end in it, so it may happen at any time or be missed for a while.
`View` is the status derived from tasks, dependencies and outcomes, with the
pruning of dead branches; starting and completing go by it, dispatch by the
graph. A task is an authored task and its round, and the reset set of a loop
(`computeLoopbackResetSet`) is the intersection of two closed sets, what
comes after the target and what comes before the decision. `Body` is what it
is in the authored plan, so that the k-th clone of `x` is `<<x, k>>`.

Left out: stages and gates, generations and evolution, topology edits,
remediation, the acceptance gate of merges, deadlines, holds that wait for an
acknowledgement, paused executors, authorization, the assignee, the lease guard
and reset budgets (both outcomes may happen), delete and archive. An outcome is
recorded through the agent's tool, whose checks are in the guard; its other
caller, `ReconcileProgressControl`, is triggered by tests only.

### ControlStream (`environment/control_log.go`, `controlstream/bus.go`, `admin/api/environment_stream.go`, `workerdaemon/control_loop.go`)

One worker. `rows` and `lastAcked` are the center's tables. An appender inserts
and then publishes, in its own goroutine; `agent_control_projector` inserts and
publishes inside a transaction that may still be rolled back (`tx`). `conn`,
`chan`, `backlog` and `wire` are the stream: the state of its connection, a
channel that drops what does not fit, the catch-up and the frames under way. The
worker takes its cursor when it dials (`StartStream`); the server subscribes and
reads the backlog when the request arrives (`Subscribe`). `cursor`, `batch`, `hi`,
`holPaused`, `stuckOffset` and `stuckFails` are the fields and locals of the
worker's loop, which takes commands from stream and poll, acknowledges them
cumulatively, and parks a head that fails too often; a poll may fail (`PollFails`). `committed`, `handled`,
`parked`, `missed` and `failures` are history, read by properties only; an offset
that is rolled back, or assigned anew by a crashed center, counts as missed only
if its command had reached the stream or the worker.

Left out: heartbeats, the overlap ring (no endpoint reads it), and
`UpdateCommandStatus` (nothing here reads the column). Retention takes any
acknowledged row; no append outlasts its three days.

### ExecutorRuntime (`agentruntime`, `agentruntime/executor`)

One agent runtime. `disk` is an executor's directory and survives a restart,
`mem` and `tmem` are the runtime's maps and do not, `live` is the processes.
Each handle's drain goroutine, the tick and the fork requests interleave at
every RPC and lock; `step` is where the recovery of an executor stands. A fork
takes the task's in-flight mark (`SpawnBegins`), looks at the task and at the
executors it has (`SpawnChecks`), is admitted and launched, one step each. `Exit`
is a hard exit of the runtime with its executors surviving, `boot` the
decisions of `reconcileExecutors` still to be carried out. What the center,
the workspace, an RPC or a spawn answers is left open.

Left out: a graceful `Stop`, a change of the pool's size, repository
workspaces, `CurrentTaskID`, the supervisor's own session, and the removal of
finalized directories.

### Reminders (`cognition/reminder`, `outbox`)

The pump's goroutine runs the tick hook, which scans for due rows and fires
each in a transaction of its own, and then drains the outbox, where one
projector posts the message of a firing and the other arms the rows that wait
for an event. Callers read a row outside their transaction and write it back
comparing its version (`UpdateRow`), as the scan does. `posted` are the firings
whose message is in the conversation, which a delivered firing must be. `pump`, `due`, `batch`
and `stage` are the goroutine's position; a crash loses them and the calls.

Left out: who may manage a reminder, the cross-project guard, time zones and
the parsing of cron expressions (an expression is its period), the message's
sender, the audit log, events that match no reminder, and the batch limit of the
drain. A scan that fails is one that finds nothing. Times are numbers, where
the store compares text (section 5).

## 3. The runs

| Run | Instance | States | What it shows |
|---|---|---|---|
| `cycle_check` | all graphs on 3 nodes (cyclic ones too), all DAGs on 4, every edge | 220k | the verdict is exact and reached, in every iteration order |
| `orch_graph` | start, end, 2 business nodes, 1 condition, 5 edges | 160k | the graph stays a DAG, is never stuck, and the reopened chain is exactly the nodes on a path |
| `orch_service` | 2 callers, 5 calls, 1 business node and 1 condition in a loop | 274k | what survives stale reads: coherent rows, no dangling edge and a capped loop (`RowsAreSound`), no resurrected node, atomicity when the reads are current |
| `task_pool` | 2 tasks, 1 agent whose cap is edited between 1 and 2, an archive, overrides to running | 370k | slots never overfilled, claims never steal, concluded tasks stay so, no claimable task waits for ever while there are slots for all |
| `outbox` | 4 events, 3 of them about one task; 3 projectors, the first transactional; 2 poisoned events; batches of 3; 3 faults | 69k | the relay implements `Delivery`, duplicates cost faults, healthy events drain, old participants come back only after a failure of their projector; no deadlock |
| `plan_dispatch` | a feature cycle of 3 tasks, one extra round, one failure, reset or intervention | 182k | dispatch in order, rounds in sequence, a finished plan holds nothing, ready work is dispatched unless held, outdated holds go |
| `held_plan` | the same, nothing goes wrong | – | *violated*: finding 2 |
| `second_round` | the same, nothing goes wrong | – | *violated*: finding 3 |
| `control_stream` | 2 keys, 1 appender and the projector, queues of 1, park after 2 failures, 2 offsets, 1 fault | 841k | only commands whose push was missed are lost; order, parking, no redo, every command passes |
| `acked_command` | 3 keys, 3 offsets, no fault | – | *violated*: finding 1 |
| `executor_runtime` | 1 task, 2 slots, 2 forks, 3 processes each, 1 recovery, 1 restart | 273k | one process a task, all watched, no slot leaks, budgets kept, a revoked executor stops, a dead one is settled |
| `reminders` | 1 reminder of 3 kinds, 1 caller with 2 calls, times to 3, 1 event, 1 fault | 226k | counts agree with the history, pending firings are under way, delivered ones were posted, nothing silenced fires, nothing is forgotten |

### Bounds, and why they are enough

* `cycle_check`: a wrong colour discipline already shows on three nodes (a
  diamond or a back edge); four add a cross edge between two finished branches.
  The proof has no bound.
* `orch_graph`: `MaxReopens = 1` with `maxRounds = 1` gives a first round, a
  loop and a refused second one, under both policies. Edges `a->b->k`, `a->k`
  and `k->a` give a chain, a gate, a path that skips a node, and cycles of two
  and three. The proofs have no bound.
* `orch_service`: a lost update needs two callers. Five calls fit the set-up
  (add, start) and a race of two on what it made, with one more to observe.
  Callers are symmetric.
* `task_pool`: two tasks are what it takes to overfill a slot of an agent whose
  cap drops to one, to reach the holding limit, and to have a reservation matter
  in a sweep. `MaxRecoveryResets = 1` (3 in the code) makes both sides of the
  circuit breaker reachable. Of the statuses an override may set, `running` is
  the only one that takes a slot; the proofs cover all five, any number of
  tasks and agents, and every cap. Two agents with caps of one (666k states, no
  liveness) hold as well but take too long to be a run.
* `outbox`: the creation of the task is poisoned for the second projector and
  returns in every batch; another event, for the third, leaves one place of each
  batch. The participants go back only when the projector fails on an event, the
  relay sees a newer one and returns to the first: one fault, which leaves two for
  the crashes around it. Five events (524k states) hold as well. The safety proofs have no bound on anything.
* `plan_dispatch`: work, a decision on it, and what the decision releases is
  the plan the feature template builds. One extra round reaches a loop, a pass
  after a loop, and an exhausted loop. Two mishaps (786k states) keep the safety
  properties; one is enough for the liveness run.
* `control_stream`: the loss of a command takes two, the later overtaking the
  earlier. Queues of one are full as soon as a command is under way. Three
  offsets (15M states) keep `OnlyMissedPushesAreLost` and `HandledInOrder`. One fault, anywhere: a crash
  of either side, a lost acknowledgement or a rollback. A handler or
  a poll may fail any number of times.
* `executor_runtime`: a second fork of the same task is what single flight is
  about; two slots let it be admitted while the first is recovered. Three
  processes of an executor are the fork, its one budgeted relaunch and the one
  a restart adds. Checked by hand: four processes (469k states); one slot with a
  stall recovery and five processes (3.0M); two tasks without a restart (5.7M).
* `reminders`: times to 3 give a reminder its fire, the next one, and a change
  in between; the templates are a limit by count, one by date with
  `skip_if_overlap`, and an event with a delay, the edit makes it one-shot. Two
  reminders (2.0M states, one call, safety) share nothing but the scan.

Deadlock is checked for `outbox`, whose pump never stops. Elsewhere the system
may really stop: the search returns, calls run out, an archived project whose
tasks are concluded is at rest, so is a discarded plan, a worker with nothing
to pull, a runtime without tasks, and a clock at its bound.

### Fairness

* `CycleCheck`: `WF(Next)`; the function runs alone and has no wait.
* `TaskPool`: `WF(SweepStep)`; a ticker starts sweeps and the loop of a sweep
  has no wait but its own transactions. No user, agent or clock is obliged to
  act. `PoolDrains` assumes slots for every task at once: with fewer, the code
  rightly leaves tasks waiting. It also assumes that
  sweeps do not fail for ever (`<>[][~ SweepFails]_vars`): one that always ends
  at its first task assigns nothing.
* `Outbox`: `WF(RelayStep)`; the pump drains at boot and on each tick. Appends
  and faults are not fair, and faults are finite. `HealthyEventsDrain` carries
  its own precondition, that poisoned events are fewer than a batch: at
  `BatchSize` of them, each pass fetches only those and the rest starve.
* `PlanDispatch`: `WF(Dispatch)` and `WF(MaterializeBlockedOn)`; every tick of
  the reconcile loop does both for each running plan. No person or agent is
  obliged to work on, complete or decide anything.
* `ControlStream`: the loop's reconnect and poll are timers, its handlers return
  (with success or an error), an open transaction commits or is rolled back, an
  acknowledgement that is sent again and again gets through. Pushes and the
  stream itself are not fair: the poll alone has to carry every command.
* `ExecutorRuntime`: weak fairness of each goroutine's next step; strong
  fairness of the orphan poll and of a renewal, which every tick comes back to
  but which other parts of the same tick disable in between. Executors need not
  end, and nothing at the center is obliged to happen.
* `Reminders`: `WF(PumpStep)`. Callers, events and the clock are not fair;
  faults are finite.

The safety properties do not use fairness. Of the violations, `held_plan`
is a liveness property and fails under the fairness of `PlanDispatch`.

## 4. What is proved

Proofs are in `*Proofs.tla`, from the named `ASSUME`s on the constants only; the
one theorem with a hypothesis of its own is `LoopStaysCapped`.

| Theorem | Statement | Argument |
|---|---|---|
| `ColoursAreRight`, `VerdictCorrect` | the search keeps its colour discipline; its verdict is exact | `VerdictIsExact` is not inductive. `ColourDiscipline` strengthens it: gray nodes are the stack, the stack is a path, black nodes are closed under children, what a frame has looked at is black or the next frame, and the black part is acyclic. A finished node can be added to an acyclic closed set (`AddFinished`); a gray child closes a path (`BackEdgeIsCycle`); at the end every reached node is black (`AllBlackIsAcyclic`). |
| `StaysWellFormed` | `Spec => []IInv`: types, edges join present nodes, acyclic | Operations on rows leave edges alone, removal takes a subset, `AddEdge` checks. |
| `NeverStuckAlways` | a graph that is not done can be moved on | If no open node were actionable, every one would depend on another that is unresolved; that set contradicts acyclicity (`DagMovesOn`). |
| `ChainsAreWhole` | a failed condition reopens the nodes on the paths from its target to it, no others | Each search is a least closed set (`ReachIsLeast`); searching backward is the converse of searching forward (`BackwardIsConverse`). The forward search never passes the condition, and it need not: in an acyclic graph nothing after the condition leads back to it (`NoWayBack`). |
| `ServiceStaysSound`, `RowsStayCoherent` | under any number of interleaved callers the rows are typed, outcomes belong to completed nodes, no edge dangles | `SInv`: what a caller has read is a row that was once stored, so the same holds of every row *held*, in the table or in a snapshot (`Held`); a write is a method applied to a held row (`WrittenRow`). A row is reopened at most once a returned call. |
| `RemovedRowsStayAway` | a removed node never comes back | A write needs its row to be there; ids are not given out again (`IdsInv`). |
| `LoopStaysCapped` | `max_rounds` holds for a loop that stands alone, with any stale reads | `CappedInv`: every held row of the condition has its first config and respects it. Assumes `LoopStandsAlone`: one condition, which callers neither reopen nor reconfigure. Without it the code keeps no cap, since two conditions may reopen one another. |
| `CurrentCommitsAreAtomic` | a commit whose reads are still current is one step of `OrchestrationGraph` | Reads that equal the tables make `Changed` and `Write` the operation itself (`CurrentReads`, `CurrentWrite`). |
| `PoolInvariant` | types, archived projects have no live task, concluded tasks no lease | Every step changes a task row only in one of the legal ways (`LegalRow`, shown action by action in `TaskStepIsLegal` and `PoolRowIsLegal`); each way keeps the invariant. |
| `CapHolds` | no step takes an agent above its cap | A legal row that becomes running for an agent has passed the cap check; the running set grows by at most that row (`LegalRowKeepsCap`). |
| `ConcludedStays`, `ClaimsAreClean` | a concluded task changes only by a retry; a claim takes an ownerless task | From the same case analysis. |
| `OutboxInvariant`, `NothingSkipped`, `ExactlyOnceInOneTx`, `DuplicatesAreFaults` | tables, ledger and loop agree; processed events are in the ledger; exactly once; duplicates need faults | `LoopAgrees` is the strengthening: what the loop left behind for the current event is in the ledger, what it has projected had its effect. |
| `ParticipantsFollowTheTask` | `ParticipantsSpec => []ParticipantsFollow` | The outbox under the projector keeps `IInv`. `FollowInv` adds why the order holds: a batch has no gap (`BatchHasNoGap`), and what the loop leaves behind was projected, failed on, poisoned, or came before the creation could be (`LeftBehind`), so whatever is older than a projected event was seen before it. |
| `RelayImplementsDelivery` | `Spec => ImplementsDelivery` | Each relay step is a `Delivery` step or a stutter under `confirmed <- applied`, `done <- processed`, given the invariant. |
| `StreamStaysSound`, `OnlyMissedPushesAreEverLost`, `CommandsAreHandledInOrder` | types; a committed command is behind the loop without having been handled or parked only if its push was missed; those handled are in order | `IInv`: offsets grow and each names one row; every command still owed is ahead of the loop (`OwedInv`) and nothing on the stream overtakes it (`StreamInv`), wherever it is: being pushed, in the channel, the backlog, the wire or the batch. One lemma per action. |
| `ParkingIsEarned` | a command is parked after `ParkThreshold` failures at its offset | `CountInv` relates the loop's counter to the history. Stated per offset: a rolled back row gives its offset to the next, which inherits the count. |
| `HandledOnceWithoutFault` | without a fault no command is handled twice | `CalmInv`: until the first fault what was handled is behind the loop, on stream and poll alike. |
| `RuntimeStaysSound`, `OneProcessAtATime`, `NothingRunsUnwatched`, `SlotsStayOwned` | types; one process a task until the runtime restarts; every process is watched; a taken slot has an owner and two executors never share one | `IInv`: the mode of the runtime, the claims (whatever may run speaks for its task, one executor at most does, none once a fork has passed its second look) and, per executor, that disk, memory, slot and processes fit the step its recovery is at. An action touches one executor; `OtherAgrees` carries the rest. |
| `PlanStaysSound`, `RoundsStayInSequence`, `NothingRunsAhead` | tasks, dependencies and graph of a plan agree; rounds follow one another; what is dispatched had everything before it finished or was opened by hand | `IInv`: at any time the plan is its authored tasks and k clones of the loop's body, with the dependencies of exactly these (`RoundsAgree`). That the reset set of round k is the k-th copy of the authored one (`ResetIsARound`) needs both closures; with it the fork of the next round is fresh and complete (`ClonesAreFresh`, `DepsOfNextRound`, `DriveWithFork`). |
| `DoneStaysFree` | a finished plan holds nothing | Marking it done clears the rows; what may change a done plan opens none. |
| `RemindersStaySound`, `HistoryAgrees` | counts and limits agree with the firings; a pending firing is under way, a delivered one was posted | `RInv` adds to `StoreAgrees` what whoever read a row may rely on: versions only grow, so an equal version means the same row (`ScanAgrees`, `CallsAgree`), and each event belongs to one firing. Only the delivery marks a firing delivered, after its message (`PostsKept`). |
| `SilencedNeverFires` | a paused, cancelled, completed or deleted reminder does not fire | A fire writes back with the version it read, which by `RInv` is the row as it is. |

Only model-checked:

* liveness (`SearchReturns`, `PoolDrains`, `HealthyEventsDrain`,
  `EveryCommandPasses`, `RevokedExecutorStops`, `DeadExecutorSettles`,
  `ReadyIsDispatched`, `HoldsAreReleased`, `NothingIsForgotten`): liveness under
  fairness is out of the prover's reach;
* the violations, which are counterexamples.

Each strengthening was an invariant of a TLC run before it was proved, some on
more than the run's instance: `IInv` of `PlanDispatch` also with two extra
rounds (138k states), that of `ExecutorRuntime` on the larger instances named
above, `RInv` on the run's 226k.

The assumptions on constants are types, finiteness, and what the code refuses
(a limit of zero, a branch without a label), or what a projector is
(`Participants`). Two need a word. `LoopAssumption` of `PlanDispatch`, that the
target of a loopback is upstream of its decision, is what `ValidateLoopback`
checks whenever a loopback is added or a topology edited;
`RemovePlanDependency` does not check it again, so a draft whose path was taken
out afterwards can be started, and is not spoken of here. That a plan has one
loop at most bounds the model, not the code: a task would otherwise need a
round for each loop it is in.

## 5. Findings

1. **`acked_command`**. The loop acknowledges a streamed command cumulatively
   although a smaller offset may never have been on the stream: the bus drops a
   push when the channel is full, and a projector pushes from inside its
   transaction, before rows that are committed and not yet pushed. The poll then
   starts after the acknowledged offset. `controlstream/bus.go:172-173` and
   `environment/control_log.go:129-130` say the catch-up or the poll recovers
   it. `OnlyMissedPushesAreLost` states what holds.
2. **`held_plan`**. The sweep classifies a decision that has no outcome as
   waiting for a human, whatever is still to be done before it, and opens a hold
   for it; a plan with an open hold is not dispatched. The work the decision
   itself waits for is never dispatched, and its start refused. Only a status
   override gets the plan moving. `plan_orchestration_graph.go:973-975` says the
   bookkeeping changes no gating. `RecordProgressDecision` and
   `WaitHumanDecisionForPrerequisite`, which would release such a hold, have no
   caller outside tests.
3. **`second_round`**. The fork of a loop adds the dependency on the new round's
   decision and keeps the one on the old, rejected decision. After a pass in the
   second round the graph releases what follows and the view prunes it: it
   is announced and may not be started, and the same dispatch can mark the plan
   done. `runnable_gate.go:43-45` promises that gate and dispatcher agree. The
   test of the loop (`TestGraphCycle_Loopback_RejectCreatesNextRound`) ends
   before the second round's pass.

### What the code does, without a run

Seen while modelling, performed by the models, and held against no property.
The first eight contradict a comment.

* `condition.go:147-149` says a failed condition reopens the chain to its target
  "plus all other completed upstream business nodes"; the code reopens the chain
  only.
* `graph.go:9` calls the graph a DAG. `AddEdge` checks on a snapshot
  (`service.go:273-274`), so two calls adding `a->k` and `k->a` both pass.
* `types.go:76` marks `discarded` terminal. `StartNode` writes back the row it
  read; a `DiscardNode` in between is undone.
* `claim_flow.go:35-36` and `:287`: held means open or running. The holding
  cap counts pool rows, and concluding a task does not clear its claimer.
* `assign_flow.go:441-443`: a reset returns the task to the pool. It clears the
  assignee but not the pool row's claimer, so that nobody can claim it;
  `UnassignTask` does the same.
* `boot_reconcile.go:686-689`: the statuses that stop a relaunch do not include
  `failed`, which `task.go:88-94` makes terminal; a failed task is resumed.
* `outbox/outbox.go:57`: even a projector that is not idempotent runs at most
  once. `relay.go` delivers at least once (`DuplicatesNeedFaults`).
* `participant_projector.go:62-65`: handling every state change "keeps
  participants convergent". An event the projector failed on is seen again after
  newer ones and puts its participants back, until the task's next event. A wake
  joins an agent to the conversation (`wake_projector.go:672-692`, #227), and the
  task's next event takes it out again.
* Orchestration: `AddNode` and `AddEdge` write back the graph status they read,
  so a `StartGraph` in between is undone. A failure on a discarded condition
  reopens its chain while the condition stays discarded.
* Plans: the fork of a round makes a condition for the decision that loops
  only; another decision inside the loop's body gets none in the next round
  (`RoundsInSequence` is about the decision that loops). A task discarded before its dispatch is still announced as ready.
  Recording an outcome again after the graph has settled it flips the view
  only. A sequential dependent outside the reset set gets a dependency on the
  clone and no graph edge. `RerunFailedNode` does not look at the plan's status.
  An override from running to open leaves the node running, and it is not
  dispatched again. The node of a discarded task stays open, and what is after
  it waits for ever. `DiscardPlan` releases no holds. `BatchUpdateTask` changes
  a status without the refresh of blocked-on rows and without trying to
  complete the plan. A user's start does not ask whether the task was dispatched.
* Control stream: the failure count of a head survives an acknowledgement that
  was lost, and does not survive a crash, so that a command that crashes the
  worker is never parked. The key of a dispatch wake has no event id, so that a
  second dispatch folds into an acknowledged row; the wake sweep makes up for it.
* Executors, across a restart: the record names the fork's pid only, so an
  executor that was relaunched and survives is relaunched once more
  (`recovery.go:207-209`); an adoption that finds its slot taken leaves the
  process to nobody (`executor_engine.go:210-214`, `strays`). While the
  runtime lives: a fuse between `TakeFused` and `ReleaseSlot`
  (`executor_point_recovery.go:84-86`) leaves a mark that nobody reads; a report
  that fails keeps slot and handle; a refusal that is out of date stops the
  task's new executor; an exhausted orphan fails its task where the comment
  above `escalateRecoveryExhausted` says the task stays running.
* Reminders: resuming a paused event-driven reminder completes it, although
  its event has not come and `reminder.go:45-49` says it waits for it; pausing
  an armed one loses the event. `until` is looked at after a fire only, so a
  creation, edit or resume can fire once past it. No code marks a firing
  `failed`, as `docs/design/architecture/tactical/cognition/03-reminder.md`
  says, so a delivery that always fails keeps a `skip_if_overlap` reminder
  skipping. `FindDue` compares times as RFC 3339 text with nanoseconds
  (`reminder_repo.go:139-143`), in which `…00.5Z` sorts before `…00Z`, so a scan
  may be off by less than a second. A reminder deleted between its fire and its delivery is still
  delivered. `fireOne` changes the row in memory inside its transaction, which a
  replay would count twice; immediate transactions make that not happen.

## 6. Not modelled, and what is left

Nothing of these is needed by what is modelled:

* **The other projectors of the project manager**: their calls into the plan are
  `PlanDispatch!Dispatch`, their trigger of the sweep is its start in `TaskPool`.
* **Stages, gates, decisions with deadlines, evolution, remediation**: layers on
  top of `PlanDispatch`. With a loop and one generation more the smallest
  interesting plan has five tasks in two rounds, beyond what TLC can take
  together with the failures that matter.
* **Wake projectors, sweep and guard**: each wake is a command of
  `ControlStream`; which one is sent is bookkeeping over rows of one transaction.
* **Supervisor manager, worker daemon, launcher**: process management. That one
  supervisor runs for an agent rests on the operating system's file lock, which a
  model would have to assume.
* **Workforce and identity, conversations**: one-row transactions and
  append-only tables.
* **HTTP and admin APIs, CLI, web console**, over a quarter of the code: parsing,
  authorization and rendering.
* **Persistence**: the replay loop of `RunInTx`, which each action stands for as
  its one successful attempt.

Every invariant and action property of the passing runs has a theorem. What
could be proved beyond them: what a redelivered event of `Outbox` can do at
most, per projector; how many executors a task can have had across restarts of
`ExecutorRuntime` (the budgets are checked on its runs' instances only); that
an alone-running `OrchestrationService` implements `OrchestrationGraph` as a
refinement of whole behaviours; and the agreement of dispatch and gate in the
first round of a plan, whose later rounds are finding 3.
