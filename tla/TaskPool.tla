------------------------------ MODULE TaskPool ------------------------------
(***************************************************************************)
(* Standalone tasks of one project, the project's assignment pool and the  *)
(* auto-assign sweep.  Every operation of the service is one immediate     *)
(* SQLite transaction, so it is one action; the sweep reads outside its    *)
(* transactions and is several.  A task is held in two tables that no      *)
(* operation updates together except claim, auto-assign and release:       *)
(* pm_tasks (assignee) and pm_assignment_pool_tasks (claimed_by).          *)
(* Membership checks pass; text, events and audit rows are left out, and   *)
(* so are the delivery evidence and the progress holds, which can only     *)
(* refuse a call.                                                          *)
(***************************************************************************)
EXTENDS Naturals, FiniteSets

CONSTANTS
  Tasks,              \* task ids
  Agents,             \* agents that may own a task
  CapOptions,         \* per agent, the values its concurrency cap may take
  OverrideTargets,    \* the statuses callers set directly
  HoldingLimit,       \* min(pool.HoldingCap, poolLimit)
  MaxRecoveryResets,  \* tier-3 resets before the circuit breaker (3 in the code)
  NoAgent,            \* the empty IdentityRef
  NotMember           \* there is no pool row for the task

ASSUME TaskPoolAssumption ==
  /\ IsFiniteSet(Tasks)
  /\ CapOptions \in [Agents -> SUBSET (Nat \ {0})]
  /\ OverrideTargets \subseteq {"open", "running", "completed", "failed", "discarded"}
  /\ HoldingLimit \in Nat
  /\ MaxRecoveryResets \in Nat
  /\ NoAgent \notin Agents
  /\ NotMember \notin Agents \cup {NoAgent}

VARIABLES
  task,       \* pm_tasks: status, assignee, lease and reset count of each task
  claimedBy,  \* pm_assignment_pool_tasks: the claimer, NoAgent or NotMember
  cap,        \* each agent's EffectiveConcurrencyCap
  archived,   \* the project is archived
  sweep       \* the auto-assign sweep in flight, as a set of at most one

vars == <<task, claimedBy, cap, archived, sweep>>

\* "absent" is the task that has not been created yet.
Statuses == {"absent", "open", "running", "completed", "failed", "discarded"}

IsTerminal(s) == s \in {"completed", "failed", "discarded"}

\* taskTransitions
CanTransitionTo(s, to) ==
  \/ s = "open" /\ to \in {"running", "failed", "discarded"}
  \/ s = "running" /\ to \in {"completed", "failed", "discarded"}

\* The lease deadline seen from the clock: unset, in the future, in the past.
Leases == {"nil", "live", "lapsed"}

TaskRec == [status : Statuses, assignee : Agents \cup {NoAgent},
            lease : Leases, resets : Nat]

Owners == Agents \cup {NoAgent}

------------------------------------------------------------------------------
\* Task: what each mutator makes of a task it accepts.

Assigned(k, a) == [k EXCEPT !.assignee = a]

Unassigned(k) == [k EXCEPT !.assignee = NoAgent]

\* Start followed by the lease StartTask grants.
Started(k) == [k EXCEPT !.status = "running", !.lease = "live"]

Renewed(k) == [k EXCEPT !.lease = "live"]

\* Fail, Block, BlockForResetExhaustion, Discard and forceDiscard.
Ended(k, s) == [k EXCEPT !.status = s, !.lease = "nil"]

Completed(k) == [Ended(k, "completed") EXCEPT !.resets = 0]

ResetToOpen(k) ==
  [status |-> "open", assignee |-> NoAgent, lease |-> "nil", resets |-> k.resets + 1]

Retried(k) == [k EXCEPT !.status = "open", !.lease = "nil"]

\* Mutant: a terminal status may be left.
SetStatusAllowed_OutOfTerminal(k, s) == TRUE

\* The override menu: any valid status except out of a terminal one; failed
\* takes the Fail path.
SetStatusAllowed(k, s) ==
  IF s = "failed" THEN CanTransitionTo(k.status, s)
  ELSE s = k.status \/ ~ IsTerminal(k.status)

SetStatus(k, s) ==
  IF s = k.status THEN k
  ELSE [k EXCEPT !.status = s, !.lease = IF IsTerminal(s) THEN "nil" ELSE @]

------------------------------------------------------------------------------
\* Queries.

RunningOf(a) == {t \in Tasks : task[t].status = "running" /\ task[t].assignee = a}

\* Mutant: only a task that starts now is counted.
EnforceConcurrencyCap_NewRunsOnly(t, k) ==
  k.status = "running" /\ k.assignee # NoAgent /\ task[t].status # "running" =>
    Cardinality(RunningOf(k.assignee) \ {t}) + 1 <= cap[k.assignee]

\* enforceConcurrencyCap for task t about to be written as k.
EnforceConcurrencyCap(t, k) ==
  k.status = "running" /\ k.assignee # NoAgent =>
    Cardinality(RunningOf(k.assignee) \ {t}) + 1 <= cap[k.assignee]

\* ListHeldByActor: every pool row with this claimer, whatever the task's status.
HeldByActor(a) == {t \in Tasks : claimedBy[t] = a}

Ownerless(t) == task[t].status = "open" /\ task[t].assignee = NoAgent

\* listClaimableAssignmentPool
Claimable(t) == Ownerless(t) /\ claimedBy[t] = NoAgent

\* liveAssignedLoad
LoadOf(a) ==
  Cardinality({t \in Tasks : task[t].assignee = a /\ task[t].status \in {"open", "running"}})

------------------------------------------------------------------------------
\* requireProjectMutable, and one transaction writing one task row.
Mutable == ~ archived

Write(t, k) ==
  /\ task' = [task EXCEPT ![t] = k]
  /\ UNCHANGED <<claimedBy, cap, archived, sweep>>

Exists(t) == task[t].status # "absent"

Live(t) == Exists(t) /\ ~ IsTerminal(task[t].status)

CreateTask(t, a, dispatch) ==
  /\ ~ Exists(t)
  /\ Mutable
  /\ task' = [task EXCEPT ![t] =
                [status |-> "open", assignee |-> a, lease |-> "nil", resets |-> 0]]
  /\ claimedBy' = [claimedBy EXCEPT ![t] = IF dispatch THEN NoAgent ELSE @]
  /\ UNCHANGED <<cap, archived, sweep>>

AssignTask(t, a) ==
  /\ Live(t)
  /\ Mutable
  /\ EnforceConcurrencyCap(t, Assigned(task[t], a))
  /\ Write(t, Assigned(task[t], a))

UnassignTask(t) ==
  /\ Live(t)
  /\ Mutable
  /\ Write(t, Unassigned(task[t]))

StartTask(t) ==
  /\ CanTransitionTo(task[t].status, "running")
  /\ Mutable
  /\ EnforceConcurrencyCap(t, Started(task[t]))
  /\ Write(t, Started(task[t]))

HeartbeatTask(t, actor) ==
  /\ task[t].assignee = actor
  /\ task[t].status = "running"
  /\ Mutable
  /\ Write(t, Renewed(task[t]))

\* The worker's renewal; a task that is not this agent's running task is only
\* reported back as revoked.
WorkerRenewLease(t, agent) ==
  /\ task[t].status = "running"
  /\ task[t].assignee = agent
  /\ Write(t, Renewed(task[t]))

\* Blocking a task fails it; the caller need not be the assignee.
BlockTask(t) ==
  /\ task[t].status = "running"
  /\ Mutable
  /\ Write(t, Ended(task[t], "failed"))

FailTask(t) ==
  /\ CanTransitionTo(task[t].status, "failed")
  /\ Mutable
  /\ Write(t, Ended(task[t], "failed"))

DiscardTask(t) ==
  /\ CanTransitionTo(task[t].status, "discarded")
  /\ Mutable
  /\ Write(t, Ended(task[t], "discarded"))

CompleteTask(t) ==
  /\ CanTransitionTo(task[t].status, "completed")
  /\ Mutable
  /\ Write(t, Completed(task[t]))

\* Mutant: the project is not checked.
RetryFailedTask_AnyProject(t) ==
  /\ task[t].status = "failed"
  /\ Write(t, Retried(task[t]))

RetryFailedTask(t) ==
  /\ task[t].status = "failed"
  /\ Mutable
  /\ Write(t, Retried(task[t]))

SetTaskStatus(t, s) ==
  /\ Exists(t)
  /\ Mutable
  /\ SetStatusAllowed(task[t], s)
  /\ LET k == SetStatus(task[t], s)
     IN  EnforceConcurrencyCap(t, k) /\ Write(t, k)

\* Status and assignee in one transaction; the assignee is set on the task as
\* the new status left it.
BatchUpdateTask(t, s, a) ==
  /\ Exists(t)
  /\ Mutable
  /\ SetStatusAllowed(task[t], s)
  /\ LET k == SetStatus(task[t], s)
     IN  /\ ~ IsTerminal(k.status)
         /\ EnforceConcurrencyCap(t, Assigned(k, a))
         /\ Write(t, Assigned(k, a))

\* Tier-3 recovery.  The owner's own confirmation skips the lease check, never
\* the circuit breaker.
ResetTask(t, actor, confirmedDead) ==
  /\ task[t].status = "running"
  /\ Mutable
  /\ \/ /\ task[t].resets >= MaxRecoveryResets
        /\ Write(t, Ended(task[t], "failed"))
     \/ /\ task[t].resets < MaxRecoveryResets
        /\ task[t].lease # "live" \/ (confirmedDead /\ actor = task[t].assignee)
        /\ Write(t, ResetToOpen(task[t]))

\* The lease checker on one task: renew, and wake the same owner.
NudgeOnLeaseExpiry(t) ==
  /\ task[t].status = "running"
  /\ task[t].lease = "lapsed"
  /\ Write(t, Renewed(task[t]))

\* The clock passes a lease deadline.
LeaseLapses(t) ==
  /\ task[t].lease = "live"
  /\ Write(t, [task[t] EXCEPT !.lease = "lapsed"])

ArchiveProject ==
  /\ archived' = TRUE
  /\ task' = [t \in Tasks |-> IF Live(t) THEN Ended(task[t], "discarded") ELSE task[t]]
  /\ UNCHANGED <<claimedBy, cap, sweep>>

\* The agent's profile is edited.
SetConcurrencyCap(a, n) ==
  /\ cap' = [cap EXCEPT ![a] = n]
  /\ UNCHANGED <<task, claimedBy, archived, sweep>>

------------------------------------------------------------------------------
\* The pool.

SetClaim(t, c) ==
  /\ claimedBy' = [claimedBy EXCEPT ![t] = c]
  /\ UNCHANGED <<task, cap, archived, sweep>>

AddTaskToAssignmentPool(t) ==
  /\ Exists(t)
  /\ claimedBy[t] = NotMember
  /\ SetClaim(t, NoAgent)

RemoveTaskFromAssignmentPool(t) ==
  /\ Exists(t)
  /\ task[t].status # "running"
  /\ SetClaim(t, NotMember)

ClaimPoolTask(t, actor) ==
  /\ Claimable(t)
  /\ Cardinality(HeldByActor(actor)) < HoldingLimit
  /\ task' = [task EXCEPT ![t] = Assigned(@, actor)]
  /\ claimedBy' = [claimedBy EXCEPT ![t] = actor]
  /\ UNCHANGED <<cap, archived, sweep>>

ReleasePoolTask(t, actor) ==
  /\ claimedBy[t] = actor
  /\ task[t].status = "open"
  /\ task[t].assignee = actor
  /\ task' = [task EXCEPT ![t] = Unassigned(@)]
  /\ claimedBy' = [claimedBy EXCEPT ![t] = NoAgent]
  /\ UNCHANGED <<cap, archived, sweep>>

------------------------------------------------------------------------------
\* autoAssignSweep.  A sweep in flight: the tasks of its snapshot still to be
\* looked at, the slots it has reserved, and two sets of at most one element:
\* the caps it read with its candidates and keeps to its end, and the assignee
\* picked for a task and not yet written.

Sweeps ==
  [todo : SUBSET Tasks, reserved : [Agents -> Nat],
   caps : SUBSET [Agents -> Nat], pick : SUBSET (Tasks \X Agents)]

\* autoAssignSweepMu.TryLock, then the snapshot: the ownerless tasks, of the whole
\* system for the ticker's sweep and of the pool's rows for a project's.
AutoAssignSweep ==
  /\ sweep = {}
  /\ \E listed \in {Tasks, {t \in Tasks : claimedBy[t] # NotMember}} :
       sweep' = {[todo |-> {t \in listed : Ownerless(t)},
                  reserved |-> [a \in Agents |-> 0], caps |-> {}, pick |-> {}]}
  /\ UNCHANGED <<task, claimedBy, cap, archived>>

HasFreeSlot(w, a) == \E c \in w.caps : Cardinality(RunningOf(a)) + w.reserved[a] < c[a]

\* Least busy first: run slots, then assigned tasks; equals in the code's order
\* of ids, here in any order.
BusyLess(w, a, b) ==
  LET ra == Cardinality(RunningOf(a)) + w.reserved[a]
      rb == Cardinality(RunningOf(b)) + w.reserved[b]
  IN  ra < rb \/ (ra = rb /\ LoadOf(a) + w.reserved[a] < LoadOf(b) + w.reserved[b])

LeastBusy(w) ==
  {a \in Agents : HasFreeSlot(w, a) /\
     ~ \E b \in Agents : HasFreeSlot(w, b) /\ BusyLess(w, b, a)}

\* autoAssignOne: the pool row is read again; the task is the snapshot's, and the
\* candidates are read for the first task that needs them.
SelectAutoAssignee(t) ==
  \E w \in sweep :
    /\ t \in w.todo
    /\ w.pick = {}
    /\ LET v == [w EXCEPT !.todo = @ \ {t},
                          !.caps = IF claimedBy[t] = NoAgent /\ @ = {} THEN {cap} ELSE @]
       IN  IF claimedBy[t] = NoAgent /\ LeastBusy(v) # {}
           THEN \E a \in LeastBusy(v) : sweep' = {[v EXCEPT !.pick = {<<t, a>>}]}
           ELSE sweep' = {v}
    /\ UNCHANGED <<task, claimedBy, cap, archived>>

\* Mutant: the owner is not read again in the transaction.
AutoAssignPoolTask_TrustsSnapshot ==
  \E w \in sweep : \E t \in Tasks, a \in Agents :
    /\ w.pick = {<<t, a>>}
    /\ task[t].status = "open"
    /\ task' = [task EXCEPT ![t] = Assigned(@, a)]
    /\ claimedBy' = [claimedBy EXCEPT ![t] = a]
    /\ sweep' = {[w EXCEPT !.pick = {}, !.reserved[a] = @ + 1]}
    /\ UNCHANGED <<cap, archived>>

\* autoAssignPoolTask: the transaction, which checks the task again.
AutoAssignPoolTask ==
  \E w \in sweep : \E t \in Tasks, a \in Agents :
    /\ w.pick = {<<t, a>>}
    /\ IF Claimable(t)
       THEN /\ task' = [task EXCEPT ![t] = Assigned(@, a)]
            /\ claimedBy' = [claimedBy EXCEPT ![t] = a]
            /\ sweep' = {[w EXCEPT !.pick = {}, !.reserved[a] = @ + 1]}
       ELSE /\ sweep' = {[w EXCEPT !.pick = {}]}
            /\ UNCHANGED <<task, claimedBy>>
    /\ UNCHANGED <<cap, archived>>

\* An error of one task, in its reads or in its transaction, ends the sweep; the
\* tasks after it wait for the next one.
SweepFails ==
  /\ \E w \in sweep : w.todo # {} \/ w.pick # {}
  /\ sweep' = {}
  /\ UNCHANGED <<task, claimedBy, cap, archived>>

\* Mutant: the lock is not released.
SweepEnds_KeepsLock ==
  /\ \E w \in sweep : w.todo = {} /\ w.pick = {}
  /\ UNCHANGED vars

\* autoAssignSweepMu.Unlock
SweepEnds ==
  /\ \E w \in sweep : w.todo = {} /\ w.pick = {}
  /\ sweep' = {}
  /\ UNCHANGED <<task, claimedBy, cap, archived>>

------------------------------------------------------------------------------
NewTask == [status |-> "absent", assignee |-> NoAgent, lease |-> "nil", resets |-> 0]

Init ==
  /\ task = [t \in Tasks |-> NewTask]
  /\ claimedBy = [t \in Tasks |-> NotMember]
  /\ cap \in {f \in [Agents -> UNION {CapOptions[a] : a \in Agents}] :
                \A a \in Agents : f[a] \in CapOptions[a]}
  /\ archived = FALSE
  /\ sweep = {}

TaskStep(t) ==
  \/ \E a \in Owners, d \in BOOLEAN : CreateTask(t, a, d)
  \/ \E a \in Agents : AssignTask(t, a)
  \/ UnassignTask(t)
  \/ StartTask(t)
  \/ \E a \in Agents : HeartbeatTask(t, a)
  \/ \E a \in Agents : WorkerRenewLease(t, a)
  \/ BlockTask(t)
  \/ FailTask(t)
  \/ DiscardTask(t)
  \/ CompleteTask(t)
  \/ RetryFailedTask(t)
  \/ \E s \in OverrideTargets : SetTaskStatus(t, s)
  \/ \E s \in OverrideTargets, a \in Owners : BatchUpdateTask(t, s, a)
  \/ \E a \in Agents, d \in BOOLEAN : ResetTask(t, a, d)
  \/ NudgeOnLeaseExpiry(t)
  \/ LeaseLapses(t)

PoolStep(t) ==
  \/ AddTaskToAssignmentPool(t)
  \/ RemoveTaskFromAssignmentPool(t)
  \/ \E a \in Agents : ClaimPoolTask(t, a)
  \/ \E a \in Agents : ReleasePoolTask(t, a)

SweepStep ==
  \/ AutoAssignSweep
  \/ \E t \in Tasks : SelectAutoAssignee(t)
  \/ AutoAssignPoolTask
  \/ SweepEnds

Next ==
  \/ \E t \in Tasks : TaskStep(t) \/ PoolStep(t)
  \/ SweepStep
  \/ SweepFails
  \/ ArchiveProject
  \/ \E a \in Agents : \E n \in CapOptions[a] : SetConcurrencyCap(a, n)

\* The sweep runs on a ticker and its loop has no wait in it, and its reads and
\* writes do not fail for ever; nobody is obliged to do anything else.
Spec ==
  /\ Init
  /\ [][Next]_vars
  /\ WF_vars(SweepStep)
  /\ <>[][~ SweepFails]_vars

------------------------------------------------------------------------------
TypeOK ==
  /\ task \in [Tasks -> TaskRec]
  /\ claimedBy \in [Tasks -> Owners \cup {NotMember}]
  /\ cap \in [Agents -> Nat \ {0}]
  /\ archived \in BOOLEAN
  /\ sweep \in SUBSET Sweeps
  /\ \A v, w \in sweep : v = w

\* Archiving a project concludes its tasks, and no operation, retry, override or
\* sweep already under way brings one back: requireProjectMutable covers every
\* path into a live status.
ArchivedHasNoLiveTask == archived => \A t \in Tasks : ~ Live(t)

\* A concluded task has no lease left that the clock or a renewal could touch.
ConcludedHasNoLease ==
  \A t \in Tasks : IsTerminal(task[t].status) => task[t].lease = "nil"

IInv == TypeOK /\ ArchivedHasNoLiveTask /\ ConcludedHasNoLease

\* No step takes an agent to more running tasks than its cap: not a start, an
\* override, a batch edit, nor a running task handed to it or started unowned
\* and assigned later.  (Lowering the cap evicts nothing.)
SlotsNeverOverfilled ==
  [][\A a \in Agents : Cardinality(RunningOf(a))' > Cardinality(RunningOf(a)) =>
       Cardinality(RunningOf(a))' <= cap'[a]]_vars

\* A pool claim, made by an agent or by a sweep acting on an old snapshot, takes
\* only a task nobody owns in either table, and both tables then name the claimer.
ClaimTakesOwnerless ==
  [][\A t \in Tasks : claimedBy'[t] \in Agents /\ claimedBy'[t] # claimedBy[t] =>
       Claimable(t) /\ task'[t] = Assigned(task[t], claimedBy'[t])]_vars

\* A concluded task stays as it is for ever, except that a failed one may be
\* retried; neither a late heartbeat, a nudge, a reset nor a claim revives it.
TerminalFactsStay ==
  [][\A t \in Tasks : IsTerminal(task[t].status) /\ task'[t] # task[t] =>
       task[t].status = "failed" /\ task'[t] = Retried(task[t])]_vars

\* While some agent has free run slots for all tasks, no claimable pool task is left
\* in the pool for ever: the sweep assigns it, or somebody takes it out.
FreeSlots(a) ==
  LET n == Cardinality(RunningOf(a)) IN IF n < cap[a] THEN cap[a] - n ELSE 0

PlentyOfSlots == \E a \in Agents : FreeSlots(a) >= Cardinality(Tasks)

PoolDrains == \A t \in Tasks : ~ <>[](Claimable(t) /\ PlentyOfSlots)

==============================================================================
