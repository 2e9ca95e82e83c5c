-------------------------- MODULE ExecutorRuntime --------------------------
(***************************************************************************)
(* The executors of one agent runtime (internal/agentruntime): fork,       *)
(* single flight and slots, the drain goroutine of every fork, the tick    *)
(* that renews leases, fuses, sweeps stalls and polls adopted orphans,     *)
(* point recovery with its budget, hard exits of the runtime with the      *)
(* executors surviving, and the boot reconcile of what they left on disk.  *)
(*                                                                         *)
(* Simplifications.                                                        *)
(*  - The center is the status of each task as this agent sees it;         *)
(*    TaskPool models how it moves. `gone' is completed, discarded, or     *)
(*    another agent's; `pool' is open without an assignee.                 *)
(*  - A process is a number: incarnation 1 is the fork, each relaunch the  *)
(*    next one. It writes its verdict (output.json) and ends in one step;  *)
(*    status.json says no more than output.json does; pids are not reused. *)
(*  - Whether a live executor stalls, an RPC or a spawn fails, a workspace *)
(*    is gone, or a finished run is retryable is left open.                *)
(*  - Not modelled: graceful Stop, a change of the pool's size, repository *)
(*    workspaces, CurrentTaskID, the reap of finalized directories.        *)
(***************************************************************************)
EXTENDS Integers, FiniteSets, FiniteSetsExt

CONSTANTS Tasks,
          Cap,              \* PoolConfig.Max
          MaxCrashRecover,  \* maxCrashRecover (3 in the code)
          MaxStallRecover,  \* maxStallRecover (1 in the code)
          MaxForks,         \* bound: executors ever forked
          MaxIncarnations,  \* bound: processes ever started for one executor
          MaxRestarts,      \* bound: exits of the runtime
          NoTask            \* model value

ASSUME RuntimeAssumption ==
    /\ Cap \in Nat \ {0} /\ MaxForks \in Nat \ {0} /\ MaxIncarnations \in Nat \ {0}
    /\ MaxCrashRecover \in Nat /\ MaxStallRecover \in Nat /\ MaxRestarts \in Nat
    /\ NoTask \notin Tasks

VARIABLES
    cstat,     \* the center's task status, as get_task shows it to this agent
    disk,      \* per executor: its directory (input, record, output, markers)
    live,      \* per executor: the incarnations that are running
    mem,       \* per executor: pool, orphan set, marks, and recovery step
    tmem,      \* per task: taskExecutors, fork in flight, recovery budget
    tick,      \* what the tick goroutine is in the middle of
    mode,      \* up, or booting
    boot,      \* per executor: the boot decision still to be enacted
    restarts,  \* exits so far
    strays     \* history: processes a restart lost

vars == <<cstat, disk, live, mem, tmem, tick, mode, boot, restarts, strays>>

Execs == 1..MaxForks  \* ids are numbered in the order of the forks
NoExec == 0
Incs == 1..MaxIncarnations

CenterStatuses == {"open", "running", "failed", "gone", "pool"}
Dirs == {"none", "active", "unreported", "finalized", "removed"}
Steps == {"idle", "wait", "fused", "report", "ask", "exhaust", "escalate", "launch", "reset"}
Decisions == {"none", "adopt", "recover", "finalize", "quiet", "verify"}

DiskState == [task : Tasks \cup {NoTask}, dir : Dirs, verdict : BOOLEAN,
              slot : 0..Cap, pids : 0..MaxIncarnations]
MemState  == [slot : 0..Cap, handle : BOOLEAN, orphan : 0..MaxIncarnations,
              fused : BOOLEAN, stalled : BOOLEAN, step : Steps,
              cause : {"verdict", "crash", "stall"}]
Forks     == {"idle", "fetch", "admit", "launch"}
TaskState == [exec : Execs \cup {NoExec}, fork : Forks,
              crash : 0..MaxCrashRecover, stall : 0..MaxStallRecover]

Jobs == [job : {"idle"}] \cup [job : {"fuse"}, task : Tasks]
            \cup [job : {"kill", "recover"}, exec : Execs]
Idle == [job |-> "idle"]
Kill(e) == [job |-> "kill", exec |-> e]
Recovering(e) == [job |-> "recover", exec |-> e]

TypeOK ==
    /\ cstat \in [Tasks -> CenterStatuses]
    /\ disk \in [Execs -> DiskState] /\ live \in [Execs -> SUBSET Incs]
    /\ mem \in [Execs -> MemState] /\ tmem \in [Tasks -> TaskState]
    /\ tick \in Jobs /\ mode \in {"up", "boot"}
    /\ boot \in [Execs -> Decisions] /\ restarts \in 0..MaxRestarts
    /\ strays \in SUBSET (Execs \X Incs)

NoFile   == [task |-> NoTask, dir |-> "none", verdict |-> FALSE, slot |-> 0, pids |-> 0]
Unknown  == [slot |-> 0, handle |-> FALSE, orphan |-> 0, fused |-> FALSE,
             stalled |-> FALSE, step |-> "idle", cause |-> "crash"]
Untried  == [exec |-> NoExec, fork |-> "idle", crash |-> 0, stall |-> 0]

Init ==
    /\ cstat = [t \in Tasks |-> "open"]
    /\ disk = [e \in Execs |-> NoFile] /\ live = [e \in Execs |-> {}]
    /\ mem = [e \in Execs |-> Unknown] /\ tmem = [t \in Tasks |-> Untried]
    /\ tick = Idle /\ mode = "up"
    /\ boot = [e \in Execs |-> "none"] /\ restarts = 0 /\ strays = {}

-----------------------------------------------------------------------------
(* The center and the executor processes.                                  *)

\* What people, the supervisor and the scheduler do to a task.
CenterNext(s) ==
    CASE s = "open"    -> {"running", "failed", "gone"}
      [] s = "running" -> {"failed", "gone"}
      [] s = "failed"  -> {"open"}
      [] s = "gone"    -> {"open"}
      [] s = "pool"    -> {"open", "gone"}

CenterMoves(t) ==
    /\ \E s \in CenterNext(cstat[t]) : cstat' = [cstat EXCEPT ![t] = s]
    /\ UNCHANGED <<disk, live, mem, tmem, tick, mode, boot, restarts, strays>>

\* output.json may have been written by the time a process is gone. A relaunch
\* leaves it; nobody reads it in a finalized or removed directory.
Verdict(e) ==
    \E v \in {disk[e].verdict, disk[e].dir \in {"active", "unreported"}} :
        disk' = [disk EXCEPT ![e].verdict = v]
Sealed(e, dir) == disk' = [disk EXCEPT ![e].dir = dir, ![e].verdict = FALSE]

\* A process ends, with a verdict in output.json or without one.
Ends(e, i) ==
    /\ i \in live[e]
    /\ live' = [live EXCEPT ![e] = @ \ {i}]
    /\ Verdict(e)
    /\ UNCHANGED <<cstat, mem, tmem, tick, mode, boot, restarts, strays>>

-----------------------------------------------------------------------------
(* Fork.                                                                   *)

TaskOf(e)     == disk[e].task
FreeSlots     == (1..Cap) \ {mem[e].slot : e \in Execs}
HasDir(e)     == disk[e].dir \in {"active", "unreported", "finalized"}

\* SnapshotConcurrency: pool assignments and orphans, by the task in input.json.
InSnapshot(e) == mem[e].slot # 0 \/ mem[e].orphan # 0
Active(t)     == \E e \in Execs : InSnapshot(e) /\ HasDir(e) /\ TaskOf(e) = t

\* Mutant: only the registry is asked, not the adopted orphans.
ExecutorForTask_RegistryOnly(t) == tmem[t].exec # NoExec

\* executorForTask finds one.
ExecutorForTask(t) == tmem[t].exec # NoExec \/ Active(t)

\* SpawnExecutor: beginTaskFork takes the flag of the task.
SpawnBegins(t) ==
    /\ mode = "up" /\ tmem[t].exec = NoExec /\ tmem[t].fork = "idle"
    /\ tmem' = [tmem EXCEPT ![t].fork = "fetch"]
    /\ UNCHANGED <<cstat, disk, live, mem, tick, mode, boot, restarts, strays>>

\* get_task, and the second look, at the snapshot too: a running task was
\* admitted before. A failed RPC, a task that is neither open nor running or is
\* somebody else's, and one that has its executor end the fork.
SpawnChecks(t) ==
    /\ mode = "up" /\ tmem[t].fork = "fetch"
    /\ \E k \in {"idle", "admit", "launch"} :
         /\ k # "idle" => ~ExecutorForTask(t)
         /\ k = "admit" => cstat[t] \in {"open", "pool"}
         /\ k = "launch" => cstat[t] = "running"
         /\ tmem' = [tmem EXCEPT ![t].fork = k]
    /\ UNCHANGED <<cstat, disk, live, mem, tick, mode, boot, restarts, strays>>

\* start_task, which the center accepts from the assignee of an open task.
SpawnAdmits(t) ==
    /\ mode = "up" /\ tmem[t].fork = "admit"
    /\ \/ /\ cstat[t] = "open" /\ cstat' = [cstat EXCEPT ![t] = "running"]
          /\ tmem' = [tmem EXCEPT ![t].fork = "launch"]
       \/ tmem' = [tmem EXCEPT ![t].fork = "idle"] /\ UNCHANGED cstat
    /\ UNCHANGED <<disk, live, mem, tick, mode, boot, restarts, strays>>

\* fail_task, under its old name BlockTask: an open or running task fails.
Blocked(t) == IF cstat[t] \in {"open", "running"} THEN [cstat EXCEPT ![t] = "failed"] ELSE cstat

\* launchExecutorNow: the lowest free slot, the fork, the record, the handle,
\* the registry entry and the drain goroutine.
SpawnLaunches(t) ==
    /\ mode = "up" /\ tmem[t].fork = "launch" /\ FreeSlots # {}
    /\ \E e \in Execs :
         /\ {f \in Execs : disk[f] # NoFile} = 1..(e - 1)
         /\ disk' = [disk EXCEPT ![e] = [task |-> t, dir |-> "active", verdict |-> FALSE,
                                         slot |-> Min(FreeSlots), pids |-> 1]]
         /\ live' = [live EXCEPT ![e] = {1}]
         /\ mem' = [mem EXCEPT ![e] = [Unknown EXCEPT !.slot = Min(FreeSlots),
                                                      !.handle = TRUE, !.step = "wait"]]
         /\ tmem' = [tmem EXCEPT ![t].fork = "idle", ![t].exec = e]
    /\ UNCHANGED <<cstat, tick, mode, boot, restarts, strays>>

\* No slot, or the fork failed: blockTaskOnForkFailure, whose RPC may fail too.
SpawnFails(t) ==
    /\ mode = "up" /\ tmem[t].fork = "launch"
    /\ tmem' = [tmem EXCEPT ![t].fork = "idle"]
    /\ cstat' \in {Blocked(t), cstat}
    /\ UNCHANGED <<disk, live, mem, tick, mode, boot, restarts, strays>>

-----------------------------------------------------------------------------
(* The end of an executor: drain, or the poll of an adopted orphan.        *)

\* Mutant: the orphan is not dropped.
Forgotten_StillPolled(m) == [m EXCEPT !.slot = 0, !.handle = FALSE, !.stalled = FALSE,
                                      !.step = "idle", !.cause = "crash"]

\* Forgotten by this process: no slot, no handle, not polled.
Forgotten(m) == [m EXCEPT !.slot = 0, !.handle = FALSE, !.orphan = 0, !.stalled = FALSE,
                          !.step = "idle", !.cause = "crash"]

\* The deferred endRecovery and untrackTaskExecutor, and the tick goes on.
Returns(e) ==
    tick' = IF tick = Recovering(e) THEN Idle ELSE tick

Untracked(t, e) == IF tmem[t].exec = e THEN [tmem[t] EXCEPT !.exec = NoExec] ELSE tmem[t]
NoBudget(r) == [r EXCEPT !.crash = 0, !.stall = 0]

\* reconcileOneExecutor decides: a fused death is never recovered, a verdict is
\* reported, a death or a stall is a candidate for recovery.
Handling(e, stalled) ==
    [mem[e] EXCEPT
        !.step = IF mem[e].fused THEN "fused"
                 ELSE IF stalled \/ ~disk'[e].verdict THEN "ask" ELSE "report",
        !.cause = IF stalled THEN "stall" ELSE IF disk'[e].verdict THEN "verdict" ELSE "crash"]

\* AwaitCompletionNoFinalize: the forked process was reaped.
DrainHarvests(e) ==
    /\ mode = "up" /\ mem[e].step = "wait" /\ 1 \notin live[e]
    /\ UNCHANGED <<cstat, disk, live, tmem, tick, mode, boot, restarts, strays>>
    /\ mem' = [mem EXCEPT ![e] = Handling(e, @.stalled)]

\* CheckOrphanNoFinalize: the polled pid is gone, or stalls and is killed.
OrphanPoll(e) ==
    /\ mode = "up" /\ tick = Idle /\ mem[e].step = "idle" /\ mem[e].orphan # 0
    /\ \/ /\ mem[e].orphan \notin live[e]
          /\ UNCHANGED <<live, disk>>
          /\ mem' = [mem EXCEPT ![e] = Handling(e, FALSE)]
       \/ /\ mem[e].orphan \in live[e]
          /\ live' = [live EXCEPT ![e] = @ \ {mem[e].orphan}]
          /\ Verdict(e)
          /\ mem' = [mem EXCEPT ![e] = Handling(e, TRUE)]
    /\ tick' = Recovering(e)
    /\ UNCHANGED <<cstat, tmem, mode, boot, restarts, strays>>

\* A fused death is finalized quietly: no writeback, never a relaunch.
FinalizeFused(e) ==
    /\ mode = "up" /\ mem[e].step = "fused"
    /\ mem' = [mem EXCEPT ![e] = [Forgotten(@) EXCEPT !.fused = FALSE]]
    /\ Sealed(e, "finalized")
    /\ tmem' = [tmem EXCEPT ![TaskOf(e)] = NoBudget(Untracked(TaskOf(e), e))]
    /\ Returns(e)
    /\ UNCHANGED <<cstat, live, mode, boot, restarts, strays>>

-----------------------------------------------------------------------------
(* Point recovery, by the drain goroutine or in the tick (orphans).        *)

\* get_task says the task is concluded, or is another agent's. `failed' is
\* not in the list, and a failed task has no blocked_reason.
Evidence(t) == cstat[t] = "gone"

\* Mutant: one recovery more than the budget.
BudgetLeft_OffByOne(t, cause) ==
    IF cause = "stall" THEN tmem[t].stall <= MaxStallRecover
                       ELSE tmem[t].crash <= MaxCrashRecover

BudgetLeft(t, cause) ==
    IF cause = "stall" THEN tmem[t].stall < MaxStallRecover
                       ELSE tmem[t].crash < MaxCrashRecover

Consumed(r, cause) ==
    IF cause = "stall" THEN [r EXCEPT !.stall = @ + 1] ELSE [r EXCEPT !.crash = @ + 1]

\* Mutant: the slot is kept for the relaunch.
Released_KeepsSlot(e) == [mem[e] EXCEPT !.stalled = FALSE]

\* The drain gives the slot of the dead handle back before the relaunch.
Released(e) ==
    IF tick = Recovering(e) THEN mem[e]
    ELSE [mem[e] EXCEPT !.slot = 0, !.handle = FALSE, !.stalled = FALSE]

\* Should the executor continue? An unanswered get_task counts as no.
Ask(e) ==
    /\ mode = "up" /\ mem[e].step = "ask"
    /\ LET t == TaskOf(e)
       IN \/ mem' = [mem EXCEPT ![e].step = "report"] /\ UNCHANGED tmem
          \/ /\ ~Evidence(t)
             /\ IF BudgetLeft(t, mem[e].cause)
                THEN /\ mem' = [mem EXCEPT ![e] = [Released(e) EXCEPT !.step = "launch"]]
                     /\ tmem' = [tmem EXCEPT ![t] = Consumed(@, mem[e].cause)]
                ELSE mem' = [mem EXCEPT ![e].step = "exhaust"] /\ UNCHANGED tmem
    /\ UNCHANGED <<cstat, disk, live, tick, mode, boot, restarts, strays>>

\* Finalize reports to the center, and only then frees the slot and marks the
\* directory finalized, or retains it when the outcome is retryable. When the
\* report fails, slot and directory stay; the orphan is dropped all the same.
Finalize(e, step) ==
    \/ /\ mem' = [mem EXCEPT ![e] = [Forgotten(@) EXCEPT !.step = step]]
       /\ Sealed(e, "finalized") \/ UNCHANGED disk
    \/ /\ mem' = [mem EXCEPT ![e].orphan = 0, ![e].step = step]
       /\ disk' = [disk EXCEPT ![e].dir = "unreported"]

\* finalizeTerminal; a candidate for recovery also clears the task's budget.
Report(e) ==
    /\ mode = "up" /\ mem[e].step = "report"
    /\ Finalize(e, "idle")
    /\ LET t == TaskOf(e)
           r == Untracked(t, e)
       IN tmem' = [tmem EXCEPT ![t] = IF mem[e].cause = "verdict" THEN r ELSE NoBudget(r)]
    /\ Returns(e)
    /\ UNCHANGED <<cstat, live, mode, boot, restarts, strays>>

\* The budget is spent: finalize, then escalateRecoveryExhausted.
Exhaust(e) ==
    /\ mode = "up" /\ mem[e].step = "exhaust"
    /\ Finalize(e, "escalate")
    /\ UNCHANGED <<cstat, live, tmem, tick, mode, boot, restarts, strays>>

Escalate(e) ==
    /\ mode = "up" /\ mem[e].step = "escalate"
    /\ LET t == TaskOf(e)
       IN /\ cstat' \in {Blocked(t), cstat}
          /\ tmem' = [tmem EXCEPT ![t] = NoBudget(Untracked(t, e))]
    /\ mem' = [mem EXCEPT ![e].step = "idle"]
    /\ Returns(e)
    /\ UNCHANGED <<disk, live, mode, boot, restarts, strays>>

\* adoptOrphan with the slot of the record, and if it is taken any free one,
\* and if there is none without a slot.
AdoptedSlot(e) ==
    IF mem[e].slot # 0 THEN mem[e].slot
    ELSE IF disk[e].slot \in FreeSlots THEN disk[e].slot
    ELSE IF FreeSlots # {} THEN Min(FreeSlots) ELSE 0

\* Mutant: the relaunched process is not registered for polling.
Relaunched_Unpolled(e) ==
    LET n == disk[e].pids + 1
    IN /\ n \in Incs
       /\ disk' = [disk EXCEPT ![e].pids = n]
       /\ live' = [live EXCEPT ![e] = @ \cup {n}]
       /\ mem' = [mem EXCEPT ![e].slot = AdoptedSlot(e), ![e].step = "idle"]

\* relaunchExecutor: the next process, polled from now on. The record still
\* names the first one.
Relaunched(e) ==
    LET n == disk[e].pids + 1
    IN /\ n \in Incs
       /\ disk' = [disk EXCEPT ![e].pids = n]
       /\ live' = [live EXCEPT ![e] = @ \cup {n}]
       /\ mem' = [mem EXCEPT ![e].orphan = n, ![e].slot = AdoptedSlot(e),
                             ![e].step = "idle"]

\* enactRecover. Without a workspace the residue is removed; the slot of an
\* orphan is not given back.
Launch(e) ==
    /\ mode = "up" /\ mem[e].step = "launch"
    /\ \/ Relaunched(e)
       \/ mem' = [mem EXCEPT ![e].step = "idle"] /\ UNCHANGED <<disk, live>>
    /\ tmem' = [tmem EXCEPT ![TaskOf(e)] = Untracked(TaskOf(e), e)]
    /\ Returns(e)
    /\ UNCHANGED <<cstat, mode, boot, restarts, strays>>

LaunchFresh(e) ==
    /\ mode = "up" /\ mem[e].step = "launch"
    /\ Sealed(e, "removed")
    /\ mem' = [mem EXCEPT ![e].orphan = 0, ![e].step = "reset"]
    /\ UNCHANGED <<cstat, live, tmem, tick, mode, boot, restarts, strays>>

\* reset_task: back to the pool, failed when the task was reset too often, or
\* not done.
ResetOutcomes(t) ==
    {cstat} \cup {[cstat EXCEPT ![t] = s] :
                    s \in IF cstat[t] = "running" THEN {"pool", "failed"} ELSE {}}

Reset(e) ==
    /\ mode = "up" /\ mem[e].step = "reset"
    /\ cstat' \in ResetOutcomes(TaskOf(e))
    /\ mem' = [mem EXCEPT ![e].step = "idle"]
    /\ tmem' = [tmem EXCEPT ![TaskOf(e)] = Untracked(TaskOf(e), e)]
    /\ Returns(e)
    /\ UNCHANGED <<disk, live, mode, boot, restarts, strays>>

-----------------------------------------------------------------------------
(* The tick: one goroutine renews leases, fuses, sweeps and polls.         *)

\* Mutant: only a concluded or reassigned task revokes the lease.
Revoked_NotFailed(t) == cstat[t] = "gone"

\* WorkerRenewLease revokes the lease of a task that is not running here.
Revoked(t) == cstat[t] # "running"

\* drainLeaseRenewals, for the tasks of the snapshot; an error is ignored.
Renew(t) ==
    /\ mode = "up" /\ tick = Idle /\ Active(t) /\ Revoked(t)
    /\ tick' = [job |-> "fuse", task |-> t]
    /\ UNCHANGED <<cstat, disk, live, mem, tmem, mode, boot, restarts, strays>>

FuseMark(e) == mem' = [mem EXCEPT ![e].fused = TRUE]

\* FuseKillTask: the handle that runs this task by now is marked, then killed.
Fuse ==
    /\ mode = "up" /\ tick.job = "fuse"
    /\ LET handles == {e \in Execs : mem[e].handle /\ TaskOf(e) = tick.task}
       IN IF handles = {} THEN tick' = Idle /\ UNCHANGED mem
          ELSE \E e \in handles : FuseMark(e) /\ tick' = Kill(e)
    /\ UNCHANGED <<cstat, disk, live, tmem, mode, boot, restarts, strays>>

\* GracefulKill: SIGTERM, the grace window, SIGKILL, all of the forked process.
KillDone(e) ==
    /\ mode = "up" /\ tick = Kill(e)
    /\ live' = [live EXCEPT ![e] = @ \ {1}]
    /\ IF 1 \in live[e] THEN Verdict(e) ELSE UNCHANGED disk
    /\ tick' = Idle
    /\ UNCHANGED <<cstat, mem, tmem, mode, boot, restarts, strays>>

\* A handle without progress is marked stalled, then killed. (A mark that the
\* drain has not been waiting for any more changes only a log line.)
Sweep(e) ==
    /\ mode = "up" /\ tick = Idle /\ mem[e].handle
    /\ mem[e].step = "wait" /\ ~disk[e].verdict /\ ~mem[e].stalled
    /\ mem' = [mem EXCEPT ![e].stalled = TRUE]
    /\ tick' = Kill(e)
    /\ UNCHANGED <<cstat, disk, live, tmem, mode, boot, restarts, strays>>

-----------------------------------------------------------------------------
(* Exit and boot reconcile.                                                *)

\* list_my_inflight_tasks
InFlight(t) == cstat[t] \in {"open", "running"}

\* classifyExecutor, on the record's pid: the first process. A verdict file
\* beats liveness.
Decision(e, haveInflight) ==
    LET mine == haveInflight /\ InFlight(TaskOf(e))
    IN IF disk[e].dir \notin {"active", "unreported"} THEN "none"
       ELSE IF disk[e].verdict THEN IF mine THEN "finalize" ELSE "quiet"
       ELSE IF 1 \in live[e] THEN IF haveInflight /\ ~mine THEN "verify" ELSE "adopt"
       ELSE IF ~haveInflight THEN "finalize" ELSE IF mine THEN "recover" ELSE "verify"

\* The runtime exits hard, its executors run on; the next process scans the
\* directories and asks for the tasks in flight, before it serves commands.
Exit ==
    /\ mode = "up" /\ restarts < MaxRestarts
    /\ restarts' = restarts + 1 /\ mode' = "boot" /\ tick' = Idle
    /\ mem' = [e \in Execs |-> Unknown] /\ tmem' = [t \in Tasks |-> Untried]
    /\ \E haveInflight \in BOOLEAN :
         boot' = [e \in Execs |-> Decision(e, haveInflight)]
    /\ strays' = strays \cup {p \in Execs \X Incs : p[2] # 1 /\ p[2] \in live[p[1]]}
    /\ disk' = [e \in Execs |-> IF disk[e].dir = "unreported"
                               THEN [disk[e] EXCEPT !.dir = "active"] ELSE disk[e]]
    /\ UNCHANGED <<cstat, live>>

Enacted(e, decision) ==
    /\ mode = "boot" /\ boot[e] = decision /\ boot' = [boot EXCEPT ![e] = "none"]
    /\ UNCHANGED <<tmem, tick, mode, restarts>>

\* adoptAlive gives up when the slot of the record is taken; the relaunch of
\* another executor may have taken it.
BootAdopts(e) ==
    /\ Enacted(e, "adopt")
    /\ IF disk[e].slot \in FreeSlots
       THEN /\ mem' = [mem EXCEPT ![e].slot = disk[e].slot, ![e].orphan = 1]
            /\ UNCHANGED strays
       ELSE /\ strays' = strays \cup ({<<e, 1>>} \cap (Execs \X live[e])) /\ UNCHANGED mem
    /\ UNCHANGED <<cstat, disk, live>>

BootRecovers(e) ==
    /\ Enacted(e, "recover")
    /\ \/ Relaunched(e) /\ UNCHANGED cstat
       \/ UNCHANGED <<cstat, disk, live, mem>>
       \/ /\ Sealed(e, "removed")
          /\ cstat' \in ResetOutcomes(TaskOf(e))
          /\ UNCHANGED <<live, mem>>
    /\ UNCHANGED strays

\* FinalizeRecovered reports, and marks the directory unless the outcome is
\* retryable or the report fails; QuietFinalizeRecovered only marks it.
BootFinalizes(e) ==
    /\ \/ Enacted(e, "finalize") /\ (Sealed(e, "finalized") \/ UNCHANGED disk)
       \/ Enacted(e, "quiet") /\ Sealed(e, "finalized")
    /\ UNCHANGED <<cstat, live, mem, strays>>

\* verifyThenCancel: only evidence cancels, otherwise a live one is adopted.
BootVerifies(e) ==
    /\ Enacted(e, "verify")
    /\ \/ /\ Evidence(TaskOf(e))
          /\ live' = [live EXCEPT ![e] = @ \ {1}]
          /\ Sealed(e, "removed")
          /\ UNCHANGED mem
       \/ /\ mem' = IF 1 \in live[e]
                    THEN [mem EXCEPT ![e].slot = AdoptedSlot(e), ![e].orphan = 1] ELSE mem
          /\ UNCHANGED <<live, disk>>
    /\ UNCHANGED <<cstat, strays>>

BootDone ==
    /\ mode = "boot" /\ \A e \in Execs : boot[e] = "none"
    /\ mode' = "up"
    /\ UNCHANGED <<cstat, disk, live, mem, tmem, tick, boot, restarts, strays>>

-----------------------------------------------------------------------------

Recovery(e) ==
    \/ DrainHarvests(e) \/ FinalizeFused(e) \/ Ask(e) \/ Report(e)
    \/ Exhaust(e) \/ Escalate(e) \/ Launch(e) \/ LaunchFresh(e) \/ Reset(e)

Boot(e) == BootAdopts(e) \/ BootRecovers(e) \/ BootFinalizes(e) \/ BootVerifies(e)

Next ==
    \/ \E t \in Tasks : CenterMoves(t) \/ SpawnBegins(t) \/ SpawnChecks(t)
                          \/ SpawnAdmits(t) \/ SpawnLaunches(t) \/ SpawnFails(t) \/ Renew(t)
    \/ \E e \in Execs : \/ \E i \in Incs : Ends(e, i)
                        \/ OrphanPoll(e) \/ Sweep(e) \/ KillDone(e)
                        \/ Recovery(e) \/ Boot(e)
    \/ Fuse \/ Exit \/ BootDone

\* Goroutines are scheduled, RPCs return, and every tick renews and polls.
Fairness ==
    /\ \A e \in Execs : WF_vars(Recovery(e)) /\ WF_vars(Boot(e)) /\ WF_vars(KillDone(e))
                        /\ SF_vars(OrphanPoll(e))
    /\ \A t \in Tasks : SF_vars(Renew(t))
    /\ WF_vars(Fuse) /\ WF_vars(BootDone)

Spec == Init /\ [][Next]_vars /\ Fairness

-----------------------------------------------------------------------------
(* Properties.                                                             *)

\* While the runtime lives, a task has at most one process, through forks,
\* recoveries and relaunches (executor_runtime.go, beginTaskFork).
OneProcessPerTask ==
    restarts = 0 =>
        \A p, q \in Execs \X Incs :
            /\ p[2] \in live[p[1]] /\ q[2] \in live[q[1]]
            /\ TaskOf(p[1]) = TaskOf(q[1])
            => p = q

\* A process that runs is one that the runtime waits for or polls, and its
\* directory is still there (drainExecutor, RunWatchdog, reconcileExecutors),
\* but for the processes a restart lost.
EveryProcessIsWatched ==
    mode = "up" =>
        \A e \in Execs, i \in Incs :
            i \in live[e] /\ <<e, i>> \notin strays =>
                /\ disk[e].dir = "active"
                /\ \/ i = 1 /\ mem[e].handle /\ mem[e].step = "wait"
                   \/ mem[e].orphan = i

\* A slot is held for a process that is watched or being recovered. The two
\* exceptions hold it until the runtime exits: an executor whose report failed
\* and an orphan that lost its workspace.
SlotIsOwned(e) ==
    mem[e].slot # 0 =>
        \/ mem[e].step # "idle" \/ mem[e].orphan # 0
        \/ disk[e].dir \in {"unreported", "removed"}

SlotsAreOwned == \A e \in Execs : SlotIsOwned(e)

\* An executor whose lease is revoked does not run on: it is stopped, unless
\* the task runs here again or the runtime exits (lease_gc.go, FuseKillTask).
RunsHere(t) == \E e \in Execs : mem[e].handle /\ 1 \in live[e] /\ TaskOf(e) = t
RevokedExecutorStops ==
    \A t \in Tasks :
        (RunsHere(t) /\ cstat[t] # "running" /\ mode = "up")
            ~> (~RunsHere(t) \/ cstat[t] = "running" \/ mode # "up")

\* A dead executor is finalized or recovered: its handle does not wait for
\* ever, and a dead pid is not polled for ever.
Dead(e) == \/ mem[e].handle /\ 1 \notin live[e]
           \/ mem[e].orphan # 0 /\ mem[e].orphan \notin live[e]
DeadExecutorSettles ==
    \A e \in Execs :
        (Dead(e) /\ mode = "up") ~> (~Dead(e) \/ disk[e].dir = "unreported" \/ mode # "up")
-----------------------------------------------------------------------------
(* What the safety properties rest on.                                     *)

\* An executor that was forked has its task and its first process; the record
\* names that one, so a relaunch leaves an old verdict behind, but never while
\* the first process runs.
PidsAgree(e) ==
    /\ disk[e].dir # "none" => TaskOf(e) \in Tasks /\ disk[e].pids > 0
    /\ live[e] \subseteq 1..disk[e].pids /\ mem[e].orphan <= disk[e].pids
    /\ 1 \in live[e] => disk[e].pids = 1 /\ ~disk[e].verdict

\* All that still runs of an executor is what a restart lost.
Ended(e) == \A i \in live[e] : i # 1 /\ <<e, i>> \in strays

\* On its way from its death to what comes of it an executor has ended.
StepAgrees(e) ==
    /\ mem[e].step \notin {"idle", "escalate", "reset"} \/ mem[e].orphan # 0 => disk[e].dir = "active"
    /\ mem[e].step = "wait" => mem[e].orphan = 0
    /\ mem[e].step \notin {"idle", "wait"} => disk[e].dir # "none" /\ Ended(e)
    /\ mem[e].step = "escalate" => mem[e].slot = 0 \/ disk[e].dir = "unreported"
    /\ mem[e].step = "launch" => mem[e].slot = 0 \/ mem[e].orphan # 0
    /\ mem[e].step = "reset" => disk[e].dir = "removed"
    /\ tick = Recovering(e) => /\ mem[e].step \notin {"idle", "wait"}
                               /\ mem[e].step = "ask" => mem[e].orphan # 0

\* What the boot reconcile has decided and not enacted yet.
BootAgrees(e) ==
    /\ mode = "up" => boot[e] = "none"
    /\ mode = "boot" => mem[e].step = "idle"
    /\ boot[e] # "none" =>
         /\ disk[e].dir = "active" /\ mem[e].orphan = 0
         /\ boot[e] \notin {"adopt", "verify"} => Ended(e)

\* A process that no restart lost is watched, or about to be.
LiveAgrees(e) ==
    \A i \in live[e] : <<e, i>> \notin strays =>
        /\ disk[e].dir = "active"
        /\ \/ i = 1 /\ mem[e].handle /\ mem[e].step = "wait"
           \/ mem[e].orphan = i
           \/ i = 1 /\ boot[e] \in {"adopt", "verify"}

ExecAgrees(e) ==
    SlotIsOwned(e) /\ PidsAgree(e) /\ StepAgrees(e) /\ BootAgrees(e) /\ LiveAgrees(e)

ModeAgrees ==
    /\ mode = "boot" => restarts > 0 /\ tick = Idle
    /\ restarts = 0 => strays = {}

\* An executor speaks for its task by the registry or as an adopted orphan.
SpeaksFor(e, t) == TaskOf(e) = t /\ (mem[e].orphan # 0 \/ tmem[t].exec = e)

\* A fork under way has not passed executorForTask.
Unchecked(t) == tmem[t].fork \in {"idle", "fetch"}

\* Whatever may run speaks for its task; one executor at most does, and none
\* once a fork has passed that check.
ClaimsAgree ==
    restarts = 0 =>
        /\ \A t \in Tasks, e \in Execs : tmem[t].exec = e => TaskOf(e) = t
        /\ \A e \in Execs : live[e] # {} \/ mem[e].step \in {"wait", "ask", "launch"} =>
             SpeaksFor(e, TaskOf(e))
        /\ \A t \in Tasks, e, f \in Execs : SpeaksFor(e, t) =>
             Unchecked(t) /\ (SpeaksFor(f, t) => e = f)

IInv == TypeOK /\ ModeAgrees /\ ClaimsAgree /\ \A e \in Execs : ExecAgrees(e)

=============================================================================
