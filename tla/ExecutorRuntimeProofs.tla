------------------------ MODULE ExecutorRuntimeProofs ------------------------
(***************************************************************************)
(* Proofs about ExecutorRuntime, for any set of tasks, any number of       *)
(* slots, forks, relaunches and restarts: a task has one process at most   *)
(* while the runtime lives, every process that runs is watched, and a slot *)
(* is held for a reason.                                                   *)
(***************************************************************************)
EXTENDS ExecutorRuntime, WellFoundedInduction, TLAPS

(* The lowest free slot is one of the free slots.                          *)
LEMMA LowestFreeSlot ==
  ASSUME FreeSlots # {}
  PROVE  Min(FreeSlots) \in FreeSlots /\ Min(FreeSlots) \in 1..Cap
<1> DEFINE S == FreeSlots
           Less == {p \in Nat \X Nat : p[1] < p[2]}
<1>1. S \subseteq Nat /\ S # {} /\ S \subseteq 1..Cap BY RuntimeAssumption DEF FreeSlots
<1>2. IsWellFoundedOn(Less, Nat)
  <2>1. Less = OpToRel(<, Nat) BY DEF OpToRel
  <2> QED BY <2>1, NatLessThanWellFounded, Zenon
<1>3. \A x, y \in Nat : y < x => <<y, x>> \in Less OBVIOUS
<1> HIDE DEF S, Less
<1>4. PICK x \in S : \A y \in S : ~(<<y, x>> \in Less) BY <1>1, <1>2, WFMin
<1>5. \A y \in S : ~(y < x) BY <1>1, <1>3, <1>4
<1>6. \A y \in S : x <= y BY <1>1, <1>5
<1>7. Min(S) \in S BY <1>4, <1>6 DEF Min
<1> QED BY <1>1, <1>7 DEF S
-----------------------------------------------------------------------------
(* What a step leaves alone.                                               *)

(* A step about e changes nothing of another executor.                     *)
Only(e) ==
  \A f \in Execs : f # e => disk'[f] = disk[f] /\ live'[f] = live[f] /\ mem'[f] = mem[f] /\ boot'[f] = boot[f]

LEMMA OtherAgrees ==
  ASSUME NEW f \in Execs, ExecAgrees(f),
         disk'[f] = disk[f], live'[f] = live[f], mem'[f] = mem[f], boot'[f] = boot[f],
         mode' = mode, strays \subseteq strays', tick' = Recovering(f) => tick = Recovering(f)
  PROVE  ExecAgrees(f)'
<1>1. Ended(f) => Ended(f)' BY DEF Ended
<1>2. SlotIsOwned(f)' BY DEF ExecAgrees, SlotIsOwned
<1>3. PidsAgree(f)' BY DEF ExecAgrees, PidsAgree, TaskOf
<1>4. StepAgrees(f)' BY <1>1 DEF ExecAgrees, StepAgrees, Recovering
<1>5. BootAgrees(f)' BY <1>1 DEF ExecAgrees, BootAgrees
<1>6. LiveAgrees(f)' BY DEF ExecAgrees, LiveAgrees
<1> QED BY <1>2, <1>3, <1>4, <1>5, <1>6 DEF ExecAgrees

(* So it is enough to look at e.                                           *)
LEMMA OnlyOne ==
  ASSUME IInv, NEW e \in Execs, Only(e), UNCHANGED <<mode, restarts>>,
         strays \subseteq strays', restarts = 0 => strays' = {},
         \A f \in Execs : f # e /\ tick' = Recovering(f) => tick = Recovering(f),
         mode = "boot" => tick' = Idle,
         TypeOK', ClaimsAgree', ExecAgrees(e)'
  PROVE  IInv'
<1>1. ModeAgrees' BY DEF IInv, ModeAgrees, Idle
<1>2. ASSUME NEW f \in Execs PROVE ExecAgrees(f)'
  <2>1. CASE f = e BY <2>1
  <2>2. CASE f # e
    <3>1. /\ disk'[f] = disk[f] /\ live'[f] = live[f] /\ mem'[f] = mem[f] /\ boot'[f] = boot[f]
          /\ mode' = mode /\ (tick' = Recovering(f) => tick = Recovering(f)) /\ ExecAgrees(f)
      BY <2>2 DEF Only, IInv
    <3> QED BY <3>1, OtherAgrees
  <2> QED BY <2>1, <2>2
<1> QED BY <1>1, <1>2 DEF IInv

(* What may run has a task of this agent's.                                *)
Runnable(e) == live[e] # {} \/ mem[e].step \in {"wait", "ask", "launch"}

LEMMA RunnableHasTask ==
  ASSUME IInv, restarts = 0, NEW f \in Execs, live[f] # {} \/ mem[f].step \in {"wait", "ask", "launch"}
  PROVE  TaskOf(f) \in Tasks
<1>1. TypeOK /\ ExecAgrees(f) BY DEF IInv
<1>2. disk[f].dir # "none"
  <2>1. CASE mem[f].step \in {"wait", "ask", "launch"} BY <1>1, <2>1 DEF ExecAgrees, StepAgrees
  <2>2. CASE live[f] # {}
    <3>1. strays = {} BY DEF IInv, ModeAgrees
    <3> QED BY <1>1, <2>2, <3>1 DEF ExecAgrees, LiveAgrees
  <2> QED BY <2>1, <2>2
<1> QED BY <1>1, <1>2 DEF ExecAgrees, PidsAgree

(* A step that at most ends or loses something: e does not begin to speak  *)
(* for its task, and stops only when it can not run.                       *)
NoNewClaim(e) ==
  /\ disk'[e].task = disk[e].task
  /\ mem'[e].orphan # 0 => mem[e].orphan # 0 \/ tmem[TaskOf(e)].exec = e
  /\ Runnable(e)' => mem'[e].orphan # 0 \/ tmem'[TaskOf(e)].exec = e
  /\ \A t \in Tasks :
       /\ tmem'[t].fork = tmem[t].fork
       /\ tmem'[t].exec = tmem[t].exec \/ (tmem[t].exec = e /\ tmem'[t].exec = NoExec)

LEMMA ClaimsKept ==
  ASSUME IInv, NEW e \in Execs, Only(e), UNCHANGED restarts, restarts = 0 => NoNewClaim(e)
  PROVE  ClaimsAgree'
<1> SUFFICES ASSUME restarts = 0 PROVE ClaimsAgree' BY DEF ClaimsAgree
<1>1. (\A f \in Execs : f # NoExec) /\ NoNewClaim(e) BY DEF Execs, NoExec
<1>2. \A f \in Execs : TaskOf(f)' = TaskOf(f) BY <1>1 DEF Only, TaskOf, NoNewClaim
<1>3. \A t \in Tasks, f \in Execs : tmem'[t].exec = f => tmem[t].exec = f BY <1>1 DEF NoNewClaim
<1>4. /\ \A t \in Tasks, f \in Execs : tmem[t].exec = f => TaskOf(f) = t
      /\ \A f \in Execs : live[f] # {} \/ mem[f].step \in {"wait", "ask", "launch"} => SpeaksFor(f, TaskOf(f))
      /\ \A t \in Tasks, f, g \in Execs : SpeaksFor(f, t) => Unchecked(t) /\ (SpeaksFor(g, t) => f = g)
  BY DEF IInv, ClaimsAgree
<1>5. \A t \in Tasks, f \in Execs : SpeaksFor(f, t)' => SpeaksFor(f, t)
  <2> SUFFICES ASSUME NEW t \in Tasks, NEW f \in Execs, SpeaksFor(f, t)' PROVE SpeaksFor(f, t) OBVIOUS
  <2>1. TaskOf(f) = t /\ (mem'[f].orphan # 0 \/ tmem'[t].exec = f) BY <1>2 DEF SpeaksFor
  <2>2. CASE tmem'[t].exec = f BY <1>3, <2>1, <2>2 DEF SpeaksFor
  <2>3. CASE mem'[f].orphan # 0 /\ f # e BY <2>1, <2>3 DEF SpeaksFor, Only
  <2>4. CASE mem'[f].orphan # 0 /\ f = e BY <1>1, <1>2, <2>1, <2>4 DEF SpeaksFor, NoNewClaim
  <2> QED BY <2>1, <2>2, <2>3, <2>4
<1>6. ASSUME NEW f \in Execs, live'[f] # {} \/ mem'[f].step \in {"wait", "ask", "launch"}
      PROVE  SpeaksFor(f, TaskOf(f))'
  <2>1. CASE f = e BY <1>1, <1>2, <1>6, <2>1 DEF SpeaksFor, NoNewClaim, Runnable
  <2>2. CASE f # e
    <3>1. mem'[f] = mem[f] /\ live'[f] = live[f] /\ TaskOf(f)' = TaskOf(f) BY <1>2, <2>2 DEF Only
    <3>2. SpeaksFor(f, TaskOf(f)) BY <1>4, <1>6, <3>1
    <3>3. TaskOf(f) \in Tasks /\ tmem[TaskOf(f)].exec = f => tmem'[TaskOf(f)].exec = f BY <1>1, <2>2 DEF NoNewClaim
    <3>4. TaskOf(f) \in Tasks BY <1>6, <3>1, RunnableHasTask
    <3> QED BY <3>1, <3>2, <3>3, <3>4 DEF SpeaksFor
  <2> QED BY <2>1, <2>2
<1>7. \A t \in Tasks, f \in Execs : tmem'[t].exec = f => TaskOf(f)' = t BY <1>2, <1>3, <1>4
<1>8. \A t \in Tasks, f, g \in Execs : SpeaksFor(f, t)' => Unchecked(t)' /\ (SpeaksFor(g, t)' => f = g)
  <2>1. \A t \in Tasks : tmem'[t].fork = tmem[t].fork BY <1>1 DEF NoNewClaim
  <2> SUFFICES ASSUME NEW t \in Tasks, NEW f \in Execs, NEW g \in Execs, SpeaksFor(f, t)'
               PROVE  Unchecked(t)' /\ (SpeaksFor(g, t)' => f = g)
    OBVIOUS
  <2>2. SpeaksFor(f, t) /\ (SpeaksFor(g, t)' => SpeaksFor(g, t)) BY <1>5
  <2> QED BY <1>4, <2>1, <2>2 DEF Unchecked
<1> QED BY <1>6, <1>7, <1>8 DEF ClaimsAgree

(* A step of the center or the tick that touches no executor.              *)
LEMMA CenterKept ==
  ASSUME IInv, UNCHANGED <<disk, live, mem, tmem, mode, boot, restarts, strays>>,
         TypeOK', \A f \in Execs : tick' = Recovering(f) => tick = Recovering(f),
         mode = "boot" => tick' = Idle
  PROVE  IInv'
<1>1. ModeAgrees' BY DEF IInv, ModeAgrees, Idle
<1>2. ClaimsAgree' BY DEF IInv, ClaimsAgree, SpeaksFor, TaskOf, Unchecked
<1>3. ASSUME NEW f \in Execs PROVE ExecAgrees(f)'
  <2>1. strays \subseteq strays' /\ ExecAgrees(f) BY DEF IInv
  <2> QED BY <2>1, OtherAgrees
<1> QED BY <1>1, <1>2, <1>3 DEF IInv

(* What a step writes of a directory.                                      *)
LEMMA DiskWritten ==
  ASSUME TypeOK, NEW e \in Execs, NEW d \in Dirs, NEW v \in BOOLEAN,
         disk' = [disk EXCEPT ![e] = [@ EXCEPT !.dir = d, !.verdict = v]]
  PROVE  /\ disk' \in [Execs -> DiskState] /\ \A f \in Execs : f # e => disk'[f] = disk[f]
         /\ disk'[e].dir = d /\ disk'[e].verdict = v
         /\ disk'[e].task = disk[e].task /\ disk'[e].slot = disk[e].slot /\ disk'[e].pids = disk[e].pids
BY DEF TypeOK, DiskState

LEMMA VerdictWritten ==
  ASSUME TypeOK, NEW e \in Execs, Verdict(e)
  PROVE  /\ disk' \in [Execs -> DiskState] /\ \A f \in Execs : f # e => disk'[f] = disk[f]
         /\ disk'[e].dir = disk[e].dir /\ disk'[e].verdict \in BOOLEAN
         /\ disk'[e].task = disk[e].task /\ disk'[e].slot = disk[e].slot /\ disk'[e].pids = disk[e].pids
<1>1. PICK v \in {disk[e].verdict, disk[e].dir \in {"active", "unreported"}} : disk' = [disk EXCEPT ![e].verdict = v]
  BY DEF Verdict
<1>2. disk[e] \in DiskState BY DEF TypeOK
<1>3. v \in BOOLEAN
  <2>1. disk[e].verdict \in BOOLEAN BY <1>2 DEF DiskState
  <2>2. v = disk[e].verdict \/ v = (disk[e].dir \in {"active", "unreported"}) BY <1>1, Zenon
  <2>3. (disk[e].dir \in {"active", "unreported"}) \in BOOLEAN OBVIOUS
  <2> QED BY <2>1, <2>2, <2>3, Zenon
<1>4. disk' = [disk EXCEPT ![e] = [@ EXCEPT !.verdict = v]] BY <1>1
<1>5. [disk[e] EXCEPT !.verdict = v] \in DiskState BY <1>2, <1>3 DEF DiskState
<1>6. disk' \in [Execs -> DiskState] BY <1>4, <1>5 DEF TypeOK
<1> QED BY <1>2, <1>3, <1>4, <1>6 DEF TypeOK, DiskState

LEMMA DirSealed ==
  ASSUME TypeOK, NEW e \in Execs, NEW d \in Dirs, Sealed(e, d)
  PROVE  /\ disk' \in [Execs -> DiskState] /\ \A f \in Execs : f # e => disk'[f] = disk[f]
         /\ disk'[e].dir = d /\ disk'[e].verdict = FALSE
         /\ disk'[e].task = disk[e].task /\ disk'[e].slot = disk[e].slot /\ disk'[e].pids = disk[e].pids
<1>1. disk' = [disk EXCEPT ![e].dir = d, ![e].verdict = FALSE] BY DEF Sealed
<1>2. disk' = [disk EXCEPT ![e] = [@ EXCEPT !.dir = d, !.verdict = FALSE]] BY <1>1 DEF TypeOK
<1> QED BY <1>2, DiskWritten

(* The registry entry and the budget of a task.                            *)
LEMMA TaskWritten ==
  ASSUME TypeOK, NEW u, NEW r \in TaskState, tmem' = [tmem EXCEPT ![u] = r]
  PROVE  /\ tmem' \in [Tasks -> TaskState]
         /\ \A t \in Tasks : tmem'[t] = IF t = u THEN r ELSE tmem[t]
BY DEF TypeOK

LEMMA UntrackedRecord ==
  ASSUME TypeOK, NEW t \in Tasks, NEW e
  PROVE  LET r == Untracked(t, e) IN
         /\ r \in TaskState /\ NoBudget(r) \in TaskState
         /\ r.fork = tmem[t].fork /\ NoBudget(r).fork = tmem[t].fork
         /\ r.exec = IF tmem[t].exec = e THEN NoExec ELSE tmem[t].exec
         /\ NoBudget(r).exec = r.exec
<1> DEFINE r == Untracked(t, e)
<1>1. tmem[t] \in TaskState BY DEF TypeOK
<1>2. 0 \in 0..MaxCrashRecover /\ 0 \in 0..MaxStallRecover BY RuntimeAssumption
<1>3. r \in TaskState /\ r.fork = tmem[t].fork /\ r.exec = IF tmem[t].exec = e THEN NoExec ELSE tmem[t].exec
  BY <1>1 DEF Untracked, TaskState, NoExec
<1> HIDE DEF r
<1>4. \A x \in TaskState : LET y == NoBudget(x) IN y \in TaskState /\ y.fork = x.fork /\ y.exec = x.exec
  BY <1>2 DEF NoBudget, TaskState
<1> QED BY <1>3, <1>4 DEF r
-----------------------------------------------------------------------------
(* The center and the processes.                                           *)
LEMMA CenterMovesKeeps ==
  ASSUME IInv, NEW t \in Tasks, CenterMoves(t)
  PROVE  IInv'
<1>1. PICK s \in CenterNext(cstat[t]) : cstat' = [cstat EXCEPT ![t] = s] BY DEF CenterMoves
<1>2. UNCHANGED <<disk, live, mem, tmem, tick, mode, boot, restarts, strays>> BY DEF CenterMoves
<1>3. cstat[t] \in CenterStatuses BY DEF IInv, TypeOK
<1>4. s \in CenterStatuses BY <1>1, <1>3 DEF CenterNext, CenterStatuses
<1>5. TypeOK' BY <1>1, <1>2, <1>4 DEF IInv, TypeOK
<1> QED BY <1>2, <1>5, CenterKept DEF IInv, ModeAgrees

LEMMA ProcessEnds ==
  ASSUME IInv, NEW e \in Execs, NEW i \in Incs, live' = [live EXCEPT ![e] = @ \ {i}],
         (i \in live[e] /\ Verdict(e)) \/ UNCHANGED disk,
         tick' = tick \/ (mode = "up" /\ tick' = Idle),
         UNCHANGED <<cstat, mem, tmem, mode, boot, restarts, strays>>
  PROVE  IInv'
<1>1. mode = "boot" => tick' = Idle BY DEF IInv, ModeAgrees
<1>2. TypeOK /\ ExecAgrees(e) BY DEF IInv
<1>3. /\ disk' \in [Execs -> DiskState] /\ \A f \in Execs : f # e => disk'[f] = disk[f]
      /\ disk'[e].dir = disk[e].dir /\ disk'[e].verdict \in BOOLEAN
      /\ disk'[e].task = disk[e].task /\ disk'[e].pids = disk[e].pids
  <2>1. CASE Verdict(e) BY <1>2, <2>1, VerdictWritten
  <2>2. CASE UNCHANGED disk BY <1>2, <2>2 DEF TypeOK, DiskState
  <2> QED BY <2>1, <2>2
<1>4. /\ live' \in [Execs -> SUBSET Incs] /\ live'[e] = live[e] \ {i}
      /\ \A f \in Execs : f # e => live'[f] = live[f]
  BY <1>1, <1>2 DEF TypeOK
<1>5. TypeOK' BY <1>1, <1>2, <1>3, <1>4 DEF TypeOK, Jobs, Idle
<1>6. Only(e) BY <1>1, <1>3, <1>4 DEF Only
<1>7. ExecAgrees(e)'
  <2>1. SlotIsOwned(e)' BY <1>1, <1>2, <1>3 DEF ExecAgrees, SlotIsOwned
  <2>2. PidsAgree(e)'
    <3>1. 1 \in live'[e] => ~disk'[e].verdict BY <1>2, <1>4 DEF ExecAgrees, PidsAgree
    <3> QED BY <1>1, <1>2, <1>3, <1>4, <3>1 DEF ExecAgrees, PidsAgree, TaskOf
  <2>3. Ended(e) => Ended(e)' BY <1>1, <1>4 DEF Ended
  <2>4. StepAgrees(e)' BY <1>1, <1>2, <1>3, <2>3 DEF ExecAgrees, StepAgrees, Recovering, Idle
  <2>5. BootAgrees(e)' BY <1>1, <1>2, <1>3, <2>3 DEF ExecAgrees, BootAgrees
  <2>6. LiveAgrees(e)' BY <1>1, <1>2, <1>3, <1>4 DEF ExecAgrees, LiveAgrees
  <2> QED BY <2>1, <2>2, <2>4, <2>5, <2>6 DEF ExecAgrees
<1>8. ClaimsAgree'
  <2>1. restarts = 0 => NoNewClaim(e)
    <3>1. restarts = 0 /\ Runnable(e) => SpeaksFor(e, TaskOf(e)) BY DEF IInv, ClaimsAgree, Runnable
    <3>2. Runnable(e)' => Runnable(e) BY <1>1, <1>4 DEF Runnable
    <3>3. restarts = 0 /\ Runnable(e)' => mem[e].orphan # 0 \/ tmem[TaskOf(e)].exec = e BY <3>1, <3>2 DEF SpeaksFor
    <3> QED BY <1>1, <1>3, <3>3 DEF NoNewClaim
  <2> QED BY <1>1, <1>6, <2>1, ClaimsKept
<1>9. \A f \in Execs : tick' = Recovering(f) => tick = Recovering(f) BY DEF Recovering, Idle
<1> QED BY <1>1, <1>5, <1>6, <1>7, <1>8, <1>9, OnlyOne DEF IInv, ModeAgrees

LEMMA EndsKeeps ==
  ASSUME IInv, NEW e \in Execs, NEW i \in Incs, Ends(e, i)
  PROVE  IInv'
BY ProcessEnds DEF Ends

LEMMA KillDoneKeeps ==
  ASSUME IInv, NEW e \in Execs, KillDone(e)
  PROVE  IInv'
<1>1. 1 \in Incs BY RuntimeAssumption DEF Incs
<1>2. /\ live' = [live EXCEPT ![e] = @ \ {1}] /\ ((1 \in live[e] /\ Verdict(e)) \/ UNCHANGED disk)
      /\ tick' = tick \/ (mode = "up" /\ tick' = Idle)
      /\ UNCHANGED <<cstat, mem, tmem, mode, boot, restarts, strays>>
  BY DEF KillDone
<1> QED BY <1>1, <1>2, ProcessEnds
-----------------------------------------------------------------------------
(* The fork.                                                               *)

(* Nobody speaks for a task whose fork has passed its second check.        *)
LEMMA ForkKept ==
  ASSUME IInv, NEW t \in Tasks, UNCHANGED <<disk, live, mem, tick, mode, boot, restarts, strays>>, TypeOK',
         \A u \in Tasks : tmem'[u].exec = tmem[u].exec /\ (u # t => tmem'[u].fork = tmem[u].fork),
         restarts = 0 => Unchecked(t)' \/ \A e \in Execs : ~SpeaksFor(e, t)
  PROVE  IInv'
<1>1. ModeAgrees' BY DEF IInv, ModeAgrees, Idle
<1>2. ASSUME NEW f \in Execs PROVE ExecAgrees(f)'
  <2>1. strays \subseteq strays' /\ ExecAgrees(f) BY DEF IInv
  <2> QED BY <2>1, OtherAgrees
<1>3. ASSUME restarts = 0 PROVE ClaimsAgree'
  <2>1. \A u \in Tasks, e \in Execs : SpeaksFor(e, u)' <=> SpeaksFor(e, u) BY DEF SpeaksFor, TaskOf
  <2>2. ASSUME NEW e \in Execs, live[e] # {} \/ mem[e].step \in {"wait", "ask", "launch"} PROVE SpeaksFor(e, TaskOf(e))'
    <3>1. SpeaksFor(e, TaskOf(e)) BY <1>3, <2>2 DEF IInv, ClaimsAgree
    <3>2. TaskOf(e) \in Tasks BY <1>3, <2>2, RunnableHasTask
    <3> QED BY <3>1, <3>2 DEF SpeaksFor, TaskOf
  <2>3. \A u \in Tasks, e \in Execs : tmem'[u].exec = e => TaskOf(e)' = u BY <1>3 DEF IInv, ClaimsAgree, TaskOf
  <2>4. \A u \in Tasks, e, f \in Execs : SpeaksFor(e, u)' => Unchecked(u)' /\ (SpeaksFor(f, u)' => e = f)
    <3> SUFFICES ASSUME NEW u \in Tasks, NEW e \in Execs, NEW f \in Execs, SpeaksFor(e, u)'
                 PROVE  Unchecked(u)' /\ (SpeaksFor(f, u)' => e = f)
      OBVIOUS
    <3>1. SpeaksFor(e, u) /\ (SpeaksFor(f, u)' => SpeaksFor(f, u)) BY <2>1
    <3>2. Unchecked(u) /\ (SpeaksFor(f, u) => e = f) BY <1>3, <3>1 DEF IInv, ClaimsAgree
    <3>3. Unchecked(u)' BY <1>3, <3>1, <3>2 DEF Unchecked
    <3> QED BY <3>1, <3>2, <3>3
  <2> QED BY <2>2, <2>3, <2>4 DEF ClaimsAgree
<1> QED BY <1>1, <1>2, <1>3 DEF IInv, ClaimsAgree

LEMMA ForkWritten ==
  ASSUME TypeOK, NEW t \in Tasks, NEW k \in Forks, tmem' = [tmem EXCEPT ![t].fork = k]
  PROVE  /\ tmem' \in [Tasks -> TaskState] /\ tmem'[t].fork = k
         /\ \A u \in Tasks : tmem'[u].exec = tmem[u].exec /\ (u # t => tmem'[u].fork = tmem[u].fork)
<1>1. tmem[t] \in TaskState BY DEF TypeOK
<1>2. [tmem[t] EXCEPT !.fork = k] \in TaskState BY <1>1 DEF TaskState
<1> QED BY <1>2 DEF TypeOK, TaskState

(* The second check sees every executor that speaks for the task: an       *)
(* adopted orphan has its directory, so the snapshot names its task.       *)
LEMMA NotFoundMeansNone ==
  ASSUME IInv, NEW t \in Tasks, ~ExecutorForTask(t)
  PROVE  \A e \in Execs : ~SpeaksFor(e, t)
<1> SUFFICES ASSUME NEW e \in Execs, SpeaksFor(e, t) PROVE FALSE OBVIOUS
<1>1. e # NoExec BY DEF Execs, NoExec
<1>2. TaskOf(e) = t /\ mem[e].orphan # 0 BY <1>1 DEF SpeaksFor, ExecutorForTask
<1>3. disk[e].dir = "active" BY <1>2 DEF IInv, ExecAgrees, StepAgrees
<1> QED BY <1>2, <1>3 DEF ExecutorForTask, Active, InSnapshot, HasDir

LEMMA SpawnBeginsKeeps ==
  ASSUME IInv, NEW t \in Tasks, SpawnBegins(t)
  PROVE  IInv'
<1>1. tmem' = [tmem EXCEPT ![t].fork = "fetch"] BY DEF SpawnBegins
<1>2. UNCHANGED <<cstat, disk, live, mem, tick, mode, boot, restarts, strays>> BY DEF SpawnBegins
<1>3. /\ tmem' \in [Tasks -> TaskState] /\ tmem'[t].fork = "fetch"
      /\ \A u \in Tasks : tmem'[u].exec = tmem[u].exec /\ (u # t => tmem'[u].fork = tmem[u].fork)
  BY <1>1, ForkWritten DEF IInv, Forks
<1>4. TypeOK' BY <1>2, <1>3 DEF IInv, TypeOK
<1>5. Unchecked(t)' BY <1>3 DEF Unchecked
<1> QED BY <1>2, <1>3, <1>4, <1>5, ForkKept

LEMMA SpawnChecksKeeps ==
  ASSUME IInv, NEW t \in Tasks, SpawnChecks(t)
  PROVE  IInv'
<1>1. PICK k \in {"idle", "admit", "launch"} :
        tmem' = [tmem EXCEPT ![t].fork = k] /\ (ExecutorForTask(t) => k = "idle")
  BY DEF SpawnChecks
<1>2. UNCHANGED <<cstat, disk, live, mem, tick, mode, boot, restarts, strays>> BY DEF SpawnChecks
<1>3. /\ tmem' \in [Tasks -> TaskState] /\ tmem'[t].fork = k
      /\ \A u \in Tasks : tmem'[u].exec = tmem[u].exec /\ (u # t => tmem'[u].fork = tmem[u].fork)
  BY <1>1, ForkWritten DEF IInv, Forks
<1>4. TypeOK' BY <1>2, <1>3 DEF IInv, TypeOK
<1>5. Unchecked(t)' \/ \A e \in Execs : ~SpeaksFor(e, t)
  BY <1>1, <1>3, NotFoundMeansNone DEF Unchecked
<1> QED BY <1>2, <1>3, <1>4, <1>5, ForkKept

(* The fork goes on, or is given up: the guard that was passed still holds *)
(* because the claim on the task was taken with it.                        *)
LEMMA ForkMovesKeeps ==
  ASSUME IInv, NEW t \in Tasks, SpawnAdmits(t) \/ SpawnFails(t)
  PROVE  IInv'
<1>1. PICK k \in {"idle", "launch"} : tmem' = [tmem EXCEPT ![t].fork = k] BY DEF SpawnAdmits, SpawnFails
<1>2. UNCHANGED <<disk, live, mem, tick, mode, boot, restarts, strays>> /\ ~Unchecked(t)
  BY DEF SpawnAdmits, SpawnFails, Unchecked
<1>3. /\ tmem' \in [Tasks -> TaskState]
      /\ \A u \in Tasks : tmem'[u].exec = tmem[u].exec /\ (u # t => tmem'[u].fork = tmem[u].fork)
  BY <1>1, ForkWritten DEF IInv, Forks
<1>4. cstat' \in [Tasks -> CenterStatuses]
  <2>1. cstat \in [Tasks -> CenterStatuses] BY DEF IInv, TypeOK
  <2> QED BY <2>1 DEF SpawnAdmits, SpawnFails, Blocked, CenterStatuses
<1>5. TypeOK' BY <1>2, <1>3, <1>4 DEF IInv, TypeOK
<1>6. restarts = 0 => \A e \in Execs : ~SpeaksFor(e, t) BY <1>2 DEF IInv, ClaimsAgree
<1> QED BY <1>2, <1>3, <1>5, <1>6, ForkKept

(* A fork takes a directory nobody used, and from then on its executor     *)
(* speaks for the task.                                                    *)
LEMMA SpawnLaunchesKeeps ==
  ASSUME IInv, NEW t \in Tasks, SpawnLaunches(t)
  PROVE  IInv'
<1>0. PICK n : n = Min(FreeSlots) OBVIOUS
<1>1. PICK e \in Execs :
        /\ {f \in Execs : disk[f] # NoFile} = 1..(e - 1)
        /\ disk' = [disk EXCEPT ![e] = [task |-> t, dir |-> "active", verdict |-> FALSE, slot |-> n, pids |-> 1]]
        /\ live' = [live EXCEPT ![e] = {1}]
        /\ mem' = [mem EXCEPT ![e] = [Unknown EXCEPT !.slot = n, !.handle = TRUE, !.step = "wait"]]
        /\ tmem' = [tmem EXCEPT ![t].fork = "idle", ![t].exec = e]
  BY <1>0 DEF SpawnLaunches
<1>2. /\ UNCHANGED <<cstat, tick, mode, boot, restarts, strays>>
      /\ mode = "up" /\ tmem[t].fork = "launch" /\ FreeSlots # {}
  BY DEF SpawnLaunches
<1>3. TypeOK /\ ExecAgrees(e) /\ ModeAgrees BY DEF IInv
<1>4. disk[e].dir = "none" /\ TaskOf(e) = NoTask
  <2>1. e \in Nat /\ e \notin 1..(e - 1) BY DEF Execs
  <2>2. disk[e] = NoFile BY <1>1, <2>1
  <2> QED BY <2>2 DEF NoFile, TaskOf
<1>5. mem[e].step = "idle" BY <1>3, <1>4 DEF ExecAgrees, StepAgrees, TypeOK, MemState, Steps
<1>6. n \in 1..Cap BY <1>0, <1>2, LowestFreeSlot
<1>7. /\ disk' \in [Execs -> DiskState] /\ TaskOf(e)' = t
      /\ disk'[e].dir = "active" /\ ~disk'[e].verdict /\ disk'[e].pids = 1
      /\ \A f \in Execs : f # e => disk'[f] = disk[f]
  <2> DEFINE d == [task |-> t, dir |-> "active", verdict |-> FALSE, slot |-> n, pids |-> 1]
  <2>1. d \in DiskState /\ d.task = t /\ d.dir = "active" /\ ~d.verdict /\ d.pids = 1
    BY <1>6, RuntimeAssumption DEF DiskState, Dirs
  <2>2. disk' = [disk EXCEPT ![e] = d] BY <1>1
  <2> HIDE DEF d
  <2> QED BY <1>3, <2>1, <2>2 DEF TypeOK, TaskOf
<1>8. /\ live' \in [Execs -> SUBSET Incs] /\ live'[e] = {1} /\ \A f \in Execs : f # e => live'[f] = live[f]
  <2>1. 1 \in Incs BY RuntimeAssumption DEF Incs
  <2> QED BY <1>1, <1>3, <2>1 DEF TypeOK
<1>9. /\ mem' \in [Execs -> MemState] /\ mem'[e].orphan = 0 /\ mem'[e].step = "wait" /\ mem'[e].handle
      /\ \A f \in Execs : f # e => mem'[f] = mem[f]
  <2> DEFINE m == [Unknown EXCEPT !.slot = n, !.handle = TRUE, !.step = "wait"]
  <2>1. Unknown \in MemState BY RuntimeAssumption DEF Unknown, MemState, Steps
  <2>2. n \in 0..Cap BY <1>6, RuntimeAssumption
  <2>3. m \in MemState /\ m.orphan = 0 /\ m.step = "wait" /\ m.handle
    <3>1. m \in MemState /\ m.orphan = Unknown.orphan /\ m.step = "wait" /\ m.handle
      BY <2>1, <2>2 DEF MemState, Steps
    <3> QED BY <3>1 DEF Unknown
  <2>4. mem' = [mem EXCEPT ![e] = m] BY <1>1
  <2> HIDE DEF m
  <2> QED BY <1>3, <2>3, <2>4 DEF TypeOK
<1>10. /\ tmem' \in [Tasks -> TaskState] /\ tmem'[t].fork = "idle" /\ tmem'[t].exec = e
       /\ \A u \in Tasks : u # t => tmem'[u] = tmem[u]
  <2>1. tmem[t] \in TaskState BY <1>3 DEF TypeOK
  <2> DEFINE r == [tmem[t] EXCEPT !.fork = "idle", !.exec = e]
  <2>2. r \in TaskState /\ r.fork = "idle" /\ r.exec = e BY <2>1 DEF TaskState, Forks
  <2>3. tmem' = [tmem EXCEPT ![t] = r] BY <1>1, <1>3 DEF TypeOK
  <2> HIDE DEF r
  <2> QED BY <1>3, <2>2, <2>3 DEF TypeOK
<1>11. TypeOK' BY <1>2, <1>3, <1>7, <1>8, <1>9, <1>10 DEF TypeOK
<1>12. Only(e) BY <1>2, <1>7, <1>8, <1>9 DEF Only
<1>13. ExecAgrees(e)'
  <2>1. SlotIsOwned(e)' BY <1>9 DEF SlotIsOwned
  <2>2. PidsAgree(e)' BY <1>7, <1>8, <1>9 DEF PidsAgree
  <2>3. StepAgrees(e)' BY <1>2, <1>3, <1>5, <1>7, <1>9 DEF StepAgrees, ExecAgrees, Recovering
  <2>4. BootAgrees(e)' BY <1>2, <1>3 DEF BootAgrees, ExecAgrees
  <2>5. LiveAgrees(e)' BY <1>7, <1>8, <1>9 DEF LiveAgrees
  <2> QED BY <2>1, <2>2, <2>3, <2>4, <2>5 DEF ExecAgrees
<1>14. ASSUME restarts = 0 PROVE ClaimsAgree'
  <2>1. /\ \A u \in Tasks, f \in Execs : tmem[u].exec = f => TaskOf(f) = u
        /\ \A f \in Execs : live[f] # {} \/ mem[f].step \in {"wait", "ask", "launch"} => SpeaksFor(f, TaskOf(f))
        /\ \A u \in Tasks, f, g \in Execs : SpeaksFor(f, u) => Unchecked(u) /\ (SpeaksFor(g, u) => f = g)
    BY <1>14 DEF IInv, ClaimsAgree
  <2>2. \A f \in Execs : ~SpeaksFor(f, t) BY <1>2, <2>1 DEF Unchecked
  <2>3. \A f \in Execs : f # e => TaskOf(f)' = TaskOf(f) BY <1>7 DEF TaskOf
  <2>4. ~(NoTask \in Tasks) BY RuntimeAssumption
  <2>5. \A u \in Tasks, f \in Execs : tmem'[u].exec = f => TaskOf(f)' = u
    <3> SUFFICES ASSUME NEW u \in Tasks, NEW f \in Execs, tmem'[u].exec = f PROVE TaskOf(f)' = u OBVIOUS
    <3>1. CASE u = t BY <1>7, <1>10, <3>1
    <3>2. CASE u # t
      <4>1. TaskOf(f) = u BY <1>10, <2>1, <3>2
      <4> QED BY <1>4, <2>3, <2>4, <4>1
    <3> QED BY <3>1, <3>2
  <2>6. \A u \in Tasks, f \in Execs : SpeaksFor(f, u)' => (f = e /\ u = t) \/ (f # e /\ u # t /\ SpeaksFor(f, u))
    <3> SUFFICES ASSUME NEW u \in Tasks, NEW f \in Execs, SpeaksFor(f, u)'
                 PROVE  (f = e /\ u = t) \/ (f # e /\ u # t /\ SpeaksFor(f, u))
      OBVIOUS
    <3>1. TaskOf(f)' = u /\ (mem'[f].orphan # 0 \/ tmem'[u].exec = f) BY DEF SpeaksFor
    <3>2. CASE f = e BY <1>7, <3>1, <3>2
    <3>3. CASE f # e
      <4>1. u = t => mem[f].orphan # 0 /\ TaskOf(f) = t BY <1>9, <1>10, <2>3, <3>1, <3>3
      <4>2. u # t BY <2>2, <4>1 DEF SpeaksFor
      <4> QED BY <1>9, <1>10, <2>3, <3>1, <3>3, <4>2 DEF SpeaksFor
    <3> QED BY <3>2, <3>3
  <2>7. ASSUME NEW f \in Execs, live'[f] # {} \/ mem'[f].step \in {"wait", "ask", "launch"}
        PROVE  SpeaksFor(f, TaskOf(f))'
    <3>1. CASE f = e BY <1>7, <1>10, <3>1 DEF SpeaksFor
    <3>2. CASE f # e
      <4>1. SpeaksFor(f, TaskOf(f)) BY <1>8, <1>9, <2>1, <2>7, <3>2
      <4>2. mem[f].orphan # 0 \/ tmem[TaskOf(f)].exec = f BY <4>1 DEF SpeaksFor
      <4>3. TaskOf(f) # t BY <2>2, <4>1
      <4>4. TaskOf(f) \in Tasks BY <1>8, <1>9, <1>14, <2>7, <3>2, RunnableHasTask
      <4>5. mem'[f].orphan = mem[f].orphan /\ tmem'[TaskOf(f)] = tmem[TaskOf(f)] BY <1>9, <1>10, <3>2, <4>3, <4>4
      <4> QED BY <2>3, <3>2, <4>2, <4>5 DEF SpeaksFor
    <3> QED BY <3>1, <3>2
  <2>8. \A u \in Tasks, f, g \in Execs : SpeaksFor(f, u)' => Unchecked(u)' /\ (SpeaksFor(g, u)' => f = g)
    <3> SUFFICES ASSUME NEW u \in Tasks, NEW f \in Execs, NEW g \in Execs, SpeaksFor(f, u)'
                 PROVE  Unchecked(u)' /\ (SpeaksFor(g, u)' => f = g)
      OBVIOUS
    <3>1. CASE u = t BY <1>10, <2>6, <3>1 DEF Unchecked
    <3>2. CASE u # t
      <4>1. SpeaksFor(f, u) /\ (SpeaksFor(g, u)' => SpeaksFor(g, u)) BY <2>6, <3>2
      <4> QED BY <1>10, <2>1, <3>2, <4>1 DEF Unchecked
    <3> QED BY <3>1, <3>2
  <2> QED BY <2>5, <2>7, <2>8 DEF ClaimsAgree
<1>15. ClaimsAgree' BY <1>2, <1>14 DEF ClaimsAgree
<1> QED BY <1>2, <1>3, <1>11, <1>12, <1>13, <1>15, OnlyOne DEF ModeAgrees
-----------------------------------------------------------------------------
(* The end of an executor.                                                 *)

(* What a step writes of the runtime's memory of one executor.             *)
LEMMA MemWritten ==
  ASSUME TypeOK, NEW e \in Execs, NEW m \in MemState, mem' = [mem EXCEPT ![e] = m]
  PROVE  mem' \in [Execs -> MemState] /\ mem'[e] = m /\ \A f \in Execs : f # e => mem'[f] = mem[f]
BY DEF TypeOK

LEMMA StepWritten ==
  ASSUME TypeOK, NEW e \in Execs, NEW k \in Steps, mem' = [mem EXCEPT ![e].step = k]
  PROVE  /\ mem' \in [Execs -> MemState] /\ \A f \in Execs : f # e => mem'[f] = mem[f]
         /\ mem'[e].step = k /\ mem'[e].slot = mem[e].slot /\ mem'[e].orphan = mem[e].orphan
<1>1. mem[e] \in MemState BY DEF TypeOK
<1>2. [mem[e] EXCEPT !.step = k] \in MemState BY <1>1 DEF MemState
<1> QED BY <1>1, <1>2 DEF TypeOK, MemState

(* The tick goes on after the recovery of an orphan.                       *)
LEMMA ReturnsWritten ==
  ASSUME TypeOK, NEW e \in Execs, Returns(e)
  PROVE  tick' \in Jobs /\ tick' \in {tick, Idle} /\ tick' # Recovering(e)
<1>1. Idle \in Jobs /\ Idle # Recovering(e) BY DEF Jobs, Idle, Recovering
<1> QED BY <1>1 DEF Returns, TypeOK

(* The registry forgets an executor, and nothing else of the forks.        *)
Unclaims(e) ==
  \A t \in Tasks : /\ tmem'[t].fork = tmem[t].fork
                   /\ tmem'[t].exec = tmem[t].exec \/ (tmem[t].exec = e /\ tmem'[t].exec = NoExec)

LEMMA UntrackWritten ==
  ASSUME TypeOK, NEW e \in Execs, NEW u \in Tasks,
         \/ tmem' = [tmem EXCEPT ![u] = Untracked(u, e)]
         \/ tmem' = [tmem EXCEPT ![u] = NoBudget(Untracked(u, e))]
  PROVE  tmem' \in [Tasks -> TaskState] /\ Unclaims(e)
<1>1. PICK r \in {Untracked(u, e), NoBudget(Untracked(u, e))} : tmem' = [tmem EXCEPT ![u] = r] OBVIOUS
<1>2. /\ r \in TaskState /\ r.fork = tmem[u].fork
      /\ r.exec = tmem[u].exec \/ (tmem[u].exec = e /\ r.exec = NoExec)
  BY <1>1, UntrackedRecord
<1>3. tmem' \in [Tasks -> TaskState] /\ \A t \in Tasks : tmem'[t] = IF t = u THEN r ELSE tmem[t]
  BY <1>1, <1>2, TaskWritten
<1> QED BY <1>2, <1>3 DEF Unclaims

(* Once an executor has ended, the step that follows may write what it     *)
(* likes of the directory and of the slot, as long as what it holds is     *)
(* accounted for.                                                          *)
LEMMA AfterDeath ==
  ASSUME IInv, NEW e \in Execs, mode = "up", mem[e].step \notin {"idle", "wait"},
         Only(e), UNCHANGED <<live, mode, boot, restarts, strays>>, tick' \in {tick, Idle},
         disk'[e].task = disk[e].task, disk'[e].pids = disk[e].pids,
         mem'[e].orphan = mem[e].orphan \/ mem'[e].orphan = 0, Unclaims(e),
         mem'[e].step \in {"wait", "ask", "launch"} =>
           mem[e].step = "ask" /\ mem'[e].orphan = mem[e].orphan /\ tmem'[TaskOf(e)].exec = tmem[TaskOf(e)].exec,
         TypeOK', SlotIsOwned(e)', StepAgrees(e)'
  PROVE  IInv'
<1>1. TypeOK /\ ExecAgrees(e) /\ ModeAgrees BY DEF IInv
<1>2. Ended(e) /\ Ended(e)' /\ disk[e].dir # "none" BY <1>1 DEF ExecAgrees, StepAgrees, Ended
<1>3. ExecAgrees(e)'
  <2>1. PidsAgree(e)'
    <3>1. PidsAgree(e) /\ 1 \notin live[e] BY <1>1, <1>2 DEF ExecAgrees, Ended
    <3>2. disk[e].pids \in Nat BY <1>1 DEF TypeOK, DiskState
    <3> QED BY <1>2, <3>1, <3>2 DEF PidsAgree, TaskOf
  <2>2. BootAgrees(e)' BY <1>1 DEF ExecAgrees, BootAgrees
  <2>3. LiveAgrees(e)' BY <1>2 DEF LiveAgrees, Ended
  <2> QED BY <2>1, <2>2, <2>3 DEF ExecAgrees
<1>4. \A f \in Execs : tick' = Recovering(f) => tick = Recovering(f) BY DEF Idle, Recovering
<1>5. ASSUME restarts = 0 PROVE NoNewClaim(e)
  <2>1. live[e] = {} BY <1>1, <1>2, <1>5 DEF Ended, ModeAgrees
  <2>2. mem[e].step = "ask" => SpeaksFor(e, TaskOf(e)) BY <1>5 DEF IInv, ClaimsAgree
  <2>3. Runnable(e)' => mem'[e].orphan # 0 \/ tmem'[TaskOf(e)].exec = e BY <2>1, <2>2 DEF Runnable, SpeaksFor
  <2> QED BY <2>3 DEF NoNewClaim, Unclaims
<1>6. ClaimsAgree' BY <1>5, ClaimsKept
<1> QED BY <1>1, <1>3, <1>4, <1>6, OnlyOne DEF ModeAgrees

(* Finalize gives the slot back, or leaves a directory nobody reported.    *)
LEMMA FinalizeWritten ==
  ASSUME TypeOK, NEW e \in Execs, NEW k \in Steps, Finalize(e, k)
  PROVE  /\ mem' \in [Execs -> MemState] /\ disk' \in [Execs -> DiskState]
         /\ \A f \in Execs : f # e => mem'[f] = mem[f] /\ disk'[f] = disk[f]
         /\ mem'[e].step = k /\ mem'[e].orphan = 0
         /\ mem'[e].slot = 0 \/ disk'[e].dir = "unreported"
         /\ disk'[e].task = disk[e].task /\ disk'[e].pids = disk[e].pids
         /\ disk'[e].dir \in {disk[e].dir, "finalized", "unreported"}
<1>1. mem[e] \in MemState /\ disk[e] \in DiskState /\ 0 \in 0..Cap /\ 0 \in 0..MaxIncarnations
  BY RuntimeAssumption DEF TypeOK
<1>2. CASE /\ mem' = [mem EXCEPT ![e] = [Forgotten(@) EXCEPT !.step = k]]
           /\ Sealed(e, "finalized") \/ UNCHANGED disk
  <2>1. PICK m : m = [Forgotten(mem[e]) EXCEPT !.step = k] OBVIOUS
  <2>2. m \in MemState /\ m.step = k /\ m.orphan = 0 /\ m.slot = 0
    BY <1>1, <2>1 DEF MemState, Forgotten, Steps
  <2>3. mem' = [mem EXCEPT ![e] = m] BY <1>2, <2>1
  <2>4. mem' \in [Execs -> MemState] /\ mem'[e] = m /\ \A f \in Execs : f # e => mem'[f] = mem[f]
    BY <2>2, <2>3, MemWritten
  <2>5. CASE Sealed(e, "finalized")
    <3>1. "finalized" \in Dirs BY DEF Dirs
    <3> QED BY <2>2, <2>4, <2>5, <3>1, DirSealed
  <2>6. CASE UNCHANGED disk BY <2>2, <2>4, <2>6 DEF TypeOK
  <2> QED BY <1>2, <2>5, <2>6
<1>3. CASE /\ mem' = [mem EXCEPT ![e].orphan = 0, ![e].step = k]
           /\ disk' = [disk EXCEPT ![e].dir = "unreported"]
  <2>1. PICK m : m = [mem[e] EXCEPT !.orphan = 0, !.step = k] OBVIOUS
  <2>2. m \in MemState /\ m.step = k /\ m.orphan = 0 BY <1>1, <2>1 DEF MemState
  <2>3. mem' = [mem EXCEPT ![e] = m] BY <1>3, <2>1 DEF TypeOK
  <2>4. mem' \in [Execs -> MemState] /\ mem'[e] = m /\ \A f \in Execs : f # e => mem'[f] = mem[f]
    BY <2>2, <2>3, MemWritten
  <2>5. PICK d : d = [disk[e] EXCEPT !.dir = "unreported"] OBVIOUS
  <2>6. d \in DiskState /\ d.dir = "unreported" /\ d.task = disk[e].task /\ d.pids = disk[e].pids
    BY <1>1, <2>5 DEF DiskState, Dirs
  <2>7. disk' = [disk EXCEPT ![e] = d] BY <1>3, <2>5
  <2> QED BY <2>2, <2>4, <2>6, <2>7 DEF TypeOK
<1> QED BY <1>2, <1>3 DEF Finalize

LEMMA FinalizeFusedKeeps ==
  ASSUME IInv, NEW e \in Execs, FinalizeFused(e)
  PROVE  IInv'
<1>1. /\ mode = "up" /\ mem[e].step = "fused" /\ Sealed(e, "finalized") /\ Returns(e)
      /\ UNCHANGED <<cstat, live, mode, boot, restarts, strays>>
  BY DEF FinalizeFused
<1>2. TypeOK /\ ExecAgrees(e) /\ mem[e] \in MemState /\ "finalized" \in Dirs BY DEF IInv, TypeOK, Dirs
<1>3. PICK u, m : u = TaskOf(e) /\ m = [Forgotten(mem[e]) EXCEPT !.fused = FALSE] OBVIOUS
<1>4. u \in Tasks BY <1>1, <1>2, <1>3 DEF ExecAgrees, StepAgrees, PidsAgree
<1>5. tmem' \in [Tasks -> TaskState] /\ Unclaims(e)
  <2>1. tmem' = [tmem EXCEPT ![u] = NoBudget(Untracked(u, e))] BY <1>3 DEF FinalizeFused
  <2> QED BY <1>2, <1>4, <2>1, UntrackWritten
<1>6. m \in MemState /\ m.step = "idle" /\ m.orphan = 0 /\ m.slot = 0
  <2>1. PICK k : k = Forgotten(mem[e]) OBVIOUS
  <2>2. 0 \in 0..Cap /\ 0 \in 0..MaxIncarnations BY RuntimeAssumption
  <2>3. k \in MemState /\ k.step = "idle" /\ k.orphan = 0 /\ k.slot = 0
    BY <1>2, <2>1, <2>2 DEF MemState, Forgotten, Steps
  <2> QED BY <1>3, <2>1, <2>3 DEF MemState
<1>7. mem' = [mem EXCEPT ![e] = m] BY <1>3 DEF FinalizeFused
<1>8. mem' \in [Execs -> MemState] /\ mem'[e] = m /\ \A f \in Execs : f # e => mem'[f] = mem[f]
  BY <1>2, <1>6, <1>7, MemWritten
<1>9. /\ disk' \in [Execs -> DiskState] /\ \A f \in Execs : f # e => disk'[f] = disk[f]
      /\ disk'[e].dir = "finalized" /\ disk'[e].task = disk[e].task /\ disk'[e].pids = disk[e].pids
  BY <1>1, <1>2, DirSealed
<1>10. tick' \in Jobs /\ tick' \in {tick, Idle} /\ tick' # Recovering(e) BY <1>1, <1>2, ReturnsWritten
<1>11. TypeOK' BY <1>1, <1>2, <1>5, <1>8, <1>9, <1>10 DEF TypeOK
<1>12. Only(e) BY <1>1, <1>8, <1>9 DEF Only
<1>13. SlotIsOwned(e)' BY <1>6, <1>8 DEF SlotIsOwned
<1>14. StepAgrees(e)' BY <1>6, <1>8, <1>10 DEF StepAgrees, Recovering
<1> QED BY <1>1, <1>5, <1>6, <1>8, <1>9, <1>10, <1>11, <1>12, <1>13, <1>14, AfterDeath

(* What is decided of a death keeps the slot and what was polled.          *)
LEMMA HandlingWritten ==
  ASSUME TypeOK, NEW e \in Execs, NEW b \in BOOLEAN, disk' \in [Execs -> DiskState]
  PROVE  LET m == Handling(e, b) IN
         /\ m \in MemState /\ m.step \in {"fused", "ask", "report"}
         /\ m.slot = mem[e].slot /\ m.orphan = mem[e].orphan
<1>1. mem[e] \in MemState BY DEF TypeOK
<1>2. PICK k : k = IF mem[e].fused THEN "fused" ELSE IF b \/ ~disk'[e].verdict THEN "ask" ELSE "report" OBVIOUS
<1>3. PICK c : c = IF b THEN "stall" ELSE IF disk'[e].verdict THEN "verdict" ELSE "crash" OBVIOUS
<1>4. k \in {"fused", "ask", "report"} /\ c \in {"verdict", "crash", "stall"} BY <1>2, <1>3, Zenon
<1>5. Handling(e, b) = [mem[e] EXCEPT !.step = k, !.cause = c] BY <1>2, <1>3 DEF Handling
<1>6. PICK m : m = [mem[e] EXCEPT !.step = k, !.cause = c] OBVIOUS
<1>7. m \in MemState /\ m.step = k /\ m.slot = mem[e].slot /\ m.orphan = mem[e].orphan
  BY <1>1, <1>4, <1>6 DEF MemState, Steps
<1> QED BY <1>4, <1>5, <1>6, <1>7

(* The drain takes over: the forked process was the only one that no       *)
(* restart lost.                                                           *)
LEMMA DrainHarvestsKeeps ==
  ASSUME IInv, NEW e \in Execs, DrainHarvests(e)
  PROVE  IInv'
<1>1. /\ mode = "up" /\ mem[e].step = "wait" /\ 1 \notin live[e]
      /\ UNCHANGED <<cstat, disk, live, tmem, tick, mode, boot, restarts, strays>>
  BY DEF DrainHarvests
<1>2. TypeOK /\ ExecAgrees(e) /\ ModeAgrees /\ mem[e] \in MemState /\ mem[e].stalled \in BOOLEAN
  BY DEF IInv, TypeOK, MemState
<1>3. PICK m : m = Handling(e, mem[e].stalled) OBVIOUS
<1>4. m \in MemState /\ m.step \in {"fused", "ask", "report"} /\ m.slot = mem[e].slot /\ m.orphan = mem[e].orphan
  <2>1. disk' \in [Execs -> DiskState] BY <1>1, <1>2 DEF TypeOK
  <2> QED BY <1>2, <1>3, <2>1, HandlingWritten
<1>5. mem' = [mem EXCEPT ![e] = m] BY <1>1, <1>3 DEF DrainHarvests
<1>6. mem' \in [Execs -> MemState] /\ mem'[e] = m /\ \A f \in Execs : f # e => mem'[f] = mem[f]
  BY <1>2, <1>4, <1>5, MemWritten
<1>7. mem[e].orphan = 0 /\ disk[e].dir = "active" /\ tick # Recovering(e) /\ boot[e] = "none"
  BY <1>1, <1>2 DEF ExecAgrees, StepAgrees, BootAgrees
<1>8. Ended(e)
  <2> SUFFICES ASSUME NEW i \in live[e] PROVE i # 1 /\ <<e, i>> \in strays BY DEF Ended
  <2>1. i \in Nat /\ i # 0 /\ i # 1 BY <1>1, <1>2 DEF TypeOK, Incs
  <2> QED BY <1>2, <1>7, <2>1 DEF ExecAgrees, LiveAgrees
<1>9. TypeOK' BY <1>1, <1>2, <1>6 DEF TypeOK
<1>10. Only(e) BY <1>1, <1>6 DEF Only
<1>11. ExecAgrees(e)'
  <2>1. SlotIsOwned(e)' BY <1>4, <1>6 DEF SlotIsOwned
  <2>2. PidsAgree(e)' BY <1>1, <1>2, <1>4, <1>6 DEF ExecAgrees, PidsAgree, TaskOf
  <2>3. Ended(e)' BY <1>1, <1>8 DEF Ended
  <2>4. StepAgrees(e)' BY <1>1, <1>4, <1>6, <1>7, <2>3 DEF StepAgrees, Recovering
  <2>5. BootAgrees(e)' BY <1>1, <1>7 DEF BootAgrees
  <2>6. LiveAgrees(e)' BY <2>3 DEF LiveAgrees, Ended
  <2> QED BY <2>1, <2>2, <2>4, <2>5, <2>6 DEF ExecAgrees
<1>12. restarts = 0 => NoNewClaim(e)
  <2>1. restarts = 0 => SpeaksFor(e, TaskOf(e)) BY <1>1 DEF IInv, ClaimsAgree
  <2> QED BY <1>1, <1>4, <1>6, <2>1 DEF NoNewClaim, SpeaksFor
<1>13. ClaimsAgree' BY <1>1, <1>10, <1>12, ClaimsKept
<1> QED BY <1>1, <1>2, <1>9, <1>10, <1>11, <1>13, OnlyOne DEF ModeAgrees

(* The poll of an orphan: its process is gone, or is stopped; there is no  *)
(* first process besides it.                                               *)
LEMMA OrphanPollKeeps ==
  ASSUME IInv, NEW e \in Execs, OrphanPoll(e)
  PROVE  IInv'
<1>1. /\ mode = "up" /\ tick = Idle /\ mem[e].step = "idle" /\ mem[e].orphan # 0 /\ tick' = Recovering(e)
      /\ UNCHANGED <<cstat, tmem, mode, boot, restarts, strays>>
  BY DEF OrphanPoll
<1>2. TypeOK /\ ExecAgrees(e) /\ ModeAgrees /\ mem[e] \in MemState /\ disk[e] \in DiskState
  BY DEF IInv, TypeOK
<1>3. PICK o : o = mem[e].orphan OBVIOUS
<1>4. PICK b \in BOOLEAN :
        /\ \/ live' = live /\ disk' = disk /\ o \notin live[e]
           \/ live' = [live EXCEPT ![e] = @ \ {o}] /\ Verdict(e)
        /\ mem' = [mem EXCEPT ![e] = Handling(e, b)]
  BY <1>3 DEF OrphanPoll
<1>5. /\ disk' \in [Execs -> DiskState] /\ \A f \in Execs : f # e => disk'[f] = disk[f]
      /\ disk'[e].dir = disk[e].dir /\ disk'[e].task = disk[e].task /\ disk'[e].pids = disk[e].pids
  <2>1. CASE Verdict(e) BY <1>2, <2>1, VerdictWritten
  <2>2. CASE disk' = disk BY <1>2, <2>2 DEF TypeOK
  <2> QED BY <1>4, <2>1, <2>2
<1>6. /\ live' \in [Execs -> SUBSET Incs] /\ live'[e] = live[e] \ {o}
      /\ \A f \in Execs : f # e => live'[f] = live[f]
  BY <1>2, <1>4 DEF TypeOK
<1>7. PICK m : m = Handling(e, b) OBVIOUS
<1>8. m \in MemState /\ m.step \in {"fused", "ask", "report"} /\ m.slot = mem[e].slot /\ m.orphan = o
  BY <1>2, <1>3, <1>4, <1>5, <1>7, HandlingWritten
<1>9. mem' = [mem EXCEPT ![e] = m] BY <1>4, <1>7
<1>10. mem' \in [Execs -> MemState] /\ mem'[e] = m /\ \A f \in Execs : f # e => mem'[f] = mem[f]
  BY <1>2, <1>8, <1>9, MemWritten
<1>11. disk[e].dir = "active" /\ boot[e] = "none" BY <1>1, <1>2 DEF ExecAgrees, StepAgrees, BootAgrees
<1>12. o \in Nat /\ o # 0 /\ disk[e].pids \in Nat /\ o <= disk[e].pids /\ live[e] \subseteq 1..disk[e].pids
  BY <1>1, <1>2, <1>3 DEF MemState, DiskState, ExecAgrees, PidsAgree
<1>13. 1 \notin live'[e]
  <2>1. 1 \in live[e] => o = 1 BY <1>2, <1>12 DEF ExecAgrees, PidsAgree
  <2> QED BY <1>6, <2>1
<1>14. Ended(e)'
  <2> SUFFICES ASSUME NEW i \in live'[e] PROVE i # 1 /\ <<e, i>> \in strays BY <1>1 DEF Ended
  <2>1. i \in live[e] /\ i # o /\ i # 1 BY <1>6, <1>13
  <2> QED BY <1>1, <1>2, <1>3, <1>11, <2>1 DEF ExecAgrees, LiveAgrees
<1>15. Recovering(e) \in Jobs /\ \A f \in Execs : Recovering(f) = Recovering(e) => f = e
  <2>1. \A f \in Execs : Recovering(f) = Recovering(e) => Recovering(f).exec = Recovering(e).exec OBVIOUS
  <2>2. \A f \in Execs : Recovering(f).exec = f BY DEF Recovering
  <2>3. Recovering(e) \in Jobs BY DEF Recovering, Jobs
  <2> QED BY <2>1, <2>2, <2>3
<1>16. TypeOK' BY <1>1, <1>2, <1>5, <1>6, <1>10, <1>15 DEF TypeOK
<1>17. Only(e) BY <1>1, <1>5, <1>6, <1>10 DEF Only
<1>18. ExecAgrees(e)'
  <2>1. SlotIsOwned(e)' BY <1>8, <1>10 DEF SlotIsOwned
  <2>2. PidsAgree(e)' BY <1>2, <1>5, <1>6, <1>8, <1>10, <1>12, <1>13 DEF ExecAgrees, PidsAgree, TaskOf
  <2>3. StepAgrees(e)' BY <1>5, <1>8, <1>10, <1>11, <1>12, <1>14 DEF StepAgrees
  <2>4. BootAgrees(e)' BY <1>1, <1>11 DEF BootAgrees
  <2>5. LiveAgrees(e)' BY <1>14 DEF LiveAgrees, Ended
  <2> QED BY <2>1, <2>2, <2>3, <2>4, <2>5 DEF ExecAgrees
<1>19. NoNewClaim(e) BY <1>1, <1>3, <1>5, <1>8, <1>10, <1>12 DEF NoNewClaim
<1>20. ClaimsAgree' BY <1>1, <1>17, <1>19, ClaimsKept
<1> QED BY <1>1, <1>2, <1>15, <1>16, <1>17, <1>18, <1>20, OnlyOne DEF ModeAgrees
-----------------------------------------------------------------------------
(* Point recovery.                                                         *)
LEMMA AskKeeps ==
  ASSUME IInv, NEW e \in Execs, Ask(e)
  PROVE  IInv'
<1>1. /\ mode = "up" /\ mem[e].step = "ask"
      /\ UNCHANGED <<cstat, disk, live, tick, mode, boot, restarts, strays>>
  BY DEF Ask
<1>2. TypeOK /\ ExecAgrees(e) /\ mem[e] \in MemState /\ disk[e].dir = "active"
  BY <1>1 DEF IInv, TypeOK, ExecAgrees, StepAgrees
<1>3. PICK t : t = TaskOf(e) OBVIOUS
<1>4. t \in Tasks BY <1>2, <1>3 DEF ExecAgrees, PidsAgree
<1>5. tmem' \in [Tasks -> TaskState] /\ \A u \in Tasks : tmem'[u].fork = tmem[u].fork /\ tmem'[u].exec = tmem[u].exec
  <2>1. CASE UNCHANGED tmem BY <1>2, <2>1 DEF TypeOK
  <2>2. CASE BudgetLeft(t, mem[e].cause) /\ tmem' = [tmem EXCEPT ![t] = Consumed(@, mem[e].cause)]
    <3>1. PICK r : r = Consumed(tmem[t], mem[e].cause) OBVIOUS
    <3>2. tmem[t] \in TaskState BY <1>2, <1>4 DEF TypeOK
    <3>3. r \in TaskState /\ r.fork = tmem[t].fork /\ r.exec = tmem[t].exec
      <4>1. CASE mem[e].cause = "stall"
        <5>1. r = [tmem[t] EXCEPT !.stall = @ + 1] /\ tmem[t].stall < MaxStallRecover
          BY <2>2, <3>1, <4>1 DEF BudgetLeft, Consumed
        <5> QED BY <3>2, <5>1, RuntimeAssumption DEF TaskState
      <4>2. CASE mem[e].cause # "stall"
        <5>1. r = [tmem[t] EXCEPT !.crash = @ + 1] /\ tmem[t].crash < MaxCrashRecover
          BY <2>2, <3>1, <4>2 DEF BudgetLeft, Consumed
        <5> QED BY <3>2, <5>1, RuntimeAssumption DEF TaskState
      <4> QED BY <4>1, <4>2
    <3>4. tmem' = [tmem EXCEPT ![t] = r] BY <2>2, <3>1
    <3> QED BY <1>2, <3>3, <3>4, TaskWritten
  <2> QED BY <1>3, <2>1, <2>2 DEF Ask
<1>6. /\ mem' \in [Execs -> MemState] /\ \A f \in Execs : f # e => mem'[f] = mem[f]
      /\ mem'[e].step \in {"report", "exhaust", "launch"} /\ mem'[e].orphan = mem[e].orphan
      /\ mem'[e].step = "launch" => mem'[e].slot = 0 \/ mem'[e].orphan # 0
  <2>1. CASE mem' = [mem EXCEPT ![e].step = "report"]
    <3>1. "report" \in Steps BY DEF Steps
    <3> QED BY <1>2, <2>1, <3>1, StepWritten
  <2>2. CASE mem' = [mem EXCEPT ![e].step = "exhaust"]
    <3>1. "exhaust" \in Steps BY DEF Steps
    <3> QED BY <1>2, <2>2, <3>1, StepWritten
  <2>3. CASE mem' = [mem EXCEPT ![e] = [Released(e) EXCEPT !.step = "launch"]]
    <3>1. PICK k : k = Released(e) OBVIOUS
    <3>2. k \in MemState /\ k.orphan = mem[e].orphan /\ (k.slot = 0 \/ k.orphan # 0)
      <4>1. CASE tick = Recovering(e)
        <5>1. k = mem[e] /\ mem[e].orphan # 0 BY <1>1, <1>2, <3>1, <4>1 DEF Released, ExecAgrees, StepAgrees
        <5> QED BY <1>2, <5>1
      <4>2. CASE tick # Recovering(e)
        <5>1. k = [mem[e] EXCEPT !.slot = 0, !.handle = FALSE, !.stalled = FALSE] BY <3>1, <4>2 DEF Released
        <5>2. 0 \in 0..Cap BY RuntimeAssumption
        <5> QED BY <1>2, <5>1, <5>2 DEF MemState
      <4> QED BY <4>1, <4>2
    <3>3. PICK m : m = [k EXCEPT !.step = "launch"] OBVIOUS
    <3>4. m \in MemState /\ m.step = "launch" /\ m.orphan = mem[e].orphan /\ (m.slot = 0 \/ m.orphan # 0)
      BY <3>2, <3>3 DEF MemState, Steps
    <3>5. mem' = [mem EXCEPT ![e] = m] BY <2>3, <3>1, <3>3
    <3> QED BY <1>2, <3>4, <3>5, MemWritten
  <2> QED BY <1>3, <2>1, <2>2, <2>3 DEF Ask
<1>7. TypeOK' BY <1>1, <1>2, <1>5, <1>6 DEF TypeOK
<1>8. Only(e) BY <1>1, <1>6 DEF Only
<1>9. SlotIsOwned(e)' BY <1>6 DEF SlotIsOwned
<1>10. StepAgrees(e)'
  <2>1. Ended(e)' BY <1>1, <1>2 DEF ExecAgrees, StepAgrees, Ended
  <2> QED BY <1>1, <1>2, <1>6, <2>1 DEF StepAgrees
<1>11. Unclaims(e) /\ tmem'[TaskOf(e)].exec = tmem[TaskOf(e)].exec BY <1>3, <1>4, <1>5 DEF Unclaims
<1> QED BY <1>1, <1>6, <1>7, <1>8, <1>9, <1>10, <1>11, AfterDeath

LEMMA ReportKeeps ==
  ASSUME IInv, NEW e \in Execs, Report(e)
  PROVE  IInv'
<1>1. /\ mode = "up" /\ mem[e].step = "report" /\ Finalize(e, "idle") /\ Returns(e)
      /\ UNCHANGED <<cstat, live, mode, boot, restarts, strays>>
  BY DEF Report
<1>2. TypeOK /\ ExecAgrees(e) /\ disk[e].dir = "active" /\ "idle" \in Steps
  BY <1>1 DEF IInv, ExecAgrees, StepAgrees, Steps
<1>3. PICK u : u = TaskOf(e) OBVIOUS
<1>4. u \in Tasks BY <1>2, <1>3 DEF ExecAgrees, PidsAgree
<1>5. tmem' \in [Tasks -> TaskState] /\ Unclaims(e)
  <2>1. \/ tmem' = [tmem EXCEPT ![u] = Untracked(u, e)]
        \/ tmem' = [tmem EXCEPT ![u] = NoBudget(Untracked(u, e))]
    <3>1. CASE mem[e].cause = "verdict" BY <1>3, <3>1 DEF Report
    <3>2. CASE mem[e].cause # "verdict" BY <1>3, <3>2 DEF Report
    <3> QED BY <3>1, <3>2
  <2> QED BY <1>2, <1>4, <2>1, UntrackWritten
<1>6. /\ mem' \in [Execs -> MemState] /\ disk' \in [Execs -> DiskState]
      /\ \A f \in Execs : f # e => mem'[f] = mem[f] /\ disk'[f] = disk[f]
      /\ mem'[e].step = "idle" /\ mem'[e].orphan = 0
      /\ mem'[e].slot = 0 \/ disk'[e].dir = "unreported"
      /\ disk'[e].task = disk[e].task /\ disk'[e].pids = disk[e].pids
  BY <1>1, <1>2, FinalizeWritten
<1>7. tick' \in Jobs /\ tick' \in {tick, Idle} /\ tick' # Recovering(e) BY <1>1, <1>2, ReturnsWritten
<1>8. TypeOK' BY <1>1, <1>2, <1>5, <1>6, <1>7 DEF TypeOK
<1>9. Only(e) BY <1>1, <1>6 DEF Only
<1>10. SlotIsOwned(e)' BY <1>6 DEF SlotIsOwned
<1>11. StepAgrees(e)' BY <1>6, <1>7 DEF StepAgrees, Recovering
<1> QED BY <1>1, <1>5, <1>6, <1>7, <1>8, <1>9, <1>10, <1>11, AfterDeath

LEMMA ExhaustKeeps ==
  ASSUME IInv, NEW e \in Execs, Exhaust(e)
  PROVE  IInv'
<1>1. /\ mode = "up" /\ mem[e].step = "exhaust" /\ Finalize(e, "escalate")
      /\ UNCHANGED <<cstat, live, tmem, tick, mode, boot, restarts, strays>>
  BY DEF Exhaust
<1>2. TypeOK /\ ExecAgrees(e) /\ disk[e].dir = "active" /\ "escalate" \in Steps
  BY <1>1 DEF IInv, ExecAgrees, StepAgrees, Steps
<1>3. /\ mem' \in [Execs -> MemState] /\ disk' \in [Execs -> DiskState]
      /\ \A f \in Execs : f # e => mem'[f] = mem[f] /\ disk'[f] = disk[f]
      /\ mem'[e].step = "escalate" /\ mem'[e].orphan = 0
      /\ mem'[e].slot = 0 \/ disk'[e].dir = "unreported"
      /\ disk'[e].task = disk[e].task /\ disk'[e].pids = disk[e].pids
      /\ disk'[e].dir \in {"active", "finalized", "unreported"}
  BY <1>1, <1>2, FinalizeWritten
<1>4. TypeOK' BY <1>1, <1>2, <1>3 DEF TypeOK
<1>5. Only(e) BY <1>1, <1>3 DEF Only
<1>6. SlotIsOwned(e)' BY <1>3 DEF SlotIsOwned
<1>7. StepAgrees(e)'
  <2>1. Ended(e)' BY <1>1, <1>2 DEF ExecAgrees, StepAgrees, Ended
  <2> QED BY <1>3, <2>1 DEF StepAgrees
<1>8. Unclaims(e) BY <1>1 DEF Unclaims
<1> QED BY <1>1, <1>3, <1>4, <1>5, <1>6, <1>7, <1>8, AfterDeath

LEMMA EscalateKeeps ==
  ASSUME IInv, NEW e \in Execs, Escalate(e)
  PROVE  IInv'
<1>1. /\ mode = "up" /\ mem[e].step = "escalate" /\ Returns(e) /\ mem' = [mem EXCEPT ![e].step = "idle"]
      /\ UNCHANGED <<disk, live, mode, boot, restarts, strays>>
  BY DEF Escalate
<1>2. TypeOK /\ ExecAgrees(e) /\ disk[e].dir # "none" /\ "idle" \in Steps
  BY <1>1 DEF IInv, ExecAgrees, StepAgrees, Steps
<1>3. PICK u : u = TaskOf(e) OBVIOUS
<1>4. u \in Tasks BY <1>2, <1>3 DEF ExecAgrees, PidsAgree
<1>5. tmem' \in [Tasks -> TaskState] /\ Unclaims(e)
  <2>1. tmem' = [tmem EXCEPT ![u] = NoBudget(Untracked(u, e))] BY <1>3 DEF Escalate
  <2> QED BY <1>2, <1>4, <2>1, UntrackWritten
<1>6. cstat' \in [Tasks -> CenterStatuses]
  <2>1. cstat' \in {Blocked(u), cstat} BY <1>3 DEF Escalate
  <2>2. cstat \in [Tasks -> CenterStatuses] BY <1>2 DEF TypeOK
  <2> QED BY <2>1, <2>2 DEF Blocked, CenterStatuses
<1>7. /\ mem' \in [Execs -> MemState] /\ \A f \in Execs : f # e => mem'[f] = mem[f]
      /\ mem'[e].step = "idle" /\ mem'[e].slot = mem[e].slot /\ mem'[e].orphan = mem[e].orphan
  BY <1>1, <1>2, StepWritten
<1>8. tick' \in Jobs /\ tick' \in {tick, Idle} /\ tick' # Recovering(e) BY <1>1, <1>2, ReturnsWritten
<1>9. TypeOK' BY <1>1, <1>2, <1>5, <1>6, <1>7, <1>8 DEF TypeOK
<1>10. Only(e) BY <1>1, <1>7 DEF Only
<1>11. SlotIsOwned(e)' BY <1>1, <1>2, <1>7 DEF SlotIsOwned, ExecAgrees, StepAgrees
<1>12. StepAgrees(e)' BY <1>1, <1>2, <1>7, <1>8 DEF ExecAgrees, StepAgrees, Recovering
<1> QED BY <1>1, <1>5, <1>7, <1>8, <1>9, <1>10, <1>11, <1>12, AfterDeath

LEMMA LaunchFreshKeeps ==
  ASSUME IInv, NEW e \in Execs, LaunchFresh(e)
  PROVE  IInv'
<1>1. /\ mode = "up" /\ mem[e].step = "launch" /\ Sealed(e, "removed")
      /\ mem' = [mem EXCEPT ![e].orphan = 0, ![e].step = "reset"]
      /\ UNCHANGED <<cstat, live, tmem, tick, mode, boot, restarts, strays>>
  BY DEF LaunchFresh
<1>2. TypeOK /\ ExecAgrees(e) /\ mem[e] \in MemState /\ "removed" \in Dirs
  BY DEF IInv, TypeOK, Dirs
<1>3. PICK m : m = [mem[e] EXCEPT !.orphan = 0, !.step = "reset"] OBVIOUS
<1>4. m \in MemState /\ m.step = "reset" /\ m.orphan = 0
  <2>1. 0 \in 0..MaxIncarnations BY RuntimeAssumption
  <2> QED BY <1>2, <1>3, <2>1 DEF MemState, Steps
<1>5. mem' = [mem EXCEPT ![e] = m] BY <1>1, <1>3, <1>2 DEF TypeOK
<1>6. mem' \in [Execs -> MemState] /\ mem'[e] = m /\ \A f \in Execs : f # e => mem'[f] = mem[f]
  BY <1>2, <1>4, <1>5, MemWritten
<1>7. /\ disk' \in [Execs -> DiskState] /\ \A f \in Execs : f # e => disk'[f] = disk[f]
      /\ disk'[e].dir = "removed" /\ disk'[e].task = disk[e].task /\ disk'[e].pids = disk[e].pids
  BY <1>1, <1>2, DirSealed
<1>8. TypeOK' BY <1>1, <1>2, <1>6, <1>7 DEF TypeOK
<1>9. Only(e) BY <1>1, <1>6, <1>7 DEF Only
<1>10. SlotIsOwned(e)' BY <1>4, <1>6 DEF SlotIsOwned
<1>11. StepAgrees(e)'
  <2>1. Ended(e)' BY <1>1, <1>2 DEF ExecAgrees, StepAgrees, Ended
  <2> QED BY <1>4, <1>6, <1>7, <2>1 DEF StepAgrees
<1>12. Unclaims(e) BY <1>1 DEF Unclaims
<1> QED BY <1>1, <1>4, <1>6, <1>7, <1>8, <1>9, <1>10, <1>11, <1>12, AfterDeath

LEMMA ResetKeeps ==
  ASSUME IInv, NEW e \in Execs, Reset(e)
  PROVE  IInv'
<1>1. /\ mode = "up" /\ mem[e].step = "reset" /\ Returns(e) /\ mem' = [mem EXCEPT ![e].step = "idle"]
      /\ UNCHANGED <<disk, live, mode, boot, restarts, strays>>
  BY DEF Reset
<1>2. TypeOK /\ ExecAgrees(e) /\ disk[e].dir = "removed" /\ "idle" \in Steps
  BY <1>1 DEF IInv, ExecAgrees, StepAgrees, Steps
<1>3. PICK u : u = TaskOf(e) OBVIOUS
<1>4. u \in Tasks BY <1>2, <1>3 DEF ExecAgrees, PidsAgree
<1>5. tmem' \in [Tasks -> TaskState] /\ Unclaims(e)
  <2>1. tmem' = [tmem EXCEPT ![u] = Untracked(u, e)] BY <1>3 DEF Reset
  <2> QED BY <1>2, <1>4, <2>1, UntrackWritten
<1>6. cstat' \in [Tasks -> CenterStatuses]
  <2>1. cstat' \in ResetOutcomes(u) BY <1>3 DEF Reset
  <2>2. cstat \in [Tasks -> CenterStatuses] BY <1>2 DEF TypeOK
  <2> QED BY <2>1, <2>2 DEF ResetOutcomes, CenterStatuses
<1>7. /\ mem' \in [Execs -> MemState] /\ \A f \in Execs : f # e => mem'[f] = mem[f]
      /\ mem'[e].step = "idle" /\ mem'[e].slot = mem[e].slot /\ mem'[e].orphan = mem[e].orphan
  BY <1>1, <1>2, StepWritten
<1>8. tick' \in Jobs /\ tick' \in {tick, Idle} /\ tick' # Recovering(e) BY <1>1, <1>2, ReturnsWritten
<1>9. TypeOK' BY <1>1, <1>2, <1>5, <1>6, <1>7, <1>8 DEF TypeOK
<1>10. Only(e) BY <1>1, <1>7 DEF Only
<1>11. SlotIsOwned(e)' BY <1>1, <1>2, <1>7 DEF SlotIsOwned
<1>12. StepAgrees(e)' BY <1>1, <1>2, <1>7, <1>8 DEF ExecAgrees, StepAgrees, Recovering
<1> QED BY <1>1, <1>2, <1>5, <1>7, <1>8, <1>9, <1>10, <1>11, <1>12, AfterDeath

(* A slot for an adopted process, or none.                                 *)
LEMMA AdoptedSlotIsOne ==
  ASSUME TypeOK, NEW e \in Execs
  PROVE  AdoptedSlot(e) \in 0..Cap
<1>1. mem[e].slot \in 0..Cap /\ disk[e].slot \in 0..Cap /\ 0 \in 0..Cap
  BY RuntimeAssumption DEF TypeOK, MemState, DiskState
<1>2. FreeSlots # {} => Min(FreeSlots) \in 0..Cap
  <2>1. \A x \in 1..Cap : x \in 0..Cap BY RuntimeAssumption
  <2> QED BY <2>1, LowestFreeSlot
<1>3. AdoptedSlot(e) \in {mem[e].slot, disk[e].slot, 0}
        \/ (FreeSlots # {} /\ AdoptedSlot(e) = Min(FreeSlots))
  BY DEF AdoptedSlot
<1> QED BY <1>1, <1>2, <1>3

(* The relaunched process is polled from the start.                        *)
LEMMA RelaunchedWritten ==
  ASSUME IInv, NEW e \in Execs, Relaunched(e), Ended(e), disk[e].dir = "active",
         UNCHANGED strays, mode' = mode, boot'[e] = "none", tick' # Recovering(e)
  PROVE  /\ disk' \in [Execs -> DiskState] /\ mem' \in [Execs -> MemState] /\ live' \in [Execs -> SUBSET Incs]
         /\ \A f \in Execs : f # e => disk'[f] = disk[f] /\ live'[f] = live[f] /\ mem'[f] = mem[f]
         /\ disk'[e].task = disk[e].task /\ mem'[e].orphan # 0
         /\ ExecAgrees(e)'
<1>1. TypeOK /\ ExecAgrees(e) /\ disk[e] \in DiskState /\ "idle" \in Steps BY DEF IInv, TypeOK, Steps
<1>2. PICK n, s : n = disk[e].pids + 1 /\ s = AdoptedSlot(e) OBVIOUS
<1>3. /\ n \in Incs
      /\ disk' = [disk EXCEPT ![e].pids = n]
      /\ live' = [live EXCEPT ![e] = @ \cup {n}]
      /\ mem' = [mem EXCEPT ![e].orphan = n, ![e].slot = s, ![e].step = "idle"]
  BY <1>2 DEF Relaunched
<1>4. s \in 0..Cap BY <1>1, <1>2, AdoptedSlotIsOne
<1>5. disk[e].pids \in Nat /\ disk[e].pids > 0 /\ n # 1 /\ n # 0 /\ live[e] \subseteq 1..n
  BY <1>1, <1>2 DEF ExecAgrees, PidsAgree, DiskState
<1>6. /\ mem' \in [Execs -> MemState] /\ \A f \in Execs : f # e => mem'[f] = mem[f]
      /\ mem'[e].orphan = n /\ mem'[e].step = "idle"
  <2>1. PICK m : m = [mem[e] EXCEPT !.orphan = n, !.slot = s, !.step = "idle"] OBVIOUS
  <2>2. mem' = [mem EXCEPT ![e] = m] BY <1>1, <1>3, <2>1 DEF TypeOK
  <2>3. m.orphan = n /\ m.slot = s /\ m.step = "idle" /\ m \in MemState
    <3>1. mem[e] \in MemState /\ n \in 0..MaxIncarnations BY <1>1, <1>3, RuntimeAssumption DEF TypeOK, Incs
    <3> QED BY <1>1, <1>4, <2>1, <3>1 DEF MemState
  <2> QED BY <1>1, <2>2, <2>3, MemWritten
<1>7. /\ disk' \in [Execs -> DiskState] /\ \A f \in Execs : f # e => disk'[f] = disk[f]
      /\ disk'[e].dir = "active" /\ disk'[e].task = disk[e].task /\ disk'[e].pids = n
  <2>1. PICK d : d = [disk[e] EXCEPT !.pids = n] OBVIOUS
  <2>2. n \in 0..MaxIncarnations BY <1>3, RuntimeAssumption DEF Incs
  <2>3. d \in DiskState /\ d.dir = "active" /\ d.task = disk[e].task /\ d.pids = n BY <1>1, <2>1, <2>2 DEF DiskState
  <2>4. disk' = [disk EXCEPT ![e] = d] BY <1>3, <2>1
  <2> QED BY <1>1, <2>3, <2>4 DEF TypeOK
<1>8. /\ live' \in [Execs -> SUBSET Incs] /\ live'[e] = live[e] \cup {n}
      /\ \A f \in Execs : f # e => live'[f] = live[f]
  BY <1>1, <1>3 DEF TypeOK
<1>9. ExecAgrees(e)'
  <2>1. SlotIsOwned(e)' BY <1>5, <1>6 DEF SlotIsOwned
  <2>2. PidsAgree(e)'
    <3>1. 1 \notin live'[e] BY <1>5, <1>8 DEF Ended
    <3>2. TaskOf(e)' \in Tasks BY <1>1, <1>7 DEF ExecAgrees, PidsAgree, TaskOf
    <3>3. live'[e] \subseteq 1..n
      <4>1. n \in Nat /\ n \in 1..n BY <1>2, <1>5
      <4> QED BY <1>5, <1>8, <4>1
    <3>4. n \in Nat /\ n > 0 /\ n <= n BY <1>2, <1>5
    <3> QED BY <1>6, <1>7, <3>1, <3>2, <3>3, <3>4 DEF PidsAgree
  <2>3. StepAgrees(e)' BY <1>5, <1>6, <1>7 DEF StepAgrees, Recovering
  <2>4. BootAgrees(e)' BY <1>6 DEF BootAgrees
  <2>5. LiveAgrees(e)' BY <1>6, <1>7, <1>8 DEF LiveAgrees, Ended
  <2> QED BY <2>1, <2>2, <2>3, <2>4, <2>5 DEF ExecAgrees
<1> QED BY <1>5, <1>6, <1>7, <1>8, <1>9

LEMMA LaunchKeeps ==
  ASSUME IInv, NEW e \in Execs, Launch(e)
  PROVE  IInv'
<1>1. /\ mode = "up" /\ mem[e].step = "launch" /\ Returns(e)
      /\ UNCHANGED <<cstat, mode, boot, restarts, strays>>
  BY DEF Launch
<1>2. TypeOK /\ ExecAgrees(e) /\ ModeAgrees /\ disk[e].dir = "active" /\ "idle" \in Steps /\ boot[e] = "none" /\ Ended(e)
  BY <1>1 DEF IInv, ExecAgrees, StepAgrees, BootAgrees, Steps
<1>3. PICK u : u = TaskOf(e) OBVIOUS
<1>4. u \in Tasks BY <1>2, <1>3 DEF ExecAgrees, PidsAgree
<1>5. tmem' \in [Tasks -> TaskState] /\ Unclaims(e)
  <2>1. tmem' = [tmem EXCEPT ![u] = Untracked(u, e)] BY <1>3 DEF Launch
  <2> QED BY <1>2, <1>4, <2>1, UntrackWritten
<1>6. tick' \in Jobs /\ tick' \in {tick, Idle} /\ tick' # Recovering(e) BY <1>1, <1>2, ReturnsWritten
<1>7. CASE Relaunched(e)
  <2>1. boot'[e] = "none" BY <1>1, <1>2
  <2>2. /\ disk' \in [Execs -> DiskState] /\ mem' \in [Execs -> MemState] /\ live' \in [Execs -> SUBSET Incs]
        /\ \A f \in Execs : f # e => disk'[f] = disk[f] /\ live'[f] = live[f] /\ mem'[f] = mem[f]
        /\ disk'[e].task = disk[e].task /\ mem'[e].orphan # 0
        /\ ExecAgrees(e)'
    BY <1>1, <1>2, <1>6, <1>7, <2>1, RelaunchedWritten
  <2>3. TypeOK' BY <1>1, <1>2, <1>5, <1>6, <2>2 DEF TypeOK
  <2>4. Only(e) BY <1>1, <2>2 DEF Only
  <2>5. restarts = 0 => NoNewClaim(e)
    <3>1. restarts = 0 => SpeaksFor(e, TaskOf(e)) BY <1>1 DEF IInv, ClaimsAgree
    <3> QED BY <1>5, <2>2, <3>1 DEF NoNewClaim, SpeaksFor, Unclaims
  <2>6. ClaimsAgree' BY <1>1, <2>4, <2>5, ClaimsKept
  <2>7. \A f \in Execs : tick' = Recovering(f) => tick = Recovering(f) BY <1>6 DEF Idle, Recovering
  <2> QED BY <1>1, <1>2, <2>2, <2>3, <2>4, <2>6, <2>7, OnlyOne DEF ModeAgrees
<1>8. CASE mem' = [mem EXCEPT ![e].step = "idle"] /\ UNCHANGED <<disk, live>>
  <2>1. /\ mem' \in [Execs -> MemState] /\ \A f \in Execs : f # e => mem'[f] = mem[f]
        /\ mem'[e].step = "idle" /\ mem'[e].slot = mem[e].slot /\ mem'[e].orphan = mem[e].orphan
    BY <1>2, <1>8, StepWritten
  <2>2. TypeOK' BY <1>1, <1>2, <1>5, <1>6, <1>8, <2>1 DEF TypeOK
  <2>3. Only(e) BY <1>1, <1>8, <2>1 DEF Only
  <2>4. SlotIsOwned(e)' BY <1>1, <1>2, <2>1 DEF SlotIsOwned, ExecAgrees, StepAgrees
  <2>5. StepAgrees(e)' BY <1>2, <1>6, <1>8, <2>1 DEF StepAgrees, Recovering
  <2> QED BY <1>1, <1>5, <1>6, <1>8, <2>1, <2>2, <2>3, <2>4, <2>5, AfterDeath
<1> QED BY <1>7, <1>8 DEF Launch
-----------------------------------------------------------------------------
(* The tick.                                                               *)

LEMMA RenewKeeps ==
  ASSUME IInv, NEW t \in Tasks, Renew(t)
  PROVE  IInv'
<1>1. /\ UNCHANGED <<cstat, disk, live, mem, tmem, mode, boot, restarts, strays>>
      /\ mode = "up" /\ tick' = [job |-> "fuse", task |-> t]
  BY DEF Renew
<1>2. tick' \in Jobs BY <1>1 DEF Jobs
<1>3. \A f \in Execs : tick' # Recovering(f)
  <2>1. tick'.job = "fuse" /\ \A f \in Execs : Recovering(f).job = "recover" BY <1>1 DEF Recovering
  <2> QED BY <2>1
<1>4. TypeOK' BY <1>1, <1>2 DEF IInv, TypeOK
<1> QED BY <1>1, <1>3, <1>4, CenterKept

(* A mark is put on a handle and its process is about to be killed.        *)
LEMMA MarkKeeps ==
  ASSUME IInv, NEW e \in Execs, NEW m \in MemState, mem' = [mem EXCEPT ![e] = m],
         m.slot = mem[e].slot, m.handle = mem[e].handle, m.orphan = mem[e].orphan, m.step = mem[e].step,
         mode = "up", tick' = Kill(e), \A f \in Execs : tick # Recovering(f),
         UNCHANGED <<cstat, disk, live, tmem, mode, boot, restarts, strays>>
  PROVE  IInv'
<1>1. TypeOK /\ ExecAgrees(e) /\ ModeAgrees BY DEF IInv
<1>2. mem' \in [Execs -> MemState] /\ mem'[e] = m /\ \A f \in Execs : f # e => mem'[f] = mem[f]
  BY <1>1, MemWritten
<1>3. Kill(e) \in Jobs /\ \A f \in Execs : Kill(e) # Recovering(f)
  <2>1. Kill(e).job = "kill" /\ \A f \in Execs : Recovering(f).job = "recover" BY DEF Kill, Recovering
  <2>2. Kill(e) \in Jobs BY DEF Kill, Jobs
  <2> QED BY <2>1, <2>2
<1>4. TypeOK' BY <1>1, <1>2, <1>3 DEF TypeOK
<1>5. Only(e) BY <1>2 DEF Only
<1>6. ExecAgrees(e)'
  <2>1. SlotIsOwned(e)' BY <1>1, <1>2 DEF ExecAgrees, SlotIsOwned
  <2>2. PidsAgree(e)' BY <1>1, <1>2 DEF ExecAgrees, PidsAgree, TaskOf
  <2>3. StepAgrees(e)' BY <1>1, <1>2, <1>3 DEF ExecAgrees, StepAgrees, Ended, Recovering, Kill
  <2>4. BootAgrees(e)' BY <1>1, <1>2 DEF ExecAgrees, BootAgrees, Ended
  <2>5. LiveAgrees(e)' BY <1>1, <1>2 DEF ExecAgrees, LiveAgrees
  <2> QED BY <2>1, <2>2, <2>3, <2>4, <2>5 DEF ExecAgrees
<1>7. restarts = 0 => NoNewClaim(e)
  <2>1. restarts = 0 /\ Runnable(e) => SpeaksFor(e, TaskOf(e)) BY DEF IInv, ClaimsAgree, Runnable
  <2>2. Runnable(e)' => Runnable(e) BY <1>2 DEF Runnable
  <2> QED BY <1>2, <2>1, <2>2 DEF NoNewClaim, SpeaksFor
<1>8. ClaimsAgree' BY <1>5, <1>7, ClaimsKept
<1> QED BY <1>1, <1>3, <1>4, <1>5, <1>6, <1>8, OnlyOne DEF ModeAgrees

LEMMA SweepKeeps ==
  ASSUME IInv, NEW e \in Execs, Sweep(e)
  PROVE  IInv'
<1>1. PICK m : m = [mem[e] EXCEPT !.stalled = TRUE] OBVIOUS
<1>2. mem[e] \in MemState BY DEF IInv, TypeOK
<1>3. /\ m \in MemState /\ m.slot = mem[e].slot /\ m.handle = mem[e].handle
      /\ m.orphan = mem[e].orphan /\ m.step = mem[e].step
  BY <1>1, <1>2 DEF MemState
<1>4. /\ mem' = [mem EXCEPT ![e] = m] /\ mode = "up" /\ tick = Idle /\ tick' = Kill(e)
      /\ UNCHANGED <<cstat, disk, live, tmem, mode, boot, restarts, strays>>
  BY <1>1 DEF Sweep
<1>5. \A f \in Execs : tick # Recovering(f) BY <1>4 DEF Idle, Recovering
<1> QED BY <1>3, <1>4, <1>5, MarkKeeps

LEMMA FuseKeeps ==
  ASSUME IInv, Fuse
  PROVE  IInv'
<1>1. mode = "up" /\ tick.job = "fuse" /\ UNCHANGED <<cstat, disk, live, tmem, mode, boot, restarts, strays>>
  BY DEF Fuse
<1>2. \A f \in Execs : tick # Recovering(f)
  <2>1. \A f \in Execs : Recovering(f).job = "recover" BY DEF Recovering
  <2> QED BY <1>1, <2>1
<1>3. CASE UNCHANGED mem /\ tick' = Idle
  <2>1. Idle \in Jobs /\ \A f \in Execs : Idle # Recovering(f) BY DEF Jobs, Idle, Recovering
  <2>2. TypeOK' BY <1>1, <1>3, <2>1 DEF IInv, TypeOK
  <2> QED BY <1>1, <1>3, <2>1, <2>2, CenterKept
<1>4. CASE \E e \in Execs : FuseMark(e) /\ tick' = Kill(e)
  <2>1. PICK e \in Execs : mem' = [mem EXCEPT ![e].fused = TRUE] /\ tick' = Kill(e) BY <1>4 DEF FuseMark
  <2>2. PICK m : m = [mem[e] EXCEPT !.fused = TRUE] OBVIOUS
  <2>3. mem[e] \in MemState BY DEF IInv, TypeOK
  <2>4. /\ m \in MemState /\ m.slot = mem[e].slot /\ m.handle = mem[e].handle
        /\ m.orphan = mem[e].orphan /\ m.step = mem[e].step
    BY <2>2, <2>3 DEF MemState
  <2>5. mem' = [mem EXCEPT ![e] = m] BY <2>1, <2>2
  <2> QED BY <1>1, <1>2, <2>1, <2>4, <2>5, MarkKeeps
<1> QED BY <1>3, <1>4 DEF Fuse
-----------------------------------------------------------------------------
(* Exit and boot reconcile.                                                *)

(* The decision for what is left on disk: what is not to be adopted or     *)
(* verified has no process of its own any more.                            *)
LEMMA DecisionMade ==
  ASSUME NEW e \in Execs, NEW h \in BOOLEAN, 1 \in live[e] => ~disk[e].verdict
  PROVE  LET d == Decision(e, h) IN
         /\ d \in Decisions
         /\ d # "none" => disk[e].dir \in {"active", "unreported"}
         /\ d \notin {"none", "adopt", "verify"} => 1 \notin live[e]
         /\ disk[e].dir = "active" /\ 1 \in live[e] => d \in {"adopt", "verify"}
<1>1. CASE disk[e].dir \notin {"active", "unreported"} BY <1>1 DEF Decision, Decisions
<1>2. CASE disk[e].dir \in {"active", "unreported"} /\ disk[e].verdict
  <2>1. PICK d : d = Decision(e, h) OBVIOUS
  <2>2. d = IF h /\ InFlight(TaskOf(e)) THEN "finalize" ELSE "quiet" BY <1>2, <2>1 DEF Decision
  <2>3. d \in {"finalize", "quiet"} BY <2>2, Zenon
  <2>4. 1 \notin live[e] BY <1>2
  <2> QED BY <1>2, <2>1, <2>3, <2>4 DEF Decisions
<1>3. CASE disk[e].dir \in {"active", "unreported"} /\ ~disk[e].verdict /\ 1 \in live[e]
  <2>1. PICK d : d = Decision(e, h) OBVIOUS
  <2>2. d = IF h /\ ~(h /\ InFlight(TaskOf(e))) THEN "verify" ELSE "adopt" BY <1>3, <2>1 DEF Decision
  <2>3. d \in {"verify", "adopt"} BY <2>2, Zenon
  <2> QED BY <1>3, <2>1, <2>3 DEF Decisions
<1>4. CASE disk[e].dir \in {"active", "unreported"} /\ ~disk[e].verdict /\ 1 \notin live[e]
  BY <1>4 DEF Decision, Decisions
<1> QED BY <1>1, <1>2, <1>3, <1>4

(* The runtime forgets everything; what still runs is to be adopted or     *)
(* verified, or is lost.                                                   *)
LEMMA ExitKeeps ==
  ASSUME IInv, Exit
  PROVE  IInv'
<1>1. /\ restarts < MaxRestarts /\ restarts' = restarts + 1 /\ mode' = "boot" /\ tick' = Idle
      /\ mem' = [e \in Execs |-> Unknown] /\ tmem' = [t \in Tasks |-> Untried]
      /\ strays' = strays \cup {p \in Execs \X Incs : p[2] # 1 /\ p[2] \in live[p[1]]}
      /\ disk' = [e \in Execs |-> IF disk[e].dir = "unreported" THEN [disk[e] EXCEPT !.dir = "active"] ELSE disk[e]]
      /\ UNCHANGED <<cstat, live>> /\ mode = "up"
  BY DEF Exit
<1>2. PICK h \in BOOLEAN : boot' = [e \in Execs |-> Decision(e, h)] BY DEF Exit
<1>3. TypeOK /\ ModeAgrees BY DEF IInv
<1>4. restarts' \in 0..MaxRestarts /\ restarts' > 0 BY <1>1, <1>3, RuntimeAssumption DEF TypeOK
<1>5. ASSUME NEW e \in Execs
      PROVE  /\ disk'[e] \in DiskState /\ disk'[e].pids = disk[e].pids /\ disk'[e].task = disk[e].task
             /\ disk'[e].verdict = disk[e].verdict
             /\ disk'[e].dir = IF disk[e].dir = "unreported" THEN "active" ELSE disk[e].dir
  <2>1. disk[e] \in DiskState BY <1>3 DEF TypeOK
  <2>2. CASE disk[e].dir = "unreported"
    <3>1. PICK d : d = [disk[e] EXCEPT !.dir = "active"] OBVIOUS
    <3>2. /\ d \in DiskState /\ d.pids = disk[e].pids /\ d.task = disk[e].task /\ d.verdict = disk[e].verdict
          /\ d.dir = "active"
      BY <2>1, <3>1 DEF DiskState, Dirs
    <3>3. disk'[e] = d BY <1>1, <2>2, <3>1
    <3> QED BY <2>2, <3>2, <3>3
  <2>3. CASE disk[e].dir # "unreported" BY <1>1, <2>1, <2>3
  <2> QED BY <2>2, <2>3
<1>6. ASSUME NEW e \in Execs
      PROVE  /\ boot'[e] \in Decisions
             /\ boot'[e] # "none" => disk[e].dir \in {"active", "unreported"}
             /\ boot'[e] \notin {"none", "adopt", "verify"} => 1 \notin live[e]
             /\ disk[e].dir = "active" /\ 1 \in live[e] => boot'[e] \in {"adopt", "verify"}
  <2>1. boot'[e] = Decision(e, h) BY <1>2
  <2>2. 1 \in live[e] => ~disk[e].verdict BY DEF IInv, ExecAgrees, PidsAgree
  <2> QED BY <2>1, <2>2, DecisionMade
<1>7. Unknown \in MemState /\ Untried \in TaskState
  BY RuntimeAssumption DEF Unknown, MemState, Steps, Untried, TaskState, Forks
<1>8. TypeOK'
  <2>1. disk' \in [Execs -> DiskState]
    <3>1. disk' = [e \in Execs |-> disk'[e]] BY <1>1
    <3> QED BY <1>5, <3>1
  <2>2. boot' \in [Execs -> Decisions]
    <3>1. boot' = [e \in Execs |-> boot'[e]] BY <1>2
    <3> QED BY <1>6, <3>1
  <2>3. strays' \in SUBSET (Execs \X Incs) BY <1>1, <1>3 DEF TypeOK
  <2>4. tick' \in Jobs BY <1>1 DEF Jobs, Idle
  <2>5. mem' \in [Execs -> MemState] /\ tmem' \in [Tasks -> TaskState] BY <1>1, <1>7
  <2> QED BY <1>1, <1>3, <1>4, <2>1, <2>2, <2>3, <2>4, <2>5 DEF TypeOK
<1>9. ASSUME NEW e \in Execs PROVE ExecAgrees(e)'
  <2>1. mem'[e].slot = 0 /\ mem'[e].orphan = 0 /\ mem'[e].step = "idle" BY <1>1 DEF Unknown
  <2>2. ExecAgrees(e) BY DEF IInv
  <2>3. \A i \in live[e] : i # 1 => <<e, i>> \in strays'
    <3> SUFFICES ASSUME NEW i \in live[e], i # 1 PROVE <<e, i>> \in strays' OBVIOUS
    <3>1. i \in Incs BY <1>3 DEF TypeOK
    <3>2. <<e, i>> \in {p \in Execs \X Incs : p[2] # 1 /\ p[2] \in live[p[1]]} BY <3>1
    <3> QED BY <1>1, <3>2
  <2>4. SlotIsOwned(e)' BY <2>1 DEF SlotIsOwned
  <2>5. PidsAgree(e)'
    <3>1. disk[e].pids \in Nat BY <1>3 DEF TypeOK, DiskState
    <3>2. disk[e].dir # "none" => disk[e].task \in Tasks /\ disk[e].pids > 0
      BY <2>2 DEF ExecAgrees, PidsAgree, TaskOf
    <3> QED BY <1>1, <1>5, <2>1, <2>2, <3>1, <3>2 DEF ExecAgrees, PidsAgree, TaskOf
  <2>6. StepAgrees(e)'
    <3>1. tick' # Recovering(e) BY <1>1 DEF Idle, Recovering
    <3> QED BY <2>1, <3>1 DEF StepAgrees, Recovering
  <2>7. BootAgrees(e)'
    <3>1. boot'[e] \notin {"none", "adopt", "verify"} => Ended(e)' BY <1>1, <1>6, <2>3 DEF Ended
    <3> QED BY <1>1, <1>5, <1>6, <2>1, <3>1 DEF BootAgrees
  <2>8. LiveAgrees(e)'
    <3> SUFFICES ASSUME NEW i \in live[e], <<e, i>> \notin strays'
                 PROVE  i = 1 /\ disk'[e].dir = "active" /\ boot'[e] \in {"adopt", "verify"}
      BY <1>1 DEF LiveAgrees
    <3>1. i = 1 /\ <<e, i>> \notin strays BY <1>1, <2>3
    <3>2. disk[e].dir = "active" BY <2>2, <3>1 DEF ExecAgrees, LiveAgrees
    <3> QED BY <1>5, <1>6, <3>1, <3>2
  <2> QED BY <2>4, <2>5, <2>6, <2>7, <2>8 DEF ExecAgrees
<1>10. ModeAgrees' /\ ClaimsAgree' BY <1>1, <1>4 DEF ModeAgrees, ClaimsAgree
<1> QED BY <1>8, <1>9, <1>10 DEF IInv

(* A boot decision is enacted for one executor: no process of its own is   *)
(* forgotten.                                                              *)
LEMMA EnactedKeeps ==
  ASSUME IInv, NEW e \in Execs, NEW d \in Decisions \ {"none"}, Enacted(e, d),
         cstat' \in [Tasks -> CenterStatuses], disk' \in [Execs -> DiskState], mem' \in [Execs -> MemState],
         live' \in [Execs -> SUBSET Incs], strays' \in SUBSET (Execs \X Incs), strays \subseteq strays',
         \A f \in Execs : f # e => disk'[f] = disk[f] /\ live'[f] = live[f] /\ mem'[f] = mem[f],
         boot'[e] = "none" => ExecAgrees(e)'
  PROVE  IInv'
<1>1. /\ mode = "boot" /\ boot' = [boot EXCEPT ![e] = "none"] /\ UNCHANGED <<tmem, tick, mode, restarts>>
  BY DEF Enacted
<1>2. TypeOK /\ ModeAgrees BY DEF IInv
<1>3. boot'[e] = "none" /\ boot' \in [Execs -> Decisions] /\ \A f \in Execs : f # e => boot'[f] = boot[f]
  BY <1>1, <1>2 DEF TypeOK, Decisions
<1>4. restarts # 0 BY <1>1, <1>2 DEF ModeAgrees, TypeOK
<1>5. TypeOK' BY <1>1, <1>2, <1>3 DEF TypeOK
<1>6. ClaimsAgree' BY <1>1, <1>4 DEF ClaimsAgree
<1>7. Only(e) BY <1>3 DEF Only
<1> QED BY <1>1, <1>2, <1>3, <1>4, <1>5, <1>6, <1>7, OnlyOne DEF ModeAgrees

(* What boot finds of an executor it has a decision for.                   *)
LEMMA BootFinds ==
  ASSUME IInv, NEW e \in Execs, NEW d \in Decisions \ {"none"}, Enacted(e, d)
  PROVE  /\ TypeOK /\ ExecAgrees(e) /\ boot[e] = d /\ mode = "boot" /\ tick' # Recovering(e)
         /\ boot' = [boot EXCEPT ![e] = "none"] /\ UNCHANGED <<tmem, tick, mode, restarts>>
         /\ disk[e].dir = "active" /\ mem[e].orphan = 0 /\ mem[e].slot = 0 /\ mem[e].step = "idle"
         /\ disk[e].pids \in Nat /\ disk[e].pids > 0 /\ TaskOf(e) \in Tasks
         /\ d \notin {"adopt", "verify"} => Ended(e)
<1>1. /\ mode = "boot" /\ boot[e] = d /\ boot' = [boot EXCEPT ![e] = "none"]
      /\ UNCHANGED <<tmem, tick, mode, restarts>>
  BY DEF Enacted
<1>2. TypeOK /\ ModeAgrees /\ ExecAgrees(e) BY DEF IInv
<1>3. /\ disk[e].dir = "active" /\ mem[e].orphan = 0 /\ mem[e].step = "idle"
      /\ d \notin {"adopt", "verify"} => Ended(e)
  BY <1>1, <1>2 DEF ExecAgrees, BootAgrees
<1>4. mem[e].slot = 0 BY <1>2, <1>3 DEF ExecAgrees, SlotIsOwned
<1>5. disk[e].pids \in Nat /\ disk[e].pids > 0 /\ TaskOf(e) \in Tasks
  BY <1>2, <1>3 DEF ExecAgrees, PidsAgree, TypeOK, DiskState
<1>6. tick' # Recovering(e) BY <1>1, <1>2 DEF ModeAgrees, Idle, Recovering
<1> QED BY <1>1, <1>2, <1>3, <1>4, <1>5, <1>6

(* The forked process that survived is polled from now on, with a slot or  *)
(* without one.                                                            *)
LEMMA AdoptedAgrees ==
  ASSUME IInv, NEW e \in Execs, NEW d \in {"adopt", "verify"}, Enacted(e, d), NEW s \in 0..Cap,
         mem' = [mem EXCEPT ![e].slot = s, ![e].orphan = 1],
         UNCHANGED <<disk, live, strays>>
  PROVE  /\ mem' \in [Execs -> MemState] /\ \A f \in Execs : f # e => mem'[f] = mem[f]
         /\ boot'[e] = "none" => ExecAgrees(e)'
<1>0. d \in Decisions \ {"none"} BY DEF Decisions
<1>1. /\ TypeOK /\ ExecAgrees(e) /\ boot[e] = d /\ mode = "boot" /\ tick' # Recovering(e)
      /\ UNCHANGED mode
      /\ disk[e].dir = "active" /\ mem[e].step = "idle" /\ mem[e].orphan = 0
      /\ disk[e].pids \in Nat /\ disk[e].pids > 0 /\ TaskOf(e) \in Tasks
  BY <1>0, BootFinds
<1>2. PICK m : m = [mem[e] EXCEPT !.slot = s, !.orphan = 1] OBVIOUS
<1>3. m \in MemState /\ m.slot = s /\ m.orphan = 1 /\ m.step = "idle"
  <2>1. mem[e] \in MemState /\ 1 \in 0..MaxIncarnations BY <1>1, RuntimeAssumption DEF TypeOK
  <2> QED BY <1>1, <1>2, <2>1 DEF MemState
<1>4. mem' = [mem EXCEPT ![e] = m] BY <1>1, <1>2 DEF TypeOK
<1>5. mem' \in [Execs -> MemState] /\ mem'[e] = m /\ \A f \in Execs : f # e => mem'[f] = mem[f]
  BY <1>1, <1>3, <1>4, MemWritten
<1>6. ASSUME boot'[e] = "none" PROVE ExecAgrees(e)'
  <2>1. SlotIsOwned(e)' BY <1>3, <1>5 DEF SlotIsOwned
  <2>2. PidsAgree(e)'
    <3>1. PidsAgree(e) /\ 1 <= disk[e].pids BY <1>1 DEF ExecAgrees
    <3> QED BY <1>1, <1>3, <1>5, <3>1 DEF PidsAgree, TaskOf
  <2>3. StepAgrees(e)' BY <1>1, <1>3, <1>5 DEF StepAgrees, Recovering
  <2>4. BootAgrees(e)' BY <1>1, <1>3, <1>5, <1>6 DEF BootAgrees
  <2>5. LiveAgrees(e)'
    <3> SUFFICES ASSUME NEW i \in live[e], <<e, i>> \notin strays PROVE i = 1 BY <1>1, <1>3, <1>5 DEF LiveAgrees
    <3>1. i \in Nat /\ i # 0 BY <1>1 DEF TypeOK, Incs
    <3> QED BY <1>1, <3>1 DEF ExecAgrees, LiveAgrees
  <2> QED BY <2>1, <2>2, <2>3, <2>4, <2>5 DEF ExecAgrees
<1> QED BY <1>5, <1>6

(* Nothing of the executor runs but what is lost; its directory is what    *)
(* the boot made of it.                                                    *)
LEMMA LeftAgrees ==
  ASSUME IInv, NEW e \in Execs, NEW d \in Decisions \ {"none"}, Enacted(e, d),
         mem' = mem, strays \subseteq strays', live'[e] \subseteq live[e],
         disk'[e].task = disk[e].task, disk'[e].pids = disk[e].pids,
         1 \in live'[e] => disk'[e].verdict = disk[e].verdict,
         \A i \in live'[e] : i = 1 => <<e, 1>> \in strays',
         boot'[e] = "none"
  PROVE  ExecAgrees(e)'
<1>1. /\ TypeOK /\ ExecAgrees(e) /\ mode = "boot" /\ tick' # Recovering(e) /\ UNCHANGED mode
      /\ disk[e].dir = "active" /\ mem[e].step = "idle" /\ mem[e].orphan = 0 /\ mem[e].slot = 0
      /\ disk[e].pids \in Nat /\ disk[e].pids > 0 /\ TaskOf(e) \in Tasks
  BY BootFinds
<1>2. SlotIsOwned(e)' BY <1>1 DEF SlotIsOwned
<1>3. PidsAgree(e)'
  <2>1. PidsAgree(e) BY <1>1 DEF ExecAgrees
  <2> QED BY <1>1, <2>1 DEF PidsAgree, TaskOf
<1>4. StepAgrees(e)' BY <1>1 DEF StepAgrees, Recovering
<1>5. BootAgrees(e)' BY <1>1 DEF BootAgrees
<1>6. LiveAgrees(e)'
  <2> SUFFICES ASSUME NEW i \in live'[e], <<e, i>> \notin strays' PROVE FALSE BY DEF LiveAgrees
  <2>1. i \in live[e] /\ i # 1 /\ <<e, i>> \notin strays OBVIOUS
  <2>2. i \in Nat /\ i # 0 BY <1>1, <2>1 DEF TypeOK, Incs
  <2> QED BY <1>1, <2>1, <2>2 DEF ExecAgrees, LiveAgrees
<1> QED BY <1>2, <1>3, <1>4, <1>5, <1>6 DEF ExecAgrees

LEMMA BootAdoptsKeeps ==
  ASSUME IInv, NEW e \in Execs, BootAdopts(e)
  PROVE  IInv'
<1>0. "adopt" \in Decisions \ {"none"} BY DEF Decisions
<1>1. Enacted(e, "adopt") /\ UNCHANGED <<cstat, disk, live>> BY DEF BootAdopts
<1>2. TypeOK /\ boot[e] = "adopt" /\ boot' = [boot EXCEPT ![e] = "none"] BY <1>0, <1>1, BootFinds
<1>3. boot'[e] = "none" BY <1>2 DEF TypeOK
<1>4. PICK s : s = disk[e].slot OBVIOUS
<1>5. s \in 0..Cap BY <1>2, <1>4 DEF TypeOK, DiskState
<1>6. CASE mem' = [mem EXCEPT ![e].slot = s, ![e].orphan = 1] /\ UNCHANGED strays
  <2>1. /\ mem' \in [Execs -> MemState] /\ \A f \in Execs : f # e => mem'[f] = mem[f]
        /\ boot'[e] = "none" => ExecAgrees(e)'
    BY <1>1, <1>5, <1>6, AdoptedAgrees
  <2> QED BY <1>0, <1>1, <1>2, <1>6, <2>1, EnactedKeeps DEF TypeOK
<1>7. CASE strays' = strays \cup ({<<e, 1>>} \cap (Execs \X live[e])) /\ UNCHANGED mem
  <2>1. \A i \in live'[e] : i = 1 => <<e, 1>> \in strays' BY <1>1, <1>7
  <2>2. ExecAgrees(e)' BY <1>0, <1>1, <1>3, <1>7, <2>1, LeftAgrees
  <2>3. strays' \in SUBSET (Execs \X Incs) BY <1>2, <1>7 DEF TypeOK
  <2> QED BY <1>0, <1>1, <1>2, <1>7, <2>2, <2>3, EnactedKeeps DEF TypeOK
<1> QED BY <1>4, <1>6, <1>7 DEF BootAdopts

LEMMA BootRecoversKeeps ==
  ASSUME IInv, NEW e \in Execs, BootRecovers(e)
  PROVE  IInv'
<1>0. "recover" \in Decisions \ {"none"} /\ "removed" \in Dirs BY DEF Decisions, Dirs
<1>1. Enacted(e, "recover") /\ UNCHANGED strays BY DEF BootRecovers
<1>2. /\ TypeOK /\ Ended(e) /\ disk[e].dir = "active" /\ boot' = [boot EXCEPT ![e] = "none"]
      /\ mode' = mode /\ tick' # Recovering(e)
  BY <1>0, <1>1, BootFinds
<1>3. boot'[e] = "none" BY <1>2 DEF TypeOK
<1>4. CASE Relaunched(e) /\ UNCHANGED cstat
  <2>1. /\ disk' \in [Execs -> DiskState] /\ mem' \in [Execs -> MemState] /\ live' \in [Execs -> SUBSET Incs]
        /\ \A f \in Execs : f # e => disk'[f] = disk[f] /\ live'[f] = live[f] /\ mem'[f] = mem[f]
        /\ ExecAgrees(e)'
    BY <1>1, <1>2, <1>3, <1>4, RelaunchedWritten
  <2> QED BY <1>0, <1>1, <1>2, <1>4, <2>1, EnactedKeeps DEF TypeOK
<1>5. CASE UNCHANGED <<cstat, disk, live, mem>>
  <2>1. \A i \in live'[e] : i = 1 => <<e, 1>> \in strays' BY <1>2, <1>5 DEF Ended
  <2>2. ExecAgrees(e)' BY <1>0, <1>1, <1>3, <1>5, <2>1, LeftAgrees
  <2> QED BY <1>0, <1>1, <1>2, <1>5, <2>2, EnactedKeeps DEF TypeOK
<1>6. CASE Sealed(e, "removed") /\ cstat' \in ResetOutcomes(TaskOf(e)) /\ UNCHANGED <<live, mem>>
  <2>1. /\ disk' \in [Execs -> DiskState] /\ \A f \in Execs : f # e => disk'[f] = disk[f]
        /\ disk'[e].task = disk[e].task /\ disk'[e].pids = disk[e].pids
    BY <1>0, <1>2, <1>6, DirSealed
  <2>2. \A i \in live'[e] : i # 1 BY <1>2, <1>6 DEF Ended
  <2>3. ExecAgrees(e)' BY <1>0, <1>1, <1>3, <1>6, <2>1, <2>2, LeftAgrees
  <2>4. cstat' \in [Tasks -> CenterStatuses]
    <3>1. cstat \in [Tasks -> CenterStatuses] BY <1>2 DEF TypeOK
    <3> QED BY <1>6, <3>1 DEF ResetOutcomes, CenterStatuses
  <2> QED BY <1>0, <1>1, <1>2, <1>6, <2>1, <2>3, <2>4, EnactedKeeps DEF TypeOK
<1> QED BY <1>4, <1>5, <1>6 DEF BootRecovers

LEMMA BootFinalizesKeeps ==
  ASSUME IInv, NEW e \in Execs, BootFinalizes(e)
  PROVE  IInv'
<1>1. PICK d \in {"finalize", "quiet"} : Enacted(e, d) /\ (Sealed(e, "finalized") \/ UNCHANGED disk) BY DEF BootFinalizes
<1>2. d \in Decisions \ {"none"} /\ "finalized" \in Dirs /\ UNCHANGED <<cstat, live, mem, strays>>
  BY DEF Decisions, Dirs, BootFinalizes
<1>3. TypeOK /\ Ended(e) /\ boot' = [boot EXCEPT ![e] = "none"] BY <1>1, <1>2, BootFinds
<1>4. boot'[e] = "none" BY <1>3 DEF TypeOK
<1>5. /\ disk' \in [Execs -> DiskState] /\ \A f \in Execs : f # e => disk'[f] = disk[f]
      /\ disk'[e].task = disk[e].task /\ disk'[e].pids = disk[e].pids
  <2>1. CASE Sealed(e, "finalized") BY <1>2, <1>3, <2>1, DirSealed
  <2>2. CASE UNCHANGED disk BY <1>3, <2>2 DEF TypeOK
  <2> QED BY <1>1, <2>1, <2>2
<1>6. \A i \in live'[e] : i # 1 BY <1>2, <1>3 DEF Ended
<1>7. ExecAgrees(e)' BY <1>1, <1>2, <1>4, <1>5, <1>6, LeftAgrees
<1> QED BY <1>1, <1>2, <1>3, <1>5, <1>7, EnactedKeeps DEF TypeOK

LEMMA BootVerifiesKeeps ==
  ASSUME IInv, NEW e \in Execs, BootVerifies(e)
  PROVE  IInv'
<1>0. "verify" \in Decisions \ {"none"} /\ "removed" \in Dirs BY DEF Decisions, Dirs
<1>1. Enacted(e, "verify") /\ UNCHANGED <<cstat, strays>> BY DEF BootVerifies
<1>2. TypeOK /\ boot' = [boot EXCEPT ![e] = "none"] BY <1>0, <1>1, BootFinds
<1>3. boot'[e] = "none" BY <1>2 DEF TypeOK
<1>4. CASE live' = [live EXCEPT ![e] = @ \ {1}] /\ Sealed(e, "removed") /\ UNCHANGED mem
  <2>1. /\ disk' \in [Execs -> DiskState] /\ \A f \in Execs : f # e => disk'[f] = disk[f]
        /\ disk'[e].task = disk[e].task /\ disk'[e].pids = disk[e].pids
    BY <1>0, <1>2, <1>4, DirSealed
  <2>2. /\ live' \in [Execs -> SUBSET Incs] /\ live'[e] = live[e] \ {1}
        /\ \A f \in Execs : f # e => live'[f] = live[f]
    BY <1>2, <1>4 DEF TypeOK
  <2>3. ExecAgrees(e)' BY <1>0, <1>1, <1>3, <1>4, <2>1, <2>2, LeftAgrees
  <2> QED BY <1>0, <1>1, <1>2, <1>4, <2>1, <2>2, <2>3, EnactedKeeps DEF TypeOK
<1>5. CASE 1 \in live[e] /\ mem' = [mem EXCEPT ![e].slot = AdoptedSlot(e), ![e].orphan = 1] /\ UNCHANGED <<live, disk>>
  <2>1. PICK s : s = AdoptedSlot(e) OBVIOUS
  <2>2. s \in 0..Cap BY <1>2, <2>1, AdoptedSlotIsOne
  <2>3. mem' = [mem EXCEPT ![e].slot = s, ![e].orphan = 1] BY <1>5, <2>1
  <2>4. /\ mem' \in [Execs -> MemState] /\ \A f \in Execs : f # e => mem'[f] = mem[f]
        /\ boot'[e] = "none" => ExecAgrees(e)'
    BY <1>1, <1>5, <2>2, <2>3, AdoptedAgrees
  <2> QED BY <1>0, <1>1, <1>2, <1>5, <2>4, EnactedKeeps DEF TypeOK
<1>6. CASE 1 \notin live[e] /\ mem' = mem /\ UNCHANGED <<live, disk>>
  <2>1. \A i \in live'[e] : i # 1 BY <1>6
  <2>2. ExecAgrees(e)' BY <1>0, <1>1, <1>3, <1>6, <2>1, LeftAgrees
  <2> QED BY <1>0, <1>1, <1>2, <1>6, <2>2, EnactedKeeps DEF TypeOK
<1> QED BY <1>4, <1>5, <1>6 DEF BootVerifies

LEMMA BootDoneKeeps ==
  ASSUME IInv, BootDone
  PROVE  IInv'
<1>1. /\ mode = "boot" /\ mode' = "up" /\ \A e \in Execs : boot[e] = "none"
      /\ UNCHANGED <<cstat, disk, live, mem, tmem, tick, boot, restarts, strays>>
  BY DEF BootDone
<1>2. TypeOK /\ ModeAgrees BY DEF IInv
<1>3. TypeOK' BY <1>1, <1>2 DEF TypeOK
<1>4. ModeAgrees' BY <1>1, <1>2 DEF ModeAgrees
<1>5. ClaimsAgree' BY <1>1 DEF IInv, ClaimsAgree, SpeaksFor, TaskOf, Unchecked
<1>6. ASSUME NEW e \in Execs PROVE ExecAgrees(e)'
  <2>1. ExecAgrees(e) BY DEF IInv
  <2>2. SlotIsOwned(e)' /\ PidsAgree(e)' /\ LiveAgrees(e)'
    BY <1>1, <2>1 DEF ExecAgrees, SlotIsOwned, PidsAgree, TaskOf, LiveAgrees
  <2>3. StepAgrees(e)' BY <1>1, <2>1 DEF ExecAgrees, StepAgrees, Ended, Recovering
  <2>4. BootAgrees(e)' BY <1>1 DEF BootAgrees
  <2> QED BY <2>2, <2>3, <2>4 DEF ExecAgrees
<1> QED BY <1>3, <1>4, <1>5, <1>6 DEF IInv
-----------------------------------------------------------------------------
(* The specification.                                                      *)

LEMMA InitIInv == Init => IInv
<1> SUFFICES ASSUME Init PROVE IInv OBVIOUS
<1>1. NoFile \in DiskState /\ Unknown \in MemState /\ Untried \in TaskState
  BY RuntimeAssumption DEF NoFile, DiskState, Dirs, Unknown, MemState, Steps, Untried, TaskState, Forks
<1>2. TypeOK
  <2>1. Idle \in Jobs /\ "none" \in Decisions /\ "open" \in CenterStatuses
    BY DEF Idle, Jobs, Decisions, CenterStatuses
  <2> QED BY <1>1, <2>1, RuntimeAssumption DEF Init, TypeOK
<1>3. ModeAgrees BY DEF Init, ModeAgrees
<1>4. \A e \in Execs : /\ disk[e] = NoFile /\ live[e] = {} /\ boot[e] = "none" /\ tick # Recovering(e)
                       /\ mem[e].step = "idle" /\ mem[e].slot = 0 /\ mem[e].orphan = 0
  BY DEF Init, Unknown, Idle, Recovering
<1>5. \A t \in Tasks, e \in Execs : tmem[t].exec # e BY DEF Init, Untried, NoExec, Execs
<1>6. ClaimsAgree BY <1>4, <1>5 DEF ClaimsAgree, SpeaksFor
<1>7. ASSUME NEW e \in Execs PROVE ExecAgrees(e)
  <2>1. disk[e].dir = "none" /\ disk[e].pids = 0 BY <1>4 DEF NoFile
  <2>2. PidsAgree(e) BY <1>4, <2>1 DEF PidsAgree
  <2>3. StepAgrees(e) /\ BootAgrees(e) /\ SlotIsOwned(e) /\ LiveAgrees(e)
    BY <1>4 DEF StepAgrees, BootAgrees, SlotIsOwned, LiveAgrees
  <2> QED BY <2>2, <2>3 DEF ExecAgrees
<1> QED BY <1>2, <1>3, <1>6, <1>7 DEF IInv

LEMMA StutterKeeps == ASSUME IInv, UNCHANGED vars PROVE IInv'
<1>1. UNCHANGED <<cstat, disk, live, mem, tmem, tick, mode, boot, restarts, strays>> BY DEF vars
<1>2. TypeOK' BY <1>1 DEF IInv, TypeOK
<1>3. mode = "boot" => tick' = Idle BY <1>1 DEF IInv, ModeAgrees
<1> QED BY <1>1, <1>2, <1>3, CenterKept

LEMMA NextIInv == IInv /\ [Next]_vars => IInv'
<1> SUFFICES ASSUME IInv, [Next]_vars PROVE IInv' OBVIOUS
<1>1. CASE UNCHANGED vars BY <1>1, StutterKeeps
<1>2. ASSUME NEW t \in Tasks,
             CenterMoves(t) \/ SpawnBegins(t) \/ SpawnChecks(t) \/ SpawnAdmits(t) \/ SpawnLaunches(t) \/ SpawnFails(t) \/ Renew(t)
      PROVE  IInv'
  BY <1>2, CenterMovesKeeps, SpawnBeginsKeeps, SpawnChecksKeeps, ForkMovesKeeps, SpawnLaunchesKeeps, RenewKeeps
<1>3. ASSUME NEW e \in Execs, NEW i \in Incs, Ends(e, i) PROVE IInv' BY <1>3, EndsKeeps
<1>4. ASSUME NEW e \in Execs, OrphanPoll(e) \/ Sweep(e) \/ KillDone(e) PROVE IInv'
  BY <1>4, OrphanPollKeeps, SweepKeeps, KillDoneKeeps
<1>5. ASSUME NEW e \in Execs, Recovery(e) PROVE IInv'
  BY <1>5, DrainHarvestsKeeps, FinalizeFusedKeeps, AskKeeps, ReportKeeps, ExhaustKeeps, EscalateKeeps,
     LaunchKeeps, LaunchFreshKeeps, ResetKeeps DEF Recovery
<1>6. ASSUME NEW e \in Execs, Boot(e) PROVE IInv'
  BY <1>6, BootAdoptsKeeps, BootRecoversKeeps, BootFinalizesKeeps, BootVerifiesKeeps DEF Boot
<1>7. CASE Fuse BY <1>7, FuseKeeps
<1>8. CASE Exit BY <1>8, ExitKeeps
<1>9. CASE BootDone BY <1>9, BootDoneKeeps
<1> QED BY <1>1, <1>2, <1>3, <1>4, <1>5, <1>6, <1>7, <1>8, <1>9 DEF Next

(* The runtime's memory, the directories and the processes stay in         *)
(* agreement through forks, deaths, kills, recoveries, exits and boots.    *)
THEOREM RuntimeStaysSound == Spec => []IInv
BY InitIInv, NextIInv, PTL DEF Spec

(* The type invariant holds in every reachable state, for any number of    *)
(* tasks, slots, forks, relaunches and restarts.                           *)
THEOREM RuntimeIsTyped == Spec => []TypeOK
<1>1. IInv => TypeOK BY DEF IInv
<1> QED BY <1>1, RuntimeStaysSound, PTL

(* Two processes of one task would both speak for it, and two processes of *)
(* one executor would both be watched by it.                               *)
LEMMA SoundMeansOne == IInv => OneProcessPerTask
<1> SUFFICES ASSUME IInv, restarts = 0, NEW p \in Execs \X Incs, NEW q \in Execs \X Incs,
                    p[2] \in live[p[1]], q[2] \in live[q[1]], TaskOf(p[1]) = TaskOf(q[1])
             PROVE  p = q
  BY DEF OneProcessPerTask
<1>1. TypeOK /\ strays = {} /\ ClaimsAgree BY DEF IInv, ModeAgrees
<1>2. PICK e \in Execs, f \in Execs, i \in Incs, j \in Incs : p = <<e, i>> /\ q = <<f, j>> OBVIOUS
<1>3. i \in live[e] /\ j \in live[f] /\ TaskOf(e) = TaskOf(f) BY <1>2
<1>4. SpeaksFor(e, TaskOf(e)) /\ SpeaksFor(f, TaskOf(e)) /\ TaskOf(e) \in Tasks
  BY <1>1, <1>3, RunnableHasTask DEF ClaimsAgree
<1>5. e = f BY <1>1, <1>4 DEF ClaimsAgree
<1>6. ExecAgrees(e) BY DEF IInv
<1>7. i = j
  <2>1. mode = "up" /\ boot[e] = "none"
    <3>1. mode = "up" BY <1>1 DEF IInv, ModeAgrees, TypeOK
    <3> QED BY <1>6, <3>1 DEF ExecAgrees, BootAgrees
  <2>2. \A k \in live[e] : (k = 1 /\ mem[e].step = "wait") \/ mem[e].orphan = k
    BY <1>1, <1>6, <2>1 DEF ExecAgrees, LiveAgrees
  <2>3. mem[e].step = "wait" => mem[e].orphan = 0 BY <1>6 DEF ExecAgrees, StepAgrees
  <2>4. i # 0 /\ j # 0 BY DEF Incs
  <2> QED BY <1>3, <1>5, <2>2, <2>3, <2>4
<1> QED BY <1>2, <1>5, <1>7

(* A task never has two processes while the runtime lives: single flight   *)
(* at the fork, the recovery in place and the polling of what it starts    *)
(* are enough (executor_runtime.go, beginTaskFork and executorForTask).    *)
THEOREM OneProcessAtATime == Spec => []OneProcessPerTask
BY RuntimeStaysSound, SoundMeansOne, PTL

(* Whatever runs is waited for or polled, in a directory that is there,    *)
(* but for what a restart lost (drainExecutor, reconcileExecutors and the  *)
(* boot reconcile).                                                        *)
THEOREM NothingRunsUnwatched == Spec => []EveryProcessIsWatched
<1>1. IInv => EveryProcessIsWatched
  BY DEF IInv, ExecAgrees, BootAgrees, LiveAgrees, EveryProcessIsWatched
<1> QED BY <1>1, RuntimeStaysSound, PTL

(* No slot of the pool leaks but in the two ways the property names.       *)
THEOREM SlotsStayOwned == Spec => []SlotsAreOwned
<1>1. IInv => SlotsAreOwned BY DEF IInv, ExecAgrees, SlotsAreOwned
<1> QED BY <1>1, RuntimeStaysSound, PTL
=============================================================================
