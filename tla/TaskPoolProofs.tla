--------------------------- MODULE TaskPoolProofs ---------------------------
(***************************************************************************)
(* Proofs about TaskPool for any finite set of tasks, any agents, caps and *)
(* limits.  Every operation that writes a task row writes a legal one      *)
(* (LegalRow): this one fact gives the inductive invariant and the three   *)
(* action properties.                                                      *)
(***************************************************************************)
EXTENDS TaskPool, FiniteSetTheorems, TLAPS

\* What may be written over row t: a live row only while the project is not
\* archived, a concluded row only as a retry of a failed one, and a row that
\* takes a run slot it did not have only when its owner has a slot left.
LegalRow(t, k) ==
  /\ k \in TaskRec
  /\ k.status \in {"open", "running"} => ~ archived
  /\ IsTerminal(k.status) => k.lease = "nil"
  /\ IsTerminal(task[t].status) /\ k # task[t] =>
       task[t].status = "failed" /\ k = Retried(task[t])
  /\ k.status = "running" /\ k.assignee # NoAgent =>
       \/ task[t].status = "running" /\ task[t].assignee = k.assignee
       \/ Cardinality(RunningOf(k.assignee) \ {t}) + 1 <= cap[k.assignee]

(* The mutators of Task give back a task row, with the status they set.    *)
LEMMA MutatorTypes ==
  ASSUME NEW k \in TaskRec
  PROVE  /\ \A a \in Owners : Assigned(k, a) \in TaskRec
         /\ Unassigned(k) \in TaskRec
         /\ Started(k) \in TaskRec
         /\ Renewed(k) \in TaskRec
         /\ \A s \in Statuses : Ended(k, s) \in TaskRec
         /\ Completed(k) \in TaskRec
         /\ ResetToOpen(k) \in TaskRec
         /\ Retried(k) \in TaskRec
         /\ \A s \in Statuses : SetStatus(k, s) \in TaskRec
         /\ [k EXCEPT !.lease = "lapsed"] \in TaskRec
<1>1. k \in [status : Statuses, assignee : Agents \cup {NoAgent},
             lease : Leases, resets : Nat]
  BY DEF TaskRec
<1>2. ResetToOpen(k) \in TaskRec
  <2>1. k.resets + 1 \in Nat
    <3>1. k.resets \in Nat BY <1>1
    <3>2. \A x \in Nat : x + 1 \in Nat OBVIOUS
    <3> QED BY <3>1, <3>2
  <2>2. \A r \in Nat : [status |-> "open", assignee |-> NoAgent, lease |-> "nil",
                        resets |-> r] \in TaskRec
    BY DEF TaskRec, Statuses, Leases
  <2> QED BY <2>1, <2>2 DEF ResetToOpen
<1>3. \A a \in Owners : Assigned(k, a) \in TaskRec
  BY <1>1 DEF Owners, Assigned, TaskRec
<1>4. \A s \in Statuses : Ended(k, s) \in TaskRec
  BY <1>1 DEF Ended, TaskRec, Leases
<1>5. Completed(k) \in TaskRec
  <2>1. Ended(k, "completed") \in TaskRec BY <1>4 DEF Statuses
  <2> QED BY <2>1 DEF Completed, TaskRec
<1>6. \A s \in Statuses : SetStatus(k, s) \in TaskRec
  BY <1>1 DEF SetStatus, TaskRec, Leases
<1>7. /\ Unassigned(k) \in TaskRec
      /\ Started(k) \in TaskRec
      /\ Renewed(k) \in TaskRec
      /\ Retried(k) \in TaskRec
      /\ [k EXCEPT !.lease = "lapsed"] \in TaskRec
  BY <1>1 DEF Unassigned, Started, Renewed, Retried, TaskRec, Statuses, Leases
<1> QED BY <1>2, <1>3, <1>4, <1>5, <1>6, <1>7

(* Every operation on one task, lease checker and clock included, writes   *)
(* a legal row and at most puts the task it creates into the pool.         *)
LEMMA TaskStepIsLegal ==
  ASSUME IInv, NEW t \in Tasks, TaskStep(t)
  PROVE  \E k \in TaskRec :
           /\ LegalRow(t, k)
           /\ task' = [task EXCEPT ![t] = k]
           /\ claimedBy' \in {claimedBy, [claimedBy EXCEPT ![t] = NoAgent]}
           /\ UNCHANGED <<cap, archived, sweep>>
<1> DEFINE
      k0 == task[t]
      Legal(k) == LegalRow(t, k) /\ Write(t, k)
<1>0. /\ k0 \in TaskRec
      /\ archived \in BOOLEAN
      /\ IsTerminal(k0.status) => k0.lease = "nil"
      /\ k0.status \in {"open", "running"} => ~ archived
  BY DEF IInv, TypeOK, ArchivedHasNoLiveTask, ConcludedHasNoLease, Live, Exists, IsTerminal
<1> HIDE DEF k0
<1>1. ASSUME NEW a \in Owners, NEW d \in BOOLEAN, CreateTask(t, a, d)
      PROVE  \E k \in TaskRec :
               /\ LegalRow(t, k)
               /\ task' = [task EXCEPT ![t] = k]
               /\ claimedBy' \in {claimedBy, [claimedBy EXCEPT ![t] = NoAgent]}
               /\ UNCHANGED <<cap, archived, sweep>>
  <2> DEFINE k == [status |-> "open", assignee |-> a, lease |-> "nil", resets |-> 0]
  <2>1. k \in TaskRec BY DEF TaskRec, Statuses, Leases, Owners
  <2>2. LegalRow(t, k)
    BY <1>1, <2>1 DEF CreateTask, LegalRow, Exists, Mutable, IsTerminal
  <2>3. claimedBy \in [Tasks -> Owners \cup {NotMember}] BY DEF IInv, TypeOK
  <2>4. claimedBy' \in {claimedBy, [claimedBy EXCEPT ![t] = NoAgent]}
    <3>1. CASE d BY <1>1, <3>1 DEF CreateTask
    <3>2. CASE ~ d BY <1>1, <2>3, <3>2 DEF CreateTask
    <3> QED BY <3>1, <3>2
  <2> QED BY <1>1, <2>1, <2>2, <2>4 DEF CreateTask
<1>2. ASSUME NEW a \in Agents, AssignTask(t, a)
      PROVE  Legal(Assigned(k0, a))
  <2>1. Assigned(k0, a) \in TaskRec BY <1>0, MutatorTypes DEF Owners
  <2>2. /\ Assigned(k0, a).status = k0.status
        /\ Assigned(k0, a).lease = k0.lease
    BY <1>0 DEF Assigned, TaskRec
  <2> QED BY <1>2, <2>1, <2>2 DEF AssignTask, LegalRow, Live, IsTerminal, Mutable,
           EnforceConcurrencyCap, k0
<1>3. ASSUME UnassignTask(t)
      PROVE  Legal(Unassigned(k0))
  <2>1. Unassigned(k0) \in TaskRec BY <1>0, MutatorTypes
  <2>2. /\ Unassigned(k0).status = k0.status
        /\ Unassigned(k0).assignee = NoAgent
    BY <1>0 DEF Unassigned, TaskRec
  <2> QED BY <1>3, <2>1, <2>2 DEF UnassignTask, LegalRow, Live, IsTerminal, Mutable, k0
<1>4. ASSUME StartTask(t)
      PROVE  Legal(Started(k0))
  <2>1. Started(k0) \in TaskRec BY <1>0, MutatorTypes
  <2>2. Started(k0).status = "running" BY <1>0 DEF Started, TaskRec
  <2> QED BY <1>4, <2>1, <2>2 DEF StartTask, LegalRow, IsTerminal, Mutable,
           EnforceConcurrencyCap, CanTransitionTo, k0
<1>5. ASSUME task[t].status = "running", Write(t, Renewed(task[t]))
      PROVE  Legal(Renewed(k0))
  <2>1. Renewed(k0) \in TaskRec BY <1>0, MutatorTypes
  <2>2. /\ Renewed(k0).status = "running"
        /\ Renewed(k0).assignee = k0.assignee
    BY <1>0, <1>5 DEF Renewed, TaskRec, k0
  <2> QED BY <1>0, <1>5, <2>1, <2>2 DEF LegalRow, IsTerminal, k0
<1>6. ASSUME NEW s \in {"failed", "discarded"}, CanTransitionTo(task[t].status, s),
             Write(t, Ended(task[t], s))
      PROVE  Legal(Ended(k0, s))
  <2>1. Ended(k0, s) \in TaskRec BY <1>0, MutatorTypes DEF Statuses
  <2>2. /\ Ended(k0, s).status = s
        /\ Ended(k0, s).lease = "nil"
    BY <1>0 DEF Ended, TaskRec
  <2> QED BY <1>6, <2>1, <2>2 DEF LegalRow, IsTerminal, CanTransitionTo, k0
<1>7. ASSUME CompleteTask(t)
      PROVE  Legal(Completed(k0))
  <2>1. Completed(k0) \in TaskRec BY <1>0, MutatorTypes
  <2>2. /\ Completed(k0).status = "completed"
        /\ Completed(k0).lease = "nil"
    BY <1>0 DEF Completed, Ended, TaskRec
  <2> QED BY <1>7, <2>1, <2>2 DEF CompleteTask, LegalRow, IsTerminal, CanTransitionTo, k0
<1>8. ASSUME RetryFailedTask(t)
      PROVE  Legal(Retried(k0))
  <2>1. Retried(k0) \in TaskRec BY <1>0, MutatorTypes
  <2>2. Retried(k0).status = "open" BY <1>0 DEF Retried, TaskRec
  <2> QED BY <1>8, <2>1, <2>2 DEF RetryFailedTask, LegalRow, IsTerminal, Mutable, k0
<1>9. ASSUME NEW s \in OverrideTargets, SetStatusAllowed(k0, s)
      PROVE  /\ SetStatus(k0, s) \in TaskRec
             /\ SetStatus(k0, s).status = s
             /\ SetStatus(k0, s).assignee = k0.assignee
             /\ IsTerminal(s) => SetStatus(k0, s).lease = "nil"
             /\ IsTerminal(k0.status) => SetStatus(k0, s) = k0
  <2>1. s \in Statuses BY TaskPoolAssumption DEF Statuses
  <2>2. SetStatus(k0, s) \in TaskRec BY <1>0, <2>1, MutatorTypes
  <2>3. CASE s = k0.status BY <1>0, <2>2, <2>3 DEF SetStatus
  <2>4. CASE s # k0.status
    <3>1. SetStatus(k0, s) =
            [k0 EXCEPT !.status = s, !.lease = IF IsTerminal(s) THEN "nil" ELSE @]
      BY <2>4 DEF SetStatus
    <3>2. ~ IsTerminal(k0.status)
      BY <1>9, <2>4 DEF SetStatusAllowed, CanTransitionTo, IsTerminal
    <3> QED BY <1>0, <2>2, <3>1, <3>2 DEF TaskRec
  <2> QED BY <2>3, <2>4
<1>10. ASSUME NEW s \in OverrideTargets, SetTaskStatus(t, s)
       PROVE  Legal(SetStatus(k0, s))
  <2>1. SetStatusAllowed(k0, s) BY <1>10 DEF SetTaskStatus, k0
  <2> QED BY <1>9, <1>10, <2>1 DEF SetTaskStatus, LegalRow, IsTerminal, Mutable,
           EnforceConcurrencyCap, k0
<1>11. ASSUME NEW s \in OverrideTargets, NEW a \in Owners, BatchUpdateTask(t, s, a)
       PROVE  Legal(Assigned(SetStatus(k0, s), a))
  <2>1. SetStatusAllowed(k0, s) BY <1>11 DEF BatchUpdateTask, k0
  <2> DEFINE k1 == SetStatus(k0, s)
  <2>2. /\ k1 \in TaskRec
        /\ ~ IsTerminal(k1.status)
        /\ IsTerminal(k0.status) => k1 = k0
    BY <1>9, <1>11, <2>1 DEF BatchUpdateTask, k0
  <2> HIDE DEF k1
  <2>3. /\ Assigned(k1, a) \in TaskRec
        /\ Assigned(k1, a).status = k1.status
    BY <2>2, MutatorTypes DEF Assigned, TaskRec
  <2>4. /\ EnforceConcurrencyCap(t, Assigned(k1, a))
        /\ Write(t, Assigned(k1, a))
        /\ ~ archived
    BY <1>11 DEF BatchUpdateTask, Mutable, k0, k1
  <2>5. LegalRow(t, Assigned(k1, a))
    BY <2>2, <2>3, <2>4 DEF LegalRow, EnforceConcurrencyCap, k0
  <2> QED BY <2>4, <2>5 DEF k1
<1>12. ASSUME NEW a \in Agents, NEW d \in BOOLEAN, ResetTask(t, a, d)
       PROVE  \/ Legal(Ended(k0, "failed"))
              \/ Legal(ResetToOpen(k0))
  <2>1. CASE Write(t, Ended(task[t], "failed"))
    BY <1>6, <1>12, <2>1 DEF ResetTask, CanTransitionTo
  <2>2. CASE Write(t, ResetToOpen(task[t]))
    <3>1. ResetToOpen(k0) \in TaskRec BY <1>0, MutatorTypes
    <3>2. ResetToOpen(k0).status = "open" BY DEF ResetToOpen
    <3> QED BY <1>12, <2>2, <3>1, <3>2 DEF ResetTask, LegalRow, IsTerminal, Mutable, k0
  <2> QED BY <1>12, <2>1, <2>2 DEF ResetTask
<1>13. ASSUME LeaseLapses(t)
       PROVE  Legal([k0 EXCEPT !.lease = "lapsed"])
  <2>1. [k0 EXCEPT !.lease = "lapsed"] \in TaskRec BY <1>0, MutatorTypes
  <2>2. /\ [k0 EXCEPT !.lease = "lapsed"].status = k0.status
        /\ [k0 EXCEPT !.lease = "lapsed"].assignee = k0.assignee
    BY <1>0 DEF TaskRec
  <2>3. ~ IsTerminal(k0.status) BY <1>0, <1>13 DEF LeaseLapses, k0
  <2> QED BY <1>0, <1>13, <2>1, <2>2, <2>3 DEF LeaseLapses, LegalRow, k0
<1>14. ASSUME NEW k, Legal(k)
       PROVE  \E kk \in TaskRec :
                /\ LegalRow(t, kk)
                /\ task' = [task EXCEPT ![t] = kk]
                /\ claimedBy' \in {claimedBy, [claimedBy EXCEPT ![t] = NoAgent]}
                /\ UNCHANGED <<cap, archived, sweep>>
  BY <1>14 DEF LegalRow, Write
<1> HIDE DEF Legal
<1>15. CASE \E a \in Owners, d \in BOOLEAN : CreateTask(t, a, d) BY <1>1, <1>15
<1>16. CASE \E a \in Agents : AssignTask(t, a) BY <1>2, <1>14, <1>16
<1>17. CASE UnassignTask(t) BY <1>3, <1>14, <1>17
<1>18. CASE StartTask(t) BY <1>4, <1>14, <1>18
<1>19. CASE \E a \in Agents : HeartbeatTask(t, a) \/ WorkerRenewLease(t, a)
  BY <1>5, <1>14, <1>19 DEF HeartbeatTask, WorkerRenewLease
<1>20. CASE NudgeOnLeaseExpiry(t) BY <1>5, <1>14, <1>20 DEF NudgeOnLeaseExpiry
<1>21. CASE BlockTask(t) \/ FailTask(t)
  BY <1>6, <1>14, <1>21 DEF BlockTask, FailTask, CanTransitionTo
<1>22. CASE DiscardTask(t) BY <1>6, <1>14, <1>22 DEF DiscardTask
<1>23. CASE CompleteTask(t) BY <1>7, <1>14, <1>23
<1>24. CASE RetryFailedTask(t) BY <1>8, <1>14, <1>24
<1>25. CASE \E s \in OverrideTargets : SetTaskStatus(t, s) BY <1>10, <1>14, <1>25
<1>26. CASE \E s \in OverrideTargets, a \in Owners : BatchUpdateTask(t, s, a)
  BY <1>11, <1>14, <1>26
<1>27. CASE \E a \in Agents, d \in BOOLEAN : ResetTask(t, a, d) BY <1>12, <1>14, <1>27
<1>28. CASE LeaseLapses(t) BY <1>13, <1>14, <1>28
<1> QED
  BY <1>15, <1>16, <1>17, <1>18, <1>19, <1>20, <1>21, <1>22, <1>23, <1>24, <1>25,
     <1>26, <1>27, <1>28 DEF TaskStep

(* Claim, release and auto-assign write an open task row, legal as well.   *)
LEMMA PoolRowIsLegal ==
  ASSUME IInv, NEW t \in Tasks, NEW a \in Owners, task[t].status = "open"
  PROVE  LegalRow(t, Assigned(task[t], a))
<1>1. task[t] \in TaskRec BY DEF IInv, TypeOK
<1>2. /\ Assigned(task[t], a) \in TaskRec
      /\ Assigned(task[t], a).status = "open"
  BY <1>1, MutatorTypes DEF Assigned, TaskRec
<1>3. ~ archived BY DEF IInv, ArchivedHasNoLiveTask, Live, Exists, IsTerminal
<1> QED BY <1>2, <1>3 DEF LegalRow, IsTerminal

\* One legal row is written, and neither the caps nor the project change.
RowWrite(t, k) ==
  LegalRow(t, k) /\ task' = [task EXCEPT ![t] = k] /\ UNCHANGED <<cap, archived>>

(* Every step writes one legal task row, or leaves the task table alone,   *)
(* or archives the project.                                                *)
LEMMA StepShape ==
  ASSUME IInv, [Next]_vars
  PROVE  \/ \E t \in Tasks, k \in TaskRec : RowWrite(t, k)
         \/ UNCHANGED <<task, archived>>
         \/ ArchiveProject
<1>0. task \in [Tasks -> TaskRec] BY DEF IInv, TypeOK
<1>1. ASSUME NEW t \in Tasks, TaskStep(t) PROVE \E k \in TaskRec : RowWrite(t, k)
  BY <1>1, TaskStepIsLegal DEF RowWrite
<1>2. ASSUME NEW t \in Tasks, NEW a \in Owners, task[t].status = "open",
             task' = [task EXCEPT ![t] = Assigned(@, a)], UNCHANGED <<cap, archived>>
      PROVE  \E k \in TaskRec : RowWrite(t, k)
  <2>1. LegalRow(t, Assigned(task[t], a)) BY <1>2, PoolRowIsLegal
  <2> QED BY <1>2, <2>1 DEF RowWrite, LegalRow
<1>3. ASSUME NEW t \in Tasks, PoolStep(t)
      PROVE  (\E k \in TaskRec : RowWrite(t, k)) \/ UNCHANGED <<task, archived>>
  <2>1. CASE \E a \in Agents : ClaimPoolTask(t, a)
    BY <1>2, <2>1 DEF ClaimPoolTask, Claimable, Ownerless, Owners
  <2>2. CASE \E a \in Agents : ReleasePoolTask(t, a)
    BY <1>2, <2>2 DEF ReleasePoolTask, Owners, Unassigned, Assigned
  <2> QED BY <1>3, <2>1, <2>2 DEF PoolStep, AddTaskToAssignmentPool,
           RemoveTaskFromAssignmentPool, SetClaim
<1>4. ASSUME SweepStep
      PROVE  (\E t \in Tasks, k \in TaskRec : RowWrite(t, k)) \/ UNCHANGED <<task, archived>>
  <2>1. CASE AutoAssignPoolTask
    BY <1>2, <2>1 DEF AutoAssignPoolTask, Claimable, Ownerless, Owners
  <2> QED BY <1>4, <2>1 DEF SweepStep, AutoAssignSweep, SelectAutoAssignee, SweepEnds
<1> QED BY <1>1, <1>3, <1>4 DEF Next, vars, SetConcurrencyCap, SweepFails

(* The task table part of the invariant.                                   *)
LEMMA RowsStayLegal ==
  ASSUME IInv, [Next]_vars
  PROVE  /\ task' \in [Tasks -> TaskRec]
         /\ archived' \in BOOLEAN
         /\ ArchivedHasNoLiveTask'
         /\ ConcludedHasNoLease'
<1>0. task \in [Tasks -> TaskRec] /\ archived \in BOOLEAN BY DEF IInv, TypeOK
<1>1. CASE \E t \in Tasks, k \in TaskRec : RowWrite(t, k)
  <2> PICK t \in Tasks, k \in TaskRec : RowWrite(t, k) BY <1>1
  <2>1. \A u \in Tasks : task'[u] = IF u = t THEN k ELSE task[u]
    BY <1>0 DEF RowWrite
  <2>2. k.status \in Statuses BY DEF TaskRec
  <2>3. /\ Exists(t)' /\ ~ IsTerminal(task'[t].status) => ~ archived
        /\ IsTerminal(task'[t].status) => task'[t].lease = "nil"
    BY <2>1, <2>2 DEF RowWrite, LegalRow, Exists, IsTerminal, Statuses
  <2>4. ArchivedHasNoLiveTask'
    BY <2>1, <2>3 DEF IInv, ArchivedHasNoLiveTask, Live, Exists, RowWrite
  <2>5. ConcludedHasNoLease' BY <2>1, <2>3 DEF IInv, ConcludedHasNoLease
  <2> QED BY <1>0, <2>4, <2>5 DEF RowWrite
<1>2. CASE UNCHANGED <<task, archived>>
  BY <1>0, <1>2 DEF IInv, ArchivedHasNoLiveTask, ConcludedHasNoLease, Live, Exists
<1>3. CASE ArchiveProject
  <2>1. \A u \in Tasks : /\ Ended(task[u], "discarded") \in TaskRec
                         /\ Ended(task[u], "discarded").status = "discarded"
                         /\ Ended(task[u], "discarded").lease = "nil"
    <3>1. \A u \in Tasks : Ended(task[u], "discarded") \in TaskRec
      BY <1>0, MutatorTypes DEF Statuses
    <3> QED BY <1>0, <3>1 DEF Ended, TaskRec
  <2>2. \A u \in Tasks : task'[u] = IF Live(u) THEN Ended(task[u], "discarded") ELSE task[u]
    BY <1>3 DEF ArchiveProject
  <2>3. task' \in [Tasks -> TaskRec] BY <1>0, <1>3, <2>1 DEF ArchiveProject
  <2>4. ArchivedHasNoLiveTask'
    BY <2>1, <2>2 DEF ArchivedHasNoLiveTask, Live, Exists, IsTerminal
  <2>5. ConcludedHasNoLease'
    BY <2>1, <2>2 DEF IInv, ConcludedHasNoLease
  <2> QED BY <1>3, <2>3, <2>4, <2>5 DEF ArchiveProject
<1> QED BY <1>1, <1>2, <1>3, StepShape

(* The pool rows and the caps keep their types.                            *)
LEMMA PoolTypes ==
  ASSUME IInv, [Next]_vars
  PROVE  /\ claimedBy' \in [Tasks -> Owners \cup {NotMember}]
         /\ cap' \in [Agents -> Nat \ {0}]
<1>0. /\ claimedBy \in [Tasks -> Owners \cup {NotMember}]
      /\ cap \in [Agents -> Nat \ {0}]
  BY DEF IInv, TypeOK
<1>1. ASSUME NEW t \in Tasks, TaskStep(t)
      PROVE  /\ claimedBy' \in [Tasks -> Owners \cup {NotMember}]
             /\ cap' \in [Agents -> Nat \ {0}]
  BY <1>0, <1>1, TaskStepIsLegal DEF Owners
<1>2. ASSUME NEW t \in Tasks, PoolStep(t)
      PROVE  /\ claimedBy' \in [Tasks -> Owners \cup {NotMember}]
             /\ cap' \in [Agents -> Nat \ {0}]
  BY <1>0, <1>2 DEF PoolStep, AddTaskToAssignmentPool, RemoveTaskFromAssignmentPool,
     SetClaim, ClaimPoolTask, ReleasePoolTask, Owners
<1>3. ASSUME SweepStep
      PROVE  /\ claimedBy' \in [Tasks -> Owners \cup {NotMember}]
             /\ cap' \in [Agents -> Nat \ {0}]
  BY <1>0, <1>3 DEF SweepStep, AutoAssignSweep, SelectAutoAssignee, AutoAssignPoolTask,
     SweepEnds, Owners
<1>4. ASSUME NEW a \in Agents, NEW n \in CapOptions[a], SetConcurrencyCap(a, n)
      PROVE  /\ claimedBy' \in [Tasks -> Owners \cup {NotMember}]
             /\ cap' \in [Agents -> Nat \ {0}]
  <2>1. n \in Nat \ {0} BY TaskPoolAssumption
  <2> QED BY <1>0, <1>4, <2>1 DEF SetConcurrencyCap
<1>5. CASE ArchiveProject BY <1>0, <1>5 DEF ArchiveProject
<1>6. CASE SweepFails BY <1>0, <1>6 DEF SweepFails
<1>7. CASE UNCHANGED vars BY <1>0, <1>7 DEF vars
<1> QED BY <1>1, <1>2, <1>3, <1>4, <1>5, <1>6, <1>7 DEF Next

(* There is at most one sweep in flight, and it is well formed.            *)
LEMMA SweepTypes ==
  ASSUME IInv, [Next]_vars
  PROVE  /\ sweep' \in SUBSET Sweeps
         /\ \A v, w \in sweep' : v = w
<1>0. /\ sweep \in SUBSET Sweeps
      /\ \A v, w \in sweep : v = w
  BY DEF IInv, TypeOK
<1>1. ASSUME NEW x \in Sweeps, sweep' = {x}
      PROVE  /\ sweep' \in SUBSET Sweeps
             /\ \A v, w \in sweep' : v = w
  BY <1>1
<1>2. CASE sweep' \in {sweep, {}} BY <1>0, <1>2
<1>3. ASSUME NEW w \in Sweeps, NEW P \in SUBSET (Tasks \X Agents)
      PROVE  /\ [w EXCEPT !.pick = P] \in Sweeps
             /\ \A T \in SUBSET Tasks, C \in SUBSET [Agents -> Nat] :
                  [w EXCEPT !.todo = T, !.caps = C] \in Sweeps
             /\ \A a \in Agents :
                  [w EXCEPT !.pick = P, !.reserved[a] = @ + 1] \in Sweeps
  <2>1. w \in [todo : SUBSET Tasks, reserved : [Agents -> Nat],
               caps : SUBSET [Agents -> Nat], pick : SUBSET (Tasks \X Agents)]
    BY DEF Sweeps
  <2>2. ASSUME NEW a \in Agents
        PROVE  [w EXCEPT !.pick = P, !.reserved[a] = @ + 1] \in Sweeps
    <3>1. w.reserved \in [Agents -> Nat] BY <2>1
    <3>2. w.reserved[a] + 1 \in Nat
      <4>1. w.reserved[a] \in Nat BY <3>1
      <4>2. \A x \in Nat : x + 1 \in Nat OBVIOUS
      <4> QED BY <4>1, <4>2
    <3>3. [w.reserved EXCEPT ![a] = w.reserved[a] + 1] \in [Agents -> Nat] BY <3>1, <3>2
    <3>4. [w EXCEPT !.pick = P, !.reserved[a] = @ + 1] =
          [w EXCEPT !.pick = P, !.reserved = [w.reserved EXCEPT ![a] = w.reserved[a] + 1]]
      BY <2>1
    <3>5. \A Q \in [Agents -> Nat] : [w EXCEPT !.pick = P, !.reserved = Q] \in Sweeps
      BY <2>1 DEF Sweeps
    <3> QED BY <3>3, <3>4, <3>5
  <2> QED BY <2>1, <2>2 DEF Sweeps
<1>4. CASE AutoAssignSweep
  <2>1. [a \in Agents |-> 0] \in [Agents -> Nat] OBVIOUS
  <2>2. \A T \in SUBSET Tasks, R \in [Agents -> Nat] :
          [todo |-> T, reserved |-> R, caps |-> {}, pick |-> {}] \in Sweeps
    BY DEF Sweeps
  <2>3. PICK listed \in SUBSET Tasks :
          sweep' = {[todo |-> {t \in listed : Ownerless(t)},
                     reserved |-> [a \in Agents |-> 0], caps |-> {}, pick |-> {}]}
    BY <1>4 DEF AutoAssignSweep
  <2>4. {t \in listed : Ownerless(t)} \in SUBSET Tasks OBVIOUS
  <2> QED BY <1>1, <2>1, <2>2, <2>3, <2>4
<1>5. ASSUME NEW t \in Tasks, SelectAutoAssignee(t)
      PROVE  \E x \in Sweeps : sweep' = {x}
  <2> DEFINE After(w) ==
        [w EXCEPT !.todo = @ \ {t},
                  !.caps = IF claimedBy[t] = NoAgent /\ @ = {} THEN {cap} ELSE @]
  <2>1. PICK w \in sweep :
          \/ \E a \in LeastBusy(After(w)) : sweep' = {[After(w) EXCEPT !.pick = {<<t, a>>}]}
          \/ sweep' = {After(w)}
    BY <1>5 DEF SelectAutoAssignee
  <2>2. w \in Sweeps BY <1>0
  <2>3. /\ w.todo \ {t} \in SUBSET Tasks
        /\ (IF claimedBy[t] = NoAgent /\ w.caps = {} THEN {cap} ELSE w.caps)
             \in SUBSET [Agents -> Nat]
    <3>1. cap \in [Agents -> Nat] BY DEF IInv, TypeOK
    <3> QED BY <2>2, <3>1 DEF Sweeps
  <2>4. After(w) \in Sweeps
    <3>1. After(w) = [w EXCEPT !.todo = w.todo \ {t},
                        !.caps = IF claimedBy[t] = NoAgent /\ w.caps = {} THEN {cap} ELSE w.caps]
      BY <2>2 DEF Sweeps
    <3>2. {} \in SUBSET (Tasks \X Agents) OBVIOUS
    <3> QED BY <1>3, <2>2, <2>3, <3>1, <3>2
  <2> HIDE DEF After
  <2>5. CASE sweep' = {After(w)} BY <2>4, <2>5
  <2>6. ASSUME NEW a \in LeastBusy(After(w)), sweep' = {[After(w) EXCEPT !.pick = {<<t, a>>}]}
        PROVE  \E x \in Sweeps : sweep' = {x}
    <3>1. {<<t, a>>} \in SUBSET (Tasks \X Agents) BY DEF LeastBusy
    <3> QED BY <1>3, <2>4, <2>6, <3>1
  <2> QED BY <2>1, <2>5, <2>6
<1>6. ASSUME AutoAssignPoolTask
      PROVE  \E x \in Sweeps : sweep' = {x}
  <2>1. PICK w \in sweep, a \in Agents :
          \/ sweep' = {[w EXCEPT !.pick = {}, !.reserved[a] = @ + 1]}
          \/ sweep' = {[w EXCEPT !.pick = {}]}
    BY <1>6 DEF AutoAssignPoolTask
  <2>2. w \in Sweeps /\ {} \in SUBSET (Tasks \X Agents) BY <1>0
  <2>3. [w EXCEPT !.pick = {}, !.reserved[a] = @ + 1] \in Sweeps BY <1>3, <2>2
  <2>4. [w EXCEPT !.pick = {}] \in Sweeps BY <1>3, <2>2
  <2> QED BY <2>1, <2>3, <2>4
<1>7. ASSUME NEW t \in Tasks, TaskStep(t) \/ PoolStep(t) PROVE sweep' = sweep
  <2>1. CASE TaskStep(t) BY <2>1, TaskStepIsLegal
  <2>2. CASE PoolStep(t)
    BY <2>2 DEF PoolStep, AddTaskToAssignmentPool, RemoveTaskFromAssignmentPool,
       SetClaim, ClaimPoolTask, ReleasePoolTask
  <2> QED BY <1>7, <2>1, <2>2
<1>8. CASE ArchiveProject BY <1>2, <1>8 DEF ArchiveProject
<1>9. CASE \E a \in Agents : \E n \in CapOptions[a] : SetConcurrencyCap(a, n)
  BY <1>2, <1>9 DEF SetConcurrencyCap
<1>10. CASE UNCHANGED vars BY <1>2, <1>10 DEF vars
<1>11. CASE SweepEnds \/ SweepFails BY <1>2, <1>11 DEF SweepEnds, SweepFails
<1> QED BY <1>1, <1>2, <1>4, <1>5, <1>6, <1>7, <1>8, <1>9, <1>10, <1>11
         DEF Next, SweepStep

LEMMA InitIInv == Init => IInv
<1> SUFFICES ASSUME Init PROVE IInv OBVIOUS
<1>1. NewTask \in TaskRec BY DEF NewTask, TaskRec, Statuses, Leases
<1>2. cap \in [Agents -> Nat \ {0}]
  <2>1. \A a \in Agents : cap[a] \in CapOptions[a] BY DEF Init
  <2>2. \A a \in Agents : cap[a] \in Nat \ {0} BY <2>1, TaskPoolAssumption
  <2>3. cap = [a \in Agents |-> cap[a]] BY DEF Init
  <2> QED BY <2>2, <2>3
<1>3. TypeOK BY <1>1, <1>2 DEF Init, TypeOK, Owners
<1>4. ConcludedHasNoLease BY DEF Init, ConcludedHasNoLease, NewTask
<1>5. ArchivedHasNoLiveTask BY DEF Init, ArchivedHasNoLiveTask
<1> QED BY <1>3, <1>4, <1>5 DEF IInv

LEMMA NextIInv == IInv /\ [Next]_vars => IInv'
BY RowsStayLegal, PoolTypes, SweepTypes DEF IInv, TypeOK

(* Whatever the tasks, agents and caps: the tables are well formed, an     *)
(* archived project has no live task, and a concluded task no lease.       *)
THEOREM PoolInvariant == Spec => []IInv
<1>1. IInv /\ UNCHANGED vars => IInv'
  BY NextIInv
<1> QED BY <1>1, InitIInv, NextIInv, PTL DEF Spec

(* Writing one legal row overfills no agent.                               *)
LEMMA LegalRowKeepsCap ==
  ASSUME IInv, NEW t \in Tasks, NEW k \in TaskRec, RowWrite(t, k), NEW a \in Agents,
         Cardinality(RunningOf(a))' > Cardinality(RunningOf(a))
  PROVE  Cardinality(RunningOf(a))' <= cap'[a]
<1>0. /\ task \in [Tasks -> TaskRec]
      /\ cap' = cap
      /\ a # NoAgent
  BY TaskPoolAssumption DEF IInv, TypeOK, RowWrite
<1>1. \A u \in Tasks : task'[u] = IF u = t THEN k ELSE task[u] BY <1>0 DEF RowWrite
<1>2. RunningOf(a)' = IF k.status = "running" /\ k.assignee = a
                      THEN (RunningOf(a) \ {t}) \cup {t} ELSE RunningOf(a) \ {t}
  BY <1>1 DEF RunningOf
<1>3. IsFiniteSet(RunningOf(a)) /\ IsFiniteSet(RunningOf(a) \ {t})
  <2>1. RunningOf(a) \in SUBSET Tasks BY DEF RunningOf
  <2>2. RunningOf(a) \ {t} \in SUBSET Tasks BY <2>1
  <2> QED BY <2>1, <2>2, TaskPoolAssumption, FS_Subset
<1>4. CASE ~ (k.status = "running" /\ k.assignee = a)
  <2>1. RunningOf(a)' = RunningOf(a) \ {t} BY <1>2, <1>4
  <2>2. RunningOf(a) \ {t} \in SUBSET RunningOf(a) OBVIOUS
  <2>3. Cardinality(RunningOf(a) \ {t}) <= Cardinality(RunningOf(a))
    BY <1>3, <2>2, FS_Subset
  <2>4. /\ Cardinality(RunningOf(a)) \in Nat
        /\ Cardinality(RunningOf(a) \ {t}) \in Nat
    BY <1>3, FS_CardinalityType
  <2> QED BY <2>1, <2>3, <2>4
<1>5. CASE k.status = "running" /\ k.assignee = a
  <2>1. RunningOf(a)' = (RunningOf(a) \ {t}) \cup {t} BY <1>2, <1>5
  <2>2. CASE t \in RunningOf(a)
    <3>1. RunningOf(a)' = RunningOf(a) BY <2>1, <2>2
    <3>2. Cardinality(RunningOf(a)) \in Nat BY <1>3, FS_CardinalityType
    <3> QED BY <3>1, <3>2
  <2>3. CASE t \notin RunningOf(a)
    <3>1. Cardinality(RunningOf(a) \ {t}) + 1 <= cap[a]
      BY <1>0, <1>5, <2>3 DEF RowWrite, LegalRow, RunningOf
    <3>2. Cardinality((RunningOf(a) \ {t}) \cup {t}) = Cardinality(RunningOf(a) \ {t}) + 1
      <4>1. t \notin RunningOf(a) \ {t} OBVIOUS
      <4> QED BY <1>3, <4>1, FS_AddElement
    <3> QED BY <1>0, <2>1, <3>1, <3>2
  <2> QED BY <2>2, <2>3
<1> QED BY <1>4, <1>5

(* No operation gives an agent a running task beyond its cap.              *)
THEOREM CapHolds == Spec => SlotsNeverOverfilled
<1>1. ASSUME IInv, [Next]_vars, NEW a \in Agents,
             Cardinality(RunningOf(a))' > Cardinality(RunningOf(a))
      PROVE  Cardinality(RunningOf(a))' <= cap'[a]
  <2>0. /\ RunningOf(a) \in SUBSET Tasks
        /\ RunningOf(a)' \in SUBSET Tasks
    BY DEF RunningOf
  <2>00. /\ IsFiniteSet(RunningOf(a))
         /\ Cardinality(RunningOf(a)) \in Nat
    BY <2>0, TaskPoolAssumption, FS_Subset, FS_CardinalityType
  <2>1. CASE \E t \in Tasks, k \in TaskRec : RowWrite(t, k)
    BY <1>1, <2>1, LegalRowKeepsCap
  <2>2. CASE UNCHANGED <<task, archived>>
    <3>1. RunningOf(a)' = RunningOf(a) BY <2>2 DEF RunningOf
    <3> QED BY <1>1, <2>00, <3>1
  <2>3. CASE ArchiveProject
    <3>1. task \in [Tasks -> TaskRec] BY <1>1 DEF IInv, TypeOK
    <3>2. \A u \in Tasks : task'[u].status # "running"
      <4>1. \A u \in Tasks : Ended(task[u], "discarded").status = "discarded"
        BY <3>1 DEF Ended, TaskRec
      <4> QED BY <2>3, <4>1 DEF ArchiveProject, Live, Exists, IsTerminal
    <3>3. RunningOf(a)' = {} BY <3>2 DEF RunningOf
    <3>4. Cardinality(RunningOf(a)') = 0 BY <3>3, FS_EmptySet
    <3> QED BY <1>1, <2>00, <3>4
  <2> QED BY <1>1, <2>1, <2>2, <2>3, StepShape
<1>2. IInv /\ [Next]_vars =>
        [\A a \in Agents : Cardinality(RunningOf(a))' > Cardinality(RunningOf(a)) =>
           Cardinality(RunningOf(a))' <= cap'[a]]_vars
  BY <1>1
<1> QED BY <1>2, PoolInvariant, PTL DEF Spec, SlotsNeverOverfilled

(* Nothing rewrites a concluded task, except the retry of a failed one.    *)
THEOREM ConcludedStays == Spec => TerminalFactsStay
<1>1. ASSUME IInv, [Next]_vars, NEW t \in Tasks,
             IsTerminal(task[t].status), task'[t] # task[t]
      PROVE  task[t].status = "failed" /\ task'[t] = Retried(task[t])
  <2>0. task \in [Tasks -> TaskRec] BY <1>1 DEF IInv, TypeOK
  <2>1. CASE \E u \in Tasks, k \in TaskRec : RowWrite(u, k)
    BY <1>1, <2>0, <2>1 DEF RowWrite, LegalRow
  <2>2. CASE UNCHANGED <<task, archived>> BY <1>1, <2>2
  <2>3. CASE ArchiveProject BY <1>1, <2>3 DEF ArchiveProject, Live
  <2> QED BY <1>1, <2>1, <2>2, <2>3, StepShape
<1>2. IInv /\ [Next]_vars =>
        [\A t \in Tasks : IsTerminal(task[t].status) /\ task'[t] # task[t] =>
           task[t].status = "failed" /\ task'[t] = Retried(task[t])]_vars
  BY <1>1
<1> QED BY <1>2, PoolInvariant, PTL DEF Spec, TerminalFactsStay

(* A claim takes only an ownerless task and writes both tables.            *)
THEOREM ClaimsAreClean == Spec => ClaimTakesOwnerless
<1>1. ASSUME IInv, [Next]_vars, NEW t \in Tasks,
             claimedBy'[t] \in Agents, claimedBy'[t] # claimedBy[t]
      PROVE  Claimable(t) /\ task'[t] = Assigned(task[t], claimedBy'[t])
  <2>0. /\ task \in [Tasks -> TaskRec]
        /\ claimedBy \in [Tasks -> Owners \cup {NotMember}]
    BY <1>1 DEF IInv, TypeOK
  <2>1. ASSUME NEW u \in Tasks, NEW c,
               claimedBy' = [claimedBy EXCEPT ![u] = c], c \in {NoAgent, NotMember}
        PROVE  FALSE
    BY <1>1, <2>0, <2>1, TaskPoolAssumption
  <2>2. ASSUME NEW u \in Tasks, NEW a \in Agents, Claimable(u),
               task' = [task EXCEPT ![u] = Assigned(@, a)],
               claimedBy' = [claimedBy EXCEPT ![u] = a]
        PROVE  Claimable(t) /\ task'[t] = Assigned(task[t], claimedBy'[t])
    <3>1. u = t BY <1>1, <2>0, <2>2
    <3> QED BY <2>0, <2>2, <3>1
  <2>3. ASSUME NEW u \in Tasks, TaskStep(u) PROVE FALSE
    BY <1>1, <2>1, <2>3, TaskStepIsLegal
  <2>4. ASSUME NEW u \in Tasks, PoolStep(u)
        PROVE  Claimable(t) /\ task'[t] = Assigned(task[t], claimedBy'[t])
    <3>1. CASE AddTaskToAssignmentPool(u) \/ RemoveTaskFromAssignmentPool(u)
      BY <2>1, <3>1 DEF AddTaskToAssignmentPool, RemoveTaskFromAssignmentPool, SetClaim
    <3>2. CASE \E a \in Agents : ClaimPoolTask(u, a) BY <2>2, <3>2 DEF ClaimPoolTask
    <3>3. CASE \E a \in Agents : ReleasePoolTask(u, a) BY <2>1, <3>3 DEF ReleasePoolTask
    <3> QED BY <2>4, <3>1, <3>2, <3>3 DEF PoolStep
  <2>5. ASSUME SweepStep
        PROVE  Claimable(t) /\ task'[t] = Assigned(task[t], claimedBy'[t])
    <3>1. CASE AutoAssignPoolTask
      <4>1. CASE claimedBy' = claimedBy BY <1>1, <4>1
      <4> QED BY <2>2, <3>1, <4>1 DEF AutoAssignPoolTask
    <3> QED BY <1>1, <2>5, <3>1 DEF SweepStep, AutoAssignSweep, SelectAutoAssignee, SweepEnds
  <2> QED BY <1>1, <2>3, <2>4, <2>5
           DEF Next, vars, ArchiveProject, SetConcurrencyCap, SweepFails
<1>2. IInv /\ [Next]_vars =>
        [\A t \in Tasks : claimedBy'[t] \in Agents /\ claimedBy'[t] # claimedBy[t] =>
           Claimable(t) /\ task'[t] = Assigned(task[t], claimedBy'[t])]_vars
  BY <1>1
<1> QED BY <1>2, PoolInvariant, PTL DEF Spec, ClaimTakesOwnerless

==============================================================================
