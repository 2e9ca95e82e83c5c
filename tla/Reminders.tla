------------------------------ MODULE Reminders ------------------------------
(***************************************************************************)
(* Reminders (internal/cognition/reminder): rows that wake an agent at a   *)
(* time, on a schedule or after an event.  One goroutine, the outbox pump, *)
(* scans for due rows on each tick, fires them one transaction each, and   *)
(* then drains the outbox, which posts the message of a firing and arms    *)
(* the rows that wait for an event.  Against it run the calls of agents    *)
(* and users, which read a row, change it in memory and write it back if   *)
(* its version is still the one they read.                                 *)
(*                                                                         *)
(* Times are numbers, 0 is none.  A cron expression is its period.  Left   *)
(* out: who may manage a reminder, time zones, the message's sender, the   *)
(* audit log, and events of other projects, which arm nothing.             *)
(***************************************************************************)
EXTENDS Naturals, FiniteSets, Sequences

CONSTANTS
  Rems,       \* reminder ids
  Templates,  \* what a reminder may be created as: [sched, watch, delay, skip, end]
  Edits,      \* the schedules an edit may set
  Clients,    \* concurrent callers of the service
  MaxTime,    \* bound of the clock
  MaxCalls,   \* bound on calls that change a reminder
  MaxChanges, \* bound on events of the watched entity
  MaxFaults   \* bound on failing transactions, failing deliveries and crashes

Schedule == [kind : {"once", "cron", "on_event"}, at : Nat]
EndCondition == [kind : {"never", "until", "max_count"}, n : Nat]

ASSUME RemindersAssumption ==
  /\ Templates \subseteq [sched : Schedule, watch : BOOLEAN, delay : Nat,
                          skip : BOOLEAN, end : EndCondition]
  /\ \A m \in Templates : (m.sched.kind = "on_event") <=> m.watch
  /\ \A m \in Templates : m.end.kind = "max_count" => m.end.n > 0
  /\ Edits \subseteq {s \in Schedule : s.kind # "on_event"}
  /\ \A s \in Edits \cup {m.sched : m \in Templates} : s.kind = "cron" => s.at > 0
  /\ MaxTime \in Nat /\ MaxCalls \in Nat /\ MaxChanges \in Nat /\ MaxFaults \in Nat

VARIABLES
  clock,
  rows,      \* reminders: the rows there are, by id
  created,   \* ids that were given out
  firings,   \* reminder_firings, by id
  lastId,    \* the last firing id given out
  events,    \* outbox_events in the order of their ids
  applied,   \* outbox_applied of the projector concerned
  processed, \* events with processed_at set
  posted,    \* firings whose message was posted
  pump,      \* the pump: "fetch", "drain", "idle" or "fire"
  at,        \* now of the scan
  due,       \* rows FindDue returned and fireOne has not handled
  batch,     \* events RunOnce fetched and has not left behind
  stage,     \* of the event at hand: 0, 1 after Deliver, 2 after the write-back
  progress,  \* this pass processed an event
  call,      \* the row each caller read and what it made of it, <<>> for none
  calls, changes, faults  \* bounding

store == <<rows, created, firings, lastId>>
outbox == <<events, applied, processed, posted>>
goroutine == <<pump, at, due, batch, stage, progress>>
bounds == <<calls, changes, faults>>
vars == <<clock, store, outbox, goroutine, call, bounds>>

Fault == faults < MaxFaults /\ faults' = faults + 1 /\ UNCHANGED <<calls, changes>>

-----------------------------------------------------------------------------
(* The aggregate: what its methods make of a row.                          *)

\* The first run strictly after t; an event-driven schedule derives none.
NextAfter(s, t) ==
  CASE s.kind = "cron" -> s.at * ((t \div s.at) + 1)
    [] s.kind = "once" -> IF s.at > t THEN s.at ELSE 0
    [] s.kind = "on_event" -> 0

\* Mutant: one firing too many.
Reached_OneMore(end, fired, next) ==
  CASE end.kind = "max_count" -> fired > end.n
    [] end.kind = "until" -> next = 0 \/ next > end.n
    [] end.kind = "never" -> next = 0

Reached(end, fired, next) ==
  CASE end.kind = "max_count" -> fired >= end.n
    [] end.kind = "until" -> next = 0 \/ next > end.n
    [] end.kind = "never" -> next = 0

Terminal == {"completed", "canceled"}

Live(w) == w.status \notin Terminal

Settle(w, s) == [w EXCEPT !.status = s, !.next = 0]

\* RecordSkip: on to the next run, or completed.
Advanced(w, t) ==
  LET next == NextAfter(w.sched, t)
  IN IF w.sched.kind # "cron" \/ Reached(w.end, w.fired, next)
     THEN Settle(w, "completed")
     ELSE [w EXCEPT !.next = next]

\* RecordFire
Fired(w, t) == Advanced([w EXCEPT !.fired = @ + 1], t)

\* Pause, Resume, Cancel and Update; the empty set is an error.
Pause(w) ==
  IF ~Live(w) THEN {} ELSE {IF w.status = "paused" THEN w ELSE Settle(w, "paused")}

Resume(w) ==
  LET next == NextAfter(w.sched, clock)
  IN IF ~Live(w) THEN {}
     ELSE IF w.status = "active" THEN {w}
     ELSE IF next = 0 THEN {Settle(w, "completed")}
     ELSE {[w EXCEPT !.status = "active", !.next = next]}

Cancel(w) == IF Live(w) THEN {Settle(w, "canceled")} ELSE {}

\* An edit of the content alone writes the row back as it was read.
Edit(w) ==
  IF ~Live(w) THEN {}
  ELSE {w} \cup
       {[w EXCEPT !.sched = s,
                  !.next = IF w.status = "active" THEN NextAfter(s, clock) ELSE @] :
          s \in {x \in Edits : NextAfter(x, clock) # 0}}

\* What a watched event makes of a dormant row.
Armed(w, t) == [w EXCEPT !.next = t + w.delay]

\* FindArmedByEvent, less the rows Arm refuses.
Dormant ==
  {r \in DOMAIN rows : /\ rows[r].status = "active" /\ rows[r].next = 0
                       /\ rows[r].watch /\ rows[r].sched.kind = "on_event"}

IsDue(w, t) == w.status = "active" /\ w.next \in 1..t

-----------------------------------------------------------------------------
(* The repository.                                                         *)

\* Mutant: the version is not compared.
UpdateRow_Unchecked(r, w, version) ==
  /\ r \in DOMAIN rows
  /\ rows' = [rows EXCEPT ![r] = [w EXCEPT !.version = rows[r].version + 1]]

\* Update: compare and swap on the version that was read.
UpdateRow(r, w, version) ==
  /\ r \in DOMAIN rows
  /\ rows[r].version = version
  /\ rows' = [rows EXCEPT ![r] = [w EXCEPT !.version = version + 1]]

HasPendingFiring(r) ==
  \E f \in DOMAIN firings : firings[f].rem = r /\ firings[f].outcome = "pending"

AppendFiring(r, o) ==
  /\ lastId' = lastId + 1
  /\ firings' = [f \in DOMAIN firings \cup {lastId + 1} |->
                   IF f = lastId + 1 THEN [rem |-> r, outcome |-> o] ELSE firings[f]]

Without(f, S) == [x \in DOMAIN f \ S |-> f[x]]

-----------------------------------------------------------------------------
(* The service.                                                            *)

Create(r, m) ==
  LET next == NextAfter(m.sched, clock) IN
  /\ r \notin created
  /\ m.watch \/ next # 0
  /\ created' = created \cup {r}
  /\ rows' = [x \in DOMAIN rows \cup {r} |->
                IF x # r THEN rows[x]
                ELSE [sched |-> m.sched, watch |-> m.watch, delay |-> m.delay,
                      skip |-> m.skip, end |-> m.end, status |-> "active",
                      next |-> next, fired |-> 0, version |-> 1]]
  /\ UNCHANGED <<clock, firings, lastId, outbox, goroutine, call, bounds>>

CallsOnce == calls < MaxCalls /\ calls' = calls + 1 /\ UNCHANGED <<changes, faults>>

\* UpdateReminder and DeleteReminder up to their transaction: the row is read
\* and changed in memory.
Begin(c, r) ==
  /\ call[c] = <<>>
  /\ r \in DOMAIN rows
  /\ CallsOnce
  /\ \/ \E w \in Pause(rows[r]) \cup Resume(rows[r]) \cup Cancel(rows[r]) \cup Edit(rows[r]) :
          call' = [call EXCEPT ![c] = <<[rem |-> r, delete |-> FALSE, row |-> w]>>]
     \/ call' = [call EXCEPT ![c] = <<[rem |-> r, delete |-> TRUE, row |-> rows[r]]>>]
  /\ UNCHANGED <<clock, store, outbox, goroutine>>

Return(c) == call' = [call EXCEPT ![c] = <<>>]

CommitUpdate(c) ==
  /\ call[c] # <<>>
  /\ ~call[c][1].delete
  /\ UpdateRow(call[c][1].rem, call[c][1].row, call[c][1].row.version)
  /\ Return(c)
  /\ UNCHANGED <<clock, created, firings, lastId, outbox, goroutine, bounds>>

\* The row and its history go; events of its firings stay in the outbox.
CommitDelete(c) ==
  /\ call[c] # <<>>
  /\ call[c][1].delete
  /\ LET r == call[c][1].rem IN
       /\ r \in DOMAIN rows
       /\ rows' = Without(rows, {r})
       /\ firings' = Without(firings, {f \in DOMAIN firings : firings[f].rem = r})
  /\ Return(c)
  /\ UNCHANGED <<clock, created, lastId, outbox, goroutine, bounds>>

\* The row was changed or deleted meanwhile, or the call failed.
Refuse(c) ==
  /\ call[c] # <<>>
  /\ Return(c)
  /\ UNCHANGED <<clock, store, outbox, goroutine, bounds>>

-----------------------------------------------------------------------------
(* The tick hook: scan and fire.                                           *)

\* Tick: FindDue at the time of the tick.  One that fails finds nothing.
Tick ==
  /\ pump = "idle"
  /\ pump' = "fire"
  /\ at' = clock
  /\ due' = [r \in {x \in DOMAIN rows : IsDue(rows[x], clock)} |-> rows[r]]
  /\ UNCHANGED <<clock, store, outbox, batch, stage, progress, call, bounds>>

\* Oldest due first.
NextDue(r) ==
  /\ pump = "fire"
  /\ r \in DOMAIN due
  /\ \A q \in DOMAIN due : due[r].next <= due[q].next

Handled(r) ==
  /\ due' = Without(due, {r})
  /\ UNCHANGED <<clock, created, applied, processed, posted,
                 pump, at, batch, stage, progress, call>>

\* fireOne: the previous firing is still on its way.
SkipOverlap(r) ==
  /\ NextDue(r)
  /\ due[r].skip /\ HasPendingFiring(r)
  /\ UpdateRow(r, Advanced(due[r], at), due[r].version)
  /\ AppendFiring(r, "skipped_overlap")
  /\ Handled(r)
  /\ UNCHANGED <<events, bounds>>

\* fireOne: the row, the firing and the event in one transaction.
FireOne(r) ==
  /\ NextDue(r)
  /\ ~(due[r].skip /\ HasPendingFiring(r))
  /\ UpdateRow(r, Fired(due[r], at), due[r].version)
  /\ AppendFiring(r, "pending")
  /\ events' = Append(events, [firing |-> lastId + 1, at |-> at])
  /\ Handled(r)
  /\ UNCHANGED bounds

\* fireOne: the row changed since the scan.
LostRace(r) ==
  /\ NextDue(r)
  /\ ~(r \in DOMAIN rows /\ rows[r].version = due[r].version)
  /\ Handled(r)
  /\ UNCHANGED <<rows, firings, lastId, events, bounds>>

\* fireOne: the transaction fails; the scan goes on with the next row.
FireFails(r) ==
  /\ NextDue(r)
  /\ Fault
  /\ Handled(r)
  /\ UNCHANGED <<rows, firings, lastId, events>>

ScanDone ==
  /\ pump = "fire"
  /\ DOMAIN due = {}
  /\ pump' = "fetch"
  /\ UNCHANGED <<clock, store, outbox, at, due, batch, stage, progress, call, bounds>>

-----------------------------------------------------------------------------
(* The drain: the relay with the two projectors of this package.           *)

Fetch ==
  /\ pump = "fetch"
  /\ pump' = "drain"
  /\ batch' = DOMAIN events \ processed
  /\ stage' = 0
  /\ progress' = FALSE
  /\ UNCHANGED <<clock, store, outbox, at, due, call, bounds>>

At(e) == pump = "drain" /\ e \in batch /\ \A d \in batch : e <= d

Firing(e) == events[e].firing

LeaveEvent(e) == batch' = batch \ {e} /\ stage' = 0

InPump == UNCHANGED <<clock, created, lastId, events, pump, at, due, call>>

\* ReminderEventProjector: arm what waits for the event, in one transaction
\* with the ledger row.
ArmMatching(e) ==
  /\ At(e)
  /\ Firing(e) = 0
  /\ e \notin applied
  /\ rows' = [r \in DOMAIN rows |->
                IF r \in Dormant
                THEN [Armed(rows[r], events[e].at) EXCEPT !.version = @ + 1]
                ELSE rows[r]]
  /\ applied' = applied \cup {e}
  /\ InPump
  /\ UNCHANGED <<firings, processed, posted, batch, stage, progress, bounds>>

\* ReminderDeliveryProjector: the message is posted ...
Deliver(e) ==
  /\ At(e)
  /\ Firing(e) # 0
  /\ e \notin applied
  /\ stage = 0
  /\ posted' = posted \cup {Firing(e)}
  /\ stage' = 1
  /\ InPump
  /\ UNCHANGED <<rows, firings, applied, processed, batch, progress, bounds>>

\* ... the firing is marked; a deleted one is no error ...
UpdateFiringOutcome(e) ==
  /\ At(e)
  /\ stage = 1
  /\ firings' = [f \in DOMAIN firings |->
                   IF f = Firing(e) THEN [firings[f] EXCEPT !.outcome = "delivered"]
                   ELSE firings[f]]
  /\ stage' = 2
  /\ InPump
  /\ UNCHANGED <<rows, applied, processed, posted, batch, progress, bounds>>

\* ... and the relay writes the ledger row.
MarkApplied(e) ==
  /\ At(e)
  /\ stage = 2
  /\ applied' = applied \cup {e}
  /\ stage' = 0
  /\ InPump
  /\ UNCHANGED <<rows, firings, processed, posted, batch, progress, bounds>>

\* Mutant: a failed write-back is not reported to the relay.
ProjectFails_Swallowed(e) ==
  /\ At(e)
  /\ e \notin applied
  /\ stage = 1
  /\ Fault
  /\ stage' = 2
  /\ InPump
  /\ UNCHANGED <<rows, firings, applied, processed, posted, batch, progress>>

\* A projector fails, before or after it posted: the event is left for the
\* next pass.
ProjectFails(e) ==
  /\ At(e)
  /\ e \notin applied
  /\ stage < 2
  /\ Fault
  /\ LeaveEvent(e)
  /\ InPump
  /\ UNCHANGED <<rows, firings, applied, processed, posted, progress>>

MarkProcessed(e) ==
  /\ At(e)
  /\ e \in applied
  /\ processed' = processed \cup {e}
  /\ progress' = TRUE
  /\ LeaveEvent(e)
  /\ InPump
  /\ UNCHANGED <<rows, firings, applied, posted, bounds>>

PassEnds ==
  /\ pump = "drain"
  /\ batch = {}
  /\ pump' = IF progress THEN "fetch" ELSE "idle"
  /\ UNCHANGED <<clock, store, outbox, at, due, batch, stage, progress, call, bounds>>

-----------------------------------------------------------------------------
\* The watched entity changes: its service appends the event.
Change ==
  /\ changes < MaxChanges
  /\ changes' = changes + 1
  /\ events' = Append(events, [firing |-> 0, at |-> clock])
  /\ UNCHANGED <<clock, store, applied, processed, posted, goroutine, call, calls, faults>>

\* The center stops and starts again.
Crash ==
  /\ Fault
  /\ pump' = "fetch"
  /\ due' = Without(due, DOMAIN due)
  /\ batch' = {}
  /\ stage' = 0
  /\ call' = [c \in Clients |-> <<>>]
  /\ UNCHANGED <<clock, store, outbox, at, progress>>

TimePasses ==
  /\ clock < MaxTime
  /\ clock' = clock + 1
  /\ UNCHANGED <<store, outbox, goroutine, call, bounds>>

Nothing == [x \in {} |-> 0]

Firings == 1..(Cardinality(Rems) * (MaxTime + 1) + MaxCalls)

Init ==
  /\ clock = 1
  /\ rows = Nothing /\ created = {}
  /\ firings = Nothing /\ lastId = 0
  /\ events = <<>> /\ applied = {} /\ processed = {}
  /\ posted = {}
  /\ pump = "fetch" /\ at = 0 /\ due = Nothing
  /\ batch = {} /\ stage = 0 /\ progress = FALSE
  /\ call = [c \in Clients |-> <<>>]
  /\ calls = 0 /\ changes = 0 /\ faults = 0

PumpStep ==
  \/ Tick
  \/ \E r \in Rems : SkipOverlap(r) \/ FireOne(r) \/ LostRace(r)
  \/ ScanDone
  \/ Fetch
  \/ \E e \in DOMAIN events :
       \/ ArmMatching(e)
       \/ Deliver(e)
       \/ UpdateFiringOutcome(e)
       \/ MarkApplied(e)
       \/ MarkProcessed(e)
  \/ PassEnds

Next ==
  \/ PumpStep
  \/ \E r \in Rems, m \in Templates : Create(r, m)
  \/ \E c \in Clients : \/ \E r \in Rems : Begin(c, r)
                        \/ CommitUpdate(c)
                        \/ CommitDelete(c)
                        \/ Refuse(c)
  \/ \E r \in Rems : FireFails(r)
  \/ \E e \in DOMAIN events : ProjectFails(e)
  \/ Change
  \/ Crash
  \/ TimePasses

\* The pump goroutine keeps going; nobody else is obliged to act.
Spec == Init /\ [][Next]_vars /\ WF_vars(PumpStep)

-----------------------------------------------------------------------------
\* A row keeps the schedule it was created with or an edit set.
Schedules == Edits \cup {m.sched : m \in Templates}

Row == [sched : Schedules, watch : BOOLEAN, delay : Nat, skip : BOOLEAN,
        end : EndCondition, status : {"active", "paused"} \cup Terminal,
        next : Nat, fired : Nat, version : Nat]

TypeOK ==
  /\ clock \in Nat /\ at \in Nat /\ lastId \in Nat
  /\ created \subseteq Rems
  /\ DOMAIN rows \subseteq created
  /\ \A r \in DOMAIN rows : rows[r] \in Row
  /\ DOMAIN firings \subseteq 1..lastId
  /\ \A f \in DOMAIN firings :
       firings[f] \in [rem : DOMAIN rows, outcome : {"pending", "delivered", "skipped_overlap"}]
  /\ events \in Seq([firing : 0..lastId, at : Nat])
  /\ applied \subseteq DOMAIN events
  /\ processed \subseteq applied
  /\ posted \subseteq Nat
  /\ pump \in {"fetch", "drain", "idle", "fire"}
  /\ DOMAIN due \subseteq created
  /\ \A r \in DOMAIN due : due[r] \in Row
  /\ batch \subseteq DOMAIN events \ processed
  /\ stage \in 0..2
  /\ progress \in BOOLEAN
  /\ DOMAIN call = Clients
  /\ \A c \in Clients : call[c] = <<>> \/
       /\ call[c] = <<call[c][1]>>
       /\ call[c][1] \in [rem : created, delete : BOOLEAN, row : Row]

FiringsOf(r, outcomes) ==
  {f \in DOMAIN firings : firings[f].rem = r /\ firings[f].outcome \in outcomes}

\* fired_count is what the history says, max_count holds, and a row that is
\* paused or settled has no next run, whatever calls and scans overlap.
LedgerAgrees ==
  \A r \in DOMAIN rows :
    /\ rows[r].fired = Cardinality(FiringsOf(r, {"pending", "delivered"}))
    /\ rows[r].end.kind = "max_count" => rows[r].fired <= rows[r].end.n
    /\ rows[r].next # 0 => rows[r].status = "active"

\* A firing that is pending still has its event to be delivered: one that
\* stayed pending would silence a skip_if_overlap reminder for good.  And such
\* a reminder has one firing on its way at most.
PendingIsUnderway ==
  /\ \A f \in DOMAIN firings : firings[f].outcome = "pending" =>
       \E e \in DOMAIN events \ applied : Firing(e) = f /\ ~(At(e) /\ stage = 2)
  /\ \A r \in DOMAIN rows : rows[r].skip => Cardinality(FiringsOf(r, {"pending"})) <= 1

\* What the relay still remembers of the event at hand.
StageAgrees == stage > 0 => \E e \in batch : At(e) /\ Firing(e) # 0 /\ e \notin applied

StoreAgrees == TypeOK /\ LedgerAgrees /\ PendingIsUnderway /\ StageAgrees

\* Nothing is called delivered whose message was not posted: not a firing, nor
\* an event of one that the ledger closes, whatever failed on the way.
DeliveredIsPosted ==
  /\ \A f \in DOMAIN firings : firings[f].outcome = "delivered" => f \in posted
  /\ \A e \in applied : Firing(e) \in posted \cup {0}
  /\ \A e \in batch : At(e) /\ stage > 0 => Firing(e) \in posted

IInv == StoreAgrees /\ DeliveredIsPosted

\* What StoreAgrees rests on.  A row can change only together with its version, and an
\* id is never given out again: whoever read a row and still finds its version
\* there writes back what the row is.
ScanAgrees ==
  \A r \in DOMAIN due :
    /\ IsDue(due[r], at)
    /\ r \in DOMAIN rows => /\ due[r].version <= rows[r].version
                            /\ due[r].version = rows[r].version => due[r] = rows[r]

CallsAgree ==
  \A c \in Clients : call[c] # <<>> /\ ~call[c][1].delete =>
    LET r == call[c][1].rem
        w == call[c][1].row
    IN /\ w.next # 0 => w.status = "active"
       /\ r \in DOMAIN rows =>
            /\ w.version <= rows[r].version
            /\ w.version = rows[r].version =>
                 /\ w.fired = rows[r].fired /\ w.end = rows[r].end /\ w.skip = rows[r].skip
                 /\ Live(w) => Live(rows[r])

\* A reminder that may still fire has a firing left, and an event never belongs
\* to a run that was skipped.
FiringsAreLeft ==
  \A r \in DOMAIN rows : rows[r].end.kind = "max_count" /\ Live(rows[r]) => rows[r].fired < rows[r].end.n

EventsAgree ==
  \A e \in DOMAIN events : Firing(e) \in DOMAIN firings => firings[Firing(e)].outcome # "skipped_overlap"

RInv == StoreAgrees /\ ScanAgrees /\ CallsAgree /\ FiringsAreLeft /\ EventsAgree

\* A reminder that was paused, canceled, edited or deleted after the scan
\* that found it due does not fire: what fires is due when it commits.
SilencedStaysSilent ==
  [][\A f \in DOMAIN firings' \ DOMAIN firings :
       LET r == firings'[f].rem
       IN r \in DOMAIN rows /\ rows[r] = due[r] /\ IsDue(rows[r], at)]_vars

\* A due reminder is settled and a firing is delivered in the end, across
\* crashes, failures and calls that win the race.
NothingIsForgotten ==
  /\ \A r \in Rems : (r \in DOMAIN rows /\ IsDue(rows[r], clock))
                       ~> ~(r \in DOMAIN rows /\ IsDue(rows[r], clock))
  /\ \A f \in Firings : (f \in DOMAIN firings /\ firings[f].outcome = "pending")
                          ~> (f \in DOMAIN firings => firings[f].outcome # "pending")
=============================================================================
