--------------------------- MODULE ControlStream ---------------------------
(***************************************************************************)
(* The control log of one worker and the two ways its commands travel:     *)
(* the append-only table worker_control_events with the worker's           *)
(* last_acked_offset (internal/environment), the in-process bus and the    *)
(* SSE endpoint that push new commands down (controlstream, admin/api),    *)
(* and the worker's control loop that handles commands from the stream and *)
(* from a poll, acknowledges them cumulatively and parks a command that    *)
(* keeps failing (workerdaemon/control_loop.go).                           *)
(*                                                                         *)
(* Simplifications.                                                        *)
(*  - One worker: the tables, the bus and the loop share nothing between   *)
(*    workers.                                                             *)
(*  - The two reads of an append (the idempotency key, the largest offset) *)
(*    are one step: a row committed between them only makes the insert     *)
(*    fail, which a row committed after them does as well.                 *)
(*  - A subscription, its TCP connection and the daemon's channel are one  *)
(*    connection with two bounded queues: `chan' (Subscription.ch, full    *)
(*    means drop) and `wire' (frames written and not yet taken by the      *)
(*    loop, full means the writer waits).                                  *)
(*  - The overlap ring of the bus is left out: no endpoint reads it.       *)
(***************************************************************************)
EXTENDS Integers, Sequences

CONSTANTS Keys,           \* idempotency keys of the commands
          Appenders,      \* goroutines that append outside a transaction
          ChanCap,        \* capacity of Subscription.ch (64 in the code)
          WireCap,        \* frames in flight (streamChanBuf plus sockets)
          ParkThreshold,  \* holParkThreshold (120 in the code)
          LastOffset,     \* bound: no append beyond this offset
          MaxFaults,      \* bound: crashes, failed polls and acks, rollbacks
          NoEntry         \* model value: no transaction is open

ASSUME ControlAssumption ==
    /\ ChanCap \in Nat \ {0} /\ WireCap \in Nat \ {0}
    /\ ParkThreshold \in Nat \ {0}
    /\ LastOffset \in Nat /\ MaxFaults \in Nat

Entries == [off : 1..LastOffset, key : Keys]

ASSUME NoEntryAssumption == NoEntry \notin Entries

VARIABLES
    rows,       \* worker_control_events of this worker
    lastAcked,  \* env_workers.last_acked_offset
    tx,         \* the row of an open transaction that appended, or NoEntry
    app,        \* per appender: the step it is at and the row it appends
    conn,       \* the stream: closed, opening, subscribed, live, or broken
    chan,       \* Subscription.ch
    backlog,    \* rows of the catch-up still to be written, smallest first
    sentMax,    \* the endpoint's largest offset sent on this connection
    wire,       \* frames sent and not yet received by the loop
    connected,  \* Run's local variable: the cursor has been seeded
    cursor,     \* ControlLoop.cursor
    pc,         \* select, or the source of the batch being handled
    batch,      \* commands of the batch still to be handled, smallest first
    hi,         \* highestHandled of handleBatch
    holPaused,  \* Run's local variable of that name
    stuckOffset, stuckFails,   \* the fields of ControlLoop
    (* What the properties talk about; no step reads them. *)
    committed,  \* every row ever committed
    handled,    \* commands the handler returned nil for, in any process life
    parked,     \* commands the loop gave up on
    failures,   \* failed attempts at each unsettled offset, up to ParkThreshold
    missed,     \* offsets whose push the stream could not deliver in order
    faults      \* crashes, failed polls and acks, and rollbacks so far

center  == <<rows, lastAcked, tx, app>>
stream  == <<conn, chan, backlog, sentMax, wire>>
loop    == <<connected, cursor, pc, batch, hi, holPaused, stuckOffset, stuckFails>>
history == <<committed, handled, parked, failures, missed, faults>>
vars    == <<center, stream, loop, history>>

AppState == [at : {"idle", "insert", "publish"}, e : Entries \cup {NoEntry}]
Idle     == [at |-> "idle", e |-> NoEntry]

TypeOK ==
    /\ rows \subseteq Entries /\ lastAcked \in 0..LastOffset
    /\ tx \in Entries \cup {NoEntry}
    /\ app \in [Appenders -> AppState]
    /\ conn \in {"closed", "opening", "subscribed", "live", "broken"}
    /\ chan \in Seq(Entries) /\ Len(chan) <= ChanCap
    /\ backlog \subseteq Entries
    /\ sentMax \in 0..LastOffset /\ wire \in Seq(Entries) /\ Len(wire) <= WireCap
    /\ connected \in BOOLEAN /\ cursor \in 0..LastOffset
    /\ pc \in {"select", "poll", "stream"}
    /\ batch \subseteq Entries /\ hi \in 0..LastOffset
    /\ holPaused \in BOOLEAN
    /\ stuckOffset \in 0..LastOffset /\ stuckFails \in Nat
    /\ committed \subseteq Entries /\ handled \subseteq Entries
    /\ parked \subseteq Entries
    /\ failures \in [1..LastOffset -> 0..ParkThreshold]
    /\ missed \subseteq 1..LastOffset /\ faults \in 0..MaxFaults

Init ==
    /\ rows = {} /\ lastAcked = 0 /\ tx = NoEntry
    /\ app = [a \in Appenders |-> Idle]
    /\ conn = "closed" /\ chan = <<>> /\ backlog = {} /\ sentMax = 0 /\ wire = <<>>
    /\ connected = FALSE /\ cursor = 0 /\ pc = "select"
    /\ batch = {} /\ hi = 0 /\ holPaused = FALSE
    /\ stuckOffset = 0 /\ stuckFails = 0
    /\ committed = {} /\ handled = {} /\ parked = {}
    /\ failures = [o \in 1..LastOffset |-> 0]
    /\ missed = {} /\ faults = 0

Fault == faults < MaxFaults /\ faults' = faults + 1

-----------------------------------------------------------------------------
(* The log.                                                                *)

Offs(S) == {r.off : r \in S}

\* Mutant: the acknowledged offset is not counted.
IsMaxOffset_TableOnly(m) ==
    /\ m \in Offs(rows) \cup {0}
    /\ \A o \in Offs(rows) \cup {0} : o <= m

\* ControlEventRepo.MaxOffset: the table's largest offset or, when the table
\* has been pruned, the offset the worker acknowledged.
IsMaxOffset(m) ==
    /\ m \in Offs(rows) \cup {lastAcked}
    /\ \A o \in Offs(rows) \cup {lastAcked} : o <= m

\* The row AppendCommand builds for k, when no row has that key.
NextRow(k, e) ==
    /\ \A r \in rows : r.key # k
    /\ e.key = k /\ IsMaxOffset(e.off - 1)

\* ControlEventRepo.ListAfter, as the loop and the endpoint read it. Its rows
\* are taken in the order of their offsets.
ListAfter(o) == {r \in rows : r.off > o}
IsFirst(r, S) == r \in S /\ \A q \in S : r.off <= q.off

\* The insert meets UNIQUE(worker_id, idempotency_key) or UNIQUE(worker_id,
\* offset).
Conflicts(e) == \E r \in rows : r.key = e.key \/ r.off = e.off

\* Bus.Publish: a send to the subscriber's channel that never waits.
Queued == conn \in {"subscribed", "live"} /\ Len(chan) < ChanCap
Push(e) == chan' = IF Queued THEN Append(chan, e) ELSE chan

\* What a push leaves behind: itself when the channel is full, and the rows
\* that are committed and still wait for a push of their own.
Left(e) ==
    {app[a].e.off : a \in {b \in Appenders :
                             app[b].at = "publish" /\ app[b].e.off < e.off}}
    \cup (IF conn \in {"subscribed", "live"} /\ ~Queued THEN {e.off} ELSE {})

\* AppendCommand outside a transaction: the reads, ...
ReadMaxOffset(a, k) ==
    /\ app[a].at = "idle"
    /\ \E e \in Entries :
        NextRow(k, e) /\ app' = [app EXCEPT ![a] = [at |-> "insert", e |-> e]]
    /\ UNCHANGED <<rows, lastAcked, tx, stream, loop, history>>

\* ... the insert, which waits for the write lock and returns the existing row
\* or an error on a conflict, ...
InsertRow(a) ==
    /\ app[a].at = "insert" /\ tx = NoEntry
    /\ IF Conflicts(app[a].e)
       THEN /\ app' = [app EXCEPT ![a] = Idle]
            /\ UNCHANGED <<rows, committed>>
       ELSE /\ app' = [app EXCEPT ![a].at = "publish"]
            /\ rows' = rows \cup {app[a].e}
            /\ committed' = committed \cup {app[a].e}
    /\ UNCHANGED <<lastAcked, tx, stream, loop, handled, parked, failures, missed, faults>>

\* ... and the push.
PublishRow(a) ==
    /\ app[a].at = "publish"
    /\ Push(app[a].e)
    /\ missed' = missed \cup Left(app[a].e)
    /\ app' = [app EXCEPT ![a] = Idle]
    /\ UNCHANGED <<rows, lastAcked, tx, conn, backlog, sentMax, wire, loop,
                   committed, handled, parked, failures, faults>>

\* AppendCommand inside AgentControlProjector's transaction: the row holds the
\* write lock and is pushed before the transaction commits.
AppendInTx(k) ==
    /\ tx = NoEntry
    /\ \E e \in Entries : NextRow(k, e) /\ tx' = e
    /\ Push(tx')
    /\ missed' = missed \cup Left(tx')
    /\ UNCHANGED <<rows, lastAcked, app, conn, backlog, sentMax, wire, loop,
                   committed, handled, parked, failures, faults>>

CommitTx ==
    /\ tx # NoEntry
    /\ rows' = rows \cup {tx} /\ committed' = committed \cup {tx}
    /\ tx' = NoEntry
    /\ UNCHANGED <<lastAcked, app, stream, loop, handled, parked, failures, missed, faults>>

\* The command of the open transaction is on its way or has arrived: at the
\* endpoint, ...
Streamed == sentMax = tx.off \/ tx \in backlog \/ \E i \in DOMAIN chan : chan[i] = tx

\* ... or in the daemon.
Received ==
    tx \in batch \cup handled \cup parked \/ \E i \in DOMAIN wire : wire[i] = tx

\* The transaction fails after the push (a busy database, a context that ended):
\* its offset is free again, and its command may be on its way.
RollbackTx ==
    /\ tx # NoEntry /\ Fault
    /\ missed' = missed \cup (IF Streamed \/ Received THEN {tx.off} ELSE {})
    /\ tx' = NoEntry
    /\ UNCHANGED <<rows, lastAcked, app, stream, loop, committed, handled, parked, failures>>

\* ControlEventGC.Tick deletes the acknowledged rows that were created before a
\* cutoff, which are those up to some offset. The retention (three days)
\* outlasts every append: no append is under way.
Prune(cutoff) ==
    /\ tx = NoEntry /\ \A a \in Appenders : app[a] = Idle
    /\ \E r \in rows : r.off = cutoff /\ r.off <= lastAcked
    /\ rows' = {r \in rows : ~(r.off <= cutoff /\ r.off <= lastAcked)}
    /\ UNCHANGED <<lastAcked, tx, app, stream, loop, history>>

-----------------------------------------------------------------------------
(* The stream endpoint.                                                    *)

\* startStream: the reader's goroutine gets the cursor as its resume offset and
\* sends the request.
StartStream ==
    IF conn = "closed"
    THEN /\ conn' = "opening" /\ sentMax' = cursor'
         /\ chan' = <<>> /\ backlog' = {} /\ wire' = <<>>
    ELSE UNCHANGED stream

StopStream ==
    conn' = "closed" /\ chan' = <<>> /\ backlog' = {} /\ sentMax' = 0 /\ wire' = <<>>

\* The request reaches the endpoint, where Bus.Subscribe comes first.
Subscribe ==
    /\ conn = "opening"
    /\ conn' = "subscribed"
    /\ UNCHANGED <<center, chan, backlog, sentMax, wire, loop, history>>

\* The endpoint reads the log once; a row that an open transaction pushed before
\* the subscription is neither there nor in the channel.
CatchUp ==
    /\ conn = "subscribed"
    /\ conn' = "live" /\ backlog' = ListAfter(sentMax)
    /\ missed' = missed \cup
         (IF tx = NoEntry \/ \E i \in DOMAIN chan : chan[i] = tx THEN {} ELSE {tx.off})
    /\ UNCHANGED <<center, chan, sentMax, wire, loop, committed, handled, parked,
                   failures, faults>>

\* A frame of the catch-up, ...
SendBacklog(r) ==
    /\ conn = "live" /\ IsFirst(r, backlog) /\ Len(wire) < WireCap
    /\ backlog' = backlog \ {r}
    /\ wire' = Append(wire, r) /\ sentMax' = r.off
    /\ UNCHANGED <<center, conn, chan, loop, history>>

\* ... and then the live loop, which skips what has been sent.
Forward ==
    /\ conn = "live" /\ backlog = {} /\ chan # <<>>
    /\ chan' = Tail(chan)
    /\ IF Head(chan).off <= sentMax
       THEN UNCHANGED <<wire, sentMax>>
       ELSE /\ Len(wire) < WireCap
            /\ wire' = Append(wire, Head(chan)) /\ sentMax' = Head(chan).off
    /\ UNCHANGED <<center, conn, backlog, loop, history>>

\* The request fails or the connection breaks; the frames already received are
\* still in the daemon.
Break ==
    /\ conn \in {"opening", "subscribed", "live"}
    /\ conn' = "broken" /\ chan' = <<>> /\ backlog' = {} /\ sentMax' = 0
    /\ UNCHANGED <<center, wire, loop, history>>

\* The center restarts: subscriptions, unfinished appends and an uncommitted
\* transaction are gone. A request that has not arrived meets the new process.
CenterRestart ==
    /\ Fault
    /\ app' = [a \in Appenders |-> Idle]
    /\ missed' = missed \cup (IF tx # NoEntry /\ Received THEN {tx.off} ELSE {})
    /\ tx' = NoEntry
    /\ IF conn \in {"closed", "opening"}
       THEN UNCHANGED <<conn, sentMax>>
       ELSE conn' = "broken" /\ sentMax' = 0
    /\ chan' = <<>> /\ backlog' = {}
    /\ UNCHANGED <<rows, lastAcked, wire, loop,
                   committed, handled, parked, failures>>

-----------------------------------------------------------------------------
(* ControlLoop.Run.                                                        *)

\* connect seeds the cursor; at the start of Run the stream is opened at once,
\* on a later tick after the poll.
Connect ==
    /\ ~connected
    /\ connected' = TRUE /\ cursor' = lastAcked
    /\ StartStream \/ UNCHANGED stream
    /\ UNCHANGED <<center, pc, batch, hi, holPaused, stuckOffset, stuckFails, history>>

\* The tick: PullCommands reads everything after the cursor.
PollTick ==
    /\ connected /\ pc = "select"
    /\ pc' = "poll" /\ batch' = ListAfter(cursor) /\ hi' = cursor
    /\ UNCHANGED <<center, stream, connected, cursor, holPaused, stuckOffset, stuckFails, history>>

\* PullCommands fails: a tick without commands.
PollFails ==
    /\ connected /\ pc = "select" /\ Fault
    /\ pc' = "poll" /\ batch' = {} /\ hi' = cursor
    /\ UNCHANGED <<center, stream, connected, cursor, holPaused, stuckOffset, stuckFails,
                   committed, handled, parked, failures, missed>>

\* Mutant: the overlap with the poll is not removed.
StreamRecv_NoDedup ==
    /\ connected /\ pc = "select" /\ wire # <<>>
    /\ wire' = Tail(wire)
    /\ pc' = "stream" /\ batch' = {Head(wire)} /\ hi' = cursor
    /\ UNCHANGED <<center, conn, chan, backlog, sentMax, connected, cursor, holPaused,
                   stuckOffset, stuckFails, history>>

\* handleStreamCmd: a frame at or under the cursor is dropped, any other is a
\* batch of one.
StreamRecv ==
    /\ connected /\ pc = "select" /\ wire # <<>>
    /\ wire' = Tail(wire)
    /\ IF Head(wire).off <= cursor
       THEN UNCHANGED <<pc, batch, hi>>
       ELSE pc' = "stream" /\ batch' = {Head(wire)} /\ hi' = cursor
    /\ UNCHANGED <<center, conn, chan, backlog, sentMax, connected, cursor, holPaused,
                   stuckOffset, stuckFails, history>>

\* streamErrCh: the loop notices that the stream ended and forgets the frames it
\* has not taken.
StreamEnded ==
    /\ connected /\ pc = "select" /\ conn = "broken"
    /\ StopStream
    /\ UNCHANGED <<center, loop, history>>

\* handleBatch, one command: the handler succeeds, ...
HandleOk(cmd) ==
    /\ IsFirst(cmd, batch)
    /\ handled' = handled \cup {cmd}
    /\ failures' = [failures EXCEPT ![cmd.off] = 0]
    /\ hi' = cmd.off /\ batch' = batch \ {cmd}
    /\ UNCHANGED <<center, stream, connected, cursor, pc, holPaused, stuckOffset,
                   stuckFails, committed, parked, missed, faults>>

\* Mutant: the count goes on when another command becomes the head.
StuckAfter_AnyHead(o) == stuckFails + 1

\* Mutant: every failure starts a new count.
StuckAfter_Restarts(o) == 1

\* noteStuck: consecutive failures of one offset.
StuckAfter(o) == IF stuckFails = 0 \/ stuckOffset # o THEN 1 ELSE stuckFails + 1

\* shouldPark, asked after noteStuck.
ShouldPark(o) == StuckAfter(o) >= ParkThreshold

\* Mutant: the batch goes on behind a command that failed.
HandleFail_GoesOn(cmd) ==
    /\ IsFirst(cmd, batch)
    /\ stuckOffset' = cmd.off /\ stuckFails' = StuckAfter(cmd.off)
    /\ batch' = batch \ {cmd}
    /\ UNCHANGED <<center, stream, connected, cursor, pc, hi, holPaused, history>>

\* ... or fails: the batch stops there, unless the command has used up its
\* attempts and is skipped.
HandleFail(cmd) ==
    /\ IsFirst(cmd, batch)
    /\ stuckOffset' = cmd.off /\ stuckFails' = StuckAfter(cmd.off)
    /\ IF ShouldPark(cmd.off)
       THEN /\ parked' = parked \cup {cmd} /\ hi' = cmd.off /\ batch' = batch \ {cmd}
            /\ failures' = [failures EXCEPT ![cmd.off] = 0]
       ELSE /\ batch' = {} /\ UNCHANGED <<parked, hi>>
            /\ failures' = [failures EXCEPT ![cmd.off] = IF @ < ParkThreshold THEN @ + 1 ELSE @]
    /\ UNCHANGED <<center, stream, connected, cursor, pc, holPaused,
                   committed, handled, missed, faults>>

\* Mutant: a stream command that did not advance leaves the stream open.
AfterBatch_KeepsStream ==
    IF pc = "stream"
    THEN UNCHANGED <<stream, holPaused>>
    ELSE /\ holPaused' = (holPaused /\ cursor' = cursor)
         /\ IF holPaused' THEN UNCHANGED stream ELSE StartStream

\* What Run does once a batch is through, given that the cursor stands at
\* cursor': a stream batch that did not advance closes the stream and leaves the
\* head to the poll; a poll that advanced lifts that pause and, as every tick,
\* opens the stream when it may.
AfterBatch ==
    IF pc = "stream"
    THEN IF cursor' > cursor
         THEN UNCHANGED <<stream, holPaused>>
         ELSE holPaused' = TRUE /\ StopStream
    ELSE /\ holPaused' = (holPaused /\ cursor' = cursor)
         /\ IF holPaused' THEN UNCHANGED stream ELSE StartStream

BatchDone == pc # "select" /\ batch = {} /\ pc' = "select" /\ hi' = 0 /\ batch' = {}

\* Nothing was handled (or there was nothing to handle): no ack.
NothingToAck ==
    /\ BatchDone /\ hi = cursor
    /\ cursor' = cursor /\ AfterBatch
    /\ UNCHANGED <<center, connected, stuckOffset, stuckFails, history>>

\* AckControl succeeds. AckWorker keeps the larger offset and waits for the lock.
AckOk ==
    /\ BatchDone /\ hi > cursor /\ tx = NoEntry
    /\ lastAcked' = IF hi > lastAcked THEN hi ELSE lastAcked
    /\ cursor' = hi /\ stuckOffset' = 0 /\ stuckFails' = 0
    /\ AfterBatch
    /\ UNCHANGED <<rows, tx, app, connected, history>>

\* AckControl fails, before or after the center recorded the offset.
AckFail ==
    /\ BatchDone /\ hi > cursor /\ Fault
    /\ \/ UNCHANGED lastAcked
       \/ tx = NoEntry /\ lastAcked' = IF hi > lastAcked THEN hi ELSE lastAcked
    /\ cursor' = cursor
    /\ AfterBatch
    /\ UNCHANGED <<rows, tx, app, connected, stuckOffset, stuckFails,
                   committed, handled, parked, failures, missed>>

\* The worker process dies and starts again.
WorkerRestart ==
    /\ connected /\ Fault
    /\ connected' = FALSE /\ cursor' = 0 /\ pc' = "select" /\ batch' = {} /\ hi' = 0
    /\ holPaused' = FALSE /\ stuckOffset' = 0 /\ stuckFails' = 0
    /\ StopStream
    /\ UNCHANGED <<center, committed, handled, parked, failures, missed>>

-----------------------------------------------------------------------------
Appending ==
    \/ \E a \in Appenders, k \in Keys : ReadMaxOffset(a, k)
    \/ \E a \in Appenders : InsertRow(a) \/ PublishRow(a)
    \/ \E k \in Keys : AppendInTx(k)
    \/ CommitTx \/ RollbackTx
    \/ \E o \in 1..LastOffset : Prune(o)

Streaming ==
    \/ Subscribe \/ CatchUp \/ \E r \in backlog : SendBacklog(r)
    \/ Forward \/ Break \/ CenterRestart

Looping ==
    \/ Connect \/ PollTick \/ PollFails \/ StreamRecv \/ StreamEnded
    \/ \E cmd \in batch : HandleOk(cmd) \/ HandleFail(cmd)
    \/ NothingToAck \/ AckOk \/ AckFail \/ WorkerRestart

Next == Appending \/ Streaming \/ Looping

\* The transaction ends, the loop keeps ticking and the handler returns (its
\* calls have timeouts). Nothing is assumed of the stream, and the handler may
\* fail for ever.
Fairness ==
    /\ WF_vars(CommitTx)
    /\ WF_vars(Connect) /\ WF_vars(PollTick) /\ WF_vars(\E cmd \in batch : HandleOk(cmd) \/ HandleFail(cmd))
    /\ WF_vars(NothingToAck) /\ WF_vars(AckOk)

Spec == Init /\ [][Next]_vars /\ Fairness

-----------------------------------------------------------------------------
(* The inductive invariant.                                                *)

Open      == IF tx = NoEntry THEN {} ELSE {tx}
Allocated == Offs(committed) \cup Offs(Open) \cup missed
Settled(r) == r \in handled \/ r \in parked

\* The commands that must still be delivered, the open transaction's included.
Owed == {r \in committed \cup Open : r.off \notin missed /\ ~Settled(r)}

InWire(r, n) == \E i \in DOMAIN wire : i < n /\ wire[i] = r
InChan(r, n) == \E i \in DOMAIN chan : i < n /\ chan[i] = r
Pushing(r)   == \E a \in Appenders : app[a].at = "publish" /\ app[a].e = r

\* The stream is about to be closed, or r is the command it just delivered.
OutOfWire(r) == pc = "stream" /\ (r \in batch \/ (batch = {} /\ hi = cursor))

\* Offsets are handed out without gaps, and all the positions are such offsets.
OffsetsInv ==
    /\ \A o \in Allocated : \A p \in 1..o : p \in Allocated
    /\ {lastAcked, cursor, hi, sentMax} \subseteq Allocated \cup {0}
    /\ Offs(batch \cup backlog \cup handled \cup parked) \subseteq Allocated
    /\ \A i \in DOMAIN chan : chan[i].off \in Allocated
    /\ \A i \in DOMAIN wire : wire[i].off \in Allocated

\* The table, the open transaction and the rows about to be inserted.
LogInv ==
    /\ rows \subseteq committed
    /\ \A r \in committed \ rows : r.off <= lastAcked
    /\ tx # NoEntry =>
         /\ tx.off \in missed \/ \A o \in Allocated : o <= tx.off
         /\ tx.off > lastAcked /\ \A r \in rows : r.off < tx.off
    /\ \A a \in Appenders :
         /\ app[a].at = "idle" <=> app[a].e = NoEntry
         /\ app[a].at = "publish" => app[a].e \in rows
         /\ app[a].at = "insert" =>
              LET n == app[a].e.off IN
              /\ n = 1 \/ lastAcked >= n - 1 \/ \E r \in rows : r.off >= n - 1
              /\ \/ n \in missed \cup Offs(rows) \cup Offs(Open)
                 \/ \A o \in Allocated : o < n

\* Which parts of the loop and of the stream are in use.
ShapeInv ==
    /\ ~connected => conn = "closed" /\ pc = "select" /\ cursor = 0
    /\ pc = "select" => batch = {} /\ hi = 0
    /\ pc # "select" => hi >= cursor /\ \A c \in batch : c.off >= hi
    /\ pc = "stream" => conn # "closed" /\ (batch = {} \/ (hi = cursor /\ \E c \in batch : batch = {c}))
    /\ conn = "closed" => wire = <<>> /\ sentMax = 0
    /\ conn # "live" => backlog = {}
    /\ \A b \in backlog : b.off >= sentMax
    /\ conn \in {"closed", "opening", "broken"} => chan = <<>>
    /\ conn \in {"opening", "subscribed"} => wire = <<>> /\ sentMax <= cursor

\* An owed command is ahead of every position and of everything settled, and the
\* queues hold no other command with its offset.
Ahead(r) ==
    /\ r.off > lastAcked /\ (connected => r.off > cursor) /\ r.off > hi
    /\ \A s \in handled \cup parked : s.off < r.off
    /\ \A e \in committed \cup Open \cup batch \cup backlog : e.off = r.off => e = r
    /\ \A i \in DOMAIN chan : chan[i].off = r.off => chan[i] = r
    /\ \A i \in DOMAIN wire : wire[i].off = r.off => wire[i] = r
    /\ r \in batch \/ \A c \in batch : c.off < r.off

OwedInv == \A r \in Owed : Ahead(r)

\* Nothing on the stream overtakes an owed command.
NotOvertaken(r) ==
    /\ \A i \in DOMAIN wire : wire[i].off > r.off => InWire(r, i) \/ OutOfWire(r)
    /\ conn = "live" =>
         /\ r.off <= sentMax => InWire(r, Len(wire) + 1) \/ OutOfWire(r)
         /\ r.off <= sentMax \/ r \in backlog \/ Pushing(r) \/ InChan(r, Len(chan) + 1)
         /\ \/ r.off <= sentMax \/ r \in backlog
            \/ /\ \A b \in backlog : b.off < r.off
               /\ \A i \in DOMAIN chan : chan[i].off > r.off => InChan(r, i)

StreamInv == \A r \in Owed : NotOvertaken(r)

IInv == TypeOK /\ OffsetsInv /\ LogInv /\ ShapeInv /\ OwedInv /\ StreamInv

\* The count of the head is at most the failed attempts at its offset, until one
\* of them succeeds or is the last.
CountInv ==
    \/ stuckFails = 0 \/ stuckOffset \in Offs(handled \cup parked)
    \/ /\ stuckOffset # 0
       /\ failures[stuckOffset] >= stuckFails \/ failures[stuckOffset] = ParkThreshold

\* Before the first fault an offset is that of one command, and what has been
\* handled is behind the loop.
CalmInv ==
    faults = 0 =>
      /\ \A r, s \in committed \cup Open : r.off = s.off => r = s
      /\ missed \subseteq Offs(committed \cup Open)
      /\ handled \cup batch \cup backlog \subseteq committed \cup Open
      /\ \A i \in DOMAIN chan : chan[i] \in committed \cup Open
      /\ \A i \in DOMAIN wire : wire[i] \in committed \cup Open
      /\ \A a \in Appenders : app[a].at = "insert" =>
           app[a].e.off \in Offs(rows \cup Open) \/ app[a].e.off \notin Offs(committed)
      /\ handled # {} => connected
      /\ \A s \in handled : s.off <= IF pc = "select" THEN cursor ELSE hi
      /\ \A c \in batch : c.off > hi

-----------------------------------------------------------------------------
(* Properties.                                                             *)

\* The command's offset has been passed, in this process or for the next one.
Passed(o) == o <= lastAcked \/ (connected /\ o <= cursor)

\* The contract the comments of the bus, the endpoint and the loop state: what
\* the cumulative ack has passed was handled, or given up on loudly.
NothingAckedIsLost == \A r \in committed : Passed(r.off) => Settled(r)

\* A committed command is settled or still to be pulled, whatever crashes, acks
\* are lost or rows are pruned: the only commands that can be lost are those
\* whose push the stream could not deliver in order.
OnlyMissedPushesAreLost ==
    \A r \in committed :
        r.off \in missed \/ Settled(r) \/ (r \in rows /\ ~Passed(r.off))

\* Head-of-line blocking (handleBatch, handleStreamCmd): no command takes effect
\* while an earlier one is neither handled nor parked.
HandledInOrder ==
    \A r \in committed, s \in handled :
        r.off < s.off => r.off \in missed \/ Settled(r)

\* Parking (noteStuck, shouldPark, clearStuck) only drops a command at whose
\* offset ParkThreshold attempts have failed: failures of another head never
\* count. (At an offset that was handled or parked and whose ack was lost, the
\* count goes on: that command, or another one pushed with the same offset and
\* rolled back, may be parked earlier.)
ParkedIsEarned ==
    [][\A r \in parked' \ parked :
         r.off \in Offs(parked \cup handled) \/ failures[r.off] >= ParkThreshold - 1]_vars

\* The stream and the poll overlap, yet while nothing has failed no command is
\* handled twice: the shared cursor removes the overlap.
NoRedoWithoutFault ==
    [][\A r \in handled : faults = 0 => ~HandleOk(r)]_vars

\* Every committed command is eventually acknowledged, even when the handler
\* fails for ever: the park lets the stream of commands move on.
EveryCommandPasses ==
    \A o \in 1..LastOffset : (o \in Offs(committed)) ~> (o <= lastAcked)
=============================================================================
