--------------------------- MODULE RemindersProofs ---------------------------
(***************************************************************************)
(* Proofs about Reminders, for any set of reminders, callers, templates    *)
(* and edits, and without the bounds of the instance that is checked: the  *)
(* history of a reminder agrees with its row, and one that was silenced    *)
(* after the scan found it due stays silent.                               *)
(***************************************************************************)
EXTENDS Reminders, FiniteSetTheorems, TLAPS

(* What the aggregate's methods make of a row.                             *)
LEMMA NextAfterType ==
  ASSUME NEW s \in Schedules, NEW t \in Nat
  PROVE  NextAfter(s, t) \in Nat
<1>1. s \in Schedule /\ (s.kind = "cron" => s.at > 0)
  BY RemindersAssumption DEF Schedules
<1>2. s.at \in Nat /\ s.kind \in {"once", "cron", "on_event"} BY <1>1 DEF Schedule
<1>3. CASE s.kind = "cron"
  <2>1. \A a \in Nat \ {0} : t \div a \in Nat OBVIOUS
  <2>2. \A a, b \in Nat : a * (b + 1) \in Nat OBVIOUS
  <2>3. s.at \in Nat \ {0} BY <1>1, <1>2, <1>3
  <2> QED BY <1>3, <2>1, <2>2, <2>3 DEF NextAfter
<1>4. CASE s.kind # "cron" BY <1>2, <1>4 DEF NextAfter
<1> QED BY <1>3, <1>4

LEMMA RowFields ==
  ASSUME NEW w \in Row
  PROVE  /\ w.sched \in Schedules /\ w.end \in EndCondition /\ w.watch \in BOOLEAN /\ w.skip \in BOOLEAN
         /\ w.delay \in Nat /\ w.next \in Nat /\ w.fired \in Nat /\ w.version \in Nat
         /\ w.status \in {"active", "paused", "completed", "canceled"}
         /\ w.end.n \in Nat /\ w.end.kind \in {"never", "until", "max_count"}
BY DEF Row, Terminal, EndCondition

LEMMA SettleRow ==
  ASSUME NEW w \in Row, NEW s \in {"active", "paused", "completed", "canceled"}
  PROVE  /\ Settle(w, s) \in Row /\ Settle(w, s).next = 0 /\ Settle(w, s).status = s
         /\ Settle(w, s).fired = w.fired /\ Settle(w, s).end = w.end /\ Settle(w, s).skip = w.skip
         /\ Settle(w, s).version = w.version
BY DEF Row, Settle, Terminal

(* After a run or a skipped one the row has a next run and a firing left,  *)
(* or it is completed.                                                     *)
LEMMA AdvancedRow ==
  ASSUME NEW w \in Row, NEW t \in Nat, w.status = "active"
  PROVE  LET v == Advanced(w, t) IN
         /\ v \in Row /\ v.fired = w.fired /\ v.end = w.end /\ v.skip = w.skip
         /\ v.next # 0 => v.status = "active"
         /\ Live(v) /\ v.end.kind = "max_count" => v.fired < v.end.n
<1> DEFINE n == NextAfter(w.sched, t)
           v == Advanced(w, t)
<1>1. n \in Nat BY NextAfterType, RowFields
<1>2. CASE w.sched.kind # "cron" \/ Reached(w.end, w.fired, n)
  <2>1. v = Settle(w, "completed") BY <1>2 DEF Advanced
  <2> QED BY <2>1, SettleRow DEF Live, Terminal
<1>3. CASE ~(w.sched.kind # "cron" \/ Reached(w.end, w.fired, n))
  <2>1. v = [w EXCEPT !.next = n] BY <1>3 DEF Advanced
  <2>2. v \in Row /\ v.fired = w.fired /\ v.end = w.end /\ v.skip = w.skip /\ v.status = "active"
    BY <1>1, <2>1 DEF Row
  <2>3. w.end.kind = "max_count" => w.fired < w.end.n
    BY <1>3, RowFields DEF Reached
  <2> QED BY <2>2, <2>3
<1> QED BY <1>2, <1>3

LEMMA FiredRow ==
  ASSUME NEW w \in Row, NEW t \in Nat, w.status = "active"
  PROVE  LET v == Fired(w, t) IN
         /\ v \in Row /\ v.fired = w.fired + 1 /\ v.end = w.end /\ v.skip = w.skip
         /\ v.next # 0 => v.status = "active"
         /\ Live(v) /\ v.end.kind = "max_count" => v.fired < v.end.n
<1> DEFINE u == [w EXCEPT !.fired = @ + 1]
<1>1. u \in Row /\ u.status = "active" /\ u.fired = w.fired + 1 /\ u.end = w.end /\ u.skip = w.skip
  BY DEF Row
<1>2. Fired(w, t) = Advanced(u, t) BY DEF Fired
<1> HIDE DEF u
<1> QED BY <1>1, <1>2, AdvancedRow

(* What a call makes of the row it read: the history and what bounds it    *)
(* are untouched, and nothing that was settled comes back.                 *)
LEMMA CalledRow ==
  ASSUME NEW v \in Row, clock \in Nat, v.next # 0 => v.status = "active",
         NEW w \in Pause(v) \cup Resume(v) \cup Cancel(v) \cup Edit(v)
  PROVE  /\ w \in Row /\ w.version = v.version
         /\ w.fired = v.fired /\ w.end = v.end /\ w.skip = v.skip
         /\ Live(w) => Live(v)
         /\ w.next # 0 => w.status = "active"
<1>1. \A s \in Schedules : NextAfter(s, clock) \in Nat BY NextAfterType
<1>2. CASE w \in Pause(v) BY <1>2, SettleRow DEF Pause, Live
<1>3. CASE w \in Cancel(v) BY <1>3, SettleRow DEF Cancel, Live
<1>4. CASE w \in Resume(v)
  <2> DEFINE n == NextAfter(v.sched, clock)
  <2>1. n \in Nat /\ Live(v) BY <1>1, <1>4, RowFields DEF Resume
  <2>2. w = v \/ w = Settle(v, "completed") \/ w = [v EXCEPT !.status = "active", !.next = n]
    BY <1>4 DEF Resume
  <2>3. CASE w = v BY <2>3
  <2>4. CASE w = Settle(v, "completed") BY <2>1, <2>4, SettleRow
  <2>5. CASE w = [v EXCEPT !.status = "active", !.next = n]
    <3> HIDE DEF n
    <3> QED BY <2>1, <2>5 DEF Row
  <2> QED BY <2>2, <2>3, <2>4, <2>5
<1>5. CASE w \in Edit(v)
  <2>1. Live(v) BY <1>5 DEF Edit
  <2>2. w = v \/ \E s \in Edits : w = [v EXCEPT !.sched = s,
                                               !.next = IF v.status = "active" THEN NextAfter(s, clock) ELSE @]
    BY <1>5 DEF Edit
  <2>3. ASSUME NEW s \in Edits, NEW n \in Nat, n # 0 => v.status = "active", w = [v EXCEPT !.sched = s, !.next = n]
        PROVE  /\ w \in Row /\ w.version = v.version
               /\ w.fired = v.fired /\ w.end = v.end /\ w.skip = v.skip
               /\ w.next # 0 => w.status = "active"
    BY <2>3 DEF Row, Schedules
  <2>4. CASE w = v BY <2>1, <2>4
  <2>5. ASSUME NEW s \in Edits, w = [v EXCEPT !.sched = s, !.next = IF v.status = "active" THEN NextAfter(s, clock) ELSE @]
        PROVE  /\ w \in Row /\ w.version = v.version
               /\ w.fired = v.fired /\ w.end = v.end /\ w.skip = v.skip
               /\ w.next # 0 => w.status = "active"
    <3> DEFINE n == IF v.status = "active" THEN NextAfter(s, clock) ELSE v.next
    <3>1. n \in Nat /\ (n # 0 => v.status = "active") BY <1>1, RowFields DEF Schedules
    <3>2. w = [v EXCEPT !.sched = s, !.next = n] BY <2>5
    <3> HIDE DEF n
    <3> QED BY <2>3, <3>1, <3>2
  <2> QED BY <2>1, <2>2, <2>4, <2>5
<1> QED BY <1>2, <1>3, <1>4, <1>5
-----------------------------------------------------------------------------
(* The history.                                                            *)
LEMMA FiringsAreFinite ==
  ASSUME TypeOK, NEW r, NEW S
  PROVE  /\ IsFiniteSet(FiringsOf(r, S)) /\ Cardinality(FiringsOf(r, S)) \in Nat
         /\ FiringsOf(r, S) \subseteq 1..lastId
         /\ r \notin DOMAIN rows => FiringsOf(r, S) = {} /\ Cardinality(FiringsOf(r, S)) = 0
<1>1. FiringsOf(r, S) \subseteq 1..lastId BY DEF FiringsOf, TypeOK
<1>2. IsFiniteSet(1..lastId) BY FS_Interval DEF TypeOK
<1>3. IsFiniteSet(FiringsOf(r, S)) BY <1>1, <1>2, FS_Subset
<1>4. r \notin DOMAIN rows => FiringsOf(r, S) = {} BY DEF FiringsOf, TypeOK
<1> QED BY <1>1, <1>3, <1>4, FS_CardinalityType, FS_EmptySet

LEMMA FiringAppended ==
  ASSUME TypeOK, NEW r, NEW o, AppendFiring(r, o)
  PROVE  /\ lastId' = lastId + 1
         /\ DOMAIN firings' = DOMAIN firings \cup {lastId'} /\ lastId' \notin DOMAIN firings
         /\ firings'[lastId'] = [rem |-> r, outcome |-> o]
         /\ \A f \in DOMAIN firings : f # lastId' /\ firings'[f] = firings[f]
         /\ \A S : o \in S => Cardinality(FiringsOf(r, S)') = Cardinality(FiringsOf(r, S)) + 1
<1> DEFINE n == lastId + 1
<1>1. /\ lastId' = n /\ n = lastId + 1 /\ lastId \in Nat
      /\ firings' = [f \in DOMAIN firings \cup {n} |-> IF f = n THEN [rem |-> r, outcome |-> o] ELSE firings[f]]
  BY DEF AppendFiring, TypeOK
<1>2. n \notin 1..lastId /\ n \notin DOMAIN firings BY <1>1 DEF TypeOK
<1> HIDE DEF n
<1>3. /\ DOMAIN firings' = DOMAIN firings \cup {n} /\ firings'[n] = [rem |-> r, outcome |-> o]
      /\ \A f \in DOMAIN firings : f # n /\ firings'[f] = firings[f]
  BY <1>1, <1>2
<1>4. ASSUME NEW S, o \in S
      PROVE  Cardinality(FiringsOf(r, S)') = Cardinality(FiringsOf(r, S)) + 1
  <2>1. FiringsOf(r, S)' = FiringsOf(r, S) \cup {n} BY <1>3, <1>4 DEF FiringsOf
  <2>2. IsFiniteSet(FiringsOf(r, S)) /\ n \notin FiringsOf(r, S) BY <1>2, FiringsAreFinite
  <2> QED BY <2>1, <2>2, FS_AddElement
<1> QED BY <1>1, <1>2, <1>3, <1>4

(* The rows rs against what the scan and the calls read: of a row that     *)
(* still has its version they know what they need.                         *)
ScanFits(rs) ==
  \A q \in DOMAIN due : q \in DOMAIN rs =>
    /\ due[q].version <= rs[q].version
    /\ due[q].version = rs[q].version => due[q] = rs[q]

CallsFit(rs) ==
  \A c \in Clients : call[c] # <<>> /\ ~call[c][1].delete =>
    LET q == call[c][1].rem
        u == call[c][1].row
    IN q \in DOMAIN rs =>
         /\ u.version <= rs[q].version
         /\ u.version = rs[q].version =>
              /\ u.fired = rs[q].fired /\ u.end = rs[q].end /\ u.skip = rs[q].skip
              /\ Live(u) => Live(rs[q])

(* The row of r is what w says, the other rows stay.                       *)
Written(r, w) ==
  /\ DOMAIN rows' = DOMAIN rows
  /\ \A q \in DOMAIN rows : q # r => rows'[q] = rows[q]
  /\ rows'[r].fired = w.fired /\ rows'[r].end = w.end /\ rows'[r].skip = w.skip
  /\ rows'[r].status = w.status /\ rows'[r].next = w.next
  /\ \A q \in DOMAIN rows' : rows'[q] \in Row

(* A write moves the version: whoever read the row before finds another.   *)
LEMMA RowWritten ==
  ASSUME TypeOK, ScanAgrees, CallsAgree, NEW r, NEW w \in Row, NEW version \in Nat, UpdateRow(r, w, version)
  PROVE  /\ r \in DOMAIN rows /\ rows[r].version = version /\ Written(r, w)
         /\ ScanFits(rows') /\ CallsFit(rows')
<1>1. /\ r \in DOMAIN rows /\ rows[r].version = version
      /\ rows' = [rows EXCEPT ![r] = [w EXCEPT !.version = version + 1]]
  BY DEF UpdateRow
<1>2. /\ DOMAIN rows' = DOMAIN rows /\ rows'[r] = [w EXCEPT !.version = version + 1]
      /\ \A q \in DOMAIN rows : q # r => rows'[q] = rows[q]
  BY <1>1
<1>3. /\ rows'[r] \in Row /\ rows'[r].fired = w.fired /\ rows'[r].end = w.end /\ rows'[r].skip = w.skip
      /\ rows'[r].status = w.status /\ rows'[r].next = w.next /\ rows'[r].version = version + 1
  BY <1>2 DEF Row
<1>4. \A v \in Nat : v <= version => v <= version + 1 /\ v # version + 1 OBVIOUS
<1>5. \A q \in DOMAIN rows' : rows'[q] \in Row BY <1>2, <1>3 DEF TypeOK
<1>6. ASSUME NEW q \in DOMAIN due, q \in DOMAIN rows'
      PROVE  /\ due[q].version <= rows'[q].version
             /\ due[q].version = rows'[q].version => due[q] = rows'[q]
  <2>1. due[q].version \in Nat BY DEF TypeOK, Row
  <2> QED BY <1>1, <1>2, <1>3, <1>4, <1>6, <2>1 DEF ScanAgrees
<1>7. ASSUME NEW c \in Clients, call[c] # <<>>, ~call[c][1].delete, call[c][1].rem \in DOMAIN rows'
      PROVE  LET q == call[c][1].rem
                 u == call[c][1].row
             IN /\ u.version <= rows'[q].version
                /\ u.version = rows'[q].version =>
                     /\ u.fired = rows'[q].fired /\ u.end = rows'[q].end /\ u.skip = rows'[q].skip
                     /\ Live(u) => Live(rows'[q])
  <2> DEFINE q == call[c][1].rem
             u == call[c][1].row
  <2>1. u.version \in Nat BY <1>7 DEF TypeOK, Row
  <2>2. /\ u.version <= rows[q].version
        /\ u.version = rows[q].version =>
             /\ u.fired = rows[q].fired /\ u.end = rows[q].end /\ u.skip = rows[q].skip
             /\ Live(u) => Live(rows[q])
    BY <1>2, <1>7 DEF CallsAgree
  <2>3. CASE q = r BY <1>1, <1>3, <1>4, <2>1, <2>2, <2>3
  <2>4. CASE q # r BY <1>2, <1>7, <2>2, <2>4
  <2> QED BY <2>3, <2>4
<1>8. ScanFits(rows') BY <1>6 DEF ScanFits
<1>9. CallsFit(rows') BY <1>7 DEF CallsFit
<1>10. Written(r, w) BY <1>2, <1>3, <1>5 DEF Written
<1> QED BY <1>1, <1>8, <1>9, <1>10
-----------------------------------------------------------------------------
(* Steps that leave the store alone.                                       *)

(* The relay has one event at hand at most.                                *)
LEMMA OneAtHand ==
  ASSUME TypeOK, NEW e, NEW d, At(e), At(d)
  PROVE  e = d
BY DEF At, TypeOK

(* With the store unchanged the history agrees as before.                  *)
LEMMA StoreKept ==
  ASSUME RInv, UNCHANGED <<rows, firings>>
  PROVE  /\ LedgerAgrees' /\ FiringsAreLeft'
         /\ \A r \in DOMAIN rows : rows[r].skip => Cardinality(FiringsOf(r, {"pending"})') <= 1
<1>1. \A r, S : FiringsOf(r, S)' = FiringsOf(r, S) BY DEF FiringsOf
<1>2. LedgerAgrees' BY <1>1 DEF RInv, StoreAgrees, LedgerAgrees
<1>3. FiringsAreLeft' BY DEF RInv, FiringsAreLeft, Live
<1> QED BY <1>1, <1>2, <1>3 DEF RInv, StoreAgrees, PendingIsUnderway

(* What the relay has at hand does not change.                             *)
LEMMA RelayKept ==
  ASSUME RInv, UNCHANGED <<rows, firings, events, applied, pump, batch, stage>>
  PROVE  /\ LedgerAgrees' /\ FiringsAreLeft' /\ PendingIsUnderway' /\ StageAgrees' /\ EventsAgree'
<1>1. LedgerAgrees' /\ FiringsAreLeft'
      /\ \A r \in DOMAIN rows : rows[r].skip => Cardinality(FiringsOf(r, {"pending"})') <= 1
  BY StoreKept
<1>2. \A e : (At(e)' <=> At(e)) /\ Firing(e)' = Firing(e) BY DEF At, Firing
<1>3. PendingIsUnderway' BY <1>1, <1>2 DEF RInv, StoreAgrees, PendingIsUnderway
<1>4. StageAgrees' BY <1>2 DEF RInv, StoreAgrees, StageAgrees
<1>5. EventsAgree' BY <1>2 DEF RInv, EventsAgree
<1> QED BY <1>1, <1>3, <1>4, <1>5

(* The stage is left between two events, and no event is at hand outside a *)
(* drain.                                                                  *)
LEMMA RelayIdle ==
  ASSUME RInv, UNCHANGED <<rows, firings, events, applied>>,
         stage' = 0, batch' \subseteq DOMAIN events
  PROVE  /\ LedgerAgrees' /\ FiringsAreLeft' /\ PendingIsUnderway' /\ StageAgrees' /\ EventsAgree'
<1>1. LedgerAgrees' /\ FiringsAreLeft'
      /\ \A r \in DOMAIN rows : rows[r].skip => Cardinality(FiringsOf(r, {"pending"})') <= 1
  BY StoreKept
<1>2. (\A e : Firing(e)' = Firing(e)) /\ stage' # 2 /\ ~(stage' > 0) BY DEF Firing
<1>3. PendingIsUnderway' BY <1>1, <1>2 DEF RInv, StoreAgrees, PendingIsUnderway
<1>4. StageAgrees' BY <1>2 DEF StageAgrees
<1>5. EventsAgree' BY <1>2 DEF RInv, EventsAgree
<1> QED BY <1>1, <1>3, <1>4, <1>5

(* What was read of the rows still agrees.                                 *)
LEMMA ReadsKept ==
  ASSUME RInv, UNCHANGED <<rows, at>>, DOMAIN due' \subseteq DOMAIN due,
         \A r \in DOMAIN due' : due'[r] = due[r],
         \A c \in Clients : call'[c] = call[c] \/ call'[c] = <<>>
  PROVE  ScanAgrees' /\ CallsAgree'
<1>1. ScanAgrees' BY DEF RInv, ScanAgrees, IsDue
<1>2. CallsAgree' BY DEF RInv, CallsAgree, Live
<1> QED BY <1>1, <1>2

LEMMA BeginKeeps ==
  ASSUME RInv, NEW c \in Clients, NEW r \in Rems, Begin(c, r)
  PROVE  RInv'
<1>1. /\ UNCHANGED <<clock, rows, created, firings, lastId, events, applied, processed, posted,
                     pump, at, due, batch, stage, progress>>
      /\ r \in DOMAIN rows
      /\ \/ \E w \in Pause(rows[r]) \cup Resume(rows[r]) \cup Cancel(rows[r]) \cup Edit(rows[r]) :
              call' = [call EXCEPT ![c] = <<[rem |-> r, delete |-> FALSE, row |-> w]>>]
         \/ call' = [call EXCEPT ![c] = <<[rem |-> r, delete |-> TRUE, row |-> rows[r]]>>]
  BY DEF Begin, store, outbox, goroutine
<1>2. /\ rows[r] \in Row /\ r \in created /\ DOMAIN call = Clients /\ clock \in Nat
      /\ rows[r].next # 0 => rows[r].status = "active"
      /\ rows[r].version \in Nat
  BY <1>1 DEF RInv, StoreAgrees, TypeOK, LedgerAgrees, Row
<1>3. PICK k \in [rem : created, delete : BOOLEAN, row : Row] :
        /\ call' = [call EXCEPT ![c] = <<k>>] /\ k.rem = r
        /\ ~k.delete => /\ k.row.next # 0 => k.row.status = "active"
                        /\ k.row.version = rows[r].version /\ k.row.fired = rows[r].fired
                        /\ k.row.end = rows[r].end /\ k.row.skip = rows[r].skip
                        /\ Live(k.row) => Live(rows[r])
  <2>1. CASE \E w \in Pause(rows[r]) \cup Resume(rows[r]) \cup Cancel(rows[r]) \cup Edit(rows[r]) :
               call' = [call EXCEPT ![c] = <<[rem |-> r, delete |-> FALSE, row |-> w]>>]
    <3>1. PICK w \in Pause(rows[r]) \cup Resume(rows[r]) \cup Cancel(rows[r]) \cup Edit(rows[r]) :
                 call' = [call EXCEPT ![c] = <<[rem |-> r, delete |-> FALSE, row |-> w]>>]
      BY <2>1
    <3>2. /\ w \in Row /\ w.version = rows[r].version
          /\ w.fired = rows[r].fired /\ w.end = rows[r].end /\ w.skip = rows[r].skip
          /\ Live(w) => Live(rows[r])
          /\ w.next # 0 => w.status = "active"
      BY <1>2, <3>1, CalledRow
    <3>3. [rem |-> r, delete |-> FALSE, row |-> w] \in [rem : created, delete : BOOLEAN, row : Row]
      BY <1>2, <3>2
    <3> QED BY <3>1, <3>2, <3>3
  <2>2. CASE call' = [call EXCEPT ![c] = <<[rem |-> r, delete |-> TRUE, row |-> rows[r]]>>]
    <3>1. [rem |-> r, delete |-> TRUE, row |-> rows[r]] \in [rem : created, delete : BOOLEAN, row : Row]
      BY <1>2
    <3> QED BY <2>2, <3>1
  <2> QED BY <1>1, <2>1, <2>2
<1>4. DOMAIN call' = Clients /\ call'[c] = <<k>> /\ \A d \in Clients : d # c => call'[d] = call[d]
  BY <1>2, <1>3
<1>5. <<k>> # <<>> /\ <<k>>[1] = k OBVIOUS
<1>6. TypeOK' BY <1>1, <1>4, <1>5 DEF RInv, StoreAgrees, TypeOK
<1>7. /\ LedgerAgrees' /\ FiringsAreLeft' /\ PendingIsUnderway' /\ StageAgrees' /\ EventsAgree'
  BY <1>1, RelayKept
<1>8. ScanAgrees' BY <1>1 DEF RInv, ScanAgrees, IsDue
<1>9. CallsAgree'
  <2>1. rows[r].version <= rows[r].version BY <1>2
  <2> QED BY <1>1, <1>3, <1>4, <1>5, <2>1 DEF RInv, CallsAgree, Live
<1> QED BY <1>6, <1>7, <1>8, <1>9 DEF RInv, StoreAgrees

LEMMA RefuseKeeps ==
  ASSUME RInv, NEW c \in Clients, Refuse(c)
  PROVE  RInv'
<1>1. /\ UNCHANGED <<clock, rows, created, firings, lastId, events, applied, processed, posted,
                     pump, at, due, batch, stage, progress>>
      /\ call' = [call EXCEPT ![c] = <<>>]
  BY DEF Refuse, Return, store, outbox, goroutine
<1>2. DOMAIN call' = Clients /\ \A d \in Clients : call'[d] = call[d] \/ call'[d] = <<>>
  BY <1>1 DEF RInv, StoreAgrees, TypeOK
<1>3. TypeOK' BY <1>1, <1>2 DEF RInv, StoreAgrees, TypeOK
<1> QED BY <1>1, <1>2, <1>3, RelayKept, ReadsKept DEF RInv, StoreAgrees

LEMMA TickKeeps ==
  ASSUME RInv, Tick
  PROVE  RInv'
<1>1. /\ UNCHANGED <<clock, rows, created, firings, lastId, events, applied, processed, posted,
                     batch, stage, progress, call>>
      /\ pump = "idle" /\ pump' = "fire" /\ at' = clock
      /\ due' = [r \in {x \in DOMAIN rows : IsDue(rows[x], clock)} |-> rows[r]]
  BY DEF Tick, store, outbox
<1>2. stage = 0 BY <1>1 DEF RInv, StoreAgrees, StageAgrees, At, TypeOK
<1>3. \A r \in DOMAIN due' : r \in DOMAIN rows /\ due'[r] = rows[r] /\ IsDue(rows[r], clock) BY <1>1
<1>4. TypeOK' BY <1>1, <1>3 DEF RInv, StoreAgrees, TypeOK
<1>5. /\ LedgerAgrees' /\ FiringsAreLeft' /\ PendingIsUnderway' /\ StageAgrees' /\ EventsAgree'
  BY <1>1, <1>2, RelayIdle DEF RInv, StoreAgrees, TypeOK
<1>6. ScanAgrees'
  <2>1. \A r \in DOMAIN rows : rows[r].version <= rows[r].version BY DEF RInv, StoreAgrees, TypeOK, Row
  <2> QED BY <1>1, <1>3, <2>1 DEF ScanAgrees, IsDue
<1>7. CallsAgree' BY <1>1 DEF RInv, CallsAgree, Live
<1> QED BY <1>4, <1>5, <1>6, <1>7 DEF RInv, StoreAgrees

(* A row of the scan is left behind without a firing.                      *)
LEMMA LeaveDueKeeps ==
  ASSUME RInv, NEW r \in Rems, LostRace(r) \/ FireFails(r)
  PROVE  RInv'
<1>1. /\ UNCHANGED <<clock, rows, created, firings, lastId, events, applied, processed, posted,
                     pump, at, batch, stage, progress, call>>
      /\ due' = Without(due, {r})
  BY DEF LostRace, FireFails, Handled
<1>2. DOMAIN due' \subseteq DOMAIN due /\ \A q \in DOMAIN due' : due'[q] = due[q] BY <1>1 DEF Without
<1>3. TypeOK' BY <1>1, <1>2 DEF RInv, StoreAgrees, TypeOK
<1> QED BY <1>1, <1>2, <1>3, RelayKept, ReadsKept DEF RInv, StoreAgrees

LEMMA ScanDoneKeeps ==
  ASSUME RInv, ScanDone
  PROVE  RInv'
<1>1. /\ UNCHANGED <<clock, rows, created, firings, lastId, events, applied, processed, posted,
                     at, due, batch, stage, progress, call>>
      /\ pump = "fire" /\ pump' = "fetch"
  BY DEF ScanDone, store, outbox
<1>2. stage = 0 BY <1>1 DEF RInv, StoreAgrees, StageAgrees, At, TypeOK
<1>3. TypeOK' BY <1>1 DEF RInv, StoreAgrees, TypeOK
<1>4. batch' \subseteq DOMAIN events BY <1>1 DEF RInv, StoreAgrees, TypeOK
<1> QED BY <1>1, <1>2, <1>3, <1>4, RelayIdle, ReadsKept DEF RInv, StoreAgrees

LEMMA FetchKeeps ==
  ASSUME RInv, Fetch
  PROVE  RInv'
<1>1. /\ UNCHANGED <<clock, rows, created, firings, lastId, events, applied, processed, posted,
                     at, due, call>>
      /\ pump' = "drain" /\ batch' = DOMAIN events \ processed /\ stage' = 0 /\ progress' = FALSE
  BY DEF Fetch, store, outbox
<1>2. TypeOK'
  <2>1. batch' \subseteq DOMAIN events' \ processed' BY <1>1
  <2>2. stage' \in 0..2 BY <1>1
  <2>3. progress' \in BOOLEAN /\ pump' \in {"fetch", "drain", "idle", "fire"} BY <1>1
  <2> QED BY <1>1, <2>1, <2>2, <2>3 DEF RInv, StoreAgrees, TypeOK
<1> QED BY <1>1, <1>2, RelayIdle, ReadsKept DEF RInv, StoreAgrees

LEMMA PassEndsKeeps ==
  ASSUME RInv, PassEnds
  PROVE  RInv'
<1>1. /\ UNCHANGED <<clock, rows, created, firings, lastId, events, applied, processed, posted,
                     at, due, batch, stage, progress, call>>
      /\ batch = {} /\ pump' \in {"fetch", "idle"}
  BY DEF PassEnds, store, outbox
<1>2. stage = 0 BY <1>1 DEF RInv, StoreAgrees, StageAgrees, TypeOK
<1>3. TypeOK' BY <1>1 DEF RInv, StoreAgrees, TypeOK
<1> QED BY <1>1, <1>2, <1>3, RelayIdle, ReadsKept DEF RInv, StoreAgrees

(* The relay leaves the event at hand, processed or not.                   *)
LEMMA LeaveEventKeeps ==
  ASSUME RInv, NEW e \in DOMAIN events, ProjectFails(e) \/ MarkProcessed(e)
  PROVE  RInv'
<1>1. /\ UNCHANGED <<clock, rows, created, firings, lastId, events, applied, posted,
                     pump, at, due, call>>
      /\ batch' = batch \ {e} /\ stage' = 0 /\ progress' \in BOOLEAN
      /\ \/ processed' = processed
         \/ processed' = processed \cup {e} /\ e \in applied
  BY DEF ProjectFails, MarkProcessed, LeaveEvent, InPump, RInv, StoreAgrees, TypeOK
<1>2. TypeOK' BY <1>1 DEF RInv, StoreAgrees, TypeOK
<1>3. batch' \subseteq DOMAIN events BY <1>1 DEF RInv, StoreAgrees, TypeOK
<1> QED BY <1>1, <1>2, <1>3, RelayIdle, ReadsKept DEF RInv, StoreAgrees

LEMMA CrashKeeps ==
  ASSUME RInv, Crash
  PROVE  RInv'
<1>1. /\ UNCHANGED <<clock, rows, created, firings, lastId, events, applied, processed, posted,
                     at, progress>>
      /\ pump' = "fetch" /\ due' = Without(due, DOMAIN due) /\ batch' = {} /\ stage' = 0
      /\ call' = [c \in Clients |-> <<>>]
  BY DEF Crash, store, outbox
<1>2. DOMAIN due' = {} /\ \A c \in Clients : call'[c] = <<>> BY <1>1 DEF Without
<1>3. TypeOK' BY <1>1, <1>2 DEF RInv, StoreAgrees, TypeOK
<1> QED BY <1>1, <1>2, <1>3, RelayIdle, ReadsKept DEF RInv, StoreAgrees

LEMMA TimeKeeps ==
  ASSUME RInv, TimePasses
  PROVE  RInv'
<1>1. /\ UNCHANGED <<rows, created, firings, lastId, events, applied, processed, posted,
                     pump, at, due, batch, stage, progress, call>>
      /\ clock' = clock + 1
  BY DEF TimePasses, store, outbox, goroutine
<1>2. TypeOK' BY <1>1 DEF RInv, StoreAgrees, TypeOK
<1> QED BY <1>1, <1>2, RelayKept, ReadsKept DEF RInv, StoreAgrees

LEMMA ChangeKeeps ==
  ASSUME RInv, Change
  PROVE  RInv'
<1>1. /\ UNCHANGED <<clock, rows, created, firings, lastId, applied, processed, posted,
                     pump, at, due, batch, stage, progress, call>>
      /\ events' = Append(events, [firing |-> 0, at |-> clock])
  BY DEF Change, store, goroutine
<1>2. /\ events \in Seq([firing : 0..lastId, at : Nat])
      /\ [firing |-> 0, at |-> clock] \in [firing : 0..lastId, at : Nat]
      /\ batch \subseteq DOMAIN events
  BY DEF RInv, StoreAgrees, TypeOK
<1>3. /\ events' \in Seq([firing : 0..lastId, at : Nat])
      /\ DOMAIN events' = DOMAIN events \cup {Len(events) + 1}
      /\ \A e \in DOMAIN events : events'[e] = events[e]
      /\ \A e \in DOMAIN events' : e \in DOMAIN events \/ events'[e].firing = 0
  BY <1>1, <1>2
<1>4. TypeOK' BY <1>1, <1>3 DEF RInv, StoreAgrees, TypeOK
<1>5. LedgerAgrees' /\ FiringsAreLeft'
      /\ \A r \in DOMAIN rows : rows[r].skip => Cardinality(FiringsOf(r, {"pending"})') <= 1
  BY <1>1, StoreKept
<1>6. \A e \in DOMAIN events : (At(e)' <=> At(e)) /\ Firing(e)' = Firing(e) BY <1>1, <1>3 DEF At, Firing
<1>7. PendingIsUnderway' BY <1>1, <1>3, <1>5, <1>6 DEF RInv, StoreAgrees, PendingIsUnderway
<1>8. StageAgrees' BY <1>1, <1>2, <1>6 DEF RInv, StoreAgrees, StageAgrees
<1>9. EventsAgree'
  <2>1. \A f \in DOMAIN firings : f # 0 BY DEF RInv, StoreAgrees, TypeOK
  <2>2. \A e \in DOMAIN events' : e \in DOMAIN events \/ Firing(e)' = 0 BY <1>3 DEF Firing
  <2> QED BY <1>1, <1>6, <2>1, <2>2 DEF RInv, EventsAgree
<1> QED BY <1>1, <1>4, <1>5, <1>7, <1>8, <1>9, ReadsKept DEF RInv, StoreAgrees

LEMMA DeliverKeeps ==
  ASSUME RInv, NEW e \in DOMAIN events, Deliver(e)
  PROVE  RInv'
<1>1. /\ UNCHANGED <<clock, rows, created, firings, lastId, events, applied, processed,
                     pump, at, due, batch, progress, call>>
      /\ At(e) /\ Firing(e) # 0 /\ e \notin applied /\ stage = 0 /\ stage' = 1
      /\ posted' = posted \cup {Firing(e)}
  BY DEF Deliver, InPump
<1>2. TypeOK'
  <2>1. posted' \subseteq Nat
    <3>1. events \in Seq([firing : 0..lastId, at : Nat]) BY DEF RInv, StoreAgrees, TypeOK
    <3>2. \A S : \A q \in Seq(S) : \A i \in DOMAIN q : q[i] \in S OBVIOUS
    <3>3. events[e] \in [firing : 0..lastId, at : Nat] BY <3>1, <3>2
    <3>4. Firing(e) \in Nat BY <3>3 DEF Firing
    <3> QED BY <1>1, <3>4 DEF RInv, StoreAgrees, TypeOK
  <2> QED BY <1>1, <2>1 DEF RInv, StoreAgrees, TypeOK
<1>3. LedgerAgrees' /\ FiringsAreLeft'
      /\ \A r \in DOMAIN rows : rows[r].skip => Cardinality(FiringsOf(r, {"pending"})') <= 1
  BY <1>1, StoreKept
<1>4. (\A d : (At(d)' <=> At(d)) /\ Firing(d)' = Firing(d)) /\ stage' # 2 BY <1>1 DEF At, Firing
<1>5. PendingIsUnderway' BY <1>1, <1>3, <1>4 DEF RInv, StoreAgrees, PendingIsUnderway
<1>6. StageAgrees' BY <1>1, <1>4 DEF StageAgrees, At
<1>7. EventsAgree' BY <1>1, <1>4 DEF RInv, EventsAgree
<1> QED BY <1>1, <1>2, <1>3, <1>5, <1>6, <1>7, ReadsKept DEF RInv, StoreAgrees

LEMMA MarkAppliedKeeps ==
  ASSUME RInv, NEW e \in DOMAIN events, MarkApplied(e)
  PROVE  RInv'
<1>1. /\ UNCHANGED <<clock, rows, created, firings, lastId, events, processed, posted,
                     pump, at, due, batch, progress, call>>
      /\ At(e) /\ stage = 2 /\ stage' = 0 /\ applied' = applied \cup {e}
  BY DEF MarkApplied, InPump
<1>2. TypeOK' BY <1>1 DEF RInv, StoreAgrees, TypeOK
<1>3. LedgerAgrees' /\ FiringsAreLeft'
      /\ \A r \in DOMAIN rows : rows[r].skip => Cardinality(FiringsOf(r, {"pending"})') <= 1
  BY <1>1, StoreKept
<1>4. (\A d : Firing(d)' = Firing(d)) /\ stage' # 2 /\ ~(stage' > 0) BY <1>1 DEF Firing
<1>5. PendingIsUnderway' BY <1>1, <1>3, <1>4 DEF RInv, StoreAgrees, PendingIsUnderway
<1>6. StageAgrees' BY <1>4 DEF StageAgrees
<1>7. EventsAgree' BY <1>1, <1>4 DEF RInv, EventsAgree
<1> QED BY <1>1, <1>2, <1>3, <1>5, <1>6, <1>7, ReadsKept DEF RInv, StoreAgrees

(* The write-back turns a pending firing into a delivered one: the count   *)
(* stays, and the event is not the one another pending firing waits for.   *)
LEMMA WriteBackKeeps ==
  ASSUME RInv, NEW e \in DOMAIN events, UpdateFiringOutcome(e)
  PROVE  RInv'
<1> DEFINE f == Firing(e)
<1>1. /\ UNCHANGED <<clock, rows, created, lastId, events, applied, processed, posted,
                     pump, at, due, batch, progress, call>>
      /\ At(e) /\ stage = 1 /\ stage' = 2
      /\ firings' = [g \in DOMAIN firings |-> IF g = f THEN [firings[g] EXCEPT !.outcome = "delivered"] ELSE firings[g]]
  BY DEF UpdateFiringOutcome, InPump
<1>2. /\ DOMAIN firings' = DOMAIN firings
      /\ \A g \in DOMAIN firings : g # f => firings'[g] = firings[g]
      /\ f \in DOMAIN firings => /\ firings'[f].rem = firings[f].rem /\ firings'[f].outcome = "delivered"
                                 /\ firings'[f] \in [rem : DOMAIN rows, outcome : {"pending", "delivered", "skipped_overlap"}]
                                 /\ firings[f].outcome \in {"pending", "delivered"}
  <2>1. \A g \in DOMAIN firings : firings[g] \in [rem : DOMAIN rows, outcome : {"pending", "delivered", "skipped_overlap"}]
    BY DEF RInv, StoreAgrees, TypeOK
  <2>2. f \in DOMAIN firings => firings[f].outcome # "skipped_overlap" BY DEF RInv, EventsAgree
  <2> QED BY <1>1, <2>1, <2>2
<1>3. TypeOK'
  <2>1. \A g \in DOMAIN firings' : firings'[g] \in [rem : DOMAIN rows', outcome : {"pending", "delivered", "skipped_overlap"}]
    BY <1>1, <1>2 DEF RInv, StoreAgrees, TypeOK
  <2>2. DOMAIN firings' \subseteq 1..lastId' /\ stage' \in 0..2 BY <1>1, <1>2 DEF RInv, StoreAgrees, TypeOK
  <2>3. UNCHANGED <<clock, rows, created, lastId, events, applied, processed, posted,
                    pump, at, due, batch, progress, call>>
    BY <1>1
  <2> QED BY <2>1, <2>2, <2>3 DEF RInv, StoreAgrees, TypeOK
<1>4. ASSUME NEW r
      PROVE  /\ FiringsOf(r, {"pending", "delivered"})' = FiringsOf(r, {"pending", "delivered"})
             /\ FiringsOf(r, {"pending"})' \subseteq FiringsOf(r, {"pending"})
  BY <1>2 DEF FiringsOf
<1>5. LedgerAgrees' BY <1>1, <1>4 DEF RInv, StoreAgrees, LedgerAgrees
<1>6. FiringsAreLeft' BY <1>1 DEF RInv, FiringsAreLeft, Live
<1>7. \A d : (At(d)' <=> At(d)) /\ Firing(d)' = Firing(d) BY <1>1 DEF At, Firing
<1>8. PendingIsUnderway'
  <2>1. ASSUME NEW r \in DOMAIN rows, rows[r].skip PROVE Cardinality(FiringsOf(r, {"pending"})') <= 1
    <3> DEFINE S == FiringsOf(r, {"pending"})
               T == FiringsOf(r, {"pending"})'
    <3>1. IsFiniteSet(S) /\ Cardinality(S) \in Nat BY FiringsAreFinite DEF RInv, StoreAgrees
    <3>2. T \in SUBSET S BY <1>4
    <3>3. Cardinality(S) <= 1 BY <2>1 DEF RInv, StoreAgrees, PendingIsUnderway
    <3> HIDE DEF S, T
    <3>4. IsFiniteSet(T) /\ Cardinality(T) <= Cardinality(S) BY <3>1, <3>2, FS_Subset
    <3>5. Cardinality(T) \in Nat BY <3>4, FS_CardinalityType
    <3>6. Cardinality(T) <= 1 BY <3>1, <3>3, <3>4, <3>5
    <3> QED BY <3>6 DEF T
  <2>2. ASSUME NEW g \in DOMAIN firings, firings'[g].outcome = "pending"
        PROVE  \E d \in DOMAIN events \ applied : Firing(d) = g /\ ~(At(d) /\ stage' = 2)
    <3>1. g # f /\ firings[g].outcome = "pending" BY <1>2, <2>2
    <3>2. PICK d \in DOMAIN events \ applied : Firing(d) = g
      BY <3>1 DEF RInv, StoreAgrees, PendingIsUnderway
    <3>3. ~At(d)
      <4>1. d # e BY <3>1, <3>2
      <4> QED BY <1>1, <4>1, OneAtHand DEF RInv, StoreAgrees
    <3> QED BY <3>2, <3>3
  <2> QED BY <1>1, <1>2, <1>7, <2>1, <2>2 DEF PendingIsUnderway
<1>9. StageAgrees' BY <1>1, <1>7 DEF RInv, StoreAgrees, StageAgrees
<1>10. EventsAgree'
  <2>1. ASSUME NEW d \in DOMAIN events, Firing(d) \in DOMAIN firings
        PROVE  firings'[Firing(d)].outcome # "skipped_overlap"
    BY <1>2, <2>1 DEF RInv, EventsAgree
  <2> QED BY <1>1, <1>2, <1>7, <2>1 DEF EventsAgree
<1> QED BY <1>1, <1>3, <1>5, <1>6, <1>8, <1>9, <1>10, ReadsKept DEF RInv, StoreAgrees

(* Arming is a write of every dormant row; they are active, so the next    *)
(* run may be set.                                                         *)
LEMMA ArmKeeps ==
  ASSUME RInv, NEW e \in DOMAIN events, ArmMatching(e)
  PROVE  RInv'
<1>1. /\ UNCHANGED <<clock, created, firings, lastId, events, processed, posted,
                     pump, at, due, batch, stage, progress, call>>
      /\ At(e) /\ Firing(e) = 0 /\ e \notin applied /\ applied' = applied \cup {e}
      /\ rows' = [r \in DOMAIN rows |-> IF r \in Dormant
                    THEN [Armed(rows[r], events[e].at) EXCEPT !.version = @ + 1] ELSE rows[r]]
  BY DEF ArmMatching, InPump
<1>2. events[e].at \in Nat
  <2>1. events \in Seq([firing : 0..lastId, at : Nat]) BY DEF RInv, StoreAgrees, TypeOK
  <2>2. \A S : \A q \in Seq(S) : \A i \in DOMAIN q : q[i] \in S OBVIOUS
  <2>3. events[e] \in [firing : 0..lastId, at : Nat] BY <2>1, <2>2
  <2> QED BY <2>3
<1>3. ASSUME NEW r \in DOMAIN rows
      PROVE  \/ rows'[r] = rows[r]
             \/ /\ rows[r].status = "active"
                /\ rows'[r] \in Row /\ rows'[r].status = rows[r].status /\ rows'[r].fired = rows[r].fired
                /\ rows'[r].end = rows[r].end /\ rows'[r].skip = rows[r].skip
                /\ rows'[r].version = rows[r].version + 1
  <2>1. rows[r] \in Row BY DEF RInv, StoreAgrees, TypeOK
  <2>2. CASE r \notin Dormant BY <1>1, <2>2
  <2>3. CASE r \in Dormant
    <3> DEFINE n == events[e].at + rows[r].delay
    <3>1. n \in Nat BY <1>2, <2>1, RowFields
    <3>2. rows[r].status = "active" BY <2>3 DEF Dormant
    <3> DEFINE u == [rows[r] EXCEPT !.next = n]
    <3>3. rows'[r] = [u EXCEPT !.version = @ + 1] BY <1>1, <2>3 DEF Armed
    <3> HIDE DEF n
    <3>4. /\ u \in Row /\ u.status = rows[r].status /\ u.fired = rows[r].fired /\ u.end = rows[r].end
          /\ u.skip = rows[r].skip /\ u.version = rows[r].version
      BY <2>1, <3>1 DEF Row
    <3> HIDE DEF u
    <3>5. /\ rows'[r] \in Row /\ rows'[r].status = u.status /\ rows'[r].fired = u.fired
          /\ rows'[r].end = u.end /\ rows'[r].skip = u.skip /\ rows'[r].version = u.version + 1
      BY <3>3, <3>4 DEF Row
    <3> QED BY <3>2, <3>4, <3>5
  <2> QED BY <2>2, <2>3
<1>4. DOMAIN rows' = DOMAIN rows BY <1>1
<1>5. TypeOK' BY <1>1, <1>3, <1>4 DEF RInv, StoreAgrees, TypeOK
<1>6. \A r, S : FiringsOf(r, S)' = FiringsOf(r, S) BY <1>1 DEF FiringsOf
<1>7. \A d : (At(d)' <=> At(d)) /\ Firing(d)' = Firing(d) BY <1>1 DEF At, Firing
<1>8. LedgerAgrees' BY <1>3, <1>4, <1>6 DEF RInv, StoreAgrees, LedgerAgrees
<1>9. PendingIsUnderway'
  <2>1. \A f \in DOMAIN firings : f # 0 BY DEF RInv, StoreAgrees, TypeOK
  <2>2. \A f \in DOMAIN firings : firings[f].outcome = "pending" =>
          \E d \in DOMAIN events \ applied' : Firing(d) = f /\ ~(At(d) /\ stage = 2)
    BY <1>1, <2>1 DEF RInv, StoreAgrees, PendingIsUnderway
  <2>3. \A r \in DOMAIN rows' : rows'[r].skip => Cardinality(FiringsOf(r, {"pending"})') <= 1
    BY <1>3, <1>4, <1>6 DEF RInv, StoreAgrees, PendingIsUnderway
  <2> QED BY <1>1, <1>7, <2>2, <2>3 DEF PendingIsUnderway
<1>10. StageAgrees'
  <2>1. stage > 0 => FALSE
    <3> SUFFICES ASSUME stage > 0 PROVE FALSE OBVIOUS
    <3>1. PICK d \in batch : At(d) /\ Firing(d) # 0 BY DEF RInv, StoreAgrees, StageAgrees
    <3>2. d = e BY <1>1, <3>1, OneAtHand DEF RInv, StoreAgrees
    <3> QED BY <1>1, <3>1, <3>2
  <2> QED BY <1>1, <2>1 DEF StageAgrees
<1>11. EventsAgree' BY <1>1, <1>7 DEF RInv, EventsAgree
<1>12. FiringsAreLeft' BY <1>3, <1>4 DEF RInv, FiringsAreLeft, Live
<1>13. \A v, u \in Nat : v <= u => v <= u + 1 /\ v # u + 1 OBVIOUS
<1>14. ScanAgrees'
  <2> SUFFICES ASSUME NEW r \in DOMAIN due, r \in DOMAIN rows
               PROVE  /\ due[r].version <= rows'[r].version
                      /\ due[r].version = rows'[r].version => due[r] = rows'[r]
    BY <1>1, <1>4 DEF RInv, ScanAgrees, IsDue
  <2>1. due[r].version \in Nat /\ rows[r].version \in Nat BY DEF RInv, StoreAgrees, TypeOK, Row
  <2> QED BY <1>3, <1>13, <2>1 DEF RInv, ScanAgrees
<1>15. CallsAgree'
  <2> SUFFICES ASSUME NEW c \in Clients, call[c] # <<>>, ~call[c][1].delete, call[c][1].rem \in DOMAIN rows
               PROVE  LET r == call[c][1].rem
                          w == call[c][1].row
                      IN /\ w.version <= rows'[r].version
                         /\ w.version = rows'[r].version =>
                              /\ w.fired = rows'[r].fired /\ w.end = rows'[r].end /\ w.skip = rows'[r].skip
                              /\ Live(w) => Live(rows'[r])
    BY <1>1, <1>4 DEF RInv, CallsAgree, Live
  <2> DEFINE r == call[c][1].rem
             w == call[c][1].row
  <2>1. w.version \in Nat /\ rows[r].version \in Nat BY DEF RInv, StoreAgrees, TypeOK, Row
  <2>2. /\ w.version <= rows[r].version
        /\ w.version = rows[r].version =>
             /\ w.fired = rows[r].fired /\ w.end = rows[r].end /\ w.skip = rows[r].skip
             /\ Live(w) => Live(rows[r])
    BY DEF RInv, CallsAgree
  <2> QED BY <1>3, <1>13, <2>1, <2>2
<1> QED BY <1>5, <1>8, <1>9, <1>10, <1>11, <1>12, <1>14, <1>15 DEF RInv, StoreAgrees
-----------------------------------------------------------------------------
(* Steps that write rows.                                                  *)
LEMMA CreateKeeps ==
  ASSUME RInv, NEW r \in Rems, NEW m \in Templates, Create(r, m)
  PROVE  RInv'
<1> DEFINE n == NextAfter(m.sched, clock)
           w == [sched |-> m.sched, watch |-> m.watch, delay |-> m.delay,
                 skip |-> m.skip, end |-> m.end, status |-> "active",
                 next |-> n, fired |-> 0, version |-> 1]
<1>1. /\ UNCHANGED <<clock, firings, lastId, events, applied, processed, posted,
                     pump, at, due, batch, stage, progress, call>>
      /\ r \notin created /\ created' = created \cup {r}
      /\ rows' = [x \in DOMAIN rows \cup {r} |-> IF x # r THEN rows[x] ELSE w]
  BY DEF Create, outbox, goroutine
<1>2. r \notin DOMAIN rows /\ r \notin DOMAIN due /\ DOMAIN rows \subseteq created
  BY <1>1 DEF RInv, StoreAgrees, TypeOK
<1>3. /\ m \in [sched : Schedule, watch : BOOLEAN, delay : Nat, skip : BOOLEAN, end : EndCondition]
      /\ m.end.kind = "max_count" => m.end.n > 0
      /\ m.sched \in Schedules
  BY RemindersAssumption DEF Schedules
<1>4. n \in Nat BY <1>3, NextAfterType DEF RInv, StoreAgrees, TypeOK
<1> HIDE DEF n
<1>5. /\ w \in Row /\ w.fired = 0 /\ w.status = "active" /\ w.end = m.end
  BY <1>3, <1>4 DEF Row
<1> HIDE DEF w
<1>6. /\ DOMAIN rows' = DOMAIN rows \cup {r} /\ rows'[r] = w
      /\ \A x \in DOMAIN rows : x # r /\ rows'[x] = rows[x]
  BY <1>1, <1>2
<1>7. TypeOK' BY <1>1, <1>5, <1>6 DEF RInv, StoreAgrees, TypeOK
<1>8. \A q, S : FiringsOf(q, S)' = FiringsOf(q, S) BY <1>1 DEF FiringsOf
<1>9. \A S : Cardinality(FiringsOf(r, S)) = 0 BY <1>2, FiringsAreFinite DEF RInv, StoreAgrees
<1>10. m.end.n \in Nat BY <1>3 DEF EndCondition
<1>11. LedgerAgrees'
  <2>1. \A q \in DOMAIN rows :
          /\ rows'[q].fired = Cardinality(FiringsOf(q, {"pending", "delivered"}))
          /\ rows'[q].end.kind = "max_count" => rows'[q].fired <= rows'[q].end.n
          /\ rows'[q].next # 0 => rows'[q].status = "active"
    BY <1>6 DEF RInv, StoreAgrees, LedgerAgrees
  <2>2. /\ rows'[r].fired = Cardinality(FiringsOf(r, {"pending", "delivered"}))
        /\ rows'[r].end.kind = "max_count" => rows'[r].fired <= rows'[r].end.n
        /\ rows'[r].next # 0 => rows'[r].status = "active"
    BY <1>5, <1>6, <1>9, <1>10
  <2> QED BY <1>6, <1>8, <2>1, <2>2 DEF LedgerAgrees
<1>12. FiringsAreLeft'
  <2>1. rows'[r].end.kind = "max_count" => rows'[r].fired < rows'[r].end.n BY <1>3, <1>5, <1>6, <1>10
  <2> QED BY <1>6, <2>1 DEF RInv, FiringsAreLeft, Live
<1>13. \A d : (At(d)' <=> At(d)) /\ Firing(d)' = Firing(d) BY <1>1 DEF At, Firing
<1>14. PendingIsUnderway'
  <2>1. \A q \in DOMAIN rows' : rows'[q].skip => Cardinality(FiringsOf(q, {"pending"})') <= 1
    BY <1>6, <1>8, <1>9 DEF RInv, StoreAgrees, PendingIsUnderway
  <2> QED BY <1>1, <1>13, <2>1 DEF RInv, StoreAgrees, PendingIsUnderway
<1>15. StageAgrees' BY <1>1, <1>13 DEF RInv, StoreAgrees, StageAgrees
<1>16. EventsAgree' BY <1>1, <1>13 DEF RInv, EventsAgree
<1>17. ScanAgrees' BY <1>1, <1>2, <1>6 DEF RInv, ScanAgrees, IsDue
<1>18. CallsAgree'
  <2>1. \A c \in Clients : call[c] # <<>> => call[c][1].rem # r
    BY <1>1 DEF RInv, StoreAgrees, TypeOK
  <2> QED BY <1>1, <1>6, <2>1 DEF RInv, CallsAgree, Live
<1> QED BY <1>7, <1>11, <1>12, <1>14, <1>15, <1>16, <1>17, <1>18 DEF RInv, StoreAgrees

(* A call commits: the row it writes has the history of the row that is    *)
(* there, because the version it read is still the one.                    *)
LEMMA UpdateKeeps ==
  ASSUME RInv, NEW c \in Clients, CommitUpdate(c)
  PROVE  RInv'
<1>0. PICK r, w : r = call[c][1].rem /\ w = call[c][1].row OBVIOUS
<1>1. /\ UNCHANGED <<clock, created, firings, lastId, events, applied, processed, posted,
                     pump, at, due, batch, stage, progress>>
      /\ call[c] # <<>> /\ ~call[c][1].delete /\ UpdateRow(r, w, w.version)
      /\ call' = [call EXCEPT ![c] = <<>>]
  BY <1>0 DEF CommitUpdate, UpdateRow, Return, outbox, goroutine
<1>2. w \in Row /\ w.version \in Nat BY <1>0, <1>1 DEF RInv, StoreAgrees, TypeOK, Row
<1>3. r \in DOMAIN rows /\ rows[r].version = w.version BY <1>1 DEF UpdateRow
<1>4. /\ w.next # 0 => w.status = "active"
      /\ w.fired = rows[r].fired /\ w.end = rows[r].end /\ w.skip = rows[r].skip
      /\ Live(w) => Live(rows[r])
  BY <1>0, <1>1, <1>3 DEF RInv, CallsAgree
<1>5. DOMAIN call' = Clients /\ call'[c] = <<>> /\ \A d \in Clients : d # c => call'[d] = call[d]
  BY <1>1 DEF RInv, StoreAgrees, TypeOK
<1>6. Written(r, w) /\ ScanFits(rows') /\ CallsFit(rows')
  <2>1. TypeOK /\ ScanAgrees /\ CallsAgree BY DEF RInv, StoreAgrees
  <2> QED BY <1>1, <1>2, <2>1, RowWritten
<1>6a. /\ DOMAIN rows' = DOMAIN rows
       /\ \A q \in DOMAIN rows : q # r => rows'[q] = rows[q]
       /\ rows'[r].fired = w.fired /\ rows'[r].end = w.end /\ rows'[r].skip = w.skip
       /\ rows'[r].status = w.status /\ rows'[r].next = w.next
       /\ \A q \in DOMAIN rows' : rows'[q] \in Row
  BY <1>6 DEF Written
<1>7. TypeOK'
  <2>1. \A f \in DOMAIN firings : firings[f] \in [rem : DOMAIN rows', outcome : {"pending", "delivered", "skipped_overlap"}]
    BY <1>6a DEF RInv, StoreAgrees, TypeOK
  <2>2. \A d \in Clients : call'[d] = <<>> \/
          (call'[d] = <<call'[d][1]>> /\ call'[d][1] \in [rem : created, delete : BOOLEAN, row : Row])
    BY <1>5 DEF RInv, StoreAgrees, TypeOK
  <2> QED BY <1>1, <1>5, <1>6a, <2>1, <2>2 DEF RInv, StoreAgrees, TypeOK
<1>8. \A q, S : FiringsOf(q, S)' = FiringsOf(q, S) BY <1>1 DEF FiringsOf
<1>9. LedgerAgrees'
  <2>1. \A q \in DOMAIN rows : rows'[q].fired = rows[q].fired /\ rows'[q].end = rows[q].end BY <1>3, <1>4, <1>6a
  <2>2. \A q \in DOMAIN rows : rows'[q].next # 0 => rows'[q].status = "active"
    BY <1>4, <1>6a DEF RInv, StoreAgrees, LedgerAgrees
  <2> QED BY <1>6a, <1>8, <2>1, <2>2 DEF RInv, StoreAgrees, LedgerAgrees
<1>10. FiringsAreLeft'
  <2>1. \A q \in DOMAIN rows : /\ rows'[q].fired = rows[q].fired /\ rows'[q].end = rows[q].end
                               /\ Live(rows'[q]) => Live(rows[q])
    BY <1>3, <1>4, <1>6a DEF Live
  <2> QED BY <1>6a, <2>1 DEF RInv, FiringsAreLeft, Live
<1>11. \A d : (At(d)' <=> At(d)) /\ Firing(d)' = Firing(d) BY <1>1 DEF At, Firing
<1>12. PendingIsUnderway'
  <2>1. \A q \in DOMAIN rows' : rows'[q].skip => Cardinality(FiringsOf(q, {"pending"})') <= 1
    BY <1>3, <1>4, <1>6a, <1>8 DEF RInv, StoreAgrees, PendingIsUnderway
  <2> QED BY <1>1, <1>11, <2>1 DEF RInv, StoreAgrees, PendingIsUnderway
<1>13. StageAgrees' BY <1>1, <1>11 DEF RInv, StoreAgrees, StageAgrees
<1>14. EventsAgree' BY <1>1, <1>11 DEF RInv, EventsAgree
<1>15. ScanAgrees' BY <1>1, <1>6, <1>6a DEF RInv, ScanAgrees, ScanFits, IsDue
<1>16. CallsAgree'
  <2> SUFFICES ASSUME NEW d \in Clients, call[d] # <<>>, ~call[d][1].delete, d # c
               PROVE  LET q == call[d][1].rem
                          u == call[d][1].row
                      IN /\ u.next # 0 => u.status = "active"
                         /\ q \in DOMAIN rows' =>
                              /\ u.version <= rows'[q].version
                              /\ u.version = rows'[q].version =>
                                   /\ u.fired = rows'[q].fired /\ u.end = rows'[q].end /\ u.skip = rows'[q].skip
                                   /\ Live(u) => Live(rows'[q])
    BY <1>5 DEF CallsAgree, Live
  <2> QED BY <1>6, <1>6a DEF RInv, CallsAgree, CallsFit
<1> QED BY <1>7, <1>9, <1>10, <1>12, <1>13, <1>14, <1>15, <1>16 DEF RInv, StoreAgrees

(* The row and its history go together.                                    *)
LEMMA DeleteKeeps ==
  ASSUME RInv, NEW c \in Clients, CommitDelete(c)
  PROVE  RInv'
<1>0. PICK r : r = call[c][1].rem OBVIOUS
<1>1. /\ UNCHANGED <<clock, created, lastId, events, applied, processed, posted,
                     pump, at, due, batch, stage, progress>>
      /\ r \in DOMAIN rows
      /\ rows' = Without(rows, {r})
      /\ firings' = Without(firings, {f \in DOMAIN firings : firings[f].rem = r})
      /\ call' = [call EXCEPT ![c] = <<>>]
  BY <1>0 DEF CommitDelete, Return, outbox, goroutine
<1>2. /\ DOMAIN rows' = DOMAIN rows \ {r}
      /\ \A q \in DOMAIN rows' : q # r /\ q \in DOMAIN rows /\ rows'[q] = rows[q]
  BY <1>1 DEF Without
<1>3. /\ DOMAIN firings' = {f \in DOMAIN firings : firings[f].rem # r}
      /\ \A f \in DOMAIN firings' : f \in DOMAIN firings /\ firings'[f] = firings[f] /\ firings[f].rem # r
  BY <1>1 DEF Without
<1>4. /\ DOMAIN call' = Clients
      /\ \A d \in Clients : call'[d] = call[d] \/ call'[d] = <<>>
  BY <1>1 DEF RInv, StoreAgrees, TypeOK
<1>5. TypeOK'
  <2>1. \A f \in DOMAIN firings' :
          firings'[f] \in [rem : DOMAIN rows', outcome : {"pending", "delivered", "skipped_overlap"}]
    <3> SUFFICES ASSUME NEW f \in DOMAIN firings'
                 PROVE  firings'[f] \in [rem : DOMAIN rows', outcome : {"pending", "delivered", "skipped_overlap"}]
      OBVIOUS
    <3>1. firings[f] \in [rem : DOMAIN rows, outcome : {"pending", "delivered", "skipped_overlap"}]
      BY <1>3 DEF RInv, StoreAgrees, TypeOK
    <3>2. firings[f].rem \in DOMAIN rows' BY <1>2, <1>3, <3>1
    <3> QED BY <1>3, <3>1, <3>2
  <2>2. DOMAIN firings' \subseteq 1..lastId BY <1>3 DEF RInv, StoreAgrees, TypeOK
  <2>3. DOMAIN rows' \subseteq created /\ \A q \in DOMAIN rows' : rows'[q] \in Row
    BY <1>2 DEF RInv, StoreAgrees, TypeOK
  <2> QED BY <1>1, <1>4, <2>1, <2>2, <2>3 DEF RInv, StoreAgrees, TypeOK
<1>6. \A q, S : q # r => FiringsOf(q, S)' = FiringsOf(q, S) BY <1>3 DEF FiringsOf
<1>7. LedgerAgrees' BY <1>2, <1>6 DEF RInv, StoreAgrees, LedgerAgrees
<1>8. FiringsAreLeft' BY <1>2 DEF RInv, FiringsAreLeft, Live
<1>9. \A d : (At(d)' <=> At(d)) /\ Firing(d)' = Firing(d) BY <1>1 DEF At, Firing
<1>10. PendingIsUnderway'
  <2>1. \A q \in DOMAIN rows' : rows'[q].skip => Cardinality(FiringsOf(q, {"pending"})') <= 1
    BY <1>2, <1>6 DEF RInv, StoreAgrees, PendingIsUnderway
  <2> QED BY <1>1, <1>3, <1>9, <2>1 DEF RInv, StoreAgrees, PendingIsUnderway
<1>11. StageAgrees' BY <1>1, <1>9 DEF RInv, StoreAgrees, StageAgrees
<1>12. EventsAgree' BY <1>1, <1>3, <1>9 DEF RInv, EventsAgree
<1>13. ScanAgrees' BY <1>1, <1>2 DEF RInv, ScanAgrees, IsDue
<1>14. CallsAgree' BY <1>2, <1>4 DEF RInv, CallsAgree, Live
<1> QED BY <1>5, <1>7, <1>8, <1>10, <1>11, <1>12, <1>13, <1>14 DEF RInv, StoreAgrees
-----------------------------------------------------------------------------
(* Steps of the scan that write.                                           *)

(* The row of the scan is the row that is there: it is due.                *)
LEMMA DueIsThere ==
  ASSUME RInv, NEW r \in DOMAIN due, r \in DOMAIN rows, rows[r].version = due[r].version
  PROVE  /\ due[r] = rows[r] /\ rows[r] \in Row /\ at \in Nat /\ rows[r].version \in Nat
         /\ rows[r].status = "active" /\ Live(rows[r]) /\ IsDue(rows[r], at)
<1>1. due[r] = rows[r] /\ IsDue(rows[r], at) BY DEF RInv, ScanAgrees
<1>2. rows[r] \in Row /\ at \in Nat BY DEF RInv, StoreAgrees, TypeOK
<1> QED BY <1>1, <1>2, RowFields DEF IsDue, Live, Terminal

(* A run or a skipped one: the row moves on together with its history.     *)
LEMMA RunKeepsRows ==
  ASSUME RInv, NEW r \in DOMAIN due, NEW w \in Row, NEW version \in Nat, NEW o \in {"pending", "skipped_overlap"},
         UpdateRow(r, w, version), AppendFiring(r, o), Handled(r),
         Live(rows[r]), w.end = rows[r].end, w.next # 0 => w.status = "active",
         w.fired = IF o = "pending" THEN rows[r].fired + 1 ELSE rows[r].fired,
         Live(w) /\ w.end.kind = "max_count" => w.fired < w.end.n
  PROVE  LedgerAgrees' /\ FiringsAreLeft' /\ ScanAgrees' /\ CallsAgree' /\ Written(r, w)
<1>1. /\ UNCHANGED <<clock, created, applied, processed, posted, pump, at, batch, stage, progress, call>>
      /\ due' = Without(due, {r})
  BY DEF Handled
<1>2. TypeOK /\ ScanAgrees /\ CallsAgree BY DEF RInv, StoreAgrees
<1>3. r \in DOMAIN rows /\ Written(r, w) /\ ScanFits(rows') /\ CallsFit(rows') BY <1>2, RowWritten
<1>4. /\ DOMAIN rows' = DOMAIN rows
      /\ \A q \in DOMAIN rows : q # r => rows'[q] = rows[q]
      /\ rows'[r].fired = w.fired /\ rows'[r].end = w.end /\ rows'[r].skip = w.skip
      /\ rows'[r].status = w.status /\ rows'[r].next = w.next
  BY <1>3 DEF Written
<1>5. DOMAIN due' = DOMAIN due \ {r} /\ \A q \in DOMAIN due' : q \in DOMAIN due /\ due'[q] = due[q]
  BY <1>1 DEF Without
<1>6. /\ \A S : o \in S => Cardinality(FiringsOf(r, S)') = Cardinality(FiringsOf(r, S)) + 1
      /\ \A q, S : ~(q = r /\ o \in S) => FiringsOf(q, S)' = FiringsOf(q, S)
  <2>1. \A S : o \in S => Cardinality(FiringsOf(r, S)') = Cardinality(FiringsOf(r, S)) + 1
    BY <1>2, FiringAppended
  <2>2. /\ DOMAIN firings' = DOMAIN firings \cup {lastId'}
        /\ firings'[lastId'] = [rem |-> r, outcome |-> o]
        /\ \A f \in DOMAIN firings : f # lastId' /\ firings'[f] = firings[f]
    BY <1>2, FiringAppended
  <2>3. ASSUME NEW q, NEW S, ~(q = r /\ o \in S) PROVE FiringsOf(q, S)' = FiringsOf(q, S)
    BY <2>2, <2>3 DEF FiringsOf
  <2> QED BY <2>1, <2>3
<1>7. rows[r] \in Row BY <1>2, <1>3 DEF TypeOK
<1>8. LedgerAgrees'
  <2>1. rows'[r].fired = Cardinality(FiringsOf(r, {"pending", "delivered"})')
    <3>1. rows[r].fired = Cardinality(FiringsOf(r, {"pending", "delivered"})) BY <1>3 DEF RInv, StoreAgrees, LedgerAgrees
    <3>2. CASE o = "pending"
      <4>1. Cardinality(FiringsOf(r, {"pending", "delivered"})') = Cardinality(FiringsOf(r, {"pending", "delivered"})) + 1
        BY <1>6, <3>2
      <4> QED BY <1>4, <3>1, <3>2, <4>1
    <3>3. CASE o # "pending"
      <4>1. FiringsOf(r, {"pending", "delivered"})' = FiringsOf(r, {"pending", "delivered"}) BY <1>6, <3>3
      <4> QED BY <1>4, <3>1, <3>3, <4>1
    <3> QED BY <3>2, <3>3
  <2>2. rows'[r].end.kind = "max_count" => rows'[r].fired <= rows'[r].end.n
    <3>1. rows[r].end.kind = "max_count" => rows[r].fired < rows[r].end.n BY <1>3 DEF RInv, FiringsAreLeft
    <3>2. rows[r].fired \in Nat /\ rows[r].end.n \in Nat BY <1>7, RowFields
    <3> QED BY <1>4, <3>1, <3>2
  <2>3. \A q \in DOMAIN rows : q # r =>
          /\ FiringsOf(q, {"pending", "delivered"})' = FiringsOf(q, {"pending", "delivered"})
          /\ rows'[q].fired = Cardinality(FiringsOf(q, {"pending", "delivered"}))
          /\ rows'[q].end.kind = "max_count" => rows'[q].fired <= rows'[q].end.n
          /\ rows'[q].next # 0 => rows'[q].status = "active"
    BY <1>4, <1>6 DEF RInv, StoreAgrees, LedgerAgrees
  <2> QED BY <1>4, <2>1, <2>2, <2>3 DEF LedgerAgrees
<1>9. FiringsAreLeft' BY <1>4 DEF RInv, FiringsAreLeft, Live
<1>10. ScanAgrees' BY <1>1, <1>3, <1>4, <1>5 DEF RInv, ScanAgrees, ScanFits, IsDue
<1>11. CallsAgree' BY <1>1, <1>3, <1>4 DEF RInv, CallsAgree, CallsFit, Live
<1> QED BY <1>3, <1>8, <1>9, <1>10, <1>11

(* A run that overlaps is skipped: no firing is on its way because of it.  *)
LEMMA SkipKeeps ==
  ASSUME RInv, NEW r \in Rems, SkipOverlap(r)
  PROVE  RInv'
<1>0. PICK v, w, version : v = due[r] /\ w = Advanced(v, at) /\ version = v.version OBVIOUS
<1>1. /\ UNCHANGED <<clock, created, events, applied, processed, posted,
                     pump, at, batch, stage, progress, call>>
      /\ r \in DOMAIN due /\ r \in DOMAIN rows /\ rows[r].version = version
      /\ UpdateRow(r, w, version) /\ AppendFiring(r, "skipped_overlap") /\ Handled(r)
      /\ due' = Without(due, {r})
  BY <1>0 DEF SkipOverlap, NextDue, UpdateRow, Handled
<1>2. /\ v = rows[r] /\ rows[r] \in Row /\ at \in Nat /\ version \in Nat
      /\ rows[r].status = "active" /\ Live(rows[r])
  BY <1>0, <1>1, DueIsThere
<1>3. /\ w \in Row /\ w.fired = rows[r].fired /\ w.end = rows[r].end /\ w.skip = rows[r].skip
      /\ w.next # 0 => w.status = "active"
      /\ Live(w) /\ w.end.kind = "max_count" => w.fired < w.end.n
  BY <1>0, <1>2, AdvancedRow
<1>4. TypeOK BY DEF RInv, StoreAgrees
<1>5. LedgerAgrees' /\ FiringsAreLeft' /\ ScanAgrees' /\ CallsAgree' /\ Written(r, w)
  BY <1>1, <1>2, <1>3, RunKeepsRows
<1>6. /\ DOMAIN rows' = DOMAIN rows /\ rows'[r].skip = rows[r].skip
      /\ \A q \in DOMAIN rows : q # r => rows'[q] = rows[q]
      /\ \A q \in DOMAIN rows' : rows'[q] \in Row
  BY <1>3, <1>5 DEF Written
<1>7. /\ lastId' = lastId + 1
      /\ DOMAIN firings' = DOMAIN firings \cup {lastId'} /\ lastId' \notin DOMAIN firings
      /\ firings'[lastId'] = [rem |-> r, outcome |-> "skipped_overlap"]
      /\ \A f \in DOMAIN firings : f # lastId' /\ firings'[f] = firings[f]
  BY <1>1, <1>4, FiringAppended
<1>8. DOMAIN due' = DOMAIN due \ {r} /\ \A q \in DOMAIN due' : q \in DOMAIN due /\ due'[q] = due[q]
  BY <1>1 DEF Without
<1>9. \A e \in DOMAIN events : events[e] \in [firing : 0..lastId, at : Nat]
  <2>1. events \in Seq([firing : 0..lastId, at : Nat]) BY <1>4 DEF TypeOK
  <2>2. \A S : \A q \in Seq(S) : \A i \in DOMAIN q : q[i] \in S OBVIOUS
  <2> QED BY <2>1, <2>2
<1>10. TypeOK'
  <2>1. lastId' \in Nat /\ DOMAIN firings' \subseteq 1..lastId' /\ 0..lastId \subseteq 0..lastId'
    BY <1>4, <1>7 DEF TypeOK
  <2>2. events' \in Seq([firing : 0..lastId', at : Nat])
    <3>1. [firing : 0..lastId, at : Nat] \subseteq [firing : 0..lastId', at : Nat] BY <2>1
    <3>2. events \in Seq([firing : 0..lastId, at : Nat]) BY <1>4 DEF TypeOK
    <3>3. \A S, T : S \subseteq T => Seq(S) \subseteq Seq(T) OBVIOUS
    <3> QED BY <1>1, <3>1, <3>2, <3>3
  <2>3. \A f \in DOMAIN firings' :
          firings'[f] \in [rem : DOMAIN rows', outcome : {"pending", "delivered", "skipped_overlap"}]
    BY <1>1, <1>4, <1>6, <1>7 DEF TypeOK
  <2> QED BY <1>1, <1>4, <1>6, <1>8, <2>1, <2>2, <2>3 DEF TypeOK
<1>11. \A d : (At(d)' <=> At(d)) /\ Firing(d)' = Firing(d) BY <1>1 DEF At, Firing
<1>12. PendingIsUnderway'
  <2>1. \A q : FiringsOf(q, {"pending"})' = FiringsOf(q, {"pending"}) BY <1>7 DEF FiringsOf
  <2>2. \A q \in DOMAIN rows' : rows'[q].skip => Cardinality(FiringsOf(q, {"pending"})') <= 1
    BY <1>1, <1>6, <2>1 DEF RInv, StoreAgrees, PendingIsUnderway
  <2>3. \A f \in DOMAIN firings' : firings'[f].outcome = "pending" =>
          f \in DOMAIN firings /\ firings[f].outcome = "pending"
    BY <1>7
  <2> QED BY <1>1, <1>11, <2>2, <2>3 DEF RInv, StoreAgrees, PendingIsUnderway
<1>13. StageAgrees' BY <1>1, <1>11 DEF RInv, StoreAgrees, StageAgrees
<1>14. EventsAgree'
  <2>1. \A e \in DOMAIN events : Firing(e) # lastId' BY <1>4, <1>7, <1>9 DEF Firing, TypeOK
  <2> QED BY <1>1, <1>7, <1>11, <2>1 DEF RInv, EventsAgree
<1> QED BY <1>5, <1>10, <1>12, <1>13, <1>14 DEF RInv, StoreAgrees

(* A run fires: the firing and its event come together, and a reminder     *)
(* that skips overlaps had none on its way.                                *)
LEMMA FireKeeps ==
  ASSUME RInv, NEW r \in Rems, FireOne(r)
  PROVE  RInv'
<1>0. PICK v, w, version : v = due[r] /\ w = Fired(v, at) /\ version = v.version OBVIOUS
<1>1. /\ UNCHANGED <<clock, created, applied, processed, posted,
                     pump, at, batch, stage, progress, call>>
      /\ r \in DOMAIN due /\ r \in DOMAIN rows /\ rows[r].version = version
      /\ ~(v.skip /\ HasPendingFiring(r))
      /\ UpdateRow(r, w, version) /\ AppendFiring(r, "pending") /\ Handled(r)
      /\ events' = Append(events, [firing |-> lastId + 1, at |-> at])
      /\ due' = Without(due, {r})
  BY <1>0 DEF FireOne, NextDue, UpdateRow, Handled
<1>2. /\ v = rows[r] /\ rows[r] \in Row /\ at \in Nat /\ version \in Nat
      /\ rows[r].status = "active" /\ Live(rows[r])
  BY <1>0, <1>1, DueIsThere
<1>3. /\ w \in Row /\ w.fired = rows[r].fired + 1 /\ w.end = rows[r].end /\ w.skip = rows[r].skip
      /\ w.next # 0 => w.status = "active"
      /\ Live(w) /\ w.end.kind = "max_count" => w.fired < w.end.n
  BY <1>0, <1>2, FiredRow
<1>4. TypeOK BY DEF RInv, StoreAgrees
<1>5. LedgerAgrees' /\ FiringsAreLeft' /\ ScanAgrees' /\ CallsAgree' /\ Written(r, w)
  BY <1>1, <1>2, <1>3, RunKeepsRows
<1>6. /\ DOMAIN rows' = DOMAIN rows /\ rows'[r].skip = rows[r].skip
      /\ \A q \in DOMAIN rows : q # r => rows'[q] = rows[q]
      /\ \A q \in DOMAIN rows' : rows'[q] \in Row
  BY <1>3, <1>5 DEF Written
<1>7. /\ lastId' = lastId + 1
      /\ DOMAIN firings' = DOMAIN firings \cup {lastId'} /\ lastId' \notin DOMAIN firings
      /\ firings'[lastId'] = [rem |-> r, outcome |-> "pending"]
      /\ \A f \in DOMAIN firings : f # lastId' /\ firings'[f] = firings[f]
      /\ Cardinality(FiringsOf(r, {"pending"})') = Cardinality(FiringsOf(r, {"pending"})) + 1
  BY <1>1, <1>4, FiringAppended
<1>8. DOMAIN due' = DOMAIN due \ {r} /\ \A q \in DOMAIN due' : q \in DOMAIN due /\ due'[q] = due[q]
  BY <1>1 DEF Without
<1>9. /\ DOMAIN events' = DOMAIN events \cup {Len(events) + 1} /\ Len(events) + 1 \notin DOMAIN events
      /\ events'[Len(events) + 1] = [firing |-> lastId', at |-> at]
      /\ \A e \in DOMAIN events : events'[e] = events[e] /\ events[e] \in [firing : 0..lastId, at : Nat]
  <2>1. events \in Seq([firing : 0..lastId, at : Nat]) BY <1>4 DEF TypeOK
  <2>2. \A S : \A q \in Seq(S) : \A i \in DOMAIN q : q[i] \in S OBVIOUS
  <2>3. \A S : \A q \in Seq(S) : \A x :
          /\ DOMAIN Append(q, x) = DOMAIN q \cup {Len(q) + 1} /\ Len(q) + 1 \notin DOMAIN q
          /\ Append(q, x)[Len(q) + 1] = x
          /\ \A i \in DOMAIN q : Append(q, x)[i] = q[i]
    OBVIOUS
  <2>4. events' = Append(events, [firing |-> lastId', at |-> at]) BY <1>1, <1>7
  <2>5. \A e \in DOMAIN events : events[e] \in [firing : 0..lastId, at : Nat] BY <2>1, <2>2
  <2> QED BY <2>1, <2>3, <2>4, <2>5
<1>10. TypeOK'
  <2>1. /\ lastId' \in Nat /\ DOMAIN firings' \subseteq 1..lastId' /\ 0..lastId \subseteq 0..lastId'
        /\ lastId' \in 0..lastId'
    BY <1>4, <1>7 DEF TypeOK
  <2>2. events' \in Seq([firing : 0..lastId', at : Nat])
    <3>1. [firing : 0..lastId, at : Nat] \subseteq [firing : 0..lastId', at : Nat] BY <2>1
    <3>2. events \in Seq([firing : 0..lastId, at : Nat]) BY <1>4 DEF TypeOK
    <3>3. \A S, T : S \subseteq T => Seq(S) \subseteq Seq(T) OBVIOUS
    <3>4. events \in Seq([firing : 0..lastId', at : Nat]) BY <3>1, <3>2, <3>3
    <3>5. [firing |-> lastId', at |-> at] \in [firing : 0..lastId', at : Nat] BY <1>2, <2>1
    <3>6. \A S : \A q \in Seq(S) : \A x \in S : Append(q, x) \in Seq(S) OBVIOUS
    <3>7. events' = Append(events, [firing |-> lastId', at |-> at]) BY <1>1, <1>7
    <3> QED BY <3>4, <3>5, <3>6, <3>7
  <2>3. \A f \in DOMAIN firings' :
          firings'[f] \in [rem : DOMAIN rows', outcome : {"pending", "delivered", "skipped_overlap"}]
    BY <1>1, <1>4, <1>6, <1>7 DEF TypeOK
  <2> QED BY <1>1, <1>4, <1>6, <1>8, <1>9, <2>1, <2>2, <2>3 DEF TypeOK
<1>11. /\ \A d : At(d)' <=> At(d)
       /\ \A d \in DOMAIN events : Firing(d)' = Firing(d)
  BY <1>1, <1>9 DEF At, Firing
<1>12. \A d : d = Len(events) + 1 => Firing(d)' = lastId' /\ ~At(d) /\ d \notin applied
  BY <1>4, <1>9 DEF Firing, At, TypeOK
<1>13. PendingIsUnderway'
  <2>1. \A q : q # r => FiringsOf(q, {"pending"})' = FiringsOf(q, {"pending"}) BY <1>7 DEF FiringsOf
  <2>2. rows'[r].skip => Cardinality(FiringsOf(r, {"pending"})') <= 1
    <3> SUFFICES ASSUME rows'[r].skip PROVE Cardinality(FiringsOf(r, {"pending"})') <= 1 OBVIOUS
    <3>1. ~HasPendingFiring(r) BY <1>1, <1>2, <1>6
    <3>2. FiringsOf(r, {"pending"}) = {} BY <3>1 DEF HasPendingFiring, FiringsOf
    <3>3. Cardinality(FiringsOf(r, {"pending"})) = 0 BY <3>2, FS_EmptySet
    <3> QED BY <1>7, <3>3
  <2>3. \A q \in DOMAIN rows' : rows'[q].skip => Cardinality(FiringsOf(q, {"pending"})') <= 1
    BY <1>6, <2>1, <2>2 DEF RInv, StoreAgrees, PendingIsUnderway
  <2>4. ASSUME NEW f \in DOMAIN firings', firings'[f].outcome = "pending"
        PROVE  \E e \in DOMAIN events' \ applied : Firing(e)' = f /\ ~(At(e) /\ stage = 2)
    <3>1. CASE f = lastId' BY <1>9, <1>12, <3>1
    <3>2. CASE f # lastId'
      <4>1. f \in DOMAIN firings /\ firings[f].outcome = "pending" BY <1>7, <2>4, <3>2
      <4>2. PICK e \in DOMAIN events \ applied : Firing(e) = f /\ ~(At(e) /\ stage = 2)
        BY <4>1 DEF RInv, StoreAgrees, PendingIsUnderway
      <4> QED BY <1>9, <1>11, <4>2
    <3> QED BY <3>1, <3>2
  <2> QED BY <1>1, <1>11, <2>3, <2>4 DEF PendingIsUnderway
<1>14. StageAgrees'
  <2>1. batch \subseteq DOMAIN events BY <1>4 DEF TypeOK
  <2> QED BY <1>1, <1>11, <2>1 DEF RInv, StoreAgrees, StageAgrees
<1>15. EventsAgree'
  <2>1. \A e \in DOMAIN events : Firing(e)' # lastId' BY <1>4, <1>7, <1>9, <1>11 DEF Firing, TypeOK
  <2>2. ASSUME NEW e \in DOMAIN events', Firing(e)' \in DOMAIN firings'
        PROVE  firings'[Firing(e)'].outcome # "skipped_overlap"
    <3>1. CASE e \in DOMAIN events BY <1>7, <1>11, <2>1, <2>2, <3>1 DEF RInv, EventsAgree
    <3>2. CASE e = Len(events) + 1
      <4>1. Firing(e)' = lastId' BY <1>12, <3>2
      <4> QED BY <1>7, <4>1
    <3> QED BY <1>9, <3>1, <3>2
  <2> QED BY <2>2 DEF EventsAgree
<1> QED BY <1>5, <1>10, <1>13, <1>14, <1>15 DEF RInv, StoreAgrees
-----------------------------------------------------------------------------
LEMMA InitRInv ==
  ASSUME Init
  PROVE  RInv
<1>1. /\ DOMAIN rows = {} /\ DOMAIN firings = {} /\ DOMAIN due = {} /\ events = <<>> /\ DOMAIN events = {}
      /\ created = {} /\ applied = {} /\ processed = {} /\ batch = {} /\ stage = 0 /\ progress = FALSE
      /\ pump = "fetch" /\ at = 0 /\ lastId = 0 /\ clock = 1
      /\ call = [c \in Clients |-> <<>>] /\ posted = {}
  BY DEF Init, Nothing
<1>2. TypeOK
  <2>1. events \in Seq([firing : 0..lastId, at : Nat]) BY <1>1
  <2>2. posted \subseteq Nat BY <1>1
  <2>3. DOMAIN call = Clients /\ \A c \in Clients : call[c] = <<>> BY <1>1
  <2>4. clock \in Nat /\ at \in Nat /\ lastId \in Nat /\ stage \in 0..2 BY <1>1
  <2>5. progress \in BOOLEAN BY <1>1, Zenon
  <2>6. pump \in {"fetch", "drain", "idle", "fire"} BY <1>1
  <2>7. /\ created \subseteq Rems /\ DOMAIN rows \subseteq created /\ DOMAIN due \subseteq created
        /\ DOMAIN firings \subseteq 1..lastId /\ applied \subseteq DOMAIN events
        /\ processed \subseteq applied /\ batch \subseteq DOMAIN events \ processed
        /\ \A r : r \notin DOMAIN rows /\ r \notin DOMAIN due /\ r \notin DOMAIN firings
    BY <1>1
  <2> QED BY <2>1, <2>2, <2>3, <2>4, <2>5, <2>6, <2>7 DEF TypeOK
<1>3. LedgerAgrees /\ FiringsAreLeft BY <1>1 DEF LedgerAgrees, FiringsAreLeft
<1>4. PendingIsUnderway /\ StageAgrees /\ EventsAgree BY <1>1 DEF PendingIsUnderway, StageAgrees, EventsAgree
<1>5. ScanAgrees /\ CallsAgree BY <1>1 DEF ScanAgrees, CallsAgree
<1> QED BY <1>2, <1>3, <1>4, <1>5 DEF RInv, StoreAgrees

LEMMA NextRInv ==
  ASSUME RInv, [Next]_vars
  PROVE  RInv'
<1>1. CASE PumpStep
  <2>1. CASE Tick BY <2>1, TickKeeps
  <2>2. ASSUME NEW r \in Rems, SkipOverlap(r) \/ FireOne(r) \/ LostRace(r) PROVE RInv'
    BY <2>2, SkipKeeps, FireKeeps, LeaveDueKeeps
  <2>3. CASE ScanDone BY <2>3, ScanDoneKeeps
  <2>4. CASE Fetch BY <2>4, FetchKeeps
  <2>5. ASSUME NEW e \in DOMAIN events,
               \/ ArmMatching(e)
               \/ Deliver(e)
               \/ UpdateFiringOutcome(e)
               \/ MarkApplied(e)
               \/ MarkProcessed(e)
        PROVE  RInv'
    BY <2>5, ArmKeeps, DeliverKeeps, WriteBackKeeps, MarkAppliedKeeps, LeaveEventKeeps
  <2>6. CASE PassEnds BY <2>6, PassEndsKeeps
  <2> QED BY <1>1, <2>1, <2>2, <2>3, <2>4, <2>5, <2>6 DEF PumpStep
<1>2. CASE \E r \in Rems, m \in Templates : Create(r, m) BY <1>2, CreateKeeps
<1>3. ASSUME NEW c \in Clients,
             \/ \E r \in Rems : Begin(c, r)
             \/ CommitUpdate(c)
             \/ CommitDelete(c)
             \/ Refuse(c)
      PROVE  RInv'
  BY <1>3, BeginKeeps, UpdateKeeps, DeleteKeeps, RefuseKeeps
<1>4. CASE \E r \in Rems : FireFails(r) BY <1>4, LeaveDueKeeps
<1>5. CASE \E e \in DOMAIN events : ProjectFails(e) BY <1>5, LeaveEventKeeps
<1>6. CASE Change BY <1>6, ChangeKeeps
<1>7. CASE Crash BY <1>7, CrashKeeps
<1>8. CASE TimePasses BY <1>8, TimeKeeps
<1>9. CASE UNCHANGED vars
  <2>1. UNCHANGED <<clock, rows, created, firings, lastId, events, applied, processed, posted,
                    pump, at, due, batch, stage, progress, call>>
    BY <1>9 DEF vars, store, outbox, goroutine
  <2>2. TypeOK' BY <2>1 DEF RInv, StoreAgrees, TypeOK
  <2> QED BY <2>1, <2>2, RelayKept, ReadsKept DEF RInv, StoreAgrees
<1> QED BY <1>1, <1>2, <1>3, <1>4, <1>5, <1>6, <1>7, <1>8, <1>9 DEF Next

(* A message is posted before its firing is marked and its event closed,   *)
(* and it stays posted.                                                    *)
LEMMA PostsKept ==
  ASSUME RInv, DeliveredIsPosted, [Next]_vars
  PROVE  DeliveredIsPosted'
<1>1. TypeOK BY DEF RInv, StoreAgrees
<1>2. ASSUME UNCHANGED <<posted, applied>>,
             \A e \in DOMAIN events : events'[e] = events[e],
             \A f \in DOMAIN firings' : firings'[f].outcome = "delivered" =>
               f \in DOMAIN firings /\ firings[f].outcome = "delivered",
             stage' = 0 \/ pump' # "drain" \/ UNCHANGED <<pump, batch, stage>>
      PROVE  DeliveredIsPosted'
  <2>1. \A e \in applied \cup batch : Firing(e)' = Firing(e) BY <1>1, <1>2 DEF Firing, TypeOK
  <2>2. \A e \in batch' : At(e)' /\ stage' > 0 => Firing(e)' \in posted'
    <3>1. CASE stage' = 0 BY <3>1
    <3>2. CASE pump' # "drain" BY <3>2 DEF At
    <3>3. CASE UNCHANGED <<pump, batch, stage>> BY <1>2, <2>1, <3>3 DEF DeliveredIsPosted, At
    <3> QED BY <1>2, <3>1, <3>2, <3>3
  <2>3. \A e \in applied' : Firing(e)' \in posted' \cup {0} BY <1>2, <2>1 DEF DeliveredIsPosted
  <2>4. \A f \in DOMAIN firings' : firings'[f].outcome = "delivered" => f \in posted'
    BY <1>2 DEF DeliveredIsPosted
  <2> QED BY <2>2, <2>3, <2>4 DEF DeliveredIsPosted
<1>3. ASSUME NEW e \in DOMAIN events, ArmMatching(e) PROVE DeliveredIsPosted'
  <2>1. /\ UNCHANGED <<firings, events, posted, pump, batch, stage>>
        /\ Firing(e) = 0 /\ applied' = applied \cup {e}
    BY <1>3 DEF ArmMatching, InPump
  <2>2. \A d : Firing(d)' = Firing(d) /\ (At(d)' <=> At(d)) BY <2>1 DEF Firing, At
  <2> QED BY <2>1, <2>2 DEF DeliveredIsPosted
<1>4. ASSUME NEW e \in DOMAIN events, Deliver(e) PROVE DeliveredIsPosted'
  <2>1. /\ UNCHANGED <<firings, events, applied, pump, batch>>
        /\ At(e) /\ posted' = posted \cup {Firing(e)}
    BY <1>4 DEF Deliver, InPump
  <2>2. \A d : Firing(d)' = Firing(d) /\ (At(d)' <=> At(d)) BY <2>1 DEF Firing, At
  <2>3. \A d : At(d) => d = e BY <1>1, <2>1, OneAtHand
  <2> QED BY <2>1, <2>2, <2>3 DEF DeliveredIsPosted
<1>5. ASSUME NEW e \in DOMAIN events, UpdateFiringOutcome(e) PROVE DeliveredIsPosted'
  <2>1. /\ UNCHANGED <<events, applied, posted, pump, batch>> /\ At(e) /\ stage = 1
        /\ firings' = [f \in DOMAIN firings |->
                         IF f = Firing(e) THEN [firings[f] EXCEPT !.outcome = "delivered"] ELSE firings[f]]
    BY <1>5 DEF UpdateFiringOutcome, InPump
  <2>2. \A d : Firing(d)' = Firing(d) /\ (At(d)' <=> At(d)) BY <2>1 DEF Firing, At
  <2>3. Firing(e) \in posted BY <2>1 DEF DeliveredIsPosted, At
  <2>4. \A d \in batch : At(d) => Firing(d) \in posted BY <2>1 DEF DeliveredIsPosted
  <2>5. \A f \in DOMAIN firings' : firings'[f].outcome = "delivered" => f \in posted'
    BY <2>1, <2>3 DEF DeliveredIsPosted
  <2> QED BY <2>1, <2>2, <2>4, <2>5 DEF DeliveredIsPosted
<1>6. ASSUME NEW e \in DOMAIN events, MarkApplied(e) PROVE DeliveredIsPosted'
  <2>1. /\ UNCHANGED <<firings, events, posted>> /\ At(e) /\ stage = 2
        /\ applied' = applied \cup {e} /\ stage' = 0
    BY <1>6 DEF MarkApplied, InPump
  <2>2. \A d : Firing(d)' = Firing(d) BY <2>1 DEF Firing
  <2>3. Firing(e) \in posted BY <2>1 DEF DeliveredIsPosted, At
  <2> QED BY <2>1, <2>2, <2>3 DEF DeliveredIsPosted
<1>7. ASSUME NEW r \in Rems, NEW o, o # "delivered", AppendFiring(r, o),
             UNCHANGED <<posted, applied, pump, batch, stage>>,
             \A e \in DOMAIN events : events'[e] = events[e]
      PROVE  DeliveredIsPosted'
  <2>1. /\ DOMAIN firings' = DOMAIN firings \cup {lastId'}
        /\ firings'[lastId'] = [rem |-> r, outcome |-> o]
        /\ \A f \in DOMAIN firings : f # lastId' /\ firings'[f] = firings[f]
    BY <1>1, <1>7, FiringAppended
  <2> QED BY <1>2, <1>7, <2>1
<1>8. \A x, e : e \in DOMAIN events => Append(events, x)[e] = events[e]
  <2>1. events \in Seq([firing : 0..lastId, at : Nat]) BY <1>1 DEF TypeOK
  <2>2. \A S : \A q \in Seq(S) : \A x : \A i \in DOMAIN q : Append(q, x)[i] = q[i] OBVIOUS
  <2> QED BY <2>1, <2>2
<1>9. ASSUME NEW r \in Rems, SkipOverlap(r) \/ FireOne(r) PROVE DeliveredIsPosted'
  <2>1. /\ UNCHANGED <<posted, applied, pump, batch, stage>>
        /\ AppendFiring(r, "skipped_overlap") \/ AppendFiring(r, "pending")
        /\ events' = events \/ \E x : events' = Append(events, x)
    BY <1>9 DEF SkipOverlap, FireOne, Handled
  <2> QED BY <1>7, <1>8, <2>1
<1>10. CASE PumpStep
  <2>1. CASE Tick \/ ScanDone \/ Fetch \/ PassEnds
    BY <1>2, <2>1 DEF Tick, ScanDone, Fetch, PassEnds, store, outbox
  <2>2. ASSUME NEW r \in Rems, LostRace(r) PROVE DeliveredIsPosted'
    BY <1>2, <2>2 DEF LostRace, Handled
  <2>3. ASSUME NEW e \in DOMAIN events, MarkProcessed(e) PROVE DeliveredIsPosted'
    BY <1>2, <2>3 DEF MarkProcessed, LeaveEvent, InPump
  <2> QED BY <1>3, <1>4, <1>5, <1>6, <1>9, <1>10, <2>1, <2>2, <2>3 DEF PumpStep
<1>11. ASSUME NEW r \in Rems, (\E m \in Templates : Create(r, m)) \/ FireFails(r)
       PROVE  DeliveredIsPosted'
  BY <1>2, <1>11 DEF Create, FireFails, Handled, outbox, goroutine
<1>12. ASSUME NEW c \in Clients, (\E r \in Rems : Begin(c, r)) \/ CommitUpdate(c) \/ CommitDelete(c) \/ Refuse(c)
       PROVE  DeliveredIsPosted'
  <2>1. UNCHANGED <<outbox, goroutine>> /\ \A f \in DOMAIN firings' : f \in DOMAIN firings /\ firings'[f] = firings[f]
    BY <1>12 DEF Begin, CommitUpdate, CommitDelete, Refuse, Without, store
  <2> QED BY <1>2, <2>1 DEF outbox, goroutine
<1>13. ASSUME NEW e \in DOMAIN events, ProjectFails(e) PROVE DeliveredIsPosted'
  BY <1>2, <1>13 DEF ProjectFails, LeaveEvent, InPump
<1>14. CASE Change
  <2>1. UNCHANGED <<store, applied, posted, goroutine>> /\ \E x : events' = Append(events, x)
    BY <1>14 DEF Change
  <2> QED BY <1>2, <1>8, <2>1 DEF store, goroutine
<1>15. CASE Crash BY <1>2, <1>15 DEF Crash, store, outbox
<1>16. CASE TimePasses \/ UNCHANGED vars
  BY <1>2, <1>16 DEF TimePasses, vars, store, outbox, goroutine
<1> QED BY <1>10, <1>11, <1>12, <1>13, <1>14, <1>15, <1>16 DEF Next

(* The history of a reminder is what its row says and bounds it, a firing  *)
(* that is pending has its event still to be handled, and whoever read a   *)
(* row agrees with it while its version stays, across overlapping calls,   *)
(* scans, failures and crashes: Update compares versions, fireOne writes   *)
(* row, firing and event in one transaction.                               *)
THEOREM RemindersStaySound == Spec => []RInv
<1>1. Init => RInv BY InitRInv
<1>2. RInv /\ [Next]_vars => RInv' BY NextRInv
<1> QED BY <1>1, <1>2, PTL DEF Spec

(* What the run checks of every state: the history agrees as above, and a  *)
(* firing is called delivered, in its row or in the ledger, only when its  *)
(* message was posted.                                                     *)
THEOREM HistoryAgrees == Spec => []IInv
<1>1. Init => DeliveredIsPosted BY DEF Init, Nothing, DeliveredIsPosted
<1>2. RInv /\ DeliveredIsPosted /\ [Next]_vars => DeliveredIsPosted' BY PostsKept
<1>3. RInv /\ DeliveredIsPosted => IInv BY DEF RInv, IInv
<1> QED BY <1>1, <1>2, <1>3, RemindersStaySound, PTL DEF Spec

(* A firing is given its id in a transaction of the scan, and only there.  *)
LEMMA FiredWhenDue ==
  ASSUME RInv, [Next]_vars
  PROVE  \A f \in DOMAIN firings' \ DOMAIN firings :
           LET r == firings'[f].rem
           IN r \in DOMAIN rows /\ rows[r] = due[r] /\ IsDue(rows[r], at)
<1> DEFINE Goal == \A f \in DOMAIN firings' \ DOMAIN firings :
                     LET r == firings'[f].rem
                     IN r \in DOMAIN rows /\ rows[r] = due[r] /\ IsDue(rows[r], at)
<1>1. ASSUME DOMAIN firings' \subseteq DOMAIN firings PROVE Goal BY <1>1
<1>2. ASSUME NEW r \in Rems, SkipOverlap(r) \/ FireOne(r) PROVE Goal
  <2>0. PICK version, o : /\ r \in DOMAIN due /\ r \in DOMAIN rows /\ rows[r].version = due[r].version
                          /\ AppendFiring(r, o)
    BY <1>2 DEF SkipOverlap, FireOne, NextDue, UpdateRow
  <2>1. due[r] = rows[r] /\ IsDue(rows[r], at) BY <2>0, DueIsThere
  <2>2. /\ DOMAIN firings' = DOMAIN firings \cup {lastId'}
        /\ firings'[lastId'] = [rem |-> r, outcome |-> o]
    BY <2>0, FiringAppended DEF RInv, StoreAgrees
  <2> QED BY <2>0, <2>1, <2>2
<1>3. CASE PumpStep
  <2>1. \/ \E r \in Rems : SkipOverlap(r) \/ FireOne(r)
        \/ DOMAIN firings' \subseteq DOMAIN firings
    BY <1>3 DEF PumpStep, Tick, LostRace, ScanDone, Fetch, ArmMatching, Deliver,
                UpdateFiringOutcome, MarkApplied, MarkProcessed, PassEnds, store
  <2> QED BY <1>1, <1>2, <2>1
<1>4. CASE Next /\ ~PumpStep
  <2>1. DOMAIN firings' \subseteq DOMAIN firings
    BY <1>4 DEF Next, Create, Begin, CommitUpdate, CommitDelete, Without, Refuse, FireFails,
                ProjectFails, Change, Crash, TimePasses, store
  <2> QED BY <1>1, <2>1
<1>5. CASE UNCHANGED vars
  <2>1. firings' = firings BY <1>5 DEF vars, store
  <2> QED BY <1>1, <2>1
<1> QED BY <1>3, <1>4, <1>5

(* A reminder that was paused, canceled, edited or deleted after the scan  *)
(* read it does not fire: fireOne writes the row under the version of the  *)
(* scan, in the transaction of the firing.                                 *)
THEOREM SilencedNeverFires == Spec => SilencedStaysSilent
<1>1. RInv /\ [Next]_vars =>
        [\A f \in DOMAIN firings' \ DOMAIN firings :
           LET r == firings'[f].rem
           IN r \in DOMAIN rows /\ rows[r] = due[r] /\ IsDue(rows[r], at)]_vars
  BY FiredWhenDue
<1> QED BY <1>1, RemindersStaySound, PTL DEF Spec, SilencedStaysSilent
=============================================================================
