------------------------- MODULE ControlStreamProofs -------------------------
(***************************************************************************)
(* Proofs about ControlStream, for any number of commands and appenders,   *)
(* any capacity of the two queues, any park threshold and any number of    *)
(* crashes, lost acks and rollbacks: a command can only be lost by a push  *)
(* that the stream could not deliver in order, and no command takes effect *)
(* before an earlier one.                                                  *)
(***************************************************************************)
EXTENDS ControlStream, TLAPS


(* The queues grow at the end and shrink at the head.                      *)
LEMMA Appended ==
  ASSUME NEW S, NEW s \in Seq(S), NEW x \in S
  PROVE  /\ Append(s, x) \in Seq(S) /\ Len(Append(s, x)) = Len(s) + 1
         /\ DOMAIN Append(s, x) = 1..(Len(s) + 1)
         /\ \A i \in DOMAIN s : i \in DOMAIN Append(s, x) /\ Append(s, x)[i] = s[i]
         /\ Append(s, x)[Len(s) + 1] = x
         /\ \A i \in DOMAIN Append(s, x) : i \in DOMAIN s \/ i = Len(s) + 1
OBVIOUS

LEMMA Dropped ==
  ASSUME NEW S, NEW s \in Seq(S), s # <<>>
  PROVE  /\ Head(s) = s[1] /\ 1 \in DOMAIN s /\ Head(s) \in S
         /\ Tail(s) \in Seq(S) /\ Len(Tail(s)) = Len(s) - 1
         /\ \A i \in DOMAIN Tail(s) : i + 1 \in DOMAIN s /\ Tail(s)[i] = s[i + 1]
         /\ \A i \in DOMAIN s : i # 1 => i - 1 \in DOMAIN Tail(s) /\ Tail(s)[i - 1] = s[i]
OBVIOUS

(* What the invariant says of the offsets, spelled out.                    *)
LEMMA OffsetTypes ==
  ASSUME TypeOK
  PROVE  /\ \A r \in Entries : r.off \in 1..LastOffset
         /\ Open \subseteq Entries /\ Offs(Open) \subseteq 1..LastOffset
         /\ committed \cup Open \cup batch \cup backlog \cup handled \cup parked \cup rows \subseteq Entries
         /\ \A i \in DOMAIN chan : chan[i] \in Entries
         /\ \A i \in DOMAIN wire : wire[i] \in Entries
         /\ Allocated \subseteq 1..LastOffset
<1>1. \A r \in Entries : r.off \in 1..LastOffset BY DEF Entries
<1>2. Open \subseteq Entries BY DEF Open, TypeOK
<1>3. committed \cup Open \cup batch \cup backlog \cup handled \cup parked \cup rows \subseteq Entries
  BY <1>2 DEF TypeOK
<1>4. \A i \in DOMAIN chan : chan[i] \in Entries BY DEF TypeOK
<1>5. \A i \in DOMAIN wire : wire[i] \in Entries BY DEF TypeOK
<1>6. Offs(Open) \subseteq 1..LastOffset /\ Offs(committed) \subseteq 1..LastOffset
  BY <1>1, <1>2, <1>3 DEF Offs
<1>7. Allocated \subseteq 1..LastOffset BY <1>6 DEF Allocated, TypeOK
<1> QED BY <1>1, <1>2, <1>3, <1>4, <1>5, <1>6, <1>7

(* An offset beyond all that were handed out is beyond every position.     *)
LEMMA FreshIsBeyond ==
  ASSUME IInv, NEW n \in 1..LastOffset, \A o \in Allocated : o < n
  PROVE  /\ lastAcked < n /\ cursor < n /\ hi < n /\ sentMax < n
         /\ \A r \in committed \cup Open \cup batch \cup backlog \cup handled \cup parked : r.off < n
         /\ \A i \in DOMAIN chan : chan[i].off < n
         /\ \A i \in DOMAIN wire : wire[i].off < n
<1>1. 0 < n OBVIOUS
<1>2. lastAcked < n /\ cursor < n /\ hi < n /\ sentMax < n BY <1>1 DEF IInv, OffsetsInv
<1>3. \A r \in batch \cup backlog \cup handled \cup parked : r.off < n
  BY DEF IInv, OffsetsInv, Offs
<1>4. \A r \in committed \cup Open : r.off < n BY DEF Allocated, Offs
<1>5. /\ \A i \in DOMAIN chan : chan[i].off < n
      /\ \A i \in DOMAIN wire : wire[i].off < n
  BY DEF IInv, OffsetsInv
<1> QED BY <1>2, <1>3, <1>4, <1>5

(* The offset an append computes is free, or a push that was not delivered *)
(* or a transaction that is still open has used it.                        *)
LEMMA NextOffset ==
  ASSUME IInv, NEW k \in Keys, NEW e \in Entries, NextRow(k, e)
  PROVE  /\ e.off \notin Offs(rows) /\ e.off > lastAcked /\ \A r \in rows : r.off < e.off
         /\ e.off = 1 \/ lastAcked >= e.off - 1 \/ \E r \in rows : r.off >= e.off - 1
         /\ e.off = 1 \/ e.off - 1 \in Allocated
         /\ e.off \in missed \cup Offs(Open) \/ \A o \in Allocated : o < e.off
         /\ e.off \notin Offs(committed)
<1> DEFINE n == e.off
<1>1. /\ n \in 1..LastOffset /\ Allocated \subseteq 1..LastOffset
      /\ lastAcked \in 0..LastOffset /\ \A r \in rows : r.off \in 1..LastOffset
  BY OffsetTypes DEF IInv, TypeOK
<1>2. n - 1 \in Offs(rows) \cup {lastAcked} /\ \A o \in Offs(rows) \cup {lastAcked} : o <= n - 1
  BY DEF NextRow, IsMaxOffset
<1>3. n > lastAcked /\ \A r \in rows : r.off < n
  <2>1. lastAcked <= n - 1 /\ \A r \in rows : r.off <= n - 1 BY <1>2 DEF Offs
  <2>2. \A x \in 0..LastOffset : x <= n - 1 => x < n BY <1>1
  <2> QED BY <1>1, <2>1, <2>2
<1>4. n \notin Offs(rows) BY <1>1, <1>3 DEF Offs
<1>5. n = 1 \/ lastAcked >= n - 1 \/ \E r \in rows : r.off >= n - 1
  <2>1. CASE n - 1 = lastAcked BY <2>1, <1>1
  <2>2. CASE n - 1 \in Offs(rows) BY <2>2, <1>1 DEF Offs
  <2> QED BY <1>2, <2>1, <2>2
<1>6. n = 1 \/ n - 1 \in Allocated
  <2>1. lastAcked \in Allocated \cup {0} BY DEF IInv, OffsetsInv
  <2>2. Offs(rows) \subseteq Allocated BY DEF IInv, LogInv, Offs, Allocated
  <2> QED BY <1>1, <1>2, <2>1, <2>2
<1>7. n \notin Offs(committed)
  <2> SUFFICES ASSUME NEW r \in committed, r.off = n PROVE FALSE BY DEF Offs
  <2>1. r \notin rows BY <1>4 DEF Offs
  <2>2. r.off <= lastAcked BY <2>1 DEF IInv, LogInv
  <2> QED BY <1>1, <1>3, <2>2
<1>8. n \in missed \cup Offs(Open) \/ \A o \in Allocated : o < n
  <2> SUFFICES ASSUME NEW o \in Allocated, ~(o < n) PROVE n \in missed \cup Offs(Open)
    OBVIOUS
  <2>1. n \in 1..o BY <1>1
  <2>2. n \in Allocated BY <2>1 DEF IInv, OffsetsInv
  <2> QED BY <1>7, <2>2 DEF Allocated
<1> QED BY <1>3, <1>4, <1>5, <1>6, <1>7, <1>8
-----------------------------------------------------------------------------
(* Steps of the log.  Each keeps every conjunct of the invariant.          *)
LEMMA ReadKeeps ==
  ASSUME IInv, NEW a \in Appenders, NEW k \in Keys, ReadMaxOffset(a, k)
  PROVE  IInv'
<1>1. PICK e \in Entries : NextRow(k, e) /\ app' = [app EXCEPT ![a] = [at |-> "insert", e |-> e]]
  BY DEF ReadMaxOffset
<1>2. /\ app[a].at = "idle" /\ UNCHANGED <<rows, lastAcked, tx, stream, loop, history>>
  BY DEF ReadMaxOffset
<1>3. UNCHANGED <<rows, lastAcked, tx, conn, chan, backlog, sentMax, wire, connected, cursor, pc,
                  batch, hi, holPaused, stuckOffset, stuckFails, committed, handled, parked,
                  failures, missed, faults>>
  BY <1>2 DEF stream, loop, history
<1>4. app \in [Appenders -> AppState] BY DEF IInv, TypeOK
<1>5. app'[a] = [at |-> "insert", e |-> e] /\ \A b \in Appenders \ {a} : app'[b] = app[b]
  BY <1>1, <1>4
<1>6. TypeOK'
  <2>1. app' \in [Appenders -> AppState] BY <1>1, <1>4 DEF AppState
  <2> QED BY <1>3, <2>1 DEF IInv, TypeOK
<1>7. OffsetsInv' BY <1>3 DEF IInv, OffsetsInv, Allocated, Offs, Open
<1>8. LogInv'
  <2>1. /\ e.off = 1 \/ lastAcked >= e.off - 1 \/ \E r \in rows : r.off >= e.off - 1
        /\ e.off \in missed \cup Offs(Open) \/ \A o \in Allocated : o < e.off
    BY <1>1, NextOffset
  <2>2. e # NoEntry BY NoEntryAssumption
  <2> QED BY <1>3, <1>5, <2>1, <2>2 DEF IInv, LogInv, Allocated, Offs, Open
<1>9. ShapeInv' BY <1>3 DEF IInv, ShapeInv
<1>10. OwedInv' BY <1>3 DEF IInv, OwedInv, Ahead, Owed, Open, Settled
<1>11. StreamInv'
  <2>1. \A r : Pushing(r) => Pushing(r)' BY <1>2, <1>5 DEF Pushing
  <2> QED
    BY <1>3, <2>1 DEF IInv, StreamInv, NotOvertaken, Owed, Open, Settled, InWire, InChan, OutOfWire
<1> QED BY <1>6, <1>7, <1>8, <1>9, <1>10, <1>11 DEF IInv

LEMMA InsertKeeps ==
  ASSUME IInv, NEW a \in Appenders, InsertRow(a)
  PROVE  IInv'
<1> DEFINE e == app[a].e
           n == e.off
<1>1. UNCHANGED <<lastAcked, tx, conn, chan, backlog, sentMax, wire, connected, cursor, pc,
                  batch, hi, holPaused, stuckOffset, stuckFails, handled, parked,
                  failures, missed, faults>>
  BY DEF InsertRow, stream, loop
<1>2. app[a].at = "insert" /\ tx = NoEntry /\ Open = {} /\ Open' = {}
  BY <1>1 DEF InsertRow, Open
<1>3. app \in [Appenders -> AppState] BY DEF IInv, TypeOK
<1>4. e \in Entries
  BY <1>2, <1>3 DEF IInv, LogInv, AppState
<1>5. n \in 1..LastOffset /\ Allocated \subseteq 1..LastOffset /\ lastAcked \in 0..LastOffset
  BY <1>4, OffsetTypes DEF IInv, TypeOK
<1>6. CASE Conflicts(e)
  <2>1. app' = [app EXCEPT ![a] = Idle] /\ UNCHANGED <<rows, committed>>
    BY <1>6 DEF InsertRow
  <2>2. app'[a] = Idle /\ \A b \in Appenders \ {a} : app'[b] = app[b] BY <1>3, <2>1
  <2>3. TypeOK'
    <3>1. app' \in [Appenders -> AppState] BY <1>3, <2>1 DEF AppState, Idle
    <3> QED BY <1>1, <2>1, <3>1 DEF IInv, TypeOK
  <2>4. OffsetsInv' BY <1>1, <2>1 DEF IInv, OffsetsInv, Allocated, Offs, Open
  <2>5. LogInv' BY <1>1, <2>1, <2>2 DEF IInv, LogInv, Allocated, Offs, Open, Idle
  <2>6. ShapeInv' BY <1>1 DEF IInv, ShapeInv
  <2>7. OwedInv' BY <1>1, <2>1 DEF IInv, OwedInv, Ahead, Owed, Open, Settled
  <2>8. StreamInv'
    <3>1. \A r : Pushing(r) => Pushing(r)' BY <1>2, <2>2 DEF Pushing
    <3> QED
      BY <1>1, <2>1, <3>1 DEF IInv, StreamInv, NotOvertaken, Owed, Open, Settled, InWire, InChan, OutOfWire
  <2> QED BY <2>3, <2>4, <2>5, <2>6, <2>7, <2>8 DEF IInv
<1>7. CASE ~Conflicts(e)
  <2>1. /\ app' = [app EXCEPT ![a].at = "publish"]
        /\ rows' = rows \cup {e} /\ committed' = committed \cup {e}
    BY <1>7 DEF InsertRow
  <2>2. /\ app'[a] = [at |-> "publish", e |-> e]
        /\ \A b \in Appenders \ {a} : app'[b] = app[b]
    BY <1>3, <2>1 DEF AppState
  <2>3. n \notin Offs(rows) BY <1>7 DEF Conflicts, Offs
  <2>4. /\ n = 1 \/ lastAcked >= n - 1 \/ \E r \in rows : r.off >= n - 1
        /\ n \in missed \/ \A o \in Allocated : o < n
    BY <1>2, <2>3 DEF IInv, LogInv, Offs
  <2>5. Allocated' = Allocated \cup {n} BY <1>1, <1>2, <2>1 DEF Allocated, Offs
  <2>6. n = 1 \/ n - 1 \in Allocated
    <3>1. \A o \in Allocated : o >= n - 1 => n = 1 \/ n - 1 \in Allocated
      <4>1. \A o \in Allocated : o >= n - 1 => n = 1 \/ n - 1 \in 1..o BY <1>5
      <4> QED BY <4>1 DEF IInv, OffsetsInv
    <3>2. \A r \in rows : r.off \in Allocated BY DEF IInv, LogInv, Allocated, Offs
    <3>3. lastAcked = 0 \/ lastAcked \in Allocated BY DEF IInv, OffsetsInv
    <3>4. n # 1 => ~(0 >= n - 1) BY <1>5
    <3>5. CASE lastAcked >= n - 1 BY <3>1, <3>3, <3>4, <3>5
    <3>6. CASE \E r \in rows : r.off >= n - 1 BY <3>1, <3>2, <3>6
    <3> QED BY <2>4, <3>5, <3>6
  <2>7. TypeOK'
    <3>1. app' \in [Appenders -> AppState] BY <1>3, <1>4, <2>1 DEF AppState
    <3> QED BY <1>1, <1>4, <2>1, <3>1 DEF IInv, TypeOK
  <2>8. OffsetsInv'
    <3>1. \A o \in Allocated' : \A p \in 1..o : p \in Allocated'
      <4>1. \A p \in 1..n : p = n \/ p \in 1..(n - 1) BY <1>5
      <4>2. \A p \in 1..(n - 1) : p \in Allocated BY <1>5, <2>6 DEF IInv, OffsetsInv
      <4> QED BY <2>5, <4>1, <4>2 DEF IInv, OffsetsInv
    <3> QED BY <1>1, <2>5, <3>1 DEF IInv, OffsetsInv, Offs
  <2>9. LogInv'
    <3>1. rows' \subseteq committed' /\ \A r \in committed' \ rows' : r.off <= lastAcked'
      BY <1>1, <2>1 DEF IInv, LogInv
    <3>2. ASSUME NEW b \in Appenders
          PROVE  /\ app'[b].at = "idle" <=> app'[b].e = NoEntry
                 /\ app'[b].at = "publish" => app'[b].e \in rows'
      BY <1>2, <1>3, <1>4, <2>1, <2>2, NoEntryAssumption DEF IInv, LogInv
    <3>3. ASSUME NEW b \in Appenders, app'[b].at = "insert"
          PROVE  /\ app'[b].e.off = 1 \/ lastAcked' >= app'[b].e.off - 1
                      \/ \E r \in rows' : r.off >= app'[b].e.off - 1
                 /\ \/ app'[b].e.off \in missed' \cup Offs(rows') \cup Offs(Open')
                    \/ \A o \in Allocated' : o < app'[b].e.off
      <4>1. b # a /\ app'[b] = app[b] BY <2>2, <3>3
      <4> DEFINE m == app[b].e.off
      <4>2. /\ m = 1 \/ lastAcked >= m - 1 \/ \E r \in rows : r.off >= m - 1
            /\ m \in missed \cup Offs(rows) \/ \A o \in Allocated : o < m
        BY <1>2, <3>3, <4>1 DEF IInv, LogInv, Offs
      <4>3. m \in 1..LastOffset
        BY <1>3, <3>3, <4>1, OffsetTypes DEF IInv, LogInv, AppState
      <4>4. Offs(rows') = Offs(rows) \cup {n} BY <2>1 DEF Offs
      <4>5. (\A o \in Allocated : o < m) => n <= m BY <1>5, <2>6, <4>3
      <4>6. m \in missed \cup Offs(rows') \/ \A o \in Allocated' : o < m
        BY <1>5, <2>5, <4>2, <4>3, <4>4, <4>5
      <4> QED BY <1>1, <2>1, <4>1, <4>2, <4>6
    <3> QED BY <1>1, <1>2, <3>1, <3>2, <3>3 DEF LogInv
  <2>10. ShapeInv' BY <1>1 DEF IInv, ShapeInv
  <2>11. ASSUME NEW r \in Owed' PROVE (r \in Owed /\ r.off # n) \/ (r = e /\ \A o \in Allocated : o < n)
    <3>1. r \in committed \cup {e} /\ r.off \notin missed /\ ~Settled(r)
      BY <1>1, <1>2, <2>1, <2>11 DEF Owed, Settled
    <3>2. CASE r = e BY <2>4, <3>1, <3>2
    <3>3. CASE r # e
      <4>1. r \in Owed BY <3>1, <3>3 DEF Owed
      <4>2. r.off \in Allocated BY <3>1, <3>3 DEF Allocated, Offs
      <4> QED BY <1>5, <2>4, <3>1, <4>1, <4>2
    <3> QED BY <3>2, <3>3
  <2>12. OwedInv'
    <3> SUFFICES ASSUME NEW r \in Owed' PROVE Ahead(r)' BY DEF OwedInv
    <3>1. CASE r \in Owed /\ r.off # n
      BY <1>1, <1>2, <2>1, <3>1 DEF IInv, OwedInv, Ahead
    <3>2. CASE r = e /\ \A o \in Allocated : o < n
      <4>1. /\ lastAcked < n /\ cursor < n /\ hi < n
            /\ \A x \in committed \cup Open \cup batch \cup backlog \cup handled \cup parked : x.off < n
            /\ \A i \in DOMAIN chan : chan[i].off < n
            /\ \A i \in DOMAIN wire : wire[i].off < n
        BY <1>5, <3>2, FreshIsBeyond
      <4>2. \A x : x < n => n > x /\ x # n BY <1>5
      <4> QED BY <1>1, <1>2, <2>1, <3>2, <4>1, <4>2 DEF Ahead
    <3> QED BY <2>11, <3>1, <3>2
  <2>13. StreamInv'
    <3>1. \A r : Pushing(r) => Pushing(r)' BY <1>2, <2>2 DEF Pushing
    <3>2. \A r : r = e => Pushing(r)' BY <2>2 DEF Pushing
    <3>3. \A r : /\ OutOfWire(r)' <=> OutOfWire(r)
                 /\ \A i : (InWire(r, i)' <=> InWire(r, i)) /\ (InChan(r, i)' <=> InChan(r, i))
      BY <1>1 DEF OutOfWire, InWire, InChan
    <3>4. ASSUME NEW r \in Owed' PROVE NotOvertaken(r)'
      <4>1. CASE r \in Owed /\ r.off # n
        <5>1. Pushing(r) => Pushing(r)' BY <3>1
        <5>2. NotOvertaken(r) BY <4>1 DEF IInv, StreamInv
        <5> QED BY <1>1, <3>3, <5>1, <5>2 DEF NotOvertaken
      <4>2. CASE r = e /\ \A o \in Allocated : o < n
        <5>1. /\ sentMax < n /\ \A b \in backlog : b.off < n
              /\ \A i \in DOMAIN chan : chan[i].off < n
              /\ \A i \in DOMAIN wire : wire[i].off < n
          BY <1>5, <4>2, FreshIsBeyond
        <5>2. /\ \A i \in DOMAIN wire : wire[i].off \in 1..LastOffset
              /\ \A i \in DOMAIN chan : chan[i].off \in 1..LastOffset
              /\ sentMax \in 0..LastOffset
          BY OffsetTypes DEF IInv, TypeOK
        <5>3. /\ \A i \in DOMAIN wire : ~(wire[i].off > n)
              /\ \A i \in DOMAIN chan : ~(chan[i].off > n)
              /\ ~(n <= sentMax)
          BY <1>5, <5>1, <5>2
        <5> QED BY <1>1, <3>2, <3>3, <4>2, <5>1, <5>3 DEF NotOvertaken
      <4> QED BY <2>11, <4>1, <4>2
    <3> QED BY <3>4 DEF StreamInv
  <2> QED BY <2>7, <2>8, <2>9, <2>10, <2>12, <2>13 DEF IInv
<1> QED BY <1>6, <1>7

(* A push adds at most one command, at the end of the channel, and leaves  *)
(* it out only where Left says so.                                         *)
LEMMA Pushed ==
  ASSUME TypeOK, NEW x \in Entries, Push(x)
  PROVE  /\ chan' \in Seq(Entries) /\ Len(chan') <= ChanCap
         /\ \A i \in DOMAIN chan : i \in DOMAIN chan' /\ chan'[i] = chan[i]
         /\ \A i \in DOMAIN chan' : i \in DOMAIN chan \/ (i = Len(chan) + 1 /\ chan'[i] = x)
         /\ Queued => Len(chan') = Len(chan) + 1 /\ Len(chan) + 1 \in DOMAIN chan' /\ chan'[Len(chan) + 1] = x
         /\ conn = "live" /\ ~Queued => x.off \in Left(x)
         /\ ~Queued => chan' = chan
         /\ \A r, n : InChan(r, n) => InChan(r, n)'
         /\ \A r : InChan(r, Len(chan) + 1) => InChan(r, Len(chan) + 1)'
<1>1. chan \in Seq(Entries) /\ Len(chan) <= ChanCap /\ Len(chan) \in Nat /\ ChanCap \in Nat
  BY ControlAssumption DEF TypeOK
<1>2. DOMAIN chan = 1..Len(chan) BY <1>1
<1>3. CASE Queued
  <2>1. chan' = Append(chan, x) BY <1>3 DEF Push
  <2>2. Len(chan) < ChanCap BY <1>3 DEF Queued
  <2>3. /\ chan' \in Seq(Entries) /\ Len(chan') = Len(chan) + 1
        /\ DOMAIN chan' = 1..(Len(chan) + 1)
        /\ \A i \in DOMAIN chan : i \in DOMAIN chan' /\ chan'[i] = chan[i]
        /\ chan'[Len(chan) + 1] = x
        /\ \A i \in DOMAIN chan' : i \in DOMAIN chan \/ i = Len(chan) + 1
    BY <1>1, <2>1, Appended
  <2>4. Len(chan') <= ChanCap /\ Len(chan) + 1 \in DOMAIN chan' BY <1>1, <2>2, <2>3
  <2>5. \A r, n : InChan(r, n) => InChan(r, n)' BY <2>3 DEF InChan
  <2>6. \A r : InChan(r, Len(chan) + 1) => InChan(r, Len(chan) + 1)'
    <3>1. \A i \in DOMAIN chan : i < Len(chan') + 1 BY <1>1, <1>2, <2>3
    <3> QED BY <2>3, <3>1 DEF InChan
  <2> QED BY <1>3, <2>3, <2>4, <2>5, <2>6
<1>4. CASE ~Queued
  <2>1. chan' = chan BY <1>4 DEF Push
  <2>2. conn = "live" => x.off \in Left(x) BY <1>4 DEF Left
  <2>3. \A r, n : InChan(r, n) => InChan(r, n)' BY <2>1 DEF InChan
  <2>4. \A r : InChan(r, Len(chan) + 1) => InChan(r, Len(chan) + 1)'
    BY <2>1 DEF InChan
  <2> QED BY <1>1, <1>4, <2>1, <2>2, <2>3, <2>4
<1> QED BY <1>3, <1>4

(* A push overtakes no owed command but those of Left.                     *)
LEMMA PushOvertakesNone ==
  ASSUME IInv, NEW x \in Entries, Push(x),
         UNCHANGED <<conn, backlog, sentMax, wire, loop>>,
         NEW r \in Owed, r.off \notin Left(x),
         r = x \/ (Pushing(r) => Pushing(r)')
  PROVE  NotOvertaken(r)'
<1>1. /\ NotOvertaken(r)
      /\ UNCHANGED <<conn, backlog, sentMax, wire, pc, batch, hi, cursor>>
  BY DEF IInv, StreamInv, loop
<1>2. /\ \A i \in DOMAIN chan' : i \in DOMAIN chan \/ (i = Len(chan) + 1 /\ chan'[i] = x)
      /\ \A i \in DOMAIN chan : i \in DOMAIN chan' /\ chan'[i] = chan[i]
      /\ \A n : InChan(r, n) => InChan(r, n)'
      /\ InChan(r, Len(chan) + 1) => InChan(r, Len(chan) + 1)'
      /\ Queued => Len(chan') = Len(chan) + 1 /\ Len(chan) + 1 \in DOMAIN chan' /\ chan'[Len(chan) + 1] = x
      /\ conn = "live" /\ ~Queued => x.off \in Left(x)
  BY Pushed DEF IInv
<1>3. (OutOfWire(r)' <=> OutOfWire(r)) /\ \A n : InWire(r, n)' <=> InWire(r, n)
  BY <1>1 DEF OutOfWire, InWire
<1>4. Pushing(r) /\ r.off < x.off => r.off \in Left(x) BY DEF Pushing, Left
<1>5. ASSUME conn = "live"
      PROVE  /\ r.off <= sentMax \/ r \in backlog \/ Pushing(r)' \/ InChan(r, Len(chan) + 1)'
             /\ \/ r.off <= sentMax \/ r \in backlog
                \/ /\ \A b \in backlog : b.off < r.off
                   /\ \A i \in DOMAIN chan' : chan'[i].off > r.off => InChan(r, i)'
  <2>1. /\ r.off <= sentMax \/ r \in backlog \/ Pushing(r) \/ InChan(r, Len(chan) + 1)
        /\ \/ r.off <= sentMax \/ r \in backlog
           \/ /\ \A b \in backlog : b.off < r.off
              /\ \A i \in DOMAIN chan : chan[i].off > r.off => InChan(r, i)
    BY <1>1, <1>5 DEF NotOvertaken
  <2>2. r = x => InChan(r, Len(chan) + 1)'
    <3> SUFFICES ASSUME r = x PROVE InChan(r, Len(chan) + 1)' OBVIOUS
    <3>1. Queued BY <1>2, <1>5
    <3>2. Len(chan) \in Nat BY DEF IInv, TypeOK
    <3> QED BY <1>2, <3>1, <3>2 DEF InChan
  <2>3. CASE r.off <= sentMax \/ r \in backlog BY <2>3
  <2>4. CASE ~(r.off <= sentMax \/ r \in backlog)
    <3>1. Pushing(r)' \/ InChan(r, Len(chan) + 1)' BY <1>2, <2>1, <2>2, <2>4
    <3>2. ASSUME NEW i \in DOMAIN chan', chan'[i].off > r.off PROVE InChan(r, i)'
      <4>1. CASE i \in DOMAIN chan BY <1>2, <2>1, <2>4, <3>2, <4>1
      <4>2. CASE i = Len(chan) + 1 /\ chan'[i] = x
        <5>1. r.off < x.off
          BY <3>2, <4>2, OffsetTypes DEF IInv, Owed, TypeOK
        <5>2. InChan(r, Len(chan) + 1) BY <1>4, <2>1, <2>4, <5>1
        <5>3. InChan(r, i) BY <4>2, <5>2
        <5> QED BY <1>2, <5>3
      <4> QED BY <1>2, <4>1, <4>2
    <3> QED BY <2>1, <2>4, <3>1, <3>2
  <2> QED BY <2>3, <2>4
<1> QED BY <1>1, <1>3, <1>5 DEF NotOvertaken

LEMMA PublishKeeps ==
  ASSUME IInv, NEW a \in Appenders, PublishRow(a)
  PROVE  IInv'
<1> DEFINE e == app[a].e
<1>1. /\ UNCHANGED <<rows, lastAcked, tx, conn, backlog, sentMax, wire, loop, connected, cursor, pc,
                     batch, hi, holPaused, stuckOffset, stuckFails, committed, handled, parked,
                     failures, faults>>
      /\ app[a].at = "publish" /\ app' = [app EXCEPT ![a] = Idle]
      /\ Push(e) /\ missed' = missed \cup Left(e)
  BY DEF PublishRow, loop
<1>2. app \in [Appenders -> AppState] /\ e \in rows /\ e \in Entries /\ rows \subseteq committed
  BY <1>1 DEF IInv, TypeOK, LogInv
<1>3. app'[a] = Idle /\ \A b \in Appenders \ {a} : app'[b] = app[b] BY <1>1, <1>2
<1>4. Left(e) \subseteq Offs(rows) BY <1>1, <1>2 DEF Left, Offs, IInv, LogInv
<1>5. Left(e) \subseteq Allocated /\ Left(e) \subseteq 1..LastOffset
  BY <1>2, <1>4, OffsetTypes DEF Allocated, Offs, IInv
<1>6. Allocated' = Allocated /\ Open' = Open BY <1>1, <1>5 DEF Allocated, Open
<1>7. Owed' = {r \in Owed : r.off \notin Left(e)} BY <1>1 DEF Owed, Settled, Open
<1>8. /\ \A i \in DOMAIN chan' : i \in DOMAIN chan \/ chan'[i] = e
      /\ \A i \in DOMAIN chan : chan'[i] = chan[i]
      /\ chan' \in Seq(Entries) /\ Len(chan') <= ChanCap
  BY <1>1, <1>2, Pushed DEF IInv
<1>9. TypeOK'
  <2>1. app' \in [Appenders -> AppState] BY <1>1, <1>2 DEF AppState, Idle
  <2> QED BY <1>1, <1>5, <1>8, <2>1 DEF IInv, TypeOK
<1>10. OffsetsInv'
  <2>1. e.off \in Allocated BY <1>2 DEF Allocated, Offs
  <2> QED BY <1>1, <1>6, <1>8, <2>1 DEF IInv, OffsetsInv, Offs
<1>11. LogInv'
  BY <1>1, <1>3, <1>6 DEF IInv, LogInv, Offs, Idle
<1>12. ShapeInv'
  <2>1. conn \in {"closed", "opening", "broken"} => chan' = chan BY <1>1 DEF Push, Queued
  <2> QED BY <1>1, <2>1 DEF IInv, ShapeInv
<1>13. OwedInv'
  <2> SUFFICES ASSUME NEW r \in Owed' PROVE Ahead(r)' BY DEF OwedInv
  <2>1. Ahead(r) BY <1>7 DEF IInv, OwedInv
  <2> QED BY <1>1, <1>2, <1>6, <1>8, <2>1 DEF Ahead
<1>14. StreamInv'
  <2> SUFFICES ASSUME NEW r \in Owed' PROVE NotOvertaken(r)' BY DEF StreamInv
  <2>1. r \in Owed /\ r.off \notin Left(e) BY <1>7
  <2>2. r = e \/ (Pushing(r) => Pushing(r)') BY <1>3 DEF Pushing
  <2> QED BY <1>1, <1>2, <2>1, <2>2, PushOvertakesNone
<1> QED BY <1>9, <1>10, <1>11, <1>12, <1>13, <1>14 DEF IInv

LEMMA AppendKeeps ==
  ASSUME IInv, NEW k \in Keys, AppendInTx(k)
  PROVE  IInv'
<1>1. PICK e \in Entries : NextRow(k, e) /\ tx' = e BY DEF AppendInTx
<1> DEFINE n == e.off
<1>2. /\ UNCHANGED <<rows, lastAcked, app, conn, backlog, sentMax, wire, loop, connected, cursor, pc,
                     batch, hi, holPaused, stuckOffset, stuckFails, committed, handled, parked,
                     failures, faults>>
      /\ tx = NoEntry /\ Push(e) /\ missed' = missed \cup Left(e)
  BY <1>1 DEF AppendInTx, loop
<1>3. e # NoEntry /\ Open = {} /\ Open' = {e} BY <1>1, <1>2, NoEntryAssumption DEF Open
<1>4. n \in 1..LastOffset /\ Allocated \subseteq 1..LastOffset /\ lastAcked \in 0..LastOffset
  BY <1>1, OffsetTypes DEF IInv, TypeOK
<1>5. /\ n \notin Offs(rows) /\ n > lastAcked /\ \A r \in rows : r.off < n
      /\ n = 1 \/ n - 1 \in Allocated
      /\ n \in missed \/ \A o \in Allocated : o < n
      /\ n \notin Offs(committed)
  BY <1>1, <1>3, NextOffset DEF Offs
<1>6. /\ Left(e) \subseteq Offs(rows) \cup {n} /\ Left(e) \subseteq 1..LastOffset
      /\ Left(e) \subseteq Allocated \cup {n}
  <2>1. Left(e) \subseteq Offs(rows) \cup {n} BY DEF Left, Offs, IInv, LogInv
  <2>2. Offs(rows) \subseteq Allocated BY DEF IInv, LogInv, Allocated, Offs
  <2> QED BY <1>4, <2>1, <2>2
<1>7. Allocated' = Allocated \cup {n} BY <1>2, <1>3, <1>6 DEF Allocated, Offs
<1>8. /\ \A i \in DOMAIN chan' : i \in DOMAIN chan \/ chan'[i] = e
      /\ \A i \in DOMAIN chan : chan'[i] = chan[i]
      /\ chan' \in Seq(Entries) /\ Len(chan') <= ChanCap
  BY <1>1, <1>2, Pushed DEF IInv
<1>9. TypeOK' BY <1>1, <1>2, <1>6, <1>8 DEF IInv, TypeOK
<1>10. OffsetsInv'
  <2>1. \A o \in Allocated' : \A p \in 1..o : p \in Allocated'
    <3>1. \A p \in 1..n : p = n \/ p \in 1..(n - 1) BY <1>4
    <3>2. \A p \in 1..(n - 1) : p \in Allocated BY <1>4, <1>5 DEF IInv, OffsetsInv
    <3> QED BY <1>7, <3>1, <3>2 DEF IInv, OffsetsInv
  <2> QED BY <1>2, <1>7, <1>8, <2>1 DEF IInv, OffsetsInv, Offs
<1>11. LogInv'
  <2>1. n \in missed' \/ \A o \in Allocated' : o <= n BY <1>2, <1>4, <1>5, <1>7
  <2>2. ASSUME NEW b \in Appenders, app[b].at = "insert"
        PROVE  app[b].e.off \in missed' \cup Offs(rows) \cup Offs(Open') \/ \A o \in Allocated' : o < app[b].e.off
    <3> DEFINE m == app[b].e.off
    <3>1. m \in missed \cup Offs(rows) \/ \A o \in Allocated : o < m
      BY <1>3, <2>2 DEF IInv, LogInv, Offs
    <3>2. m \in 1..LastOffset BY <2>2, OffsetTypes DEF IInv, LogInv, TypeOK, AppState
    <3>3. (\A o \in Allocated : o < m) => n <= m BY <1>4, <1>5, <3>2
    <3>4. n \in Offs(Open') BY <1>3 DEF Offs
    <3>5. CASE m \in missed \cup Offs(rows) BY <1>2, <3>5
    <3>6. CASE \A o \in Allocated : o < m BY <1>4, <1>7, <3>2, <3>3, <3>4, <3>6
    <3> QED BY <3>1, <3>5, <3>6
  <2>3. /\ rows' \subseteq committed' /\ \A r \in committed' \ rows' : r.off <= lastAcked'
        /\ \A b \in Appenders :
             /\ app'[b].at = "idle" <=> app'[b].e = NoEntry
             /\ app'[b].at = "publish" => app'[b].e \in rows'
             /\ app'[b].at = "insert" =>
                  \/ app'[b].e.off = 1 \/ lastAcked' >= app'[b].e.off - 1
                  \/ \E r \in rows' : r.off >= app'[b].e.off - 1
    BY <1>2 DEF IInv, LogInv
  <2> QED BY <1>1, <1>2, <1>5, <2>1, <2>2, <2>3 DEF LogInv, Offs
<1>12. ShapeInv'
  <2>1. conn \in {"closed", "opening", "broken"} => chan' = chan BY <1>2 DEF Push, Queued
  <2> QED BY <1>2, <2>1 DEF IInv, ShapeInv
<1>13. ASSUME NEW r \in Owed'
       PROVE  /\ r.off \notin Left(e)
              /\ (r \in Owed /\ r.off # n) \/ (r = e /\ r \notin Owed /\ \A o \in Allocated : o < n)
  <2>1. r \in committed \cup {e} /\ r.off \notin missed /\ r.off \notin Left(e) /\ ~Settled(r)
    BY <1>2, <1>3, <1>13 DEF Owed, Settled
  <2>2. \A x \in committed : x.off # n BY <1>5 DEF Offs
  <2>3. CASE r = e BY <1>3, <1>5, <2>1, <2>2, <2>3 DEF Owed
  <2>4. CASE r # e BY <1>3, <2>1, <2>2, <2>4 DEF Owed
  <2> QED BY <2>1, <2>3, <2>4
<1>14. (\A o \in Allocated : o < n) =>
         /\ lastAcked < n /\ cursor < n /\ hi < n /\ sentMax < n
         /\ \A x \in committed \cup Open \cup batch \cup backlog \cup handled \cup parked : x.off < n
         /\ \A i \in DOMAIN chan : chan[i].off < n
         /\ \A i \in DOMAIN wire : wire[i].off < n
  BY <1>4, FreshIsBeyond
<1>15. \A x : x < n => n > x /\ x # n BY <1>4
<1>16. OwedInv'
  <2> SUFFICES ASSUME NEW r \in Owed' PROVE Ahead(r)' BY DEF OwedInv
  <2>1. CASE r \in Owed /\ r.off # n
    <3>1. Ahead(r) BY <2>1 DEF IInv, OwedInv
    <3> QED BY <1>2, <1>3, <1>8, <2>1, <3>1 DEF Ahead
  <2>2. CASE r = e /\ \A o \in Allocated : o < n
    BY <1>2, <1>3, <1>8, <1>14, <1>15, <2>2 DEF Ahead
  <2> QED BY <1>13, <2>1, <2>2
<1>17. StreamInv'
  <2> SUFFICES ASSUME NEW r \in Owed' PROVE NotOvertaken(r)' BY DEF StreamInv
  <2>1. CASE r \in Owed
    <3>1. Pushing(r) => Pushing(r)' BY <1>2 DEF Pushing
    <3> QED BY <1>1, <1>2, <1>13, <2>1, <3>1, PushOvertakesNone
  <2>2. CASE r \notin Owed
    <3>1. /\ r = e /\ e.off \notin Left(e)
          /\ sentMax < n /\ \A x \in backlog : x.off < n
          /\ \A i \in DOMAIN chan : chan[i].off < n
          /\ \A i \in DOMAIN wire : wire[i].off < n
      BY <1>13, <1>14, <2>2
    <3>2. /\ \A i \in DOMAIN wire : ~(wire[i].off > n)
          /\ \A i \in DOMAIN chan' : ~(chan'[i].off > n)
          /\ ~(n <= sentMax)
      <4>1. /\ \A i \in DOMAIN wire : wire[i].off \in 1..LastOffset
            /\ \A i \in DOMAIN chan : chan[i].off \in 1..LastOffset
            /\ sentMax \in 0..LastOffset
        BY OffsetTypes DEF IInv, TypeOK
      <4> QED BY <1>4, <1>8, <3>1, <4>1
    <3>3. ASSUME conn = "live" PROVE InChan(r, Len(chan) + 1)'
      <4>1. /\ conn = "live" /\ ~Queued => e.off \in Left(e)
            /\ Queued => Len(chan') = Len(chan) + 1 /\ Len(chan) + 1 \in DOMAIN chan' /\ chan'[Len(chan) + 1] = e
        BY <1>1, <1>2, Pushed DEF IInv
      <4>2. Len(chan) \in Nat BY DEF IInv, TypeOK
      <4>3. Queued BY <3>1, <3>3, <4>1
      <4> QED BY <3>1, <4>1, <4>2, <4>3 DEF InChan
    <3> QED BY <1>2, <3>1, <3>2, <3>3 DEF NotOvertaken
  <2> QED BY <2>1, <2>2
<1> QED BY <1>9, <1>10, <1>11, <1>12, <1>16, <1>17 DEF IInv

LEMMA CommitKeeps ==
  ASSUME IInv, CommitTx
  PROVE  IInv'
<1>1. /\ UNCHANGED <<lastAcked, app, conn, chan, backlog, sentMax, wire, connected, cursor, pc, batch,
                     hi, holPaused, stuckOffset, stuckFails, handled, parked, failures, missed, faults>>
      /\ tx # NoEntry /\ tx' = NoEntry
      /\ rows' = rows \cup {tx} /\ committed' = committed \cup {tx}
  BY DEF CommitTx, stream, loop
<1>2. Open = {tx} /\ Open' = {} /\ committed' \cup Open' = committed \cup Open BY <1>1 DEF Open
<1>3. tx \in Entries BY <1>1 DEF IInv, TypeOK
<1>4. /\ Offs(rows') \cup Offs(Open') = Offs(rows) \cup Offs(Open)
      /\ Offs(committed') \cup Offs(Open') = Offs(committed) \cup Offs(Open)
  BY <1>1, <1>2 DEF Offs
<1>5. Allocated' = Allocated BY <1>1, <1>4 DEF Allocated
<1>6. Owed' = Owed BY <1>1, <1>2 DEF Owed, Settled
<1>7. TypeOK' BY <1>1, <1>3 DEF IInv, TypeOK
<1>8. OffsetsInv' BY <1>1, <1>5 DEF IInv, OffsetsInv, Offs
<1>9. LogInv'
  <2>1. \A b \in Appenders : app[b].at = "insert" =>
          app[b].e.off \in missed \cup Offs(rows') \cup Offs(Open') \/ \A o \in Allocated' : o < app[b].e.off
    BY <1>4, <1>5 DEF IInv, LogInv
  <2> QED BY <1>1, <2>1 DEF IInv, LogInv
<1>10. ShapeInv' BY <1>1 DEF IInv, ShapeInv
<1>11. OwedInv' BY <1>1, <1>2, <1>6 DEF IInv, OwedInv, Ahead
<1>12. StreamInv'
  BY <1>1, <1>6 DEF IInv, StreamInv, NotOvertaken, InWire, InChan, OutOfWire, Pushing
<1> QED BY <1>7, <1>8, <1>9, <1>10, <1>11, <1>12 DEF IInv

(* A transaction that ends without a commit either leaves its offset       *)
(* missed, or nothing holds that offset and it is the largest: it is free  *)
(* again and there is still no gap.                                        *)
LEMMA AbortKeepsOffsets ==
  ASSUME IInv, tx # NoEntry, tx' = NoEntry,
         UNCHANGED <<rows, lastAcked, wire, cursor, batch, hi, committed, handled, parked>>,
         missed' = missed \cup {tx.off} \/ (missed' = missed /\ ~Received),
         \A i \in DOMAIN chan' : i \in DOMAIN chan /\ chan'[i] = chan[i],
         backlog' \subseteq backlog, sentMax' \in {0, sentMax},
         \/ missed' = missed \cup {tx.off}
         \/ tx \notin backlog' /\ sentMax' # tx.off /\ \A i \in DOMAIN chan' : chan'[i] # tx
  PROVE  /\ OffsetsInv' /\ Owed' \subseteq Owed
         /\ missed' \subseteq 1..LastOffset /\ Open' = {} /\ missed \subseteq missed'
         /\ \A n \in missed \cup Offs(rows) \cup Offs(Open) :
              n \in missed' \cup Offs(rows) \/ \A o \in Allocated' : o < n
         /\ Allocated' \subseteq Allocated
<1>1. Open = {tx} /\ Open' = {} /\ Offs(Open) = {tx.off} /\ Offs(Open') = {} BY DEF Open, Offs
<1>2. /\ tx.off \in 1..LastOffset /\ Allocated \subseteq 1..LastOffset
      /\ lastAcked \in 0..LastOffset /\ cursor \in 0..LastOffset /\ hi \in 0..LastOffset
      /\ \A r \in batch \cup backlog \cup handled \cup parked \cup committed : r.off \in 1..LastOffset
  BY <1>1, OffsetTypes DEF IInv, TypeOK, Offs
<1>3. missed' \subseteq 1..LastOffset /\ missed \subseteq missed' BY <1>2 DEF IInv, TypeOK
<1>4. Owed' \subseteq Owed BY <1>1, <1>3 DEF Owed, Settled
<1>5. Allocated' = Offs(committed) \cup missed' BY <1>1 DEF Allocated, Offs
<1>6. CASE tx.off \in missed'
  <2>1. missed' \cup Offs(Open') = missed \cup Offs(Open) BY <1>1, <1>6
  <2>2. Allocated' = Allocated BY <1>5, <1>1, <2>1 DEF Allocated
  <2>3. Offs(batch' \cup backlog' \cup handled' \cup parked') \subseteq Allocated
    BY DEF IInv, OffsetsInv, Offs
  <2>4. OffsetsInv' BY <2>2, <2>3 DEF IInv, OffsetsInv
  <2> QED BY <1>1, <1>3, <1>4, <1>6, <2>2, <2>4
<1>7. CASE tx.off \notin missed'
  <2>1. /\ missed' = missed /\ tx.off \notin missed /\ tx \notin backlog' /\ sentMax' # tx.off
        /\ tx \notin batch \cup handled \cup parked
        /\ \A i \in DOMAIN wire : wire[i] # tx
        /\ \A i \in DOMAIN chan' : chan'[i] # tx
    BY <1>7 DEF Received
  <2>2. Ahead(tx) BY <1>1, <2>1 DEF IInv, OwedInv, Owed, Settled
  <2>3. \A o \in Allocated : o <= tx.off BY <2>1 DEF IInv, LogInv
  <2>4. Allocated = Allocated' \cup {tx.off} BY <1>1, <1>5, <2>1 DEF Allocated
  <2>5. tx.off \notin Allocated'
    <3> SUFFICES ASSUME NEW r \in committed, r.off = tx.off PROVE FALSE BY <1>5, <2>1 DEF Offs
    <3>1. CASE r \in rows BY <1>2, <3>1 DEF IInv, LogInv
    <3>2. CASE r \notin rows
      <4>1. r.off <= lastAcked /\ tx.off > lastAcked BY <3>2 DEF IInv, LogInv
      <4> QED BY <1>2, <4>1
    <3> QED BY <3>1, <3>2
  <2>6. \A o \in Allocated' : o < tx.off BY <1>2, <2>3, <2>4, <2>5
  <2>7. \A o \in Allocated' : \A q \in 1..o : q \in Allocated'
    <3> SUFFICES ASSUME NEW o \in Allocated', NEW q \in 1..o PROVE q \in Allocated' OBVIOUS
    <3>1. q \in Allocated BY <2>4 DEF IInv, OffsetsInv
    <3>2. q # tx.off BY <1>2, <2>4, <2>6
    <3> QED BY <2>4, <3>1, <3>2
  <2>8. {lastAcked', cursor', hi', sentMax'} \subseteq Allocated' \cup {0}
    <3>1. lastAcked # tx.off /\ hi # tx.off BY <1>2, <2>2 DEF Ahead
    <3>2. cursor # tx.off
      <4>1. CASE connected BY <1>2, <2>2, <4>1 DEF Ahead
      <4>2. CASE ~connected BY <1>2, <4>2 DEF IInv, ShapeInv
      <4> QED BY <4>1, <4>2
    <3>3. {lastAcked, cursor, hi, sentMax} \subseteq Allocated \cup {0} BY DEF IInv, OffsetsInv
    <3> QED BY <2>1, <2>4, <3>1, <3>2, <3>3
  <2>9. Offs(batch' \cup backlog' \cup handled' \cup parked') \subseteq Allocated'
    <3>1. \A r \in batch \cup handled \cup parked \cup backlog' : r.off # tx.off
      <4>1. \A r \in handled \cup parked : r.off # tx.off BY <1>2, <2>2 DEF Ahead
      <4>2. \A r \in batch \cup backlog : r.off = tx.off => r = tx BY <2>2 DEF Ahead
      <4> QED BY <2>1, <4>1, <4>2
    <3>2. \A r \in batch \cup handled \cup parked \cup backlog' : r.off \in Allocated
      BY DEF IInv, OffsetsInv, Offs
    <3> QED BY <2>4, <3>1, <3>2 DEF Offs
  <2>10. \A i \in DOMAIN chan' : chan'[i].off \in Allocated'
    BY <2>1, <2>2, <2>4 DEF IInv, OffsetsInv, Ahead
  <2>11. \A i \in DOMAIN wire' : wire'[i].off \in Allocated'
    BY <2>1, <2>2, <2>4 DEF IInv, OffsetsInv, Ahead
  <2>12. OffsetsInv' BY <2>7, <2>8, <2>9, <2>10, <2>11 DEF OffsetsInv
  <2> QED BY <1>1, <1>3, <1>4, <2>1, <2>4, <2>6, <2>12
<1> QED BY <1>6, <1>7

LEMMA RollbackKeeps ==
  ASSUME IInv, RollbackTx
  PROVE  IInv'
<1>1. /\ UNCHANGED <<rows, lastAcked, app, conn, chan, backlog, sentMax, wire, connected, cursor, pc,
                     batch, hi, holPaused, stuckOffset, stuckFails, committed, handled, parked, failures>>
      /\ tx # NoEntry /\ tx' = NoEntry
      /\ missed' = missed \cup (IF Streamed \/ Received THEN {tx.off} ELSE {})
      /\ faults < MaxFaults /\ faults' = faults + 1
  BY DEF RollbackTx, Fault, stream, loop
<1>2. \/ missed' = missed \cup {tx.off}
      \/ /\ missed' = missed /\ ~Received
         /\ tx \notin backlog' /\ sentMax' # tx.off /\ \A i \in DOMAIN chan' : chan'[i] # tx
  <2>1. CASE Streamed \/ Received BY <1>1, <2>1
  <2>2. CASE ~(Streamed \/ Received) BY <1>1, <2>2 DEF Streamed
  <2> QED BY <2>1, <2>2
<1>3. /\ OffsetsInv' /\ Owed' \subseteq Owed
      /\ missed' \subseteq 1..LastOffset /\ Open' = {} /\ missed \subseteq missed'
      /\ \A n \in missed \cup Offs(rows) \cup Offs(Open) :
           n \in missed' \cup Offs(rows) \/ \A o \in Allocated' : o < n
      /\ Allocated' \subseteq Allocated
  BY <1>1, <1>2, AbortKeepsOffsets
<1>7. TypeOK'
  <2>1. faults' \in 0..MaxFaults BY <1>1, ControlAssumption DEF IInv, TypeOK
  <2> QED BY <1>1, <1>3, <2>1 DEF IInv, TypeOK
<1>9. LogInv'
  <2>1. \A b \in Appenders : app[b].at = "insert" =>
          app[b].e.off \in missed' \cup Offs(rows) \cup Offs(Open') \/ \A o \in Allocated' : o < app[b].e.off
    <3> SUFFICES ASSUME NEW b \in Appenders, app[b].at = "insert"
                 PROVE  app[b].e.off \in missed' \cup Offs(rows) \/ \A o \in Allocated' : o < app[b].e.off
      OBVIOUS
    <3>1. app[b].e.off \in missed \cup Offs(rows) \cup Offs(Open) \/ \A o \in Allocated : o < app[b].e.off
      BY DEF IInv, LogInv
    <3> QED BY <1>3, <3>1
  <2> QED BY <1>1, <2>1 DEF IInv, LogInv, Offs
<1>10. ShapeInv' BY <1>1 DEF IInv, ShapeInv
<1>11. OwedInv' BY <1>1, <1>3 DEF IInv, OwedInv, Ahead
<1>12. StreamInv'
  BY <1>1, <1>3 DEF IInv, StreamInv, NotOvertaken, InWire, InChan, OutOfWire, Pushing
<1> QED BY <1>3, <1>7, <1>9, <1>10, <1>11, <1>12 DEF IInv

LEMMA PruneKeeps ==
  ASSUME IInv, NEW o \in 1..LastOffset, Prune(o)
  PROVE  IInv'
<1>1. /\ UNCHANGED <<lastAcked, tx, app, conn, chan, backlog, sentMax, wire, connected, cursor, pc,
                     batch, hi, holPaused, stuckOffset, stuckFails, committed, handled, parked,
                     failures, missed, faults>>
      /\ tx = NoEntry /\ \A a \in Appenders : app[a] = Idle
      /\ rows' = {r \in rows : ~(r.off <= o /\ r.off <= lastAcked)}
  BY DEF Prune, stream, loop, history
<1>2. TypeOK' BY <1>1 DEF IInv, TypeOK
<1>3. OffsetsInv' BY <1>1 DEF IInv, OffsetsInv, Allocated, Offs, Open
<1>4. LogInv' BY <1>1 DEF IInv, LogInv, Idle
<1>5. ShapeInv' BY <1>1 DEF IInv, ShapeInv
<1>6. OwedInv' BY <1>1 DEF IInv, OwedInv, Ahead, Owed, Open, Settled
<1>7. StreamInv'
  BY <1>1 DEF IInv, StreamInv, NotOvertaken, Owed, Open, Settled, InWire, InChan, OutOfWire, Pushing
<1> QED BY <1>2, <1>3, <1>4, <1>5, <1>6, <1>7 DEF IInv
-----------------------------------------------------------------------------
(* Steps of the stream.                                                    *)

(* With nothing on the wire and no catch-up done, nothing is overtaken.    *)
LEMMA EmptyStream ==
  ASSUME wire' = <<>>, conn' # "live"
  PROVE  StreamInv'
BY DEF StreamInv, NotOvertaken

LEMMA SubscribeKeeps ==
  ASSUME IInv, Subscribe
  PROVE  IInv'
<1>1. /\ UNCHANGED <<rows, lastAcked, tx, app, chan, backlog, sentMax, wire, connected, cursor, pc, batch, hi,
                     holPaused, stuckOffset, stuckFails, committed, handled, parked, failures, missed, faults>>
      /\ conn = "opening" /\ conn' = "subscribed"
  BY DEF Subscribe, center, loop, history
<1>2. Open' = Open /\ Allocated' = Allocated /\ Owed' = Owed
  BY <1>1 DEF Open, Allocated, Owed, Settled
<1>3. TypeOK' BY <1>1 DEF IInv, TypeOK
<1>4. OffsetsInv' BY <1>1, <1>2 DEF IInv, OffsetsInv
<1>5. LogInv' BY <1>1, <1>2 DEF IInv, LogInv
<1>6. ShapeInv' BY <1>1 DEF IInv, ShapeInv
<1>7. OwedInv' BY <1>1, <1>2 DEF IInv, OwedInv, Ahead
<1>8. wire' = <<>> /\ conn' # "live" BY <1>1 DEF IInv, ShapeInv
<1>9. StreamInv' BY <1>8, EmptyStream
<1> QED BY <1>3, <1>4, <1>5, <1>6, <1>7, <1>9 DEF IInv

LEMMA CatchUpKeeps ==
  ASSUME IInv, CatchUp
  PROVE  IInv'
<1>1. /\ UNCHANGED <<rows, lastAcked, tx, app, chan, sentMax, wire, connected, cursor, pc, batch, hi,
                     holPaused, stuckOffset, stuckFails, committed, handled, parked, failures, faults>>
      /\ conn = "subscribed" /\ conn' = "live" /\ backlog' = ListAfter(sentMax)
      /\ missed' = missed \cup
           (IF tx = NoEntry \/ \E i \in DOMAIN chan : chan[i] = tx THEN {} ELSE {tx.off})
  BY DEF CatchUp, center, loop
<1>2. backlog' \subseteq rows /\ rows \subseteq committed /\ \A b \in backlog' : b.off > sentMax
  BY <1>1 DEF ListAfter, IInv, LogInv
<1>3. connected /\ wire = <<>> /\ sentMax <= cursor BY <1>1 DEF IInv, ShapeInv
<1>4. /\ Open' = Open /\ missed' \subseteq missed \cup Offs(Open) /\ missed \subseteq missed'
      /\ tx # NoEntry => Open = {tx} /\ tx \in Entries
  BY <1>1 DEF Open, Offs, IInv, TypeOK
<1>5. Allocated' = Allocated BY <1>1, <1>4 DEF Allocated
<1>6. Owed' \subseteq Owed BY <1>1, <1>4 DEF Owed, Settled
<1>7. /\ sentMax \in 0..LastOffset /\ cursor \in 0..LastOffset /\ lastAcked \in 0..LastOffset
      /\ \A r \in committed \cup Open : r.off \in 1..LastOffset
      /\ \A i \in DOMAIN chan : chan[i].off \in 1..LastOffset
  BY OffsetTypes DEF IInv, TypeOK
<1>8. TypeOK'
  <2>1. missed' \subseteq 1..LastOffset BY <1>4, OffsetTypes DEF IInv, TypeOK
  <2> QED BY <1>1, <1>2, <2>1 DEF IInv, TypeOK
<1>9. OffsetsInv'
  <2>1. Offs(backlog') \subseteq Allocated BY <1>2 DEF Offs, Allocated
  <2> QED BY <1>1, <1>5, <2>1 DEF IInv, OffsetsInv, Offs
<1>10. LogInv' BY <1>1, <1>4, <1>5 DEF IInv, LogInv
<1>11. ShapeInv' BY <1>1, <1>2, <1>3, <1>7 DEF IInv, ShapeInv, ListAfter
<1>12. OwedInv' BY <1>1, <1>2, <1>4, <1>6 DEF IInv, OwedInv, Ahead
<1>13. StreamInv'
  <2> SUFFICES ASSUME NEW r \in Owed' PROVE NotOvertaken(r)' BY DEF StreamInv
  <2>1. Ahead(r) /\ r \in committed \cup Open BY <1>6 DEF IInv, OwedInv, Owed
  <2>2. r.off > sentMax /\ r.off > lastAcked /\ ~(r.off <= sentMax) BY <1>3, <1>7, <2>1 DEF Ahead
  <2>3. CASE r \in committed
    <3>1. r \in rows BY <1>7, <2>2, <2>3 DEF IInv, LogInv
    <3>2. r \in backlog' BY <1>1, <2>2, <3>1 DEF ListAfter
    <3> QED BY <1>1, <1>3, <2>2, <3>2 DEF NotOvertaken
  <2>4. CASE r \in Open
    <3>1. r = tx /\ tx # NoEntry BY <2>4 DEF Open
    <3>2. r.off \notin missed' BY DEF Owed
    <3>3. \E i \in DOMAIN chan : chan[i] = r BY <1>1, <3>1, <3>2
    <3>4. InChan(r, Len(chan) + 1)'
      <4>1. \A i \in DOMAIN chan : i < Len(chan) + 1 BY DEF IInv, TypeOK
      <4> QED BY <1>1, <3>3, <4>1 DEF InChan
    <3>5. \A o \in Allocated : o <= r.off BY <1>1, <3>1, <3>2 DEF IInv, LogInv
    <3>6. \A i \in DOMAIN chan : ~(chan[i].off > r.off)
      BY <1>7, <2>1, <3>5 DEF IInv, OffsetsInv
    <3>7. \A b \in backlog' : b.off < r.off BY <1>2, <3>1 DEF IInv, LogInv
    <3> QED BY <1>1, <1>3, <2>2, <3>4, <3>6, <3>7 DEF NotOvertaken
  <2> QED BY <2>1, <2>3, <2>4
<1> QED BY <1>8, <1>9, <1>10, <1>11, <1>12, <1>13 DEF IInv

(* What the wire holds after a frame is written to it.                     *)
LEMMA Written ==
  ASSUME TypeOK, NEW x \in Entries, wire' = Append(wire, x), Len(wire) < WireCap
  PROVE  /\ wire' \in Seq(Entries) /\ Len(wire') <= WireCap /\ Len(wire') = Len(wire) + 1
         /\ \A i \in DOMAIN wire : i \in DOMAIN wire' /\ wire'[i] = wire[i]
         /\ \A i \in DOMAIN wire' : i \in DOMAIN wire \/ (i = Len(wire) + 1 /\ wire'[i] = x)
         /\ \A r, n : InWire(r, n) => InWire(r, n)'
         /\ \A r : InWire(r, Len(wire) + 1) => InWire(r, Len(wire) + 1)'
         /\ InWire(x, Len(wire) + 1)'
<1>1. wire \in Seq(Entries) /\ Len(wire) \in Nat /\ WireCap \in Nat
  BY ControlAssumption DEF TypeOK
<1>2. DOMAIN wire = 1..Len(wire) BY <1>1
<1>3. /\ wire' \in Seq(Entries) /\ Len(wire') = Len(wire) + 1
      /\ DOMAIN wire' = 1..(Len(wire) + 1)
      /\ \A i \in DOMAIN wire : i \in DOMAIN wire' /\ wire'[i] = wire[i]
      /\ wire'[Len(wire) + 1] = x
      /\ \A i \in DOMAIN wire' : i \in DOMAIN wire \/ i = Len(wire) + 1
  BY <1>1, Appended
<1>4. Len(wire') <= WireCap BY <1>1, <1>3
<1>5. \A r, n : InWire(r, n) => InWire(r, n)' BY <1>3 DEF InWire
<1>6. \A i \in DOMAIN wire' : i < Len(wire') + 1 BY <1>1, <1>3
<1>7. \A r : InWire(r, Len(wire) + 1) => InWire(r, Len(wire) + 1)' BY <1>3, <1>6 DEF InWire
<1>8. Len(wire) + 1 \in DOMAIN wire' BY <1>1, <1>3
<1>9. \E i \in DOMAIN wire' : i < Len(wire') + 1 /\ wire'[i] = x BY <1>3, <1>6, <1>8
<1>10. InWire(x, Len(wire) + 1)' BY <1>9 DEF InWire
<1> QED BY <1>3, <1>4, <1>5, <1>7, <1>10

LEMMA SendKeeps ==
  ASSUME IInv, NEW x \in backlog, SendBacklog(x)
  PROVE  IInv'
<1>1. /\ UNCHANGED <<rows, lastAcked, tx, app, conn, chan, connected, cursor, pc, batch, hi,
                     holPaused, stuckOffset, stuckFails, committed, handled, parked, failures,
                     missed, faults>>
      /\ conn = "live" /\ Len(wire) < WireCap /\ \A q \in backlog : x.off <= q.off
      /\ backlog' = backlog \ {x} /\ wire' = Append(wire, x) /\ sentMax' = x.off
  BY DEF SendBacklog, IsFirst, center, loop, history
<1>2. /\ x \in Entries /\ x.off \in 1..LastOffset /\ sentMax \in 0..LastOffset
      /\ \A b \in backlog : b.off \in 1..LastOffset
      /\ \A r \in committed \cup Open : r.off \in 1..LastOffset
  BY OffsetTypes DEF IInv, TypeOK
<1>3. /\ wire' \in Seq(Entries) /\ Len(wire') <= WireCap /\ Len(wire') = Len(wire) + 1
      /\ \A i \in DOMAIN wire : i \in DOMAIN wire' /\ wire'[i] = wire[i]
      /\ \A i \in DOMAIN wire' : i \in DOMAIN wire \/ (i = Len(wire) + 1 /\ wire'[i] = x)
      /\ \A r, n : InWire(r, n) => InWire(r, n)'
      /\ \A r : InWire(r, Len(wire) + 1) => InWire(r, Len(wire) + 1)'
      /\ \A r : r = x => InWire(r, Len(wire) + 1)'
  BY <1>1, <1>2, Written DEF IInv
<1>4. Open' = Open /\ Allocated' = Allocated /\ Owed' = Owed
  BY <1>1 DEF Open, Allocated, Owed, Settled
<1>5. TypeOK' BY <1>1, <1>2, <1>3 DEF IInv, TypeOK
<1>6. OffsetsInv'
  <2>1. x.off \in Allocated BY DEF IInv, OffsetsInv, Offs
  <2> QED BY <1>1, <1>3, <1>4, <2>1 DEF IInv, OffsetsInv, Offs
<1>7. LogInv' BY <1>1, <1>4 DEF IInv, LogInv
<1>8. ShapeInv' BY <1>1 DEF IInv, ShapeInv
<1>9. OwedInv'
  <2> SUFFICES ASSUME NEW r \in Owed' PROVE Ahead(r)' BY DEF OwedInv
  <2>1. Ahead(r) BY <1>4 DEF IInv, OwedInv
  <2> QED BY <1>1, <1>3, <1>4, <2>1 DEF Ahead
<1>10. StreamInv'
  <2> SUFFICES ASSUME NEW r \in Owed' PROVE NotOvertaken(r)' BY DEF StreamInv
  <2>1. NotOvertaken(r) /\ Ahead(r) /\ r.off \in 1..LastOffset
    BY <1>2, <1>4 DEF IInv, StreamInv, OwedInv, Owed
  <2>2. (OutOfWire(r)' <=> OutOfWire(r)) /\ (Pushing(r)' <=> Pushing(r)) /\ \A n : InChan(r, n)' <=> InChan(r, n)
    BY <1>1 DEF OutOfWire, Pushing, InChan
  <2>3. r.off < x.off => InWire(r, Len(wire) + 1) \/ OutOfWire(r)
    <3> SUFFICES ASSUME r.off < x.off, ~(r.off <= sentMax)
                 PROVE  InWire(r, Len(wire) + 1) \/ OutOfWire(r)
      BY <1>1, <2>1 DEF NotOvertaken
    <3>1. r \notin backlog /\ ~(x.off < r.off) BY <1>1, <1>2, <2>1
    <3> QED BY <1>1, <2>1, <3>1 DEF NotOvertaken
  <2>4. ASSUME NEW i \in DOMAIN wire', wire'[i].off > r.off PROVE InWire(r, i)' \/ OutOfWire(r)
    <3>1. CASE i \in DOMAIN wire BY <1>3, <2>1, <2>4, <3>1 DEF NotOvertaken
    <3>2. CASE i = Len(wire) + 1 /\ wire'[i] = x
      <4>1. r.off < x.off BY <1>2, <2>1, <2>4, <3>2
      <4>2. InWire(r, i) \/ OutOfWire(r) BY <2>3, <3>2, <4>1
      <4> QED BY <1>3, <4>2
    <3> QED BY <1>3, <3>1, <3>2
  <2>5. r.off <= x.off => InWire(r, Len(wire) + 1)' \/ OutOfWire(r)
    <3>1. r.off = x.off => r = x BY <2>1 DEF Ahead
    <3>2. r.off <= x.off => r.off < x.off \/ r.off = x.off BY <1>2, <2>1
    <3> QED BY <1>3, <2>3, <3>1, <3>2
  <2>6. r.off <= sentMax => r.off <= x.off
    <3>1. sentMax <= x.off BY DEF IInv, ShapeInv
    <3> QED BY <1>2, <2>1, <3>1
  <2>7. r \in backlog => r.off <= x.off \/ r \in backlog'
    <3>1. r = x => r.off <= x.off BY <1>2
    <3> QED BY <1>1, <3>1
  <2> QED BY <1>1, <2>1, <2>2, <2>4, <2>5, <2>6, <2>7 DEF NotOvertaken
<1> QED BY <1>5, <1>6, <1>7, <1>8, <1>9, <1>10 DEF IInv

LEMMA ForwardKeeps ==
  ASSUME IInv, Forward
  PROVE  IInv'
<1> DEFINE h == Head(chan)
<1>1. /\ UNCHANGED <<rows, lastAcked, tx, app, conn, backlog, connected, cursor, pc, batch, hi,
                     holPaused, stuckOffset, stuckFails, committed, handled, parked, failures,
                     missed, faults>>
      /\ conn = "live" /\ backlog = {} /\ chan # <<>> /\ chan' = Tail(chan)
      /\ \/ h.off <= sentMax /\ UNCHANGED <<wire, sentMax>>
         \/ ~(h.off <= sentMax) /\ Len(wire) < WireCap /\ wire' = Append(wire, h) /\ sentMax' = h.off
  BY DEF Forward, center, loop, history
<1>2. /\ h = chan[1] /\ 1 \in DOMAIN chan /\ h \in Entries
      /\ chan' \in Seq(Entries) /\ Len(chan') = Len(chan) - 1
      /\ \A i \in DOMAIN chan' : i + 1 \in DOMAIN chan /\ chan'[i] = chan[i + 1]
      /\ \A i \in DOMAIN chan : i # 1 => i - 1 \in DOMAIN chan' /\ chan'[i - 1] = chan[i]
  BY <1>1, Dropped DEF IInv, TypeOK
<1>3. /\ h.off \in 1..LastOffset /\ sentMax \in 0..LastOffset
      /\ \A r \in committed \cup Open : r.off \in 1..LastOffset
      /\ Len(chan) \in Nat /\ DOMAIN chan = 1..Len(chan) /\ DOMAIN chan' = 1..Len(chan')
  BY <1>2, OffsetTypes DEF IInv, TypeOK
<1>4. Open' = Open /\ Allocated' = Allocated /\ Owed' = Owed
  BY <1>1 DEF Open, Allocated, Owed, Settled
<1>5. \/ h.off <= sentMax /\ UNCHANGED <<wire, sentMax>>
      \/ /\ ~(h.off <= sentMax) /\ sentMax' = h.off
         /\ wire' \in Seq(Entries) /\ Len(wire') <= WireCap /\ Len(wire') = Len(wire) + 1
         /\ \A i \in DOMAIN wire : i \in DOMAIN wire' /\ wire'[i] = wire[i]
         /\ \A i \in DOMAIN wire' : i \in DOMAIN wire \/ (i = Len(wire) + 1 /\ wire'[i] = h)
         /\ \A r, n : InWire(r, n) => InWire(r, n)'
         /\ \A r : InWire(r, Len(wire) + 1) => InWire(r, Len(wire) + 1)'
         /\ \A r : r = h => InWire(r, Len(wire) + 1)'
  <2>1. CASE h.off <= sentMax BY <1>1, <2>1
  <2>2. CASE ~(h.off <= sentMax)
    <3>1. Len(wire) < WireCap /\ wire' = Append(wire, h) /\ sentMax' = h.off BY <1>1, <2>2
    <3>2. h \in Entries /\ TypeOK BY <1>2 DEF IInv
    <3>3. /\ wire' \in Seq(Entries) /\ Len(wire') <= WireCap /\ Len(wire') = Len(wire) + 1
          /\ \A i \in DOMAIN wire : i \in DOMAIN wire' /\ wire'[i] = wire[i]
          /\ \A i \in DOMAIN wire' : i \in DOMAIN wire \/ (i = Len(wire) + 1 /\ wire'[i] = h)
          /\ \A r, n : InWire(r, n) => InWire(r, n)'
          /\ \A r : InWire(r, Len(wire) + 1) => InWire(r, Len(wire) + 1)'
          /\ \A x \in Entries : wire' = Append(wire, x) => InWire(x, Len(wire) + 1)'
      BY <3>1, <3>2, Written
    <3> QED BY <2>2, <3>1, <3>2, <3>3
  <2> QED BY <2>1, <2>2
<1>6. TypeOK'
  <2>1. Len(chan') <= ChanCap BY <1>2, <1>3, ControlAssumption DEF IInv, TypeOK
  <2>2. wire' \in Seq(Entries) /\ Len(wire') <= WireCap /\ sentMax' \in 0..LastOffset
    BY <1>3, <1>5 DEF IInv, TypeOK
  <2> QED BY <1>1, <1>2, <2>1, <2>2 DEF IInv, TypeOK
<1>7. OffsetsInv'
  <2>1. h.off \in Allocated BY <1>2 DEF IInv, OffsetsInv
  <2>2. \A i \in DOMAIN wire' : wire'[i].off \in Allocated BY <1>5, <2>1 DEF IInv, OffsetsInv
  <2>3. sentMax' \in Allocated \cup {0} BY <1>5, <2>1 DEF IInv, OffsetsInv
  <2> QED BY <1>1, <1>2, <1>4, <2>2, <2>3 DEF IInv, OffsetsInv, Offs
<1>8. LogInv' BY <1>1, <1>4 DEF IInv, LogInv
<1>9. ShapeInv' BY <1>1 DEF IInv, ShapeInv
<1>10. OwedInv'
  <2> SUFFICES ASSUME NEW r \in Owed' PROVE Ahead(r)' BY DEF OwedInv
  <2>1. Ahead(r) BY <1>4 DEF IInv, OwedInv
  <2>2. \A i \in DOMAIN chan' : chan'[i].off = r.off => chan'[i] = r BY <1>2, <2>1 DEF Ahead
  <2>3. \A i \in DOMAIN wire' : wire'[i].off = r.off => wire'[i] = r BY <1>2, <1>5, <2>1 DEF Ahead
  <2> QED BY <1>1, <1>4, <2>1, <2>2, <2>3 DEF Ahead
<1>11. StreamInv'
  <2> SUFFICES ASSUME NEW r \in Owed' PROVE NotOvertaken(r)' BY DEF StreamInv
  <2>1. NotOvertaken(r) /\ Ahead(r) /\ r.off \in 1..LastOffset
    BY <1>3, <1>4 DEF IInv, StreamInv, OwedInv, Owed
  <2>2. (OutOfWire(r)' <=> OutOfWire(r)) /\ (Pushing(r)' <=> Pushing(r))
    BY <1>1 DEF OutOfWire, Pushing
  (* The head of the channel leaves it; the others move up.                *)
  <2>3. r = h \/ \A n \in Nat : InChan(r, n + 1) => InChan(r, n)'
    <3> SUFFICES ASSUME r # h, NEW n \in Nat, NEW i \in DOMAIN chan, i < n + 1, chan[i] = r
                 PROVE  InChan(r, n)'
      BY DEF InChan
    <3>1. i # 1 BY <1>2
    <3>2. i - 1 \in DOMAIN chan' /\ chan'[i - 1] = r /\ i - 1 < n BY <1>2, <1>3, <3>1
    <3> QED BY <3>2 DEF InChan
  <2>4. r = h => r.off <= sentMax' BY <1>3, <1>5
  <2>5. r.off <= sentMax => r.off <= sentMax' BY <1>3, <1>5, <2>1
  <2>6. r.off < h.off => r.off <= sentMax
    <3> SUFFICES ASSUME r.off < h.off, ~(r.off <= sentMax) PROVE FALSE OBVIOUS
    <3>1. chan[1].off > r.off BY <1>2, <1>3, <2>1
    <3>2. ~InChan(r, 1)
      <4>1. \A i \in DOMAIN chan : ~(i < 1) BY <1>3
      <4> QED BY <4>1 DEF InChan
    <3> QED BY <1>1, <1>2, <2>1, <3>1, <3>2 DEF NotOvertaken
  <2>7. ASSUME NEW i \in DOMAIN wire', wire'[i].off > r.off PROVE InWire(r, i)' \/ OutOfWire(r)
    <3>1. CASE UNCHANGED wire
      <4>1. InWire(r, i)' <=> InWire(r, i) BY <3>1 DEF InWire
      <4> QED BY <2>1, <2>7, <3>1, <4>1 DEF NotOvertaken
    <3>2. CASE i \in DOMAIN wire /\ wire'[i] = wire[i] /\ \A n : InWire(r, n) => InWire(r, n)'
      BY <2>1, <2>7, <3>2 DEF NotOvertaken
    <3>3. CASE i = Len(wire) + 1 /\ wire'[i] = h /\ \A n : InWire(r, n) => InWire(r, n)'
      <4>1. r.off < h.off BY <1>3, <2>1, <2>7, <3>3
      <4>2. InWire(r, Len(wire) + 1) \/ OutOfWire(r) BY <1>1, <2>1, <2>6, <4>1 DEF NotOvertaken
      <4>3. InWire(r, i) \/ OutOfWire(r) BY <3>3, <4>2
      <4> QED BY <3>3, <4>3
    <3> QED BY <1>5, <3>1, <3>2, <3>3
  <2>8. r.off <= sentMax' => InWire(r, Len(wire) + 1)' \/ OutOfWire(r)
    <3>1. CASE UNCHANGED <<wire, sentMax>>
      <4>1. InWire(r, Len(wire) + 1)' <=> InWire(r, Len(wire) + 1) BY <3>1 DEF InWire
      <4> QED BY <1>1, <2>1, <3>1, <4>1 DEF NotOvertaken
    <3>2. CASE /\ sentMax' = h.off
               /\ InWire(r, Len(wire) + 1) => InWire(r, Len(wire) + 1)'
               /\ r = h => InWire(r, Len(wire) + 1)'
      <4>1. r.off = h.off => r = h BY <1>2, <2>1 DEF Ahead
      <4>2. r.off <= h.off => r.off < h.off \/ r.off = h.off BY <1>3, <2>1
      <4>3. r.off < h.off => InWire(r, Len(wire) + 1) \/ OutOfWire(r)
        BY <1>1, <2>1, <2>6 DEF NotOvertaken
      <4> QED BY <3>2, <4>1, <4>2, <4>3
    <3> QED BY <1>5, <3>1, <3>2
  <2>9. r.off <= sentMax' \/ Pushing(r) \/ InChan(r, Len(chan) + 1)'
    <3>1. r.off <= sentMax \/ Pushing(r) \/ InChan(r, Len(chan) + 1)
      BY <1>1, <2>1 DEF NotOvertaken
    <3>2. r # h /\ InChan(r, Len(chan) + 1) => \E i \in DOMAIN chan' : chan'[i] = r
      <4> SUFFICES ASSUME r # h, NEW i \in DOMAIN chan, chan[i] = r PROVE \E j \in DOMAIN chan' : chan'[j] = r
        BY DEF InChan
      <4>1. i # 1 BY <1>2
      <4> QED BY <1>2, <4>1
    <3>3. (\E i \in DOMAIN chan' : chan'[i] = r) => InChan(r, Len(chan) + 1)'
      <4>1. \A i \in DOMAIN chan' : i < Len(chan') + 1 BY <1>2, <1>3
      <4> QED BY <4>1 DEF InChan
    <3> QED BY <2>4, <2>5, <3>1, <3>2, <3>3
  <2>10. r.off <= sentMax' \/ \A i \in DOMAIN chan' : chan'[i].off > r.off => InChan(r, i)'
    <3> SUFFICES ASSUME ~(r.off <= sentMax'), NEW i \in DOMAIN chan', chan'[i].off > r.off
                 PROVE  InChan(r, i)'
      OBVIOUS
    <3>1. ~(r.off <= sentMax) /\ r # h BY <2>4, <2>5
    <3>2. i + 1 \in DOMAIN chan /\ chan[i + 1].off > r.off /\ i \in Nat BY <1>2, <1>3
    <3>3. InChan(r, i + 1) BY <1>1, <2>1, <3>1, <3>2 DEF NotOvertaken
    <3> QED BY <2>3, <3>1, <3>2, <3>3
  <2> QED BY <1>1, <2>1, <2>2, <2>7, <2>8, <2>9, <2>10 DEF NotOvertaken
<1> QED BY <1>6, <1>7, <1>8, <1>9, <1>10, <1>11 DEF IInv

LEMMA BreakKeeps ==
  ASSUME IInv, Break
  PROVE  IInv'
<1>1. /\ UNCHANGED <<rows, lastAcked, tx, app, wire, connected, cursor, pc, batch, hi,
                     holPaused, stuckOffset, stuckFails, committed, handled, parked, failures,
                     missed, faults>>
      /\ conn \in {"opening", "subscribed", "live"} /\ conn' = "broken"
      /\ chan' = <<>> /\ backlog' = {} /\ sentMax' = 0
  BY DEF Break, center, loop, history
<1>2. chan' \in Seq(Entries) /\ Len(chan') = 0 /\ DOMAIN chan' = {} /\ 0 <= ChanCap
  BY <1>1, ControlAssumption
<1>3. Open' = Open /\ Allocated' = Allocated /\ Owed' = Owed
  BY <1>1 DEF Open, Allocated, Owed, Settled
<1>4. TypeOK'
  <2>1. sentMax' \in 0..LastOffset BY <1>1, ControlAssumption
  <2> QED BY <1>1, <1>2, <2>1 DEF IInv, TypeOK
<1>5. OffsetsInv' BY <1>1, <1>2, <1>3 DEF IInv, OffsetsInv, Offs
<1>6. LogInv' BY <1>1, <1>3 DEF IInv, LogInv
<1>7. ShapeInv' BY <1>1 DEF IInv, ShapeInv
<1>8. OwedInv' BY <1>1, <1>2, <1>3 DEF IInv, OwedInv, Ahead
<1>9. StreamInv' BY <1>1, <1>3 DEF IInv, StreamInv, NotOvertaken, InWire, OutOfWire
<1> QED BY <1>4, <1>5, <1>6, <1>7, <1>8, <1>9 DEF IInv

LEMMA CenterRestartKeeps ==
  ASSUME IInv, CenterRestart
  PROVE  IInv'
<1>1. /\ UNCHANGED <<rows, lastAcked, wire, connected, cursor, pc, batch, hi, holPaused,
                     stuckOffset, stuckFails, committed, handled, parked, failures>>
      /\ faults < MaxFaults /\ faults' = faults + 1
      /\ app' = [a \in Appenders |-> Idle]
      /\ missed' = missed \cup (IF tx # NoEntry /\ Received THEN {tx.off} ELSE {})
      /\ tx' = NoEntry
      /\ \/ conn \in {"closed", "opening"} /\ conn' = conn /\ sentMax' = sentMax
         \/ conn \notin {"closed", "opening"} /\ conn' = "broken" /\ sentMax' = 0
      /\ chan' = <<>> /\ backlog' = {}
  BY DEF CenterRestart, Fault, loop
<1>2. chan' \in Seq(Entries) /\ Len(chan') = 0 /\ DOMAIN chan' = {} /\ 0 <= ChanCap
  BY <1>1, ControlAssumption
<1>3. /\ OffsetsInv' /\ Owed' \subseteq Owed
      /\ missed' \subseteq 1..LastOffset /\ Open' = {}
  <2>1. CASE tx = NoEntry
    <3>1. Open = {} /\ Open' = {} /\ missed' = missed BY <1>1, <2>1 DEF Open
    <3>2. Allocated' = Allocated BY <1>1, <3>1 DEF Allocated
    <3>3. Owed' \subseteq Owed BY <1>1, <3>1 DEF Owed, Settled
    <3>4. sentMax' \in {0, sentMax} BY <1>1
    <3>5. OffsetsInv' BY <1>1, <1>2, <3>2, <3>4 DEF IInv, OffsetsInv, Offs
    <3> QED BY <3>1, <3>3, <3>5 DEF IInv, TypeOK
  <2>2. CASE tx # NoEntry
    <3>1. missed' = missed \cup {tx.off} \/ (missed' = missed /\ ~Received)
      <4>1. CASE Received BY <1>1, <2>2, <4>1
      <4>2. CASE ~Received BY <1>1, <4>2
      <4> QED BY <4>1, <4>2
    <3>2. sentMax' \in {0, sentMax} BY <1>1
    <3>3. missed' = missed \cup {tx.off} \/ sentMax' # tx.off
      <4>1. tx.off \in 1..LastOffset /\ tx.off > lastAcked /\ cursor \in 0..LastOffset
            /\ sentMax \in 0..LastOffset
        BY <2>2 DEF IInv, TypeOK, LogInv, Entries
      <4>2. CASE sentMax' = 0 BY <4>1, <4>2
      <4>3. CASE conn = "closed" \/ ~(conn \in {"closed", "opening"})
        BY <1>1, <4>1, <4>3 DEF IInv, ShapeInv
      <4>4. CASE conn = "opening" /\ sentMax' = sentMax /\ tx.off \notin missed'
        <5>1. connected /\ sentMax <= cursor BY <4>4 DEF IInv, ShapeInv
        <5>2. tx \in Owed BY <2>2, <3>1, <4>4 DEF Owed, Open, Settled, Received
        <5>3. tx.off > cursor BY <5>1, <5>2 DEF IInv, OwedInv, Ahead
        <5> QED BY <4>1, <4>4, <5>1, <5>3
      <4> QED BY <1>1, <3>1, <4>2, <4>3, <4>4
    <3>4. (tx \notin backlog') /\ (\A i \in DOMAIN chan' : chan'[i] # tx) /\ backlog' \subseteq backlog
          /\ (\A i \in DOMAIN chan' : i \in DOMAIN chan /\ chan'[i] = chan[i])
      BY <1>1, <1>2
    <3> QED BY <1>1, <2>2, <3>1, <3>2, <3>3, <3>4, AbortKeepsOffsets
  <2> QED BY <2>1, <2>2
<1>6. TypeOK'
  <2>1. faults' \in 0..MaxFaults BY <1>1, ControlAssumption DEF IInv, TypeOK
  <2>2. sentMax' \in 0..LastOffset BY <1>1, ControlAssumption DEF IInv, TypeOK
  <2>3. app' \in [Appenders -> AppState] BY <1>1 DEF AppState, Idle
  <2>4. conn' \in {"closed", "opening", "broken"} BY <1>1
  <2> QED BY <1>1, <1>2, <1>3, <2>1, <2>2, <2>3, <2>4 DEF IInv, TypeOK
<1>8. LogInv'
  <2>1. \A a \in Appenders : app'[a].at = "idle" /\ app'[a].e = NoEntry BY <1>1 DEF Idle
  <2> QED BY <1>1, <2>1 DEF IInv, LogInv
<1>9. ShapeInv'
  <2>1. CASE conn \in {"closed", "opening"} /\ conn' = conn /\ sentMax' = sentMax
    BY <1>1, <2>1 DEF IInv, ShapeInv
  <2>2. CASE ~(conn \in {"closed", "opening"}) /\ conn' = "broken"
    BY <1>1, <2>2 DEF IInv, ShapeInv
  <2> QED BY <1>1, <2>1, <2>2
<1>10. OwedInv' BY <1>1, <1>2, <1>3 DEF IInv, OwedInv, Ahead
<1>11. StreamInv'
  <2>1. conn' # "live" BY <1>1
  <2> QED BY <1>1, <1>3, <2>1 DEF IInv, StreamInv, NotOvertaken, InWire, OutOfWire
<1> QED BY <1>3, <1>6, <1>8, <1>9, <1>10, <1>11 DEF IInv
-----------------------------------------------------------------------------
(* Steps of the control loop.                                              *)

LEMMA ConnectKeeps ==
  ASSUME IInv, Connect
  PROVE  IInv'
<1>1. /\ UNCHANGED <<rows, lastAcked, tx, app, pc, batch, hi, holPaused, stuckOffset, stuckFails,
                     committed, handled, parked, failures, missed, faults>>
      /\ ~connected /\ connected' = TRUE /\ cursor' = lastAcked
      /\ StartStream \/ UNCHANGED stream
  BY DEF Connect, center, history
<1>2. conn = "closed" /\ pc = "select" /\ batch = {} /\ hi = 0 /\ wire = <<>> /\ chan = <<>> /\ backlog = {}
      /\ sentMax = 0
  BY <1>1 DEF IInv, ShapeInv
<1>3. /\ chan' = <<>> /\ backlog' = {} /\ wire' = <<>>
      /\ \/ conn' = "opening" /\ sentMax' = cursor'
         \/ conn' = "closed" /\ sentMax' = sentMax
  BY <1>1, <1>2 DEF StartStream, stream
<1>4. lastAcked \in 0..LastOffset /\ lastAcked <= lastAcked BY DEF IInv, TypeOK
<1>5. Open' = Open /\ Allocated' = Allocated /\ Owed' = Owed
  BY <1>1 DEF Open, Allocated, Owed, Settled
<1>6. TypeOK' BY <1>1, <1>2, <1>3 DEF IInv, TypeOK
<1>7. OffsetsInv' BY <1>1, <1>3, <1>5 DEF IInv, OffsetsInv, Offs
<1>8. LogInv' BY <1>1, <1>5 DEF IInv, LogInv
<1>9. ShapeInv' BY <1>1, <1>2, <1>3, <1>4 DEF ShapeInv
<1>10. OwedInv' BY <1>1, <1>3, <1>5 DEF IInv, OwedInv, Ahead
<1>11. StreamInv' BY <1>3, EmptyStream
<1> QED BY <1>6, <1>7, <1>8, <1>9, <1>10, <1>11 DEF IInv

LEMMA PollKeeps ==
  ASSUME IInv, PollTick
  PROVE  IInv'
<1>1. /\ UNCHANGED <<rows, lastAcked, tx, app, conn, chan, backlog, sentMax, wire, connected, cursor,
                     holPaused, stuckOffset, stuckFails, committed, handled, parked, failures,
                     missed, faults>>
      /\ connected /\ pc = "select" /\ pc' = "poll" /\ batch' = ListAfter(cursor) /\ hi' = cursor
  BY DEF PollTick, center, stream, history
<1>2. /\ batch' \subseteq rows /\ rows \subseteq committed
      /\ \A c \in batch' : c.off > cursor
      /\ \A r \in rows : r.off > cursor => r \in batch'
  BY <1>1 DEF ListAfter, IInv, LogInv
<1>3. /\ cursor \in 0..LastOffset /\ lastAcked \in 0..LastOffset
      /\ \A r \in committed \cup Open : r.off \in 1..LastOffset
  BY OffsetTypes DEF IInv, TypeOK
<1>4. Open' = Open /\ Allocated' = Allocated /\ Owed' = Owed
  BY <1>1 DEF Open, Allocated, Owed, Settled
<1>5. TypeOK' BY <1>1, <1>2 DEF IInv, TypeOK
<1>6. OffsetsInv'
  <2>1. Offs(batch') \subseteq Allocated BY <1>2 DEF Offs, Allocated
  <2> QED BY <1>1, <1>4, <2>1 DEF IInv, OffsetsInv, Offs
<1>7. LogInv' BY <1>1, <1>4 DEF IInv, LogInv
<1>8. ShapeInv'
  <2>1. \A c \in batch' : c.off >= cursor
    BY <1>2, <1>3
  <2>2. cursor >= cursor BY <1>3
  <2> QED BY <1>1, <2>1, <2>2 DEF IInv, ShapeInv
<1>9. OwedInv'
  <2> SUFFICES ASSUME NEW r \in Owed' PROVE Ahead(r)' BY DEF OwedInv
  <2>1. Ahead(r) /\ r \in committed \cup Open BY <1>4 DEF IInv, OwedInv, Owed
  <2>2. r.off > cursor /\ r.off > lastAcked BY <1>1, <2>1 DEF Ahead
  <2>3. r \in batch' \/ \A c \in batch' : c.off < r.off
    <3>1. CASE r \in committed
      <4>1. r \in rows BY <1>3, <2>2, <3>1 DEF IInv, LogInv
      <4> QED BY <1>2, <2>2, <4>1
    <3>2. CASE r \in Open BY <1>2, <3>2 DEF Open, IInv, LogInv
    <3> QED BY <2>1, <3>1, <3>2
  <2> QED BY <1>1, <1>2, <1>4, <2>1, <2>2, <2>3 DEF Ahead
<1>10. StreamInv'
  <2>1. \A r : ~OutOfWire(r) BY <1>1 DEF OutOfWire
  <2>2. \A r : Pushing(r)' <=> Pushing(r) BY <1>1 DEF Pushing
  <2>3. \A r, n : (InWire(r, n)' <=> InWire(r, n)) /\ (InChan(r, n)' <=> InChan(r, n))
    BY <1>1 DEF InWire, InChan
  <2> SUFFICES ASSUME NEW r \in Owed' PROVE NotOvertaken(r)' BY DEF StreamInv
  <2>4. NotOvertaken(r) BY <1>4 DEF IInv, StreamInv
  <2> QED BY <1>1, <2>1, <2>2, <2>3, <2>4 DEF NotOvertaken
<1> QED BY <1>5, <1>6, <1>7, <1>8, <1>9, <1>10 DEF IInv

LEMMA PollFailsKeeps ==
  ASSUME IInv, PollFails
  PROVE  IInv'
<1>1. /\ UNCHANGED <<rows, lastAcked, tx, app, conn, chan, backlog, sentMax, wire, connected, cursor,
                     batch, holPaused, stuckOffset, stuckFails, committed, handled, parked, failures,
                     missed>>
      /\ connected /\ pc = "select" /\ pc' = "poll" /\ batch = {} /\ hi = 0 /\ hi' = cursor
      /\ faults < MaxFaults /\ faults' = faults + 1
  BY DEF PollFails, Fault, center, stream, IInv, ShapeInv
<1>2. /\ cursor \in 0..LastOffset
      /\ \A r \in committed \cup Open : r.off \in 1..LastOffset
  BY OffsetTypes DEF IInv, TypeOK
<1>3. Open' = Open /\ Allocated' = Allocated /\ Owed' = Owed
  BY <1>1 DEF Open, Allocated, Owed, Settled
<1>4. TypeOK'
  <2>1. faults' \in 0..MaxFaults BY <1>1, ControlAssumption DEF IInv, TypeOK
  <2> QED BY <1>1, <2>1 DEF IInv, TypeOK
<1>5. OffsetsInv' BY <1>1, <1>3 DEF IInv, OffsetsInv
<1>6. LogInv' BY <1>1, <1>3 DEF IInv, LogInv
<1>7. ShapeInv'
  <2>1. cursor >= cursor BY <1>2
  <2> QED BY <1>1, <2>1 DEF IInv, ShapeInv
<1>8. OwedInv'
  <2> SUFFICES ASSUME NEW r \in Owed' PROVE Ahead(r)' BY DEF OwedInv
  <2>1. Ahead(r) BY <1>3 DEF IInv, OwedInv
  <2> QED BY <1>1, <1>3, <2>1 DEF Ahead
<1>9. StreamInv'
  <2>1. \A r : ~OutOfWire(r) BY <1>1 DEF OutOfWire
  <2>2. \A r : Pushing(r)' <=> Pushing(r) BY <1>1 DEF Pushing
  <2>3. \A r, n : (InWire(r, n)' <=> InWire(r, n)) /\ (InChan(r, n)' <=> InChan(r, n))
    BY <1>1 DEF InWire, InChan
  <2> SUFFICES ASSUME NEW r \in Owed' PROVE NotOvertaken(r)' BY DEF StreamInv
  <2>4. NotOvertaken(r) BY <1>3 DEF IInv, StreamInv
  <2> QED BY <1>1, <2>1, <2>2, <2>3, <2>4 DEF NotOvertaken
<1> QED BY <1>4, <1>5, <1>6, <1>7, <1>8, <1>9 DEF IInv

LEMMA StreamEndedKeeps ==
  ASSUME IInv, StreamEnded
  PROVE  IInv'
<1>1. /\ UNCHANGED <<rows, lastAcked, tx, app, connected, cursor, pc, batch, hi,
                     holPaused, stuckOffset, stuckFails, committed, handled, parked, failures,
                     missed, faults>>
      /\ pc = "select" /\ conn' = "closed"
      /\ chan' = <<>> /\ backlog' = {} /\ sentMax' = 0 /\ wire' = <<>>
  BY DEF StreamEnded, StopStream, center, loop, history
<1>2. /\ chan' \in Seq(Entries) /\ Len(chan') = 0 /\ DOMAIN chan' = {} /\ 0 <= ChanCap
      /\ wire' \in Seq(Entries) /\ Len(wire') = 0 /\ DOMAIN wire' = {} /\ 0 <= WireCap
      /\ sentMax' \in 0..LastOffset
  BY <1>1, ControlAssumption
<1>3. Open' = Open /\ Allocated' = Allocated /\ Owed' = Owed
  BY <1>1 DEF Open, Allocated, Owed, Settled
<1>4. TypeOK' BY <1>1, <1>2 DEF IInv, TypeOK
<1>5. OffsetsInv' BY <1>1, <1>2, <1>3 DEF IInv, OffsetsInv, Offs
<1>6. LogInv' BY <1>1, <1>3 DEF IInv, LogInv
<1>7. ShapeInv' BY <1>1 DEF IInv, ShapeInv
<1>8. OwedInv' BY <1>1, <1>2, <1>3 DEF IInv, OwedInv, Ahead
<1>9. StreamInv' BY <1>1, EmptyStream
<1> QED BY <1>4, <1>5, <1>6, <1>7, <1>8, <1>9 DEF IInv

LEMMA RecvKeeps ==
  ASSUME IInv, StreamRecv
  PROVE  IInv'
<1> DEFINE h == Head(wire)
<1>1. /\ UNCHANGED <<rows, lastAcked, tx, app, conn, chan, backlog, sentMax, connected, cursor,
                     holPaused, stuckOffset, stuckFails, committed, handled, parked, failures,
                     missed, faults>>
      /\ connected /\ pc = "select" /\ wire # <<>> /\ wire' = Tail(wire)
      /\ \/ h.off <= cursor /\ UNCHANGED <<pc, batch, hi>>
         \/ ~(h.off <= cursor) /\ pc' = "stream" /\ batch' = {h} /\ hi' = cursor
  BY DEF StreamRecv, center, history
<1>2. /\ h = wire[1] /\ 1 \in DOMAIN wire /\ h \in Entries
      /\ wire' \in Seq(Entries) /\ Len(wire') = Len(wire) - 1
      /\ \A i \in DOMAIN wire' : i + 1 \in DOMAIN wire /\ wire'[i] = wire[i + 1]
      /\ \A i \in DOMAIN wire : i # 1 => i - 1 \in DOMAIN wire' /\ wire'[i - 1] = wire[i]
  BY <1>1, Dropped DEF IInv, TypeOK
<1>3. /\ h.off \in 1..LastOffset /\ cursor \in 0..LastOffset
      /\ \A r \in committed \cup Open : r.off \in 1..LastOffset
      /\ Len(wire) \in Nat /\ DOMAIN wire = 1..Len(wire) /\ DOMAIN wire' = 1..Len(wire')
  BY <1>2, OffsetTypes DEF IInv, TypeOK
<1>4. batch = {} /\ hi = 0 /\ conn # "closed" BY <1>1 DEF IInv, ShapeInv
<1>5. Open' = Open /\ Allocated' = Allocated /\ Owed' = Owed
  BY <1>1 DEF Open, Allocated, Owed, Settled
<1>6. TypeOK'
  <2>1. Len(wire') <= WireCap BY <1>2, <1>3, ControlAssumption DEF IInv, TypeOK
  <2>2. pc' \in {"select", "poll", "stream"} /\ batch' \subseteq Entries /\ hi' \in 0..LastOffset
    BY <1>1, <1>2 DEF IInv, TypeOK
  <2> QED BY <1>1, <1>2, <2>1, <2>2 DEF IInv, TypeOK
<1>7. OffsetsInv'
  <2>1. h.off \in Allocated BY <1>2 DEF IInv, OffsetsInv
  <2>2. Offs(batch') \subseteq Allocated BY <1>1, <1>4, <2>1 DEF Offs
  <2>3. hi' \in Allocated \cup {0} BY <1>1, <1>4 DEF IInv, OffsetsInv
  <2> QED BY <1>1, <1>2, <1>5, <2>2, <2>3 DEF IInv, OffsetsInv, Offs
<1>8. LogInv' BY <1>1, <1>5 DEF IInv, LogInv
<1>9. ShapeInv'
  <2>1. ~(h.off <= cursor) => h.off >= cursor /\ cursor >= cursor BY <1>3
  <2>2. conn = "subscribed" => FALSE BY <1>1 DEF IInv, ShapeInv
  <2> QED BY <1>1, <1>4, <2>1, <2>2 DEF IInv, ShapeInv
<1>10. ASSUME NEW r \in Owed
       PROVE  /\ r.off \in 1..LastOffset /\ Ahead(r) /\ NotOvertaken(r)
              /\ r.off > cursor /\ (h.off = r.off => h = r) /\ ~(r.off < h.off)
  <2>1. r.off \in 1..LastOffset /\ Ahead(r) /\ NotOvertaken(r)
    BY <1>3 DEF IInv, OwedInv, StreamInv, Owed
  <2>2. r.off > cursor /\ (h.off = r.off => h = r) BY <1>1, <1>2, <2>1 DEF Ahead
  <2>3. ~InWire(r, 1)
    <3>1. \A i \in DOMAIN wire : ~(i < 1) BY <1>3
    <3> QED BY <3>1 DEF InWire
  <2>4. ~OutOfWire(r) BY <1>1 DEF OutOfWire
  <2>5. ~(wire[1].off > r.off) BY <1>2, <2>1, <2>3, <2>4 DEF NotOvertaken
  <2>6. r.off < h.off => wire[1].off > r.off BY <1>2, <1>3, <2>1
  <2> QED BY <2>1, <2>2, <2>5, <2>6
<1>11. OwedInv'
  <2> SUFFICES ASSUME NEW r \in Owed' PROVE Ahead(r)' BY DEF OwedInv
  <2>1. Ahead(r) /\ r.off > cursor /\ (h.off = r.off => h = r) /\ (h = r \/ h.off < r.off)
    BY <1>3, <1>5, <1>10
  <2>2. \A i \in DOMAIN wire' : wire'[i].off = r.off => wire'[i] = r BY <1>2, <2>1 DEF Ahead
  <2> QED BY <1>1, <1>4, <1>5, <2>1, <2>2 DEF Ahead
<1>12. StreamInv'
  <2> SUFFICES ASSUME NEW r \in Owed' PROVE NotOvertaken(r)' BY DEF StreamInv
  <2>1. /\ r.off \in 1..LastOffset /\ NotOvertaken(r) /\ r.off > cursor BY <1>5, <1>10
  <2>2. (Pushing(r)' <=> Pushing(r)) /\ \A n : InChan(r, n)' <=> InChan(r, n)
    BY <1>1 DEF Pushing, InChan
  <2>3. ~OutOfWire(r) BY <1>1 DEF OutOfWire
  (* The frame taken is r, which the loop now handles, or the others move  *)
  (* up.                                                                   *)
  <2>4. r = h => OutOfWire(r)'
    <3> SUFFICES ASSUME r = h PROVE OutOfWire(r)' OBVIOUS
    <3>1. ~(h.off <= cursor) BY <1>3, <2>1
    <3>2. pc' = "stream" /\ r \in batch' BY <1>1, <3>1
    <3> QED BY <3>2 DEF OutOfWire
  <2>5. r = h \/ \A n \in Nat : InWire(r, n + 1) => InWire(r, n)'
    <3> SUFFICES ASSUME r # h, NEW n \in Nat, NEW i \in DOMAIN wire, i < n + 1, wire[i] = r
                 PROVE  InWire(r, n)'
      BY DEF InWire
    <3>1. i # 1 BY <1>2
    <3>2. i - 1 \in DOMAIN wire' /\ wire'[i - 1] = r /\ i - 1 < n BY <1>2, <1>3, <3>1
    <3> QED BY <3>2 DEF InWire
  <2>6. r = h \/ (InWire(r, Len(wire) + 1) => InWire(r, Len(wire) + 1)')
    <3> SUFFICES ASSUME r # h, NEW i \in DOMAIN wire, wire[i] = r
                 PROVE  InWire(r, Len(wire) + 1)'
      BY DEF InWire
    <3>1. i # 1 BY <1>2
    <3>2. i - 1 \in DOMAIN wire' /\ wire'[i - 1] = r BY <1>2, <3>1
    <3>3. \A j \in DOMAIN wire' : j < Len(wire') + 1 BY <1>2, <1>3
    <3> QED BY <3>2, <3>3 DEF InWire
  <2>7. ASSUME NEW i \in DOMAIN wire', wire'[i].off > r.off PROVE InWire(r, i)' \/ OutOfWire(r)'
    <3>1. i + 1 \in DOMAIN wire /\ wire[i + 1].off > r.off /\ i \in Nat BY <1>2, <1>3, <2>7
    <3>2. InWire(r, i + 1) BY <2>1, <2>3, <3>1 DEF NotOvertaken
    <3> QED BY <2>4, <2>5, <3>1, <3>2
  <2>8. conn = "live" /\ r.off <= sentMax => InWire(r, Len(wire) + 1)' \/ OutOfWire(r)'
    BY <2>1, <2>3, <2>4, <2>6 DEF NotOvertaken
  <2> QED BY <1>1, <2>1, <2>2, <2>7, <2>8 DEF NotOvertaken
<1> QED BY <1>6, <1>7, <1>8, <1>9, <1>11, <1>12 DEF IInv

(* The head of the batch is through: handled, or skipped because it was    *)
(* tried often enough.                                                     *)
LEMMA HeadKeeps ==
  ASSUME IInv, NEW cmd \in batch, IsFirst(cmd, batch),
         UNCHANGED <<rows, lastAcked, tx, app, conn, chan, backlog, sentMax, wire, connected, cursor,
                     pc, holPaused, committed, missed, faults>>,
         handled \cup parked \subseteq handled' \cup parked',
         handled' \cup parked' = handled \cup parked \cup {cmd},
         hi' = cmd.off, batch' = batch \ {cmd}
  PROVE  OffsetsInv' /\ LogInv' /\ ShapeInv' /\ OwedInv' /\ StreamInv'
<1>1. /\ \A q \in batch : cmd.off <= q.off
      /\ cmd.off \in 1..LastOffset /\ cmd.off \in Allocated
      /\ cursor \in 0..LastOffset /\ hi \in 0..LastOffset
      /\ \A c \in batch : c.off \in 1..LastOffset
      /\ \A r \in committed \cup Open : r.off \in 1..LastOffset
  BY OffsetTypes DEF IsFirst, IInv, TypeOK, OffsetsInv, Offs
<1>2. /\ pc # "select" /\ hi >= cursor /\ \A c \in batch : c.off >= hi
      /\ pc = "stream" => conn # "closed" /\ hi = cursor /\ batch = {cmd}
  BY DEF IInv, ShapeInv
<1>3. Open' = Open /\ Allocated' = Allocated BY DEF Open, Allocated
<1>4. \A r : Settled(r)' <=> (Settled(r) \/ r = cmd) BY DEF Settled
<1>5. Owed' = Owed \ {cmd} BY <1>3, <1>4 DEF Owed
<1>6. OffsetsInv'
  <2>1. Offs(batch' \cup backlog' \cup handled' \cup parked') \subseteq Offs(batch \cup backlog \cup handled \cup parked)
    BY DEF Offs
  <2> QED BY <1>1, <1>3, <2>1 DEF IInv, OffsetsInv
<1>7. LogInv' BY <1>3 DEF IInv, LogInv
<1>8. ShapeInv'
  <2>1. cmd.off >= cursor /\ \A c \in batch' : c.off >= cmd.off BY <1>1, <1>2
  <2>2. pc = "stream" => conn # "closed" /\ batch' = {} BY <1>2
  <2> QED BY <1>2, <2>1, <2>2 DEF IInv, ShapeInv
<1>9. ASSUME NEW r \in Owed' PROVE Ahead(r) /\ r # cmd /\ cmd.off < r.off
  <2>1. Ahead(r) /\ r # cmd /\ r.off \in 1..LastOffset BY <1>1, <1>5 DEF IInv, OwedInv, Owed
  <2>2. r \in batch \/ cmd.off < r.off BY <2>1 DEF Ahead
  <2>3. r \in batch => cmd.off <= r.off BY <1>1
  <2>4. cmd.off = r.off => r = cmd BY <2>1 DEF Ahead
  <2> QED BY <1>1, <2>1, <2>2, <2>3, <2>4
<1>10. OwedInv'
  <2> SUFFICES ASSUME NEW r \in Owed' PROVE Ahead(r)' BY DEF OwedInv
  <2>1. Ahead(r) /\ r # cmd /\ cmd.off < r.off /\ r.off > cmd.off BY <1>1, <1>5, <1>9 DEF Owed
  <2> QED BY <1>3, <2>1 DEF Ahead
<1>11. StreamInv'
  <2> SUFFICES ASSUME NEW r \in Owed' PROVE NotOvertaken(r)' BY DEF StreamInv
  <2>1. NotOvertaken(r) /\ r # cmd BY <1>5 DEF IInv, StreamInv
  <2>2. ~OutOfWire(r) BY <1>2, <2>1 DEF OutOfWire
  <2>3. (Pushing(r)' <=> Pushing(r)) /\ \A n : (InWire(r, n)' <=> InWire(r, n)) /\ (InChan(r, n)' <=> InChan(r, n))
    BY DEF Pushing, InWire, InChan
  <2> QED BY <2>1, <2>2, <2>3 DEF NotOvertaken
<1> QED BY <1>6, <1>7, <1>8, <1>10, <1>11

LEMMA HandleOkKeeps ==
  ASSUME IInv, NEW cmd \in batch, HandleOk(cmd)
  PROVE  IInv'
<1>1. /\ UNCHANGED <<rows, lastAcked, tx, app, conn, chan, backlog, sentMax, wire, connected, cursor,
                     pc, holPaused, stuckOffset, stuckFails, committed, parked, missed, faults>>
      /\ IsFirst(cmd, batch) /\ handled' = handled \cup {cmd} /\ hi' = cmd.off /\ batch' = batch \ {cmd}
      /\ failures' = [failures EXCEPT ![cmd.off] = 0]
  BY DEF HandleOk, center, stream
<1>2. cmd \in Entries /\ cmd.off \in 1..LastOffset BY OffsetTypes DEF IInv
<1>3. TypeOK'
  <2>1. failures' \in [1..LastOffset -> 0..ParkThreshold]
    BY <1>1, <1>2, ControlAssumption DEF IInv, TypeOK
  <2> QED BY <1>1, <1>2, <2>1 DEF IInv, TypeOK
<1>4. OffsetsInv' /\ LogInv' /\ ShapeInv' /\ OwedInv' /\ StreamInv' BY <1>1, HeadKeeps
<1> QED BY <1>3, <1>4 DEF IInv

LEMMA HandleFailKeeps ==
  ASSUME IInv, NEW cmd \in batch, HandleFail(cmd)
  PROVE  IInv'
<1>1. /\ UNCHANGED <<rows, lastAcked, tx, app, conn, chan, backlog, sentMax, wire, connected, cursor,
                     pc, holPaused, committed, handled, missed, faults>>
      /\ IsFirst(cmd, batch) /\ stuckOffset' = cmd.off /\ stuckFails' = StuckAfter(cmd.off)
      /\ \/ /\ parked' = parked \cup {cmd} /\ hi' = cmd.off /\ batch' = batch \ {cmd}
            /\ failures' = [failures EXCEPT ![cmd.off] = 0]
         \/ /\ batch' = {} /\ UNCHANGED <<parked, hi>>
            /\ failures' = [failures EXCEPT ![cmd.off] = IF @ < ParkThreshold THEN @ + 1 ELSE @]
  BY DEF HandleFail, center, stream
<1>2. cmd \in Entries /\ cmd.off \in 1..LastOffset BY OffsetTypes DEF IInv
<1>3. TypeOK'
  <2>1. failures' \in [1..LastOffset -> 0..ParkThreshold]
    <3>1. \A n \in 0..ParkThreshold : (IF n < ParkThreshold THEN n + 1 ELSE n) \in 0..ParkThreshold
      BY ControlAssumption
    <3>2. 0 \in 0..ParkThreshold BY ControlAssumption
    <3> QED BY <1>1, <1>2, <3>1, <3>2 DEF IInv, TypeOK
  <2>2. stuckFails' \in Nat BY <1>1 DEF StuckAfter, IInv, TypeOK
  <2>3. parked' \subseteq Entries /\ batch' \subseteq Entries /\ hi' \in 0..LastOffset
        /\ stuckOffset' \in 0..LastOffset
    BY <1>1, <1>2 DEF IInv, TypeOK
  <2>4. UNCHANGED <<rows, lastAcked, tx, app, conn, chan, backlog, sentMax, wire, connected, cursor,
                    pc, holPaused, committed, handled, missed, faults>>
    BY <1>1
  <2> QED BY <2>1, <2>2, <2>3, <2>4 DEF IInv, TypeOK
<1>4. CASE parked' = parked \cup {cmd} /\ hi' = cmd.off /\ batch' = batch \ {cmd}
  <2>1. OffsetsInv' /\ LogInv' /\ ShapeInv' /\ OwedInv' /\ StreamInv' BY <1>1, <1>4, HeadKeeps
  <2> QED BY <1>3, <2>1 DEF IInv
<1>5. CASE batch' = {} /\ UNCHANGED <<parked, hi>>
  <2>1. Open' = Open /\ Allocated' = Allocated /\ Owed' = Owed
    BY <1>1, <1>5 DEF Open, Allocated, Owed, Settled
  <2>2. OffsetsInv' BY <1>1, <1>5, <2>1 DEF IInv, OffsetsInv, Offs
  <2>3. LogInv' BY <1>1, <2>1 DEF IInv, LogInv
  <2>4. ShapeInv' BY <1>1, <1>5 DEF IInv, ShapeInv
  <2>5. OwedInv' BY <1>1, <1>5, <2>1 DEF IInv, OwedInv, Ahead
  <2>6. StreamInv'
    <3> SUFFICES ASSUME NEW r \in Owed' PROVE NotOvertaken(r)' BY DEF StreamInv
    <3>1. NotOvertaken(r) BY <2>1 DEF IInv, StreamInv
    <3>2. OutOfWire(r) => OutOfWire(r)' BY <1>1, <1>5 DEF OutOfWire, IInv, ShapeInv
    <3>3. (Pushing(r)' <=> Pushing(r)) /\ \A n : (InWire(r, n)' <=> InWire(r, n)) /\ (InChan(r, n)' <=> InChan(r, n))
      BY <1>1 DEF Pushing, InWire, InChan
    <3> QED BY <1>1, <3>1, <3>2, <3>3 DEF NotOvertaken
  <2> QED BY <1>3, <2>2, <2>3, <2>4, <2>5, <2>6 DEF IInv
<1> QED BY <1>1, <1>4, <1>5

(* A batch is through: the positions that the ack may have moved, and the  *)
(* stream as it is, closed, or opened anew.                                *)
LEMMA BatchKeeps ==
  ASSUME IInv, BatchDone, AfterBatch,
         UNCHANGED <<rows, tx, app, connected, committed, handled, parked, missed>>,
         cursor' = cursor \/ (hi > cursor /\ cursor' = hi /\ lastAcked' >= hi),
         UNCHANGED lastAcked \/ (tx = NoEntry /\ lastAcked' = hi /\ hi > lastAcked)
  PROVE  /\ OffsetsInv' /\ LogInv' /\ ShapeInv' /\ OwedInv' /\ StreamInv'
         /\ conn' \in {"closed", "opening", "subscribed", "live", "broken"}
         /\ chan' \in Seq(Entries) /\ Len(chan') <= ChanCap
         /\ backlog' \subseteq Entries
         /\ sentMax' \in 0..LastOffset /\ wire' \in Seq(Entries) /\ Len(wire') <= WireCap
         /\ cursor' \in 0..LastOffset /\ lastAcked' \in 0..LastOffset /\ holPaused' \in BOOLEAN
<1>1. pc # "select" /\ batch = {} /\ pc' = "select" /\ hi' = 0 /\ batch' = {} BY DEF BatchDone
<1>2. /\ lastAcked \in 0..LastOffset /\ cursor \in 0..LastOffset /\ hi \in 0..LastOffset
      /\ sentMax \in 0..LastOffset
      /\ \A r \in committed \cup Open : r.off \in 1..LastOffset
      /\ \A r \in rows : r.off \in 1..LastOffset
      /\ \A a \in Appenders : app[a].at = "insert" => app[a].e.off \in 1..LastOffset
  BY OffsetTypes DEF IInv, TypeOK, LogInv, AppState
<1>3. connected BY <1>1 DEF IInv, ShapeInv
<1>4. /\ cursor' \in 0..LastOffset /\ lastAcked' \in 0..LastOffset
      /\ cursor <= cursor' /\ lastAcked <= lastAcked'
      /\ {cursor', lastAcked'} \subseteq {cursor, hi, lastAcked}
      /\ 0 <= cursor' /\ cursor' <= cursor'
  BY <1>2
<1>5. \/ UNCHANGED <<conn, chan, backlog, sentMax, wire>> /\ (pc = "stream" => cursor' > cursor)
      \/ /\ conn' = "closed" /\ chan' = <<>> /\ backlog' = {} /\ sentMax' = 0 /\ wire' = <<>>
      \/ /\ conn' = "opening" /\ chan' = <<>> /\ backlog' = {} /\ sentMax' = cursor' /\ wire' = <<>>
  BY DEF AfterBatch, StartStream, StopStream, stream
<1>6. Open' = Open /\ Allocated' = Allocated /\ Owed' = Owed
  BY DEF Open, Allocated, Owed, Settled
<1>7. /\ Len(<<>>) = 0 /\ DOMAIN <<>> = {} /\ <<>> \in Seq(Entries) /\ 0 \in 0..LastOffset
      /\ 0 <= ChanCap /\ 0 <= WireCap
  BY ControlAssumption
<1>8. OffsetsInv'
  <2>1. {lastAcked', cursor', hi', sentMax'} \subseteq Allocated \cup {0}
    BY <1>1, <1>4, <1>5 DEF IInv, OffsetsInv
  <2>2. Offs(batch' \cup backlog' \cup handled' \cup parked') \subseteq Offs(batch \cup backlog \cup handled \cup parked)
    BY <1>1, <1>5 DEF Offs
  <2>3. /\ \A i \in DOMAIN chan' : chan'[i].off \in Allocated
        /\ \A i \in DOMAIN wire' : wire'[i].off \in Allocated
    BY <1>5, <1>7 DEF IInv, OffsetsInv
  <2> QED BY <1>6, <2>1, <2>2, <2>3 DEF IInv, OffsetsInv
<1>9. LogInv'
  <2>1. \A r \in committed \ rows : r.off <= lastAcked'
    <3>1. \A r \in committed \ rows : r.off <= lastAcked BY DEF IInv, LogInv
    <3> QED BY <1>2, <1>4, <3>1
  <2>2. tx # NoEntry => UNCHANGED lastAcked OBVIOUS
  <2>3. \A a \in Appenders : app[a].at = "insert" /\ lastAcked >= app[a].e.off - 1 => lastAcked' >= app[a].e.off - 1
    BY <1>2, <1>4
  <2> QED BY <1>6, <2>1, <2>2, <2>3 DEF IInv, LogInv
<1>10. ShapeInv'
  <2>1. conn \in {"opening", "subscribed"} => sentMax <= cursor' BY <1>2, <1>4 DEF IInv, ShapeInv
  <2> QED BY <1>1, <1>3, <1>4, <1>5, <2>1 DEF IInv, ShapeInv
<1>11. OwedInv'
  <2> SUFFICES ASSUME NEW r \in Owed' PROVE Ahead(r)' BY DEF OwedInv
  <2>1. Ahead(r) /\ r.off \in 1..LastOffset BY <1>2, <1>6 DEF IInv, OwedInv, Owed
  <2>2. r.off > lastAcked' /\ r.off > cursor' /\ r.off > 0 BY <1>3, <2>1 DEF Ahead
  <2>3. /\ \A i \in DOMAIN chan' : chan'[i].off = r.off => chan'[i] = r
        /\ \A i \in DOMAIN wire' : wire'[i].off = r.off => wire'[i] = r
    BY <1>5, <1>7, <2>1 DEF Ahead
  <2>4. backlog' \subseteq backlog BY <1>5
  <2> QED BY <1>1, <1>6, <2>1, <2>2, <2>3, <2>4 DEF Ahead
<1>12. StreamInv'
  <2>1. CASE UNCHANGED <<conn, chan, backlog, sentMax, wire>> /\ (pc = "stream" => cursor' > cursor)
    <3> SUFFICES ASSUME NEW r \in Owed' PROVE NotOvertaken(r)' BY DEF StreamInv
    <3>1. NotOvertaken(r) BY <1>6 DEF IInv, StreamInv
    <3>2. pc = "stream" => hi # cursor BY <1>2, <2>1
    <3>3. ~OutOfWire(r) BY <1>1, <3>2 DEF OutOfWire
    <3>4. (Pushing(r)' <=> Pushing(r)) /\ \A n : (InWire(r, n)' <=> InWire(r, n)) /\ (InChan(r, n)' <=> InChan(r, n))
      BY <2>1 DEF Pushing, InWire, InChan
    <3> QED BY <2>1, <3>1, <3>3, <3>4 DEF NotOvertaken
  <2>2. CASE wire' = <<>> /\ conn' # "live" BY <2>2, EmptyStream
  <2> QED BY <1>5, <2>1, <2>2
<1>13. /\ conn' \in {"closed", "opening", "subscribed", "live", "broken"}
       /\ chan' \in Seq(Entries) /\ Len(chan') <= ChanCap
       /\ backlog' \subseteq Entries
       /\ sentMax' \in 0..LastOffset /\ wire' \in Seq(Entries) /\ Len(wire') <= WireCap
  BY <1>4, <1>5, <1>7 DEF IInv, TypeOK
<1>14. holPaused' \in BOOLEAN BY DEF AfterBatch, IInv, TypeOK
<1> QED BY <1>4, <1>8, <1>9, <1>10, <1>11, <1>12, <1>13, <1>14

LEMMA NothingKeeps ==
  ASSUME IInv, NothingToAck
  PROVE  IInv'
<1>1. /\ UNCHANGED <<rows, lastAcked, tx, app, connected, stuckOffset, stuckFails, committed, handled,
                     parked, failures, missed, faults>>
      /\ BatchDone /\ AfterBatch /\ cursor' = cursor
  BY DEF NothingToAck, center, history
<1>2. /\ OffsetsInv' /\ LogInv' /\ ShapeInv' /\ OwedInv' /\ StreamInv'
      /\ conn' \in {"closed", "opening", "subscribed", "live", "broken"}
      /\ chan' \in Seq(Entries) /\ Len(chan') <= ChanCap
      /\ backlog' \subseteq Entries
      /\ sentMax' \in 0..LastOffset /\ wire' \in Seq(Entries) /\ Len(wire') <= WireCap
      /\ cursor' \in 0..LastOffset /\ lastAcked' \in 0..LastOffset /\ holPaused' \in BOOLEAN
  BY <1>1, BatchKeeps
<1>3. pc' = "select" /\ hi' \in 0..LastOffset /\ batch' = {}
  BY <1>1, ControlAssumption DEF BatchDone
<1>4. TypeOK' BY <1>1, <1>2, <1>3 DEF IInv, TypeOK
<1> QED BY <1>2, <1>4 DEF IInv

LEMMA AckOkKeeps ==
  ASSUME IInv, AckOk
  PROVE  IInv'
<1>1. /\ UNCHANGED <<rows, tx, app, connected, committed, handled, parked, failures, missed, faults>>
      /\ BatchDone /\ AfterBatch /\ hi > cursor /\ tx = NoEntry /\ cursor' = hi
      /\ lastAcked' = (IF hi > lastAcked THEN hi ELSE lastAcked)
      /\ stuckOffset' = 0 /\ stuckFails' = 0
  BY DEF AckOk, history
<1>2. lastAcked \in 0..LastOffset /\ hi \in 0..LastOffset BY DEF IInv, TypeOK
<1>3. lastAcked' >= hi /\ (UNCHANGED lastAcked \/ (tx = NoEntry /\ lastAcked' = hi /\ hi > lastAcked))
  BY <1>1, <1>2
<1>4. /\ OffsetsInv' /\ LogInv' /\ ShapeInv' /\ OwedInv' /\ StreamInv'
      /\ conn' \in {"closed", "opening", "subscribed", "live", "broken"}
      /\ chan' \in Seq(Entries) /\ Len(chan') <= ChanCap
      /\ backlog' \subseteq Entries
      /\ sentMax' \in 0..LastOffset /\ wire' \in Seq(Entries) /\ Len(wire') <= WireCap
      /\ cursor' \in 0..LastOffset /\ lastAcked' \in 0..LastOffset /\ holPaused' \in BOOLEAN
  BY <1>1, <1>3, BatchKeeps
<1>5. /\ pc' = "select" /\ hi' \in 0..LastOffset /\ batch' = {}
      /\ stuckOffset' \in 0..LastOffset /\ stuckFails' \in Nat
  BY <1>1, ControlAssumption DEF BatchDone
<1>6. TypeOK' BY <1>1, <1>4, <1>5 DEF IInv, TypeOK
<1> QED BY <1>4, <1>6 DEF IInv

LEMMA AckFailKeeps ==
  ASSUME IInv, AckFail
  PROVE  IInv'
<1>1. /\ UNCHANGED <<rows, tx, app, connected, stuckOffset, stuckFails, committed, handled, parked,
                     failures, missed>>
      /\ BatchDone /\ AfterBatch /\ cursor' = cursor
      /\ \/ UNCHANGED lastAcked
         \/ tx = NoEntry /\ lastAcked' = (IF hi > lastAcked THEN hi ELSE lastAcked)
      /\ faults < MaxFaults /\ faults' = faults + 1
  BY DEF AckFail, Fault
<1>2. UNCHANGED lastAcked \/ (tx = NoEntry /\ lastAcked' = hi /\ hi > lastAcked) BY <1>1
<1>3. /\ OffsetsInv' /\ LogInv' /\ ShapeInv' /\ OwedInv' /\ StreamInv'
      /\ conn' \in {"closed", "opening", "subscribed", "live", "broken"}
      /\ chan' \in Seq(Entries) /\ Len(chan') <= ChanCap
      /\ backlog' \subseteq Entries
      /\ sentMax' \in 0..LastOffset /\ wire' \in Seq(Entries) /\ Len(wire') <= WireCap
      /\ cursor' \in 0..LastOffset /\ lastAcked' \in 0..LastOffset /\ holPaused' \in BOOLEAN
  BY <1>1, <1>2, BatchKeeps
<1>4. pc' = "select" /\ hi' \in 0..LastOffset /\ batch' = {} /\ faults' \in 0..MaxFaults
  BY <1>1, ControlAssumption DEF BatchDone, IInv, TypeOK
<1>5. TypeOK' BY <1>1, <1>3, <1>4 DEF IInv, TypeOK
<1> QED BY <1>3, <1>5 DEF IInv

LEMMA WorkerRestartKeeps ==
  ASSUME IInv, WorkerRestart
  PROVE  IInv'
<1>1. /\ UNCHANGED <<rows, lastAcked, tx, app, committed, handled, parked, failures, missed>>
      /\ connected' = FALSE /\ cursor' = 0 /\ pc' = "select" /\ batch' = {} /\ hi' = 0
      /\ holPaused' = FALSE /\ stuckOffset' = 0 /\ stuckFails' = 0
      /\ conn' = "closed" /\ chan' = <<>> /\ backlog' = {} /\ sentMax' = 0 /\ wire' = <<>>
      /\ faults < MaxFaults /\ faults' = faults + 1
  BY DEF WorkerRestart, StopStream, center, Fault
<1>2. /\ Len(<<>>) = 0 /\ DOMAIN <<>> = {} /\ <<>> \in Seq(Entries) /\ 0 \in 0..LastOffset
      /\ 0 <= ChanCap /\ 0 <= WireCap /\ 0 \in Nat
  BY ControlAssumption
<1>3. Open' = Open /\ Allocated' = Allocated /\ Owed' = Owed
  BY <1>1 DEF Open, Allocated, Owed, Settled
<1>4. TypeOK'
  <2>1. faults' \in 0..MaxFaults BY <1>1, ControlAssumption DEF IInv, TypeOK
  <2> QED BY <1>1, <1>2, <2>1 DEF IInv, TypeOK
<1>5. OffsetsInv' BY <1>1, <1>2, <1>3 DEF IInv, OffsetsInv, Offs
<1>6. LogInv' BY <1>1, <1>3 DEF IInv, LogInv
<1>7. ShapeInv' BY <1>1 DEF ShapeInv
<1>8. OwedInv'
  <2>1. \A r \in Owed : r.off > 0 BY OffsetTypes DEF IInv, Owed
  <2> QED BY <1>1, <1>2, <1>3, <2>1 DEF IInv, OwedInv, Ahead
<1>9. StreamInv' BY <1>1, EmptyStream
<1> QED BY <1>4, <1>5, <1>6, <1>7, <1>8, <1>9 DEF IInv
-----------------------------------------------------------------------------
(* The inductive invariant.                                                *)
LEMMA InitIInv == Init => IInv
<1> SUFFICES ASSUME Init PROVE IInv OBVIOUS
<1>1. /\ Len(<<>>) = 0 /\ DOMAIN <<>> = {} /\ <<>> \in Seq(Entries) /\ 0 \in 0..LastOffset
      /\ 0 <= ChanCap /\ 0 <= WireCap /\ 0 \in Nat /\ 0 \in 0..MaxFaults
      /\ [o \in 1..LastOffset |-> 0] \in [1..LastOffset -> 0..ParkThreshold]
  BY ControlAssumption
<1>2. Open = {} /\ Allocated = {} /\ Owed = {} BY DEF Init, Open, Allocated, Owed, Offs
<1>3. app \in [Appenders -> AppState] /\ \A a \in Appenders : app[a] = Idle
  BY DEF Init, AppState, Idle
<1>4. TypeOK BY <1>1, <1>3 DEF Init, TypeOK
<1>5. OffsetsInv BY <1>1, <1>2 DEF Init, OffsetsInv, Offs
<1>6. LogInv BY <1>3 DEF Init, LogInv, Idle
<1>7. ShapeInv BY DEF Init, ShapeInv
<1>8. OwedInv /\ StreamInv BY <1>2 DEF OwedInv, StreamInv
<1> QED BY <1>4, <1>5, <1>6, <1>7, <1>8 DEF IInv

LEMMA NextIInv == IInv /\ [Next]_vars => IInv'
<1> SUFFICES ASSUME IInv, [Next]_vars PROVE IInv' OBVIOUS
<1>1. ASSUME Appending PROVE IInv'
  BY <1>1, ReadKeeps, InsertKeeps, PublishKeeps, AppendKeeps, CommitKeeps, RollbackKeeps, PruneKeeps
  DEF Appending
<1>2. ASSUME Streaming PROVE IInv'
  BY <1>2, SubscribeKeeps, CatchUpKeeps, SendKeeps, ForwardKeeps, BreakKeeps, CenterRestartKeeps DEF Streaming
<1>3. ASSUME Looping PROVE IInv'
  BY <1>3, ConnectKeeps, PollKeeps, PollFailsKeeps, RecvKeeps, StreamEndedKeeps, HandleOkKeeps, HandleFailKeeps,
     NothingKeeps, AckOkKeeps, AckFailKeeps, WorkerRestartKeeps
  DEF Looping
<1>4. ASSUME UNCHANGED vars PROVE IInv'
  <2>1. UNCHANGED <<rows, lastAcked, tx, app, conn, chan, backlog, sentMax, wire, connected, cursor, pc,
                    batch, hi, holPaused, stuckOffset, stuckFails, committed, handled, parked, failures,
                    missed, faults>>
    BY <1>4 DEF vars, center, stream, loop, history
  <2>2. Open' = Open /\ Allocated' = Allocated /\ Owed' = Owed
    BY <2>1 DEF Open, Allocated, Owed, Settled
  <2>3. TypeOK' BY <2>1 DEF IInv, TypeOK
  <2>4. OffsetsInv' BY <2>1, <2>2 DEF IInv, OffsetsInv
  <2>5. LogInv' BY <2>1, <2>2 DEF IInv, LogInv
  <2>6. ShapeInv' BY <2>1 DEF IInv, ShapeInv
  <2>7. OwedInv' BY <2>1, <2>2 DEF IInv, OwedInv, Ahead
  <2>8. StreamInv'
    BY <2>1, <2>2 DEF IInv, StreamInv, NotOvertaken, InWire, InChan, OutOfWire, Pushing
  <2> QED BY <2>3, <2>4, <2>5, <2>6, <2>7, <2>8 DEF IInv
<1> QED BY <1>1, <1>2, <1>3, <1>4 DEF Next

(* The log, the stream and the loop agree at every moment, whatever        *)
(* crashes, breaks, is acknowledged late or pruned: the offsets have no    *)
(* gaps and every command that is owed is ahead of all positions and is    *)
(* not overtaken on the stream.                                            *)
THEOREM StreamStaysSound == Spec => []IInv
<1> QED BY InitIInv, NextIInv, PTL DEF Spec

(* A committed command that is not settled is still in the table ahead of  *)
(* the ack and of the cursor, or its push was missed.                      *)
THEOREM OnlyMissedPushesAreEverLost == Spec => []OnlyMissedPushesAreLost
<1>1. IInv => OnlyMissedPushesAreLost
  <2> SUFFICES ASSUME IInv, NEW r \in committed, r.off \notin missed, ~Settled(r)
               PROVE  r \in rows /\ ~Passed(r.off)
    BY DEF OnlyMissedPushesAreLost
  <2>1. Ahead(r) BY DEF IInv, OwedInv, Owed
  <2>2. /\ r.off \in 1..LastOffset /\ lastAcked \in 0..LastOffset /\ cursor \in 0..LastOffset
        /\ r \notin rows => r.off <= lastAcked
    BY OffsetTypes DEF IInv, TypeOK, LogInv
  <2> QED BY <2>1, <2>2 DEF Ahead, Passed
<1> QED BY <1>1, StreamStaysSound, PTL

(* Head-of-line blocking: no command is handled while an earlier one is    *)
(* neither settled nor missed by the stream.                               *)
THEOREM CommandsAreHandledInOrder == Spec => []HandledInOrder
<1>1. IInv => HandledInOrder
  <2> SUFFICES ASSUME IInv, NEW r \in committed, NEW s \in handled, r.off < s.off, r.off \notin missed, ~Settled(r)
               PROVE  FALSE
    BY DEF HandledInOrder
  <2>1. Ahead(r) BY DEF IInv, OwedInv, Owed
  <2>2. r.off \in 1..LastOffset /\ s.off \in 1..LastOffset BY OffsetTypes DEF IInv
  <2> QED BY <2>1, <2>2 DEF Ahead
<1> QED BY <1>1, StreamStaysSound, PTL
-----------------------------------------------------------------------------
(* Parking.                                                                *)

(* Only the handler's outcome, an ack and a restart touch the count.       *)
LEMMA CountIsKept ==
  ASSUME [Next]_vars
  PROVE  \/ UNCHANGED <<stuckOffset, stuckFails, handled, parked, failures>>
         \/ stuckFails' = 0 /\ UNCHANGED parked
         \/ \E cmd \in batch : HandleOk(cmd) \/ HandleFail(cmd)
<1>1. ASSUME Appending \/ Streaming PROVE UNCHANGED <<stuckOffset, stuckFails, handled, parked, failures>>
  BY <1>1 DEF Appending, ReadMaxOffset, InsertRow, PublishRow, AppendInTx, CommitTx, RollbackTx, Prune,
     Streaming, Subscribe, CatchUp, SendBacklog, Forward, Break, CenterRestart, loop, history
<1>2. ASSUME Looping
      PROVE  \/ UNCHANGED <<stuckOffset, stuckFails, handled, parked, failures>>
             \/ stuckFails' = 0 /\ UNCHANGED parked
             \/ \E cmd \in batch : HandleOk(cmd) \/ HandleFail(cmd)
  BY <1>2 DEF Looping, Connect, PollTick, PollFails, StreamRecv, StreamEnded, NothingToAck, AckOk, AckFail,
     WorkerRestart, loop, history
<1>3. CASE UNCHANGED vars BY <1>3 DEF vars, loop, history
<1> QED BY <1>1, <1>2, <1>3 DEF Next

LEMMA CountStep == IInv /\ CountInv /\ [Next]_vars => CountInv'
<1> SUFFICES ASSUME IInv, CountInv, [Next]_vars PROVE CountInv' OBVIOUS
<1>1. /\ failures \in [1..LastOffset -> 0..ParkThreshold] /\ ParkThreshold \in Nat \ {0}
      /\ stuckFails \in Nat /\ stuckOffset \in 0..LastOffset
      /\ \A c \in batch : c.off \in 1..LastOffset
  BY ControlAssumption, OffsetTypes DEF IInv, TypeOK
<1>2. CASE UNCHANGED <<stuckOffset, stuckFails, handled, parked, failures>>
  BY <1>2 DEF CountInv, Offs
<1>3. CASE stuckFails' = 0 BY <1>3 DEF CountInv
<1>4. ASSUME NEW cmd \in batch, HandleOk(cmd) PROVE CountInv'
  <2>1. /\ UNCHANGED <<stuckOffset, stuckFails, parked>> /\ handled' = handled \cup {cmd}
        /\ failures' = [failures EXCEPT ![cmd.off] = 0]
    BY <1>4 DEF HandleOk
  <2>2. \A o \in Offs(handled \cup parked) : o \in Offs(handled' \cup parked') BY <2>1 DEF Offs
  <2>3. cmd.off \in Offs(handled' \cup parked') BY <2>1 DEF Offs
  <2>4. stuckOffset # 0 /\ stuckOffset # cmd.off => failures'[stuckOffset] = failures[stuckOffset]
    BY <1>1, <2>1
  <2> QED BY <2>1, <2>2, <2>3, <2>4 DEF CountInv
<1>5. ASSUME NEW cmd \in batch, HandleFail(cmd) PROVE CountInv'
  <2>1. /\ UNCHANGED handled /\ stuckOffset' = cmd.off /\ stuckFails' = StuckAfter(cmd.off)
        /\ \/ parked' = parked \cup {cmd}
           \/ /\ UNCHANGED parked
              /\ failures' = [failures EXCEPT ![cmd.off] = IF @ < ParkThreshold THEN @ + 1 ELSE @]
    BY <1>5 DEF HandleFail
  <2>2. CASE parked' = parked \cup {cmd}
    <3>1. cmd.off \in Offs(handled' \cup parked') BY <2>2 DEF Offs
    <3> QED BY <2>1, <3>1 DEF CountInv
  <2>3. CASE UNCHANGED parked /\ failures' = [failures EXCEPT ![cmd.off] = IF @ < ParkThreshold THEN @ + 1 ELSE @]
    <3> DEFINE f == failures[cmd.off]
    <3>1. f \in 0..ParkThreshold /\ failures'[cmd.off] = (IF f < ParkThreshold THEN f + 1 ELSE f) /\ cmd.off # 0
      BY <1>1, <2>3
    <3>2. CASE stuckFails = 0 \/ stuckOffset # cmd.off
      <4>1. stuckFails' = 1 BY <2>1, <3>2 DEF StuckAfter
      <4>2. failures'[cmd.off] >= 1 \/ failures'[cmd.off] = ParkThreshold BY <1>1, <3>1
      <4> QED BY <2>1, <3>1, <4>1, <4>2 DEF CountInv
    <3>3. CASE ~(stuckFails = 0 \/ stuckOffset # cmd.off)
      <4>1. stuckFails' = stuckFails + 1 BY <2>1, <3>3 DEF StuckAfter
      <4>2. cmd.off \in Offs(handled \cup parked) \/ f >= stuckFails \/ f = ParkThreshold
        BY <3>3 DEF CountInv
      <4>3. f >= stuckFails \/ f = ParkThreshold
              => failures'[cmd.off] >= stuckFails + 1 \/ failures'[cmd.off] = ParkThreshold
        BY <1>1, <3>1
      <4>4. Offs(handled' \cup parked') = Offs(handled \cup parked) BY <2>1, <2>3
      <4> QED BY <2>1, <3>1, <4>1, <4>2, <4>3, <4>4 DEF CountInv
    <3> QED BY <3>2, <3>3
  <2> QED BY <2>1, <2>2, <2>3
<1> QED BY <1>2, <1>3, <1>4, <1>5, CountIsKept

(* The loop gives a command up only after ParkThreshold failed attempts at *)
(* its offset (or at an offset that it has already passed).                *)
THEOREM ParkingIsEarned == Spec => ParkedIsEarned
<1>1. IInv /\ CountInv /\ [Next]_vars =>
        [\A r \in parked' \ parked :
           r.off \in Offs(parked \cup handled) \/ failures[r.off] >= ParkThreshold - 1]_vars
  <2> SUFFICES ASSUME IInv, CountInv, [Next]_vars, NEW r \in parked' \ parked, r.off \notin Offs(parked \cup handled)
               PROVE  failures[r.off] >= ParkThreshold - 1
    OBVIOUS
  <2>1. PICK cmd \in batch : HandleFail(cmd)
    <3>1. \A c \in batch : HandleOk(c) => UNCHANGED parked BY DEF HandleOk
    <3> QED BY <3>1, CountIsKept
  <2>2. r = cmd /\ ShouldPark(cmd.off) BY <2>1 DEF HandleFail
  <2>3. /\ failures[r.off] \in 0..ParkThreshold /\ ParkThreshold \in Nat \ {0} /\ stuckFails \in Nat
    <3>1. r.off \in 1..LastOffset BY <2>2, OffsetTypes DEF IInv
    <3> QED BY <3>1, ControlAssumption DEF IInv, TypeOK
  <2>4. StuckAfter(r.off) >= ParkThreshold BY <2>2 DEF ShouldPark
  <2>5. CASE stuckFails = 0 \/ stuckOffset # r.off BY <2>3, <2>4, <2>5 DEF StuckAfter
  <2>6. CASE ~(stuckFails = 0 \/ stuckOffset # r.off)
    <3>1. stuckFails + 1 >= ParkThreshold BY <2>4, <2>6 DEF StuckAfter
    <3>2. stuckOffset \notin Offs(handled \cup parked) BY <2>6 DEF Offs
    <3>3. failures[r.off] >= stuckFails \/ failures[r.off] = ParkThreshold BY <2>6, <3>2 DEF CountInv
    <3> QED BY <2>3, <3>1, <3>3
  <2> QED BY <2>5, <2>6
<1>2. Init => CountInv BY DEF Init, CountInv
<1> QED BY <1>1, <1>2, CountStep, InitIInv, NextIInv, PTL DEF Spec, ParkedIsEarned
-----------------------------------------------------------------------------
(* Before the first fault.                                                 *)

(* Steps of the log: an append takes an offset no command has.             *)
LEMMA LogStaysCalm ==
  ASSUME IInv, CalmInv, Appending, faults' = 0
  PROVE  CalmInv'
<1> DEFINE all == committed \cup Open
<1>1. faults \in Nat /\ \A x \in Nat : x + 1 # 0 BY DEF IInv, TypeOK
<1>2. faults = 0 /\ ~RollbackTx
  <2>1. ~RollbackTx BY <1>1 DEF RollbackTx, Fault
  <2> QED BY <2>1 DEF Appending, ReadMaxOffset, InsertRow, PublishRow, AppendInTx, CommitTx, Prune, history
<1>3. /\ \A r, s \in all : r.off = s.off => r = s
      /\ missed \subseteq Offs(all) /\ handled \cup batch \cup backlog \subseteq all
      /\ \A i \in DOMAIN chan : chan[i] \in all
      /\ \A i \in DOMAIN wire : wire[i] \in all
      /\ \A a \in Appenders : app[a].at = "insert" =>
           app[a].e.off \in Offs(rows \cup Open) \/ app[a].e.off \notin Offs(committed)
      /\ handled # {} => connected
      /\ \A s \in handled : s.off <= IF pc = "select" THEN cursor ELSE hi
      /\ \A c \in batch : c.off > hi
  BY <1>2 DEF CalmInv
<1>4. /\ app \in [Appenders -> AppState] /\ rows \subseteq committed
      /\ \A a \in Appenders : app[a].at = "publish" => app[a].e \in rows
  BY DEF IInv, TypeOK, LogInv
<1>5. ASSUME NEW a \in Appenders, NEW k \in Keys, ReadMaxOffset(a, k) PROVE CalmInv'
  <2>1. PICK e \in Entries : NextRow(k, e) /\ app' = [app EXCEPT ![a] = [at |-> "insert", e |-> e]]
    BY <1>5 DEF ReadMaxOffset
  <2>2. UNCHANGED <<rows, tx, stream, loop, conn, chan, backlog, wire, connected, cursor, pc, batch, hi,
                    committed, handled, missed>>
    BY <1>5 DEF ReadMaxOffset, stream, loop, history
  <2>3. e.off \notin Offs(committed) BY <2>1, NextOffset
  <2>4. app'[a].e = e /\ \A b \in Appenders \ {a} : app'[b] = app[b] BY <1>4, <2>1
  <2>5. Open' = Open BY <2>2 DEF Open
  <2> QED BY <1>3, <2>2, <2>3, <2>4, <2>5 DEF CalmInv
<1>6. ASSUME NEW a \in Appenders, InsertRow(a) PROVE CalmInv'
  <2>1. /\ UNCHANGED <<tx, conn, chan, backlog, wire, connected, cursor, pc, batch, hi, handled, missed>>
        /\ app[a].at = "insert" /\ Open = {} /\ Open' = {}
    BY <1>6 DEF InsertRow, stream, loop, Open
  <2>2. CASE Conflicts(app[a].e)
    <3>1. app' = [app EXCEPT ![a] = Idle] /\ UNCHANGED <<rows, committed>> BY <1>6, <2>2 DEF InsertRow
    <3>2. app'[a] = Idle /\ \A b \in Appenders \ {a} : app'[b] = app[b] BY <1>4, <3>1
    <3> QED BY <1>3, <2>1, <3>1, <3>2 DEF CalmInv, Idle
  <2>3. CASE ~Conflicts(app[a].e)
    <3> DEFINE e == app[a].e
    <3>1. /\ app' = [app EXCEPT ![a].at = "publish"]
          /\ rows' = rows \cup {e} /\ committed' = committed \cup {e}
      BY <1>6, <2>3 DEF InsertRow
    <3>2. /\ app'[a].at = "publish" /\ \A b \in Appenders \ {a} : app'[b] = app[b]
      BY <1>4, <3>1 DEF AppState
    <3>3. e.off \notin Offs(rows) BY <2>3 DEF Conflicts, Offs
    <3>4. \A r \in committed : r.off # e.off BY <1>3, <2>1, <3>3 DEF Offs
    <3>5. \A b \in Appenders : app'[b].at = "insert" =>
            app'[b].e.off \in Offs(rows' \cup Open') \/ app'[b].e.off \notin Offs(committed')
      BY <1>3, <2>1, <3>1, <3>2 DEF Offs
    <3>6. missed \subseteq Offs(committed' \cup Open') BY <1>3, <2>1, <3>1 DEF Offs
    <3> QED BY <1>3, <2>1, <3>1, <3>4, <3>5, <3>6 DEF CalmInv
  <2> QED BY <2>2, <2>3
<1>7. ASSUME NEW a \in Appenders, PublishRow(a) PROVE CalmInv'
  <2> DEFINE e == app[a].e
  <2>1. /\ UNCHANGED <<rows, tx, conn, backlog, wire, connected, cursor, pc, batch, hi, committed, handled>>
        /\ app[a].at = "publish" /\ app' = [app EXCEPT ![a] = Idle]
        /\ Push(e) /\ missed' = missed \cup Left(e)
    BY <1>7 DEF PublishRow, loop
  <2>2. app'[a] = Idle /\ \A b \in Appenders \ {a} : app'[b] = app[b] BY <1>4, <2>1
  <2>3. e \in rows /\ e \in committed /\ e \in Entries BY <1>4, <2>1 DEF IInv, TypeOK
  <2>4. Left(e) \subseteq Offs(all) BY <1>4, <2>3 DEF Left, Offs
  <2>5. \A i \in DOMAIN chan' : chan'[i] \in all
    <3>1. \A i \in DOMAIN chan' : chan'[i] = e \/ (i \in DOMAIN chan /\ chan'[i] = chan[i])
      BY <2>1, <2>3, Pushed DEF IInv
    <3> QED BY <1>3, <2>3, <3>1
  <2>6. Open' = Open BY <2>1 DEF Open
  <2>7. missed' \subseteq Offs(all) /\ committed' \cup Open' = all /\ rows' \cup Open' = rows \cup Open
    BY <1>3, <2>1, <2>4, <2>6
  <2>8. \A b \in Appenders : app'[b].at = "insert" =>
          app'[b].e.off \in Offs(rows \cup Open) \/ app'[b].e.off \notin Offs(committed)
    <3>1. app'[a].at # "insert" BY <2>2 DEF Idle
    <3> QED BY <1>3, <2>2, <3>1
  <2> QED BY <1>3, <2>1, <2>5, <2>7, <2>8 DEF CalmInv
<1>8. ASSUME NEW k \in Keys, AppendInTx(k) PROVE CalmInv'
  <2>1. PICK e \in Entries : NextRow(k, e) /\ tx' = e BY <1>8 DEF AppendInTx
  <2>2. /\ UNCHANGED <<rows, app, conn, backlog, wire, connected, cursor, pc, batch, hi, committed, handled>>
        /\ tx = NoEntry /\ Push(e) /\ missed' = missed \cup Left(e)
    BY <1>8, <2>1 DEF AppendInTx, loop
  <2>3. Open = {} /\ Open' = {e} BY <2>1, <2>2, NoEntryAssumption DEF Open
  <2>4. \A r \in committed : r.off # e.off BY <2>1, NextOffset DEF Offs
  <2>5. Left(e) \subseteq Offs(committed' \cup Open') BY <1>4, <2>2, <2>3 DEF Left, Offs
  <2>6. \A i \in DOMAIN chan' : chan'[i] \in committed \cup {e}
    <3>1. \A i \in DOMAIN chan' : chan'[i] = e \/ (i \in DOMAIN chan /\ chan'[i] = chan[i])
      BY <2>1, <2>2, Pushed DEF IInv
    <3> QED BY <1>3, <2>3, <3>1
  <2>7. missed' \subseteq Offs(committed' \cup Open') BY <1>3, <2>2, <2>3, <2>5 DEF Offs
  <2>8. \A a \in Appenders : app[a].at = "insert" =>
          app[a].e.off \in Offs(rows \cup Open') \/ app[a].e.off \notin Offs(committed)
    BY <1>3, <2>3 DEF Offs
  <2> QED BY <1>3, <2>2, <2>3, <2>4, <2>6, <2>7, <2>8 DEF CalmInv
<1>9. ASSUME CommitTx PROVE CalmInv'
  <2>1. /\ UNCHANGED <<app, conn, chan, backlog, wire, connected, cursor, pc, batch, hi, handled, missed>>
        /\ rows' = rows \cup {tx} /\ committed' = committed \cup {tx} /\ Open = {tx} /\ Open' = {}
    BY <1>9 DEF CommitTx, stream, loop, Open
  <2>2. committed' \cup Open' = all /\ rows' \cup Open' = rows \cup Open BY <2>1
  <2>3. \A o : o \in Offs(committed') => o \in Offs(committed) \/ o \in Offs(rows \cup Open)
    BY <2>1 DEF Offs
  <2> QED BY <1>3, <2>1, <2>2, <2>3 DEF CalmInv
<1>10. ASSUME NEW o \in 1..LastOffset, Prune(o) PROVE CalmInv'
  <2>1. /\ UNCHANGED <<tx, app, conn, chan, backlog, wire, connected, cursor, pc, batch, hi, committed,
                       handled, missed>>
        /\ \A a \in Appenders : app[a] = Idle
    BY <1>10 DEF Prune, stream, loop, history
  <2>2. Open' = Open /\ \A a \in Appenders : app[a].at # "insert" BY <2>1 DEF Open, Idle
  <2> QED BY <1>3, <2>1, <2>2 DEF CalmInv
<1> QED BY <1>2, <1>5, <1>6, <1>7, <1>8, <1>9, <1>10 DEF Appending

(* Steps of the stream: it carries only what the log holds.                *)
LEMMA StreamStaysCalm ==
  ASSUME IInv, CalmInv, Streaming, faults' = 0
  PROVE  CalmInv'
<1> DEFINE all == committed \cup Open
<1>1. faults \in Nat /\ \A x \in Nat : x + 1 # 0 BY DEF IInv, TypeOK
<1>2. ~CenterRestart BY <1>1 DEF CenterRestart, Fault
<1>3. /\ UNCHANGED <<rows, tx, app, connected, cursor, pc, batch, hi, committed, handled>>
      /\ faults = 0 /\ Open' = Open
  BY <1>2 DEF Streaming, Subscribe, CatchUp, SendBacklog, Forward, Break, center, loop, history, Open
<1>4. CalmInv => 
        /\ missed \subseteq Offs(all) /\ backlog \subseteq all
        /\ \A i \in DOMAIN chan : chan[i] \in all
        /\ \A i \in DOMAIN wire : wire[i] \in all
  BY <1>3 DEF CalmInv
<1>5. /\ missed' \subseteq Offs(all) /\ backlog' \subseteq all
      /\ \A i \in DOMAIN chan' : chan'[i] \in all
      /\ \A i \in DOMAIN wire' : wire'[i] \in all
  <2>1. ASSUME CatchUp PROVE <1>5!:
    <3>1. UNCHANGED <<chan, wire>> /\ backlog' \subseteq rows BY <2>1 DEF CatchUp, ListAfter
    <3>2. missed' \subseteq missed \cup Offs(Open) BY <2>1 DEF CatchUp, Open, Offs
    <3>3. Offs(Open) \subseteq Offs(all) BY DEF Offs
    <3> QED BY <1>4, <3>1, <3>2, <3>3 DEF IInv, LogInv
  <2>2. ASSUME NEW x \in backlog, SendBacklog(x) PROVE <1>5!:
    <3>1. /\ UNCHANGED <<chan, missed>> /\ backlog' \subseteq backlog
          /\ wire' = Append(wire, x) /\ Len(wire) < WireCap
      BY <2>2 DEF SendBacklog, history
    <3>2. x \in Entries BY DEF IInv, TypeOK
    <3>3. \A i \in DOMAIN wire' : wire'[i] = x \/ (i \in DOMAIN wire /\ wire'[i] = wire[i])
      BY <3>1, <3>2, Written DEF IInv
    <3> QED BY <1>4, <3>1, <3>3
  <2>3. ASSUME Forward PROVE <1>5!:
    <3>1. UNCHANGED <<missed, backlog>> /\ chan # <<>> /\ chan' = Tail(chan)
      BY <2>3 DEF Forward, history
    <3>2. /\ Head(chan) = chan[1] /\ 1 \in DOMAIN chan /\ Head(chan) \in Entries
          /\ \A i \in DOMAIN chan' : i + 1 \in DOMAIN chan /\ chan'[i] = chan[i + 1]
      BY <3>1, Dropped DEF IInv, TypeOK
    <3>3. CASE UNCHANGED wire BY <1>4, <3>1, <3>2, <3>3
    <3>4. CASE Len(wire) < WireCap /\ wire' = Append(wire, Head(chan))
      <4>1. \A i \in DOMAIN wire' : wire'[i] = Head(chan) \/ (i \in DOMAIN wire /\ wire'[i] = wire[i])
        BY <3>2, <3>4, Written DEF IInv
      <4> QED BY <1>4, <3>1, <3>2, <4>1
    <3> QED BY <2>3, <3>3, <3>4 DEF Forward
  <2>4. ASSUME Break PROVE <1>5!:
    <3>1. UNCHANGED <<missed, wire>> /\ chan' = <<>> /\ backlog' = {} BY <2>4 DEF Break, history
    <3>2. DOMAIN chan' = {} BY <3>1
    <3> QED BY <1>4, <3>1, <3>2
  <2>5. CASE Subscribe BY <1>4, <2>5 DEF Subscribe, history
  <2> QED BY <1>2, <2>1, <2>2, <2>3, <2>4, <2>5 DEF Streaming
<1> QED BY <1>3, <1>5 DEF CalmInv

(* Steps of the loop: it handles a batch upwards and never goes back.      *)
LEMMA LoopStaysCalm ==
  ASSUME IInv, CalmInv, Looping, faults' = 0
  PROVE  CalmInv'
<1> DEFINE all == committed \cup Open
<1>1. faults \in Nat /\ \A x \in Nat : x + 1 # 0 BY DEF IInv, TypeOK
<1>2. ~PollFails /\ ~AckFail /\ ~WorkerRestart
  BY <1>1 DEF PollFails, AckFail, WorkerRestart, Fault
<1>3. /\ UNCHANGED <<rows, tx, app, committed, missed>> /\ faults = 0 /\ Open' = Open
  BY <1>2 DEF Looping, Connect, PollTick, StreamRecv, StreamEnded, HandleOk, HandleFail, NothingToAck,
     AckOk, center, history, Open
<1>4. /\ \A r, s \in all : r.off = s.off => r = s
      /\ handled \cup batch \cup backlog \subseteq all
      /\ \A i \in DOMAIN chan : chan[i] \in all
      /\ \A i \in DOMAIN wire : wire[i] \in all
      /\ handled # {} => connected
      /\ \A s \in handled : s.off <= IF pc = "select" THEN cursor ELSE hi
      /\ \A c \in batch : c.off > hi
  BY <1>3 DEF CalmInv
<1>5. /\ cursor \in 0..LastOffset /\ hi \in 0..LastOffset
      /\ \A s \in handled \cup batch : s.off \in 1..LastOffset
      /\ \A r \in rows : r.off \in 1..LastOffset
      /\ DOMAIN <<>> = {}
  BY OffsetTypes DEF IInv, TypeOK
<1>6. /\ ~connected => pc = "select"
      /\ pc = "select" => batch = {} /\ hi = 0
      /\ pc # "select" => hi >= cursor
  BY DEF IInv, ShapeInv
(* What a step has to show.                                                *)
<1> DEFINE Kept ==
             /\ handled' \cup batch' \cup backlog' \subseteq all
             /\ \A i \in DOMAIN chan' : chan'[i] \in all
             /\ \A i \in DOMAIN wire' : wire'[i] \in all
             /\ handled' # {} => connected'
             /\ \A s \in handled' : s.off <= IF pc' = "select" THEN cursor' ELSE hi'
             /\ \A c \in batch' : c.off > hi'
<1>7. Kept => CalmInv' BY <1>3 DEF CalmInv
<1>8. ASSUME StartStream \/ StopStream \/ UNCHANGED stream
      PROVE  /\ backlog' \subseteq all
             /\ \A i \in DOMAIN chan' : chan'[i] \in all
             /\ \A i \in DOMAIN wire' : wire'[i] \in all
  BY <1>4, <1>5, <1>8 DEF StartStream, StopStream, stream
<1>9. ASSUME Connect PROVE Kept
  <2>1. /\ UNCHANGED <<pc, batch, hi, handled>> /\ connected' = TRUE /\ ~connected
        /\ StartStream \/ StopStream \/ UNCHANGED stream
    BY <1>9 DEF Connect, history
  <2> QED BY <1>4, <1>8, <2>1
<1>10. ASSUME PollTick PROVE Kept
  <2>1. /\ UNCHANGED <<handled, backlog, chan, wire, connected, cursor>> /\ pc = "select" /\ pc' = "poll"
        /\ batch' \subseteq rows /\ (\A c \in batch' : c.off > cursor) /\ hi' = cursor
    BY <1>10 DEF PollTick, history, stream, ListAfter
  <2>2. rows \subseteq all BY DEF IInv, LogInv
  <2> QED BY <1>4, <2>1, <2>2
<1>11. ASSUME StreamRecv PROVE Kept
  <2>1. /\ UNCHANGED <<handled, backlog, chan, connected, cursor>> /\ pc = "select" /\ wire # <<>> /\ wire' = Tail(wire)
        /\ \/ UNCHANGED <<pc, batch, hi>>
           \/ ~(Head(wire).off <= cursor) /\ pc' = "stream" /\ batch' = {Head(wire)} /\ hi' = cursor
    BY <1>11 DEF StreamRecv, history
  <2>2. /\ Head(wire) = wire[1] /\ 1 \in DOMAIN wire /\ Head(wire) \in Entries
        /\ \A i \in DOMAIN wire' : i + 1 \in DOMAIN wire /\ wire'[i] = wire[i + 1]
    BY <2>1, Dropped DEF IInv, TypeOK
  <2>3. Head(wire) \in all /\ \A i \in DOMAIN wire' : wire'[i] \in all BY <1>4, <2>2
  <2>4. ~(Head(wire).off <= cursor) => Head(wire).off > cursor BY <1>5, <2>2, OffsetTypes DEF IInv
  <2>5. CASE UNCHANGED <<pc, batch, hi>> BY <1>4, <2>1, <2>3, <2>5
  <2>6. CASE ~(Head(wire).off <= cursor) /\ pc' = "stream" /\ batch' = {Head(wire)} /\ hi' = cursor
    BY <1>4, <2>1, <2>3, <2>4, <2>6
  <2> QED BY <2>1, <2>5, <2>6
<1>12. ASSUME StreamEnded PROVE Kept
  <2>1. UNCHANGED <<handled, batch, connected, cursor, pc, hi>> /\ StopStream
    BY <1>12 DEF StreamEnded, loop, history
  <2> QED BY <1>4, <1>8, <2>1
<1>13. ASSUME NEW cmd \in batch, HandleOk(cmd) \/ HandleFail(cmd) PROVE Kept
  <2>1. /\ UNCHANGED <<backlog, chan, wire, connected, cursor, pc>>
        /\ \A q \in batch : cmd.off <= q.off
        /\ handled' \subseteq handled \cup {cmd}
        /\ \/ hi' = cmd.off /\ batch' = batch \ {cmd}
           \/ hi' = hi /\ batch' = {} /\ handled' = handled
    BY <1>13 DEF HandleOk, HandleFail, IsFirst, stream
  <2>2. pc # "select" /\ connected /\ cmd \in all BY <1>4, <1>6
  <2>3. CASE hi' = cmd.off /\ batch' = batch \ {cmd}
    <3>1. \A s \in handled' : s.off <= cmd.off
      <4>1. \A s \in handled : s.off <= hi /\ hi < cmd.off BY <1>4, <1>5, <2>2
      <4> QED BY <1>5, <2>1, <4>1
    <3>2. \A c \in batch' : c.off > cmd.off
      <4>1. \A c \in batch' : cmd.off <= c.off /\ c.off # cmd.off BY <1>4, <2>1, <2>2, <2>3
      <4> QED BY <1>5, <2>3, <4>1
    <3> QED BY <1>4, <2>1, <2>2, <2>3, <3>1, <3>2
  <2>4. CASE hi' = hi /\ batch' = {} /\ handled' = handled BY <1>4, <2>1, <2>2, <2>4
  <2> QED BY <2>1, <2>3, <2>4
<1>14. ASSUME NothingToAck \/ AckOk PROVE Kept
  <2>1. /\ UNCHANGED <<handled, connected>> /\ pc # "select" /\ pc' = "select" /\ batch' = {}
        /\ (hi = cursor /\ cursor' = cursor) \/ cursor' = hi
    BY <1>14 DEF NothingToAck, AckOk, BatchDone, history
  <2>2. StartStream \/ StopStream \/ UNCHANGED stream
    BY <1>14 DEF NothingToAck, AckOk, AfterBatch, stream
  <2> QED BY <1>4, <1>8, <2>1, <2>2
<1> QED BY <1>2, <1>7, <1>9, <1>10, <1>11, <1>12, <1>13, <1>14 DEF Looping

LEMMA CalmStep == IInv /\ CalmInv /\ [Next]_vars => CalmInv'
<1> SUFFICES ASSUME IInv, CalmInv, [Next]_vars PROVE CalmInv' OBVIOUS
<1>1. CASE faults' # 0 BY <1>1 DEF CalmInv
<1>2. CASE faults' = 0 /\ Next BY <1>2, LogStaysCalm, StreamStaysCalm, LoopStaysCalm DEF Next
<1>3. CASE UNCHANGED vars
  BY <1>3 DEF vars, center, stream, loop, history, CalmInv, Open, Offs
<1> QED BY <1>1, <1>2, <1>3

(* While nothing has failed the stream and the poll never make the loop    *)
(* handle a command twice.                                                 *)
THEOREM HandledOnceWithoutFault == Spec => NoRedoWithoutFault
<1>1. IInv /\ CalmInv /\ [Next]_vars => [\A r \in handled : faults = 0 => ~HandleOk(r)]_vars
  <2> SUFFICES ASSUME IInv, CalmInv, NEW r \in handled, faults = 0, HandleOk(r) PROVE FALSE
    OBVIOUS
  <2>1. r \in batch /\ r.off > hi BY DEF HandleOk, IsFirst, CalmInv
  <2>2. pc # "select" BY <2>1 DEF IInv, ShapeInv
  <2>3. r.off <= hi BY <2>2 DEF CalmInv
  <2>4. r.off \in 1..LastOffset /\ hi \in 0..LastOffset BY OffsetTypes DEF IInv, TypeOK
  <2> QED BY <2>1, <2>3, <2>4
<1>2. Init => CalmInv
  <2>1. Init => DOMAIN chan = {} /\ DOMAIN wire = {} BY DEF Init
  <2> QED BY <2>1 DEF Init, CalmInv, Open, Offs, Idle
<1> QED BY <1>1, <1>2, CalmStep, InitIInv, NextIInv, PTL DEF Spec, NoRedoWithoutFault
=============================================================================
