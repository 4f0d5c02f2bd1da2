--------------------------- MODULE LogQueueProofs ---------------------------
(***************************************************************************)
(* Safety of LogQueue for every batch size, bound of the queue and number  *)
(* of rows.                                                                *)
(*                                                                         *)
(* The invariants are inductive together, with one fact of their own: a    *)
(* process that is down holds nothing in memory (Restart), without which a *)
(* restart could find rows and no timeout.                                 *)
(***************************************************************************)
EXTENDS LogQueue, SequenceTheorems, TLAPS

Restart == process = "down" => queue = <<>> /\ ~registered /\ dropped = 0

\* Rows waiting while the process stops were queued after the signal.
LateRows ==
  /\ mark <= next
  /\ process = "stopping" => \A i \in 1 .. Len(queue) : queue[i] >= mark

IInv == TypeOK /\ Conservation /\ NoRowStranded /\ QueueBounded /\ Restart /\ LateRows

-----------------------------------------------------------------------------
LEMMA ConfigTyped ==
  ASSUME TypeOK
  PROVE  config.batchSize \in Nat \ {0} /\ config.maxPending \in Nat \ {0}
BY ConfigAssumption DEF TypeOK

\* A row more, and one less when the queue is full.
LEMMA PushLemma ==
  ASSUME TypeOK, next \in 1 .. MaxRows
  PROVE  /\ Push(next) \in Rows
         /\ Len(Push(next)) = IF Full THEN Len(queue) ELSE Len(queue) + 1
<1>1. queue \in Rows /\ config.maxPending \in Nat \ {0} /\ Len(queue) \in Nat
  BY ConfigTyped DEF TypeOK, Rows
<1>2. CASE Full
  <2>1. queue # <<>>
    BY <1>1, <1>2 DEF Full
  <2>2. Tail(queue) \in Rows /\ Len(Tail(queue)) = Len(queue) - 1
    BY <1>1, <2>1 DEF Rows
  <2> QED
    BY <1>1, <1>2, <2>2 DEF Push, Rows
<1>3. CASE ~Full
  BY <1>1, <1>3 DEF Push, Rows
<1> QED
  BY <1>2, <1>3

\* A flush accounts for exactly the rows it is given.
LEMMA FlushLemma ==
  ASSUME TypeOK, NEW rows \in Rows, Flush(rows)
  PROVE  /\ queue' = <<>> /\ db' \in Rows /\ lost' \in Nat
         /\ Len(db') + lost' = Len(db) + lost + Len(rows)
<1>1. db \in Rows /\ lost \in Nat /\ Len(rows) \in Nat
  BY DEF TypeOK, Rows
<1>2. db \o rows \in Rows /\ Len(db \o rows) = Len(db) + Len(rows)
  BY <1>1 DEF Rows
<1>3. CASE db' = db \o rows /\ UNCHANGED lost
  BY <1>1, <1>2, <1>3 DEF Flush
<1>4. CASE lost' = lost + Len(rows) /\ UNCHANGED db
  BY <1>1, <1>4 DEF Flush
<1> QED
  BY <1>3, <1>4 DEF Flush

LEMMA EmptyTyped == <<>> \in Rows /\ Len(<<>>) = 0
BY DEF Rows

LEMMA InitInv == Init => IInv
<1> SUFFICES ASSUME Init PROVE IInv
  OBVIOUS
<1>1. TypeOK
  <2>1. 1 \in 1 .. MaxRows + 1
    BY RowsAssumption
  <2>2. registered \in BOOLEAN
    BY DEF Init
  <2> QED
    BY <2>1, <2>2, EmptyTyped DEF Init, TypeOK
<1>2. Conservation /\ NoRowStranded /\ Restart /\ LateRows
  BY EmptyTyped DEF Init, Conservation, NoRowStranded, Restart, LateRows
<1>3. QueueBounded
  BY <1>1, ConfigTyped, EmptyTyped DEF Init, QueueBounded
<1> QED
  BY <1>1, <1>2, <1>3 DEF IInv

-----------------------------------------------------------------------------
(* What an action leaves when it empties the queue.                        *)

LEMMA InsertInv ==
  ASSUME IInv, Insert
  PROVE  IInv'
<1>1. TypeOK /\ Conservation /\ NoRowStranded /\ QueueBounded /\ LateRows
  BY DEF IInv
<1>2. /\ config.batchSize \in Nat \ {0} /\ config.maxPending \in Nat \ {0}
      /\ Len(queue) \in Nat /\ queue \in Rows /\ db \in Rows /\ Len(db) \in Nat
      /\ timeouts \in Nat /\ dropped \in Nat /\ lost \in Nat
      /\ registered \in BOOLEAN /\ mark \in 1 .. MaxRows + 1
  BY <1>1, ConfigTyped DEF TypeOK, Rows
<1>3. next \in 1 .. MaxRows /\ next \in Nat /\ next' = next + 1 /\ next' \in 1 .. MaxRows + 1
  BY <1>1, RowsAssumption DEF Insert, TypeOK
<1> DEFINE pushed == Push(next)
<1>4. /\ pushed \in Rows /\ Len(pushed) \in Nat
      /\ Len(pushed) = IF Full THEN Len(queue) ELSE Len(queue) + 1
  BY <1>1, <1>3, PushLemma DEF Rows
<1>5. /\ dropped' = IF Full THEN dropped + 1 ELSE dropped
      /\ UNCHANGED <<config, process, mark>> /\ process # "down"
  BY DEF Insert
<1>6. dropped' \in Nat /\ Len(pushed) + dropped' = Len(queue) + dropped + 1
  BY <1>2, <1>4, <1>5
<1>7. config.batchSize <= config.maxPending => dropped' = 0
  BY <1>1, <1>2, <1>5 DEF QueueBounded, Full
<1>8. CASE Len(pushed) >= config.batchSize
  <2>1. /\ timeouts' = IF registered THEN timeouts - 1 ELSE timeouts
        /\ registered' = FALSE /\ Flush(pushed)
    BY <1>8 DEF Insert
  <2>2. /\ queue' = <<>> /\ db' \in Rows /\ lost' \in Nat
        /\ Len(db') + lost' = Len(db) + lost + Len(pushed)
    BY <1>1, <1>4, <2>1, FlushLemma
  <2>3. Len(db') \in Nat /\ Len(queue') = 0 /\ queue' \in Rows
    BY <2>2, EmptyTyped DEF Rows
  <2>4. timeouts' \in Nat
    BY <1>1, <1>2, <1>5, <2>1 DEF NoRowStranded
  <2>5. TypeOK'
    BY <1>1, <1>3, <1>5, <1>6, <2>1, <2>2, <2>3, <2>4 DEF TypeOK
  <2>6. Conservation'
    <3> HIDE DEF pushed
    <3>1. next - 1 = Len(db) + Len(queue) + dropped + lost
      BY <1>1 DEF Conservation
    <3>2. next \in Nat /\ Len(db) \in Nat /\ Len(queue) \in Nat /\ dropped \in Nat /\ lost \in Nat
          /\ dropped' \in Nat /\ Len(pushed) \in Nat
      BY <1>2, <1>3, <1>4, <1>6
    <3>3. Len(pushed) + dropped' = Len(queue) + dropped + 1
      BY <1>6
    <3>4. next = Len(db) + Len(pushed) + dropped' + lost
      BY <3>1, <3>2, <3>3, SMTT(20)
    <3>5. Len(db') \in Nat /\ lost' \in Nat
      BY <2>2, <2>3
    <3>6. next = Len(db') + dropped' + lost'
      <4> DEFINE before == Len(db)
      <4> DEFINE after == Len(db')
      <4> DEFINE batch == Len(pushed)
      <4>1. after + lost' = before + lost + batch
        BY <2>2
      <4>2. next = before + batch + dropped' + lost
        BY <3>4
      <4>3. /\ after \in Nat /\ before \in Nat /\ batch \in Nat
            /\ lost \in Nat /\ lost' \in Nat /\ dropped' \in Nat /\ next \in Nat
        BY <3>2, <3>5
      <4>4. next = after + dropped' + lost'
        <5> HIDE DEF before, after, batch
        <5>1. next = (before + lost + batch) + dropped'
          BY <4>2, <4>3
        <5>2. next = (after + lost') + dropped'
          BY <4>1, <5>1
        <5> QED
          BY <4>3, <5>2
      <4> QED
        BY <4>4
    <3>7. next' - 1 = Len(db') + Len(queue') + dropped' + lost'
      BY <1>3, <2>3, <3>2, <3>5, <3>6
    <3> QED
      BY <3>7 DEF Conservation
  <2>7. NoRowStranded' /\ Restart'
    BY <1>5, <2>1, <2>2 DEF NoRowStranded, Restart
  <2>8. QueueBounded'
    BY <1>2, <1>5, <1>7, <2>3 DEF QueueBounded
  <2>9. LateRows'
    BY <1>1, <1>2, <1>3, <1>5, <2>3 DEF LateRows
  <2> QED
    BY <2>5, <2>6, <2>7, <2>8, <2>9 DEF IInv
<1>9. CASE Len(pushed) < config.batchSize
  <2>1. queue' = pushed /\ EnqueueFlush /\ UNCHANGED <<db, lost>>
    BY <1>2, <1>4, <1>9 DEF Insert
  <2>2. /\ timeouts' \in Nat /\ timeouts' > 0 /\ registered' = TRUE
    BY <1>1, <1>2, <1>5, <2>1 DEF EnqueueFlush, NoRowStranded
  <2>3. Len(pushed) > 0
    BY <1>2, <1>4 DEF Full
  <2>4. pushed # <<>>
    BY <2>3, EmptyTyped
  <2>5. TypeOK'
    BY <1>1, <1>3, <1>4, <1>5, <1>6, <2>1, <2>2 DEF TypeOK
  <2>6. Conservation'
    <3> HIDE DEF pushed
    <3>1. next - 1 = Len(db) + Len(queue) + dropped + lost
      BY <1>1 DEF Conservation
    <3>2. next \in Nat /\ Len(db) \in Nat /\ Len(queue) \in Nat /\ dropped \in Nat /\ lost \in Nat
          /\ dropped' \in Nat /\ Len(pushed) \in Nat
      BY <1>2, <1>3, <1>4, <1>6
    <3>3. Len(pushed) + dropped' = Len(queue) + dropped + 1
      BY <1>6
    <3>4. (next + 1) - 1 = Len(db) + Len(pushed) + dropped' + lost
      BY <3>1, <3>2, <3>3
    <3> QED
      BY <1>3, <2>1, <3>4 DEF Conservation
  <2>7. NoRowStranded' /\ Restart'
    BY <1>5, <2>1, <2>2, <2>4 DEF NoRowStranded, Restart
  <2>8. QueueBounded'
    BY <1>1, <1>2, <1>4, <1>5, <1>7, <1>9, <2>1 DEF QueueBounded, Full
  <2>9. LateRows'
    <3>1. ASSUME process = "stopping", NEW i \in 1 .. Len(pushed)
          PROVE  pushed[i] >= mark
      <4>1. \A j \in 1 .. Len(queue) : queue[j] >= mark
        BY <1>1, <3>1 DEF LateRows
      <4>2. next >= mark
        BY <1>1, <1>2, <1>3 DEF LateRows
      <4>3. CASE Full
        <5>1. Len(queue) > 0
          BY <1>2, <4>3 DEF Full
        <5>2. Tail(queue) \in Rows /\ Len(Tail(queue)) = Len(queue) - 1
          BY <1>2, <5>1 DEF Rows
        <5>3. \A j \in 1 .. Len(Tail(queue)) : Tail(queue)[j] = queue[j + 1]
          BY <1>2, <5>1 DEF Rows
        <5>4. pushed = Append(Tail(queue), next)
          BY <4>3 DEF Push
        <5>5. CASE i = Len(pushed)
          BY <1>3, <4>2, <5>2, <5>4, <5>5 DEF Rows
        <5>6. CASE i # Len(pushed)
          <6> DEFINE t == Tail(queue)
          <6>1. i \in 1 .. Len(Tail(queue)) /\ pushed[i] = Tail(queue)[i]
            <7>1. t \in Rows /\ i \in 1 .. Len(Append(t, next)) /\ i # Len(Append(t, next))
              BY <3>1, <5>2, <5>4, <5>6
            <7> HIDE DEF t
            <7>2. i \in 1 .. Len(t) /\ Append(t, next)[i] = t[i]
              BY <7>1 DEF Rows
            <7> QED
              BY <5>4, <7>2 DEF t
          <6>2. i + 1 \in 1 .. Len(queue)
            BY <1>2, <5>2, <6>1
          <6> QED
            BY <4>1, <5>3, <6>1, <6>2
        <5> QED
          BY <5>5, <5>6
      <4>4. CASE ~Full
        <5>1. pushed = Append(queue, next)
          BY <4>4 DEF Push
        <5> QED
          BY <1>2, <1>3, <3>1, <4>1, <4>2, <5>1 DEF Rows
      <4> QED
        BY <4>3, <4>4
    <3> HIDE DEF pushed
    <3> QED
      BY <1>1, <1>2, <1>3, <1>5, <2>1, <3>1 DEF LateRows
  <2> QED
    BY <2>5, <2>6, <2>7, <2>8, <2>9 DEF IInv
<1> QED
  BY <1>2, <1>4, <1>8, <1>9

\* A flush of what waits, by a timeout or by the signal.
LEMMA FlushInv ==
  ASSUME IInv, process = "up", Flush(queue), UNCHANGED <<config, dropped, next>>,
         registered' = FALSE, timeouts' \in Nat, process' \in {"up", "stopping"},
         mark' \in {mark, next}
  PROVE  IInv'
<1>1. TypeOK /\ Conservation /\ QueueBounded /\ LateRows
  BY DEF IInv
<1>2. /\ config.batchSize \in Nat \ {0} /\ config.maxPending \in Nat \ {0}
      /\ Len(queue) \in Nat /\ queue \in Rows /\ Len(db) \in Nat
      /\ dropped \in Nat /\ lost \in Nat /\ next \in 1 .. MaxRows + 1 /\ next \in Nat
      /\ mark \in 1 .. MaxRows + 1
  BY <1>1, ConfigTyped, RowsAssumption DEF TypeOK, Rows
<1>3. /\ queue' = <<>> /\ db' \in Rows /\ lost' \in Nat
      /\ Len(db') + lost' = Len(db) + lost + Len(queue)
  BY <1>1, <1>2, FlushLemma
<1>4. Len(db') \in Nat /\ Len(queue') = 0 /\ queue' \in Rows
  BY <1>3, EmptyTyped DEF Rows
<1>5. TypeOK'
  BY <1>1, <1>2, <1>3, <1>4 DEF TypeOK
<1>6. Conservation'
  <2>1. next - 1 = Len(db) + Len(queue) + dropped + lost
    BY <1>1 DEF Conservation
  <2>2. next \in Nat /\ Len(db) \in Nat /\ Len(queue) \in Nat /\ dropped \in Nat /\ lost \in Nat
        /\ Len(db') \in Nat /\ lost' \in Nat
    BY <1>2, <1>3, <1>4
  <2>3. Len(db') + lost' = Len(db) + lost + Len(queue)
    BY <1>3
  <2>4. next - 1 = Len(db') + 0 + dropped + lost'
    BY <2>1, <2>2, <2>3, SMTT(20)
  <2> QED
    BY <1>4, <2>4 DEF Conservation
<1>7. NoRowStranded' /\ Restart'
  BY <1>3 DEF NoRowStranded, Restart
<1>8. QueueBounded'
  BY <1>1, <1>2, <1>4 DEF QueueBounded
<1>9. LateRows'
  BY <1>1, <1>2, <1>4 DEF LateRows
<1> QED
  BY <1>5, <1>6, <1>7, <1>8, <1>9 DEF IInv

LEMMA EndInv ==
  ASSUME IInv, End
  PROVE  IInv'
<1>1. TypeOK /\ Conservation /\ QueueBounded /\ LateRows
  BY DEF IInv
<1>2. /\ config.batchSize \in Nat \ {0} /\ config.maxPending \in Nat \ {0}
      /\ Len(queue) \in Nat /\ Len(db) \in Nat /\ db \in Rows
      /\ dropped \in Nat /\ lost \in Nat /\ next \in 1 .. MaxRows + 1 /\ next \in Nat
      /\ mark \in 1 .. MaxRows + 1
  BY <1>1, ConfigTyped, RowsAssumption DEF TypeOK, Rows
<1>3. /\ process' = "down" /\ queue' = <<>> /\ registered' = FALSE /\ timeouts' = 0
      /\ dropped' = 0 /\ lost' = lost + Len(queue) + dropped
      /\ UNCHANGED <<config, db, next, mark>>
  BY DEF End
<1>4. Len(queue') = 0 /\ queue' \in Rows
  BY <1>3, EmptyTyped
<1>5. TypeOK'
  <2>1. lost' \in Nat /\ dropped' \in Nat /\ timeouts' \in Nat
    BY <1>2, <1>3
  <2>2. registered' \in BOOLEAN
    BY <1>3
  <2> QED
    BY <1>1, <1>3, <1>4, <2>1, <2>2 DEF TypeOK
<1>6. Conservation'
  <2>1. next - 1 = Len(db) + Len(queue) + dropped + lost
    BY <1>1 DEF Conservation
  <2>2. Len(db') = Len(db) /\ next' = next
    BY <1>3
  <2>3. next - 1 = Len(db) + 0 + 0 + (lost + Len(queue) + dropped)
    BY <1>2, <2>1
  <2> QED
    BY <1>3, <1>4, <2>2, <2>3 DEF Conservation
<1>7. NoRowStranded' /\ Restart'
  BY <1>3 DEF NoRowStranded, Restart
<1>8. QueueBounded'
  BY <1>1, <1>2, <1>3, <1>4 DEF QueueBounded
<1>9. LateRows'
  BY <1>1, <1>3 DEF LateRows
<1> QED
  BY <1>5, <1>6, <1>7, <1>8, <1>9 DEF IInv

LEMMA StepInv == IInv /\ [Next]_vars => IInv'
<1> SUFFICES ASSUME IInv, [Next]_vars PROVE IInv'
  OBVIOUS
<1>1. TypeOK /\ Conservation /\ NoRowStranded /\ QueueBounded /\ Restart /\ LateRows
  BY DEF IInv
<1>2. CASE Insert
  BY <1>2, InsertInv
<1>3. CASE TimerFires
  <2>1. /\ process = "up" /\ timeouts > 0 /\ timeouts' = timeouts - 1 /\ registered' = FALSE
        /\ UNCHANGED <<config, dropped, process, next, mark>>
    BY <1>3 DEF TimerFires
  <2>2. timeouts' \in Nat
    BY <1>1, <2>1 DEF TypeOK
  <2>3. CASE queue # <<>>
    <3>1. Flush(queue)
      BY <1>3, <2>3 DEF TimerFires
    <3> QED
      BY <2>1, <2>2, <3>1, FlushInv
  <2>4. CASE queue = <<>>
    <3>1. UNCHANGED <<queue, db, lost>>
      BY <1>3, <2>4 DEF TimerFires
    <3> QED
      BY <1>1, <2>1, <2>2, <2>4, <3>1
         DEF IInv, TypeOK, Conservation, NoRowStranded, QueueBounded, Restart, LateRows
  <2> QED
    BY <2>3, <2>4
<1>4. CASE Shutdown
  <2>1. /\ process = "up" /\ process' = "stopping" /\ mark' = next
        /\ UNCHANGED <<config, timeouts, dropped, next>>
    BY <1>4 DEF Shutdown
  <2>2. CASE queue # <<>>
    <3>1. Flush(queue) /\ registered' = FALSE /\ timeouts' \in Nat
      BY <1>1, <1>4, <2>1, <2>2 DEF Shutdown, TypeOK
    <3> QED
      BY <2>1, <3>1, FlushInv
  <2>3. CASE queue = <<>>
    <3>1. UNCHANGED <<queue, registered, db, lost>>
      BY <1>4, <2>3 DEF Shutdown
    <3>2. Len(queue) = 0 /\ next \in 1 .. MaxRows + 1 /\ MaxRows \in Nat
      BY <1>1, <2>3, EmptyTyped, RowsAssumption DEF TypeOK
    <3>3. TypeOK' /\ Conservation' /\ NoRowStranded' /\ QueueBounded' /\ Restart'
      BY <1>1, <2>1, <3>1 DEF TypeOK, Conservation, NoRowStranded, QueueBounded, Restart
    <3>4. LateRows'
      BY <2>1, <3>1, <3>2 DEF LateRows
    <3> QED
      BY <3>3, <3>4 DEF IInv
  <2> QED
    BY <2>2, <2>3
<1>5. CASE Exit \/ Crash
  BY <1>5, EndInv DEF Exit, Crash
<1>6. CASE Start
  <2>1. /\ process = "down" /\ process' = "up"
        /\ UNCHANGED <<config, queue, registered, timeouts, db, dropped, next, lost, mark>>
    BY <1>6 DEF Start
  <2> QED
    BY <1>1, <2>1
       DEF IInv, TypeOK, Conservation, NoRowStranded, QueueBounded, Restart, LateRows
<1>7. CASE UNCHANGED vars
  BY <1>1, <1>7
     DEF vars, IInv, TypeOK, Conservation, NoRowStranded, QueueBounded, Restart, LateRows
<1> QED
  BY <1>2, <1>3, <1>4, <1>5, <1>6, <1>7 DEF Next

LEMMA InvAlways == Spec => []IInv
<1> QED
  BY InitInv, StepInv, PTL DEF Spec

-----------------------------------------------------------------------------
(* The order of the rows: those of the table, then those that wait, then   *)
(* the next one.  Compared in pairs, so that no step needs an induction    *)
(* over a sequence.                                                        *)

Sorted(s) == \A i, j \in 1 .. Len(s) : i < j => s[i] < s[j]
Before(s, t) == \A i \in 1 .. Len(s), j \in 1 .. Len(t) : s[i] < t[j]
BeforeRow(s, n) == \A i \in 1 .. Len(s) : s[i] < n

Order ==
  /\ Sorted(db) /\ Sorted(queue) /\ Before(db, queue)
  /\ BeforeRow(db, next) /\ BeforeRow(queue, next)

\* A sequence that another one begins with.
LEMMA Beginning ==
  ASSUME NEW S, NEW u \in Seq(S), NEW s \in Seq(S), Len(s) \in 0 .. Len(u),
         \A i \in 1 .. Len(s) : u[i] = s[i]
  PROVE  SubSeq(u, 1, Len(s)) = s
<1>1. Len(s) \in Nat
  OBVIOUS
<1>2. \A i \in 1 .. Len(s) : u[i] \in S
  OBVIOUS
<1> DEFINE v == SubSeq(u, 1, Len(s))
<1>3. /\ v \in Seq(S) /\ Len(v) = IF 1 <= Len(s) THEN Len(s) - 1 + 1 ELSE 0
      /\ \A i \in 1 .. Len(s) - 1 + 1 : v[i] = u[1 + i - 1]
  BY <1>1, <1>2, SubSeqProperties
<1> HIDE DEF v
<1>4. Len(v) = Len(s) /\ \A i \in 1 .. Len(s) : v[i] = s[i]
  BY <1>1, <1>3
<1>5. v = s
  BY <1>3, <1>4, SeqEqual
<1> QED
  BY <1>5 DEF v

\* Rows behind rows that are all older.
LEMMA Joined ==
  ASSUME NEW s \in Rows, NEW t \in Rows, Sorted(s), Sorted(t), Before(s, t)
  PROVE  /\ Sorted(s \o t) /\ Len(s \o t) = Len(s) + Len(t)
         /\ SubSeq(s \o t, 1, Len(s)) = s
         /\ \A n \in Nat : BeforeRow(s, n) /\ BeforeRow(t, n) => BeforeRow(s \o t, n)
<1>1. /\ Len(s) \in Nat /\ Len(t) \in Nat /\ s \o t \in Rows
      /\ Len(s \o t) = Len(s) + Len(t)
  BY DEF Rows
<1>2. \A i \in 1 .. Len(s \o t) :
        \/ i \in 1 .. Len(s) /\ (s \o t)[i] = s[i]
        \/ i - Len(s) \in 1 .. Len(t) /\ i > Len(s) /\ (s \o t)[i] = t[i - Len(s)]
  BY <1>1 DEF Rows
<1>3. ASSUME NEW i \in 1 .. Len(s \o t), NEW j \in 1 .. Len(s \o t), i < j
      PROVE  (s \o t)[i] < (s \o t)[j]
  <2>1. CASE i \in 1 .. Len(s) /\ j \in 1 .. Len(s)
    BY <1>1, <1>2, <1>3, <2>1 DEF Sorted
  <2>2. CASE i \in 1 .. Len(s) /\ j \notin 1 .. Len(s)
    BY <1>1, <1>2, <1>3, <2>2 DEF Before
  <2>3. CASE i \notin 1 .. Len(s)
    <3>1. /\ i - Len(s) \in 1 .. Len(t) /\ (s \o t)[i] = t[i - Len(s)]
          /\ j - Len(s) \in 1 .. Len(t) /\ (s \o t)[j] = t[j - Len(s)]
      BY <1>1, <1>2, <1>3, <2>3
    <3>2. i - Len(s) < j - Len(s)
      BY <1>1, <1>3
    <3> QED
      BY <3>1, <3>2 DEF Sorted
  <2> QED
    BY <2>1, <2>2, <2>3
<1>4. SubSeq(s \o t, 1, Len(s)) = s
  <2> DEFINE u == s \o t
  <2>1. u \in Seq(1 .. MaxRows) /\ Len(s) \in 0 .. Len(u) /\ s \in Seq(1 .. MaxRows)
    BY <1>1 DEF Rows
  <2>2. \A i \in 1 .. Len(s) : u[i] = s[i]
    BY <1>1, <1>2
  <2> HIDE DEF u
  <2>3. SubSeq(u, 1, Len(s)) = s
    BY <2>1, <2>2, Beginning
  <2> QED
    BY <2>3 DEF u
<1>5. ASSUME NEW n \in Nat, BeforeRow(s, n), BeforeRow(t, n)
      PROVE  BeforeRow(s \o t, n)
  BY <1>1, <1>2, <1>5 DEF BeforeRow
<1> QED
  BY <1>1, <1>3, <1>4, <1>5 DEF Sorted

\* The queue with a row more is still behind the table.
LEMMA PushOrder ==
  ASSUME TypeOK, Order, next \in 1 .. MaxRows
  PROVE  Sorted(Push(next)) /\ Before(db, Push(next)) /\ BeforeRow(Push(next), next + 1)
<1>1. /\ queue \in Rows /\ db \in Rows /\ Len(queue) \in Nat /\ Len(db) \in Nat
      /\ config.maxPending \in Nat \ {0} /\ next \in Nat
      /\ \A i \in 1 .. Len(queue) : queue[i] \in Nat
      /\ \A i \in 1 .. Len(db) : db[i] \in Nat
  BY ConfigTyped, RowsAssumption DEF TypeOK, Rows
<1> DEFINE kept == IF Full THEN Tail(queue) ELSE queue
<1>2. /\ kept \in Rows /\ Len(kept) \in Nat
      /\ \A i \in 1 .. Len(kept) : \E j \in 1 .. Len(queue) : kept[i] = queue[j]
      /\ Sorted(kept)
  <2>1. CASE Full
    <3>1. Len(queue) > 0 /\ kept = Tail(queue)
      BY <1>1, <2>1 DEF Full
    <3>2. /\ kept \in Rows /\ Len(kept) = Len(queue) - 1
          /\ \A i \in 1 .. Len(kept) : i + 1 \in 1 .. Len(queue) /\ kept[i] = queue[i + 1]
      <4>1. Tail(queue) \in Rows /\ Len(Tail(queue)) = Len(queue) - 1
        BY <1>1, <3>1 DEF Rows
      <4>2. \A i \in 1 .. Len(Tail(queue)) : Tail(queue)[i] = queue[i + 1]
        BY <1>1, <3>1 DEF Rows
      <4> QED
        BY <1>1, <3>1, <4>1, <4>2
    <3>3. Sorted(kept)
      <4> HIDE DEF kept
      <4> SUFFICES ASSUME NEW i \in 1 .. Len(kept), NEW j \in 1 .. Len(kept), i < j
                   PROVE  kept[i] < kept[j]
        BY DEF Sorted
      <4>1. Sorted(queue) /\ i + 1 < j + 1
        BY <1>1, <3>2 DEF Order
      <4>2. queue[i + 1] < queue[j + 1]
        BY <3>2, <4>1 DEF Sorted
      <4> QED
        BY <3>2, <4>2
    <3> QED
      BY <1>1, <3>2, <3>3
  <2>2. CASE ~Full
    BY <1>1, <2>2 DEF Order
  <2> QED
    BY <2>1, <2>2
<1>3. Push(next) = Append(kept, next)
  BY DEF Push
<1> HIDE DEF kept
<1>4. /\ Len(Push(next)) = Len(kept) + 1
      /\ \A i \in 1 .. Len(Push(next)) :
           \/ i \in 1 .. Len(kept) /\ Push(next)[i] = kept[i]
           \/ i = Len(kept) + 1 /\ Push(next)[i] = next
  BY <1>1, <1>2, <1>3 DEF Rows
<1>5. \A i \in 1 .. Len(kept) : kept[i] \in Nat /\ kept[i] < next
  BY <1>1, <1>2 DEF Order, BeforeRow
<1>6. Sorted(Push(next))
  <2> SUFFICES ASSUME NEW i \in 1 .. Len(Push(next)), NEW j \in 1 .. Len(Push(next)), i < j
               PROVE  Push(next)[i] < Push(next)[j]
    BY DEF Sorted
  <2>1. i \in 1 .. Len(kept) /\ Push(next)[i] = kept[i]
    BY <1>2, <1>4
  <2>2. CASE j \in 1 .. Len(kept) /\ Push(next)[j] = kept[j]
    BY <1>2, <2>1, <2>2 DEF Sorted
  <2>3. CASE Push(next)[j] = next
    BY <1>5, <2>1, <2>3
  <2> QED
    BY <1>4, <2>2, <2>3
<1>7. Before(db, Push(next))
  BY <1>1, <1>2, <1>4 DEF Order, Before, BeforeRow
<1>8. BeforeRow(Push(next), next + 1)
  BY <1>1, <1>4, <1>5 DEF BeforeRow
<1> QED
  BY <1>6, <1>7, <1>8

\* The table is as it was, or has grown by younger rows.
Grows == Len(db) <= Len(db') /\ SubSeq(db', 1, Len(db)) = db

LEMMA TableKept == TypeOK /\ UNCHANGED db => Grows
<1> SUFFICES ASSUME TypeOK, UNCHANGED db PROVE Grows
  OBVIOUS
<1>1. db \in Rows /\ Len(db) \in Nat
  BY DEF TypeOK, Rows
<1>2. SubSeq(db, 1, Len(db)) = db
  BY <1>1 DEF Rows
<1> QED
  BY <1>1, <1>2 DEF Grows

LEMMA FlushOrder ==
  ASSUME TypeOK, Order, NEW rows \in Rows, Flush(rows), Sorted(rows), Before(db, rows),
         BeforeRow(rows, next'), next' \in Nat, next <= next'
  PROVE  Order' /\ Grows
<1>1. /\ db \in Rows /\ queue' = <<>> /\ Len(db) \in Nat /\ Len(rows) \in Nat /\ next \in Nat
      /\ \A i \in 1 .. Len(db) : db[i] \in Nat
  BY RowsAssumption DEF TypeOK, Rows, Flush
<1>2. Sorted(queue') /\ (\A s \in Rows : Before(s, queue')) /\ BeforeRow(queue', next')
  BY <1>1, EmptyTyped DEF Sorted, Before, BeforeRow
<1>3. BeforeRow(db, next')
  BY <1>1 DEF Order, BeforeRow
<1>4. CASE db' = db \o rows
  <2>1. Sorted(db') /\ BeforeRow(db', next') /\ Len(db') = Len(db) + Len(rows) /\ SubSeq(db', 1, Len(db)) = db
    BY <1>1, <1>3, <1>4, Joined DEF Order
  <2>2. db' \in Rows
    BY <1>1, <1>4 DEF Rows
  <2> QED
    BY <1>1, <1>2, <2>1, <2>2 DEF Order, Grows
<1>5. CASE UNCHANGED db
  BY <1>1, <1>2, <1>3, <1>5, TableKept DEF Order
<1> QED
  BY <1>4, <1>5 DEF Flush

LEMMA InsertOrder ==
  ASSUME TypeOK, Order, Insert
  PROVE  Order' /\ Grows
<1>1. next \in 1 .. MaxRows /\ next \in Nat /\ next' = next + 1
  BY RowsAssumption DEF TypeOK, Insert
<1>2. /\ Push(next) \in Rows /\ Sorted(Push(next)) /\ Before(db, Push(next))
      /\ BeforeRow(Push(next), next')
  BY <1>1, PushLemma, PushOrder
<1>3. CASE Flush(Push(next))
  BY <1>1, <1>2, <1>3, FlushOrder
<1>4. CASE queue' = Push(next) /\ UNCHANGED db
  <2>1. Grows
    BY <1>4, TableKept
  <2>3. db \in Rows
    BY DEF TypeOK
  <2>4. \A i \in 1 .. Len(db) : db[i] \in Nat
    BY <2>3, RowsAssumption DEF Rows
  <2>2. BeforeRow(db, next')
    BY <1>1, <2>4 DEF Order, BeforeRow
  <2> QED
    BY <1>2, <1>4, <2>1, <2>2 DEF Order
<1> QED
  BY <1>3, <1>4 DEF Insert

LEMMA OrderInitially == Init => Order
BY EmptyTyped DEF Init, Order, Sorted, Before, BeforeRow

LEMMA OrderStep == TypeOK /\ Order /\ [Next]_vars => Order' /\ Grows
<1> SUFFICES ASSUME TypeOK, Order, [Next]_vars PROVE Order' /\ Grows
  OBVIOUS
<1>1. next \in Nat /\ queue \in Rows /\ db \in Rows
  BY RowsAssumption DEF TypeOK
<1>2. ASSUME UNCHANGED <<queue, db, next>> PROVE Order' /\ Grows
  BY <1>2, TableKept DEF Order
<1>3. ASSUME Flush(queue), UNCHANGED next PROVE Order' /\ Grows
  BY <1>1, <1>3, FlushOrder DEF Order
<1>4. CASE Insert
  BY <1>4, InsertOrder
<1>5. CASE TimerFires
  BY <1>2, <1>3, <1>5 DEF TimerFires
<1>6. CASE Shutdown
  BY <1>2, <1>3, <1>6 DEF Shutdown
<1>7. CASE Exit \/ Crash
  <2>1. queue' = <<>> /\ UNCHANGED <<db, next>>
    BY <1>7 DEF Exit, Crash, End
  <2>2. Sorted(queue') /\ Before(db, queue') /\ BeforeRow(queue', next)
    BY <2>1, EmptyTyped DEF Sorted, Before, BeforeRow
  <2> QED
    BY <2>1, <2>2, TableKept DEF Order
<1>8. CASE Start
  BY <1>2, <1>8 DEF Start
<1>9. CASE UNCHANGED vars
  BY <1>2, <1>9 DEF vars
<1> QED
  BY <1>4, <1>5, <1>6, <1>7, <1>8, <1>9 DEF Next

\* What the theorem says of neighbours follows from what Order says of pairs.
LEMMA SortedIncreasing == ASSUME NEW s \in Rows, Sorted(s) PROVE Increasing(s)
<1>1. Len(s) \in Nat
  BY DEF Rows
<1> QED
  BY <1>1 DEF Sorted, Increasing

-----------------------------------------------------------------------------
(* The theorems.                                                           *)

\* The queue of request-logs.ts and its bookkeeping keep their types.
THEOREM QueueTyped == Spec => []TypeOK
<1>1. IInv => TypeOK
  BY DEF IInv
<1> QED
  BY <1>1, InvAlways, PTL

\* Every row insertRequestLogDeferred is given is accounted for exactly once,
\* for every batch size and bound, through crashes and restarts.
THEOREM RowsConserved == Spec => []Conservation
<1>1. IInv => Conservation
  BY DEF IInv
<1> QED
  BY <1>1, InvAlways, PTL

\* No waiting row is left without a timeout (enqueueFlush, flushDb).
THEOREM RowsNeverStranded == Spec => []NoRowStranded
<1>1. IInv => NoRowStranded
  BY DEF IInv
<1> QED
  BY <1>1, InvAlways, PTL

\* The queue stays below the batch size, and drops nothing when the batch size
\* is within maxPendingPerDb.
THEOREM QueueStaysBounded == Spec => []QueueBounded
<1>1. IInv => QueueBounded
  BY DEF IInv
<1> QED
  BY <1>1, InvAlways, PTL

\* gracefulShutdown loses no row that was waiting at the signal unwritten.
THEOREM ShutdownFlushes == Spec => ShutdownLeavesOnlyLateRows
<1>1. IInv => [Exit => \A i \in 1 .. Len(queue) : queue[i] >= mark]_vars
  BY DEF IInv, LateRows, Exit
<1> QED
  BY <1>1, InvAlways, PTL DEF Spec, ShutdownLeavesOnlyLateRows

\* flushDb writes the rows behind those of the table and in the order of the
\* calls of insertRequestLogDeferred, whatever was dropped or lost in between.
THEOREM TableInOrder == Spec => WrittenInOrder
<1>1. Init => Order
  BY OrderInitially
<1>2. TypeOK /\ TypeOK' /\ Order /\ [Next]_vars =>
        /\ Order'
        /\ [ /\ Len(db) <= Len(db') /\ SubSeq(db', 1, Len(db)) = db
             /\ Increasing(db') ]_vars
  <2> SUFFICES ASSUME TypeOK, TypeOK', Order, [Next]_vars
               PROVE  Order' /\ Grows /\ Increasing(db')
    BY DEF Grows
  <2>1. Order' /\ Grows
    BY OrderStep
  <2>2. db' \in Rows /\ Sorted(db')
    BY <2>1 DEF TypeOK, Rows, Order
  <2> QED
    BY <2>1, <2>2, SortedIncreasing
<1> QED
  BY <1>1, <1>2, QueueTyped, PTL DEF Spec, WrittenInOrder
=============================================================================
