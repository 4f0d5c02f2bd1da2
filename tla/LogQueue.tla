------------------------------ MODULE LogQueue ------------------------------
(***************************************************************************)
(* The deferred queue of request_logs rows (db/repos/request-logs.ts) with *)
(* the process around it (gracefulShutdown of server.ts, crash, restart).  *)
(*                                                                         *)
(* A row is a number, in the order of the calls of                         *)
(* insertRequestLogDeferred.  A timeout that was cleared is gone; one that *)
(* is merely forgotten (timers.delete without clearTimeout) stays in       *)
(* `timeouts` and fires all the same.  pending has an entry for the        *)
(* database exactly while `queue` is not empty.                            *)
(***************************************************************************)
EXTENDS Integers, Sequences

CONSTANTS
  Configs,      \* values of deferredLogQueueConfig: [batchSize, maxPending]
  MaxRows       \* bound on the rows queued in a behaviour

ASSUME ConfigAssumption ==
  Configs \subseteq [batchSize : Nat \ {0}, maxPending : Nat \ {0}]
ASSUME RowsAssumption == MaxRows \in Nat

VARIABLES
  config,       \* batchSize and maxPendingPerDb
  queue,        \* pending.get(db)
  registered,   \* timers.has(db)
  timeouts,     \* the number of timeouts of flushDb that will still fire
  db,           \* the rows of the table, in the order of their ids
  dropped,      \* the counter of getDeferredLogQueueStats
  process,      \* "up", "stopping" (in gracefulShutdown) or "down"
  next, lost, mark   \* history: next row, rows lost otherwise, next at the signal
vars == <<config, queue, registered, timeouts, db, dropped, process, next, lost, mark>>

Init ==
  /\ config \in Configs
  /\ queue = <<>> /\ registered = FALSE /\ timeouts = 0
  /\ db = <<>> /\ dropped = 0
  /\ process = "up"
  /\ next = 1 /\ lost = 0 /\ mark = 1

\* Mutant of Flush: the batch stays queued when its transaction fails.
FlushOrKeep(rows) ==
  \/ db' = db \o rows /\ queue' = <<>> /\ UNCHANGED lost
  \/ queue' = rows /\ UNCHANGED <<db, lost>>
\* Mutant of Flush: the batch is written but not taken off the queue.
FlushNotTaken(rows) == db' = db \o rows /\ queue' = rows /\ UNCHANGED lost

\* flushDb: the batch leaves the queue and is written in one transaction, or
\* is lost with a warning when the transaction fails.
Flush(rows) ==
  /\ queue' = <<>>
  /\ \/ db' = db \o rows /\ UNCHANGED lost
     \/ lost' = lost + Len(rows) /\ UNCHANGED db

-----------------------------------------------------------------------------
Full == Len(queue) >= config.maxPending

\* Mutant of Push: the newest row is put in front.
PushFront(row) == <<row>> \o (IF Full THEN Tail(queue) ELSE queue)
\* Mutant of Push: the bound is tested after the row was added.
PushUnbounded(row) ==
  Append(IF Len(queue) > config.maxPending THEN Tail(queue) ELSE queue, row)
\* The oldest row makes room for the new one.
Push(row) == Append(IF Full THEN Tail(queue) ELSE queue, row)

\* enqueueFlush: one timeout per batch.
EnqueueFlush ==
  /\ registered' = TRUE
  /\ timeouts' = IF registered THEN timeouts ELSE timeouts + 1

\* insertRequestLogDeferred, as long as the process runs.
Insert ==
  /\ process # "down" /\ next <= MaxRows
  /\ next' = next + 1
  /\ dropped' = IF Full THEN dropped + 1 ELSE dropped
  /\ IF Len(Push(next)) >= config.batchSize
       THEN /\ timeouts' = IF registered THEN timeouts - 1 ELSE timeouts
            /\ registered' = FALSE
            /\ Flush(Push(next))
       ELSE /\ queue' = Push(next)
            /\ EnqueueFlush
            /\ UNCHANGED <<db, lost>>
  /\ UNCHANGED <<config, process, mark>>

\* Mutant of TimerFires: the timer stays registered.
TimerFiresStillRegistered ==
  /\ process = "up" /\ timeouts > 0
  /\ timeouts' = timeouts - 1
  /\ IF queue = <<>> THEN UNCHANGED <<queue, db, lost>> ELSE Flush(queue)
  /\ UNCHANGED <<config, registered, dropped, process, next, mark>>

\* A timeout fires, registered or forgotten.  While gracefulShutdown waits only
\* promises already settled are awaited, and no timeout gets its turn.
TimerFires ==
  /\ process = "up" /\ timeouts > 0
  /\ timeouts' = timeouts - 1
  /\ registered' = FALSE
  /\ IF queue = <<>> THEN UNCHANGED <<queue, db, lost>> ELSE Flush(queue)
  /\ UNCHANGED <<config, dropped, process, next, mark>>

\* Mutant of Shutdown: the queue is not flushed.
ShutdownUnflushed ==
  /\ process = "up" /\ process' = "stopping" /\ mark' = next
  /\ UNCHANGED <<config, queue, registered, timeouts, db, dropped, next, lost>>

\* SIGTERM or SIGINT: flushDeferredLogs, which forgets the registered timeout.
\* Requests are still served until the process exits.
Shutdown ==
  /\ process = "up" /\ process' = "stopping"
  /\ mark' = next
  /\ IF queue = <<>> THEN UNCHANGED <<queue, registered, db, lost>>
     ELSE registered' = FALSE /\ Flush(queue)
  /\ UNCHANGED <<config, timeouts, dropped, next>>

\* The process ends, and what it held in memory with it.
End ==
  /\ process' = "down"
  /\ queue' = <<>> /\ registered' = FALSE /\ timeouts' = 0 /\ dropped' = 0
  /\ lost' = lost + Len(queue) + dropped
  /\ UNCHANGED <<config, db, next, mark>>
Exit == process = "stopping" /\ End
Crash == process # "down" /\ End

Start ==
  /\ process = "down" /\ process' = "up"
  /\ UNCHANGED <<config, queue, registered, timeouts, db, dropped, next, lost, mark>>

Next == Insert \/ TimerFires \/ Shutdown \/ Exit \/ Crash \/ Start

Spec == Init /\ [][Next]_vars

\* The event loop runs a timeout that is due; a shutdown that waits for
\* settled promises only comes to its end.
FairSpec == Spec /\ WF_vars(TimerFires) /\ WF_vars(Exit)

-----------------------------------------------------------------------------
(* Properties.                                                             *)

Rows == Seq(1 .. MaxRows)

\* The queue, the timer bookkeeping and the counters keep their types.
TypeOK ==
  /\ config \in Configs
  /\ queue \in Rows /\ db \in Rows
  /\ registered \in BOOLEAN
  /\ timeouts \in Nat /\ dropped \in Nat /\ lost \in Nat
  /\ process \in {"up", "stopping", "down"}
  /\ next \in 1 .. MaxRows + 1 /\ mark \in 1 .. MaxRows + 1

(* Every row handed to insertRequestLogDeferred is accounted for exactly    *)
(* once: written, waiting, counted as dropped, or lost with its batch or    *)
(* its process.  No flush by count, timer or shutdown writes a row twice.   *)
Conservation == next - 1 = Len(db) + Len(queue) + dropped + lost

(* The timer bookkeeping never strands a row: while rows wait a timeout is  *)
(* registered and will fire, whichever of the flushes came in between and   *)
(* whichever timeout they left behind.                                      *)
NoRowStranded ==
  process # "down" =>
    /\ registered <=> queue # <<>>
    /\ registered => timeouts > 0

(* The queue keeps below the batch size and within maxPendingPerDb; so with *)
(* a batch size within the bound, as in the defaults (50 and 1000), the     *)
(* drop-oldest branch is never taken.                                       *)
QueueBounded ==
  /\ Len(queue) < config.batchSize /\ Len(queue) <= config.maxPending
  /\ config.batchSize <= config.maxPending => dropped = 0

(* The table only grows, and in the order in which the rows were queued     *)
(* (the lookup by req_id takes the largest id for the last attempt of a     *)
(* request): a later row is never written before an earlier one, whatever   *)
(* was dropped or lost.                                                     *)
Increasing(s) == \A i \in 1 .. Len(s) - 1 : s[i] < s[i + 1]
WrittenInOrder ==
  [][ /\ Len(db) <= Len(db') /\ SubSeq(db', 1, Len(db)) = db
      /\ Increasing(db') ]_vars

(* A graceful shutdown leaves behind only rows that were queued after its   *)
(* flush: what was waiting at the signal has been written, or failed to be. *)
ShutdownLeavesOnlyLateRows ==
  [][ Exit => \A i \in 1 .. Len(queue) : queue[i] >= mark ]_vars

(* No row waits forever.                                                    *)
RowsSettle ==
  \A n \in 1 .. MaxRows :
    (\E i \in 1 .. Len(queue) : queue[i] = n) ~> (\A i \in 1 .. Len(queue) : queue[i] # n)
=============================================================================
