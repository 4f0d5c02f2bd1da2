--------------------------- MODULE RequestPipeline ---------------------------
(***************************************************************************)
(* Concurrent client requests over the shared accounts, model locks,       *)
(* round-robin cursor and sticky map (server.ts, proxy/minimax.ts and the  *)
(* provider handlers, accounts/selection.ts, proxy/pipeline.ts).           *)
(*                                                                         *)
(* The program is one JavaScript thread: a handler runs undisturbed        *)
(* between two awaits, so an action is what a handler does from one await  *)
(* to the next.  What it reads before an await (the account's state, the   *)
(* cursor) it keeps in `conn` and may apply when it is long out of date.   *)
(*                                                                         *)
(* Handlers: "minimax" is handleProxy's own path and the shape the         *)
(* CodeBuddy, Pioneer, Z.AI, Tabi and QwenCloud handlers share (everything *)
(* after the selection inside one try); "kiro" penalises the account again *)
(* in its catch; "notion" has no selection and no catch at all around its  *)
(* error handling.  Whatever escapes a delegated handler is swallowed by   *)
(* handleProxy, which then continues on its own path.                      *)
(*                                                                         *)
(* Time: rate_limited_until and locked_until are countdowns.  Unset means  *)
(* NULL, 0 a time that has passed; Tick lets one unit pass everywhere, and *)
(* MaxTimer caps a cooldown.  The cursor only matters modulo CursorPeriod. *)
(* Combos are the subject of ComboChain, and the row queue of LogQueue:    *)
(* here a row is counted when it is queued.                                *)
(***************************************************************************)
EXTENDS ErrorRules, FiniteSets

CONSTANTS
  Account,            \* row ids, numbered in the order of created_at
  InitialAccounts,    \* the rows that exist at the start
  Request, Model, Key,
  NONE,               \* no account, no provider
  AccountProvider,    \* [Account -> Handler]
  ModelProvider,      \* [Model -> Handler \cup {NONE}], NONE: not resolvable
  IncompleteAccounts, \* Notion rows without all cookies or without a space id
  SelectionSettings,  \* values of settings.selection.* an admin may choose
  STEP,               \* selection step
  CursorPeriod,
  UpstreamErrors,     \* failed answers of the upstreams
  AdminOps,           \* what the admin does in an instance
  MaxTimer

Handler == {"minimax", "kiro", "notion"}
Selecting == {"minimax", "kiro"}      \* the handlers that call selectAccount
SelectionMode == {"lowest-backoff", "round-robin", "sticky"}

ASSUME AccountAssumption ==
  /\ Account \subseteq Nat /\ IsFiniteSet(Account)
  /\ InitialAccounts \subseteq Account /\ IncompleteAccounts \subseteq Account
  /\ NONE \notin Account /\ NONE \notin Handler
ASSUME ProviderAssumption ==
  /\ AccountProvider \in [Account -> Handler]
  /\ ModelProvider \in [Model -> Handler \cup {NONE}]
ASSUME SelectionAssumption ==
  /\ SelectionSettings \subseteq [Selecting -> SelectionMode]
  /\ STEP \in Nat \ {0} /\ CursorPeriod \in Nat \ {0}
ASSUME PeriodAssumption ==
  \A h \in Selecting :
    \A n \in 1 .. Cardinality({a \in Account : AccountProvider[a] = h}) :
      CursorPeriod % (STEP * n) = 0
ASSUME AdminAssumption ==
  AdminOps \subseteq {"disable", "enable", "delete", "create", "clear lock", "selection"}
ASSUME ErrorAssumption == UpstreamErrors \subseteq Response /\ MaxTimer \in Nat \ {0}

VARIABLES
  row,        \* the accounts table
  lock,       \* account_model_locks: remaining time, 0 when none or expired
  rrCursor, sticky,   \* server.ts: the cursor and the sticky map
  setting,    \* settings.selection.*
  conn        \* the requests in progress, with what each has read
vars == <<row, lock, rrCursor, sticky, setting, conn>>

Unset == -1
Timer == {Unset} \cup 0 .. MaxTimer

CleanRow(state) ==
  [state |-> state, enabled |-> TRUE, status |-> "active", backoff |-> 0,
   limited |-> Unset, err |-> FALSE]
Live(a) == row[a].state = "live"

\* What buildAccountStates keeps of a row for later: the fields the handlers
\* write back, and whether clearErrorState will find it clean.
Clean(r) == r.backoff = 0 /\ r.status = "active" /\ r.limited = Unset /\ ~r.err
Snapshot(r) == [backoff |-> r.backoff, status |-> r.status, clean |-> Clean(r)]
NoSnapshot == [backoff |-> 0, status |-> "active", clean |-> TRUE]

\* A request that has read nothing, or has forgotten what it had read.
Blank(pc, rows) ==
  [pc |-> pc, key |-> NONE, model |-> NONE, handler |-> "minimax", acct |-> NONE,
   snap |-> NoSnapshot, entry |-> 0, cursor |-> 0, rows |-> rows]

Init ==
  /\ row = [a \in Account |-> CleanRow(IF a \in InitialAccounts THEN "live" ELSE "unborn")]
  /\ lock = [a \in Account |-> [m \in Model |-> 0]]
  /\ rrCursor = 0
  /\ sticky = [k \in Key |-> NONE]
  /\ setting \in SelectionSettings
  /\ conn = [r \in Request |-> Blank("idle", 0)]

-----------------------------------------------------------------------------
(* Selection (accounts/selection.ts).  An operator returns the set of the  *)
(* one account the code picks, empty when there is none.                   *)

\* Mutant of Enabled: accounts of every provider are listed.
EnabledOfAnyProvider(h) == {a \in Account : Live(a) /\ row[a].enabled}

Enabled(h) == {a \in Account : Live(a) /\ row[a].enabled /\ AccountProvider[a] = h}
\* status = 'disabled' is tested by the code too; nothing ever writes it.
Available(h) == {a \in Enabled(h) : row[a].limited <= 0}

First(S) == {a \in S : \A b \in S : a <= b}
LowestBackoff(S) ==
  First({a \in S : \A b \in S : row[a].backoff <= row[b].backoff})
RoundRobin(S, cursor) ==
  {a \in S : Cardinality({b \in S : b < a}) = (cursor \div STEP) % Cardinality(S)}

\* Mutant of Pinned: a pin is given up once its account has a backoff.
PinnedWithoutBackoff(S, k) == sticky[k] \in S /\ row[sticky[k]].backoff = 0

Pinned(S, k) == sticky[k] \in S
Choice(S, mode, k, cursor) ==
  IF mode = "round-robin" THEN RoundRobin(S, cursor)
  ELSE IF mode = "sticky" /\ Pinned(S, k) THEN {sticky[k]}
  ELSE LowestBackoff(S)

AdvancedCursor(mode, cursor) ==
  IF mode = "round-robin" THEN (cursor + 1) % CursorPeriod ELSE cursor

-----------------------------------------------------------------------------
(* Penalties and resets (proxy/pipeline.ts, accounts/locks.ts).             *)

Remaining(ms) == IF ms > MaxTimer THEN MaxTimer ELSE ms

\* applyErrorState, then disableAccount when the balance is exhausted.
Penalised(r, snap, d, status) ==
  [r EXCEPT !.limited = IF d.cooldown > 0 THEN Remaining(d.cooldown) ELSE Unset,
            !.backoff = IF d.level = NoLevel THEN snap.backoff ELSE d.level,
            !.err     = TRUE,
            !.status  = IF status = 401 THEN "error" ELSE snap.status,
            !.enabled = @ /\ d.source # "balance"]

\* Mutant of Penalise: the lock is inserted without its foreign key.
PenaliseWithoutForeignKey(r, resp) ==
  LET c == conn[r]
      d == CheckFallbackError(resp, c.snap.backoff) IN
  /\ row' = IF Live(c.acct)
              THEN [row EXCEPT ![c.acct] = Penalised(@, c.snap, d, resp.status)] ELSE row
  /\ lock' = IF d.cooldown > 0
               THEN [lock EXCEPT ![c.acct][c.model] = Remaining(d.cooldown)] ELSE lock

\* The UPDATE finds no row once the account is deleted; the INSERT of the lock
\* then violates its foreign key and throws.
Penalise(r, resp) ==
  LET c == conn[r]
      d == CheckFallbackError(resp, c.snap.backoff) IN
  /\ row' = IF Live(c.acct)
              THEN [row EXCEPT ![c.acct] = Penalised(@, c.snap, d, resp.status)] ELSE row
  /\ lock' = IF Live(c.acct) /\ d.cooldown > 0
               THEN [lock EXCEPT ![c.acct][c.model] = Remaining(d.cooldown)] ELSE lock
LockInsertFails(r, resp) ==
  /\ ~Live(conn[r].acct)
  /\ CheckFallbackError(resp, conn[r].snap.backoff).cooldown > 0

\* Mutants of Reset: only the error text is cleared; the account is enabled too.
ResetErrorOnly(r) ==
  LET c == conn[r] IN
  row' = IF c.snap.clean \/ ~Live(c.acct) THEN row ELSE [row EXCEPT ![c.acct].err = FALSE]
ResetAndEnable(r) ==
  LET c == conn[r] IN
  row' = IF c.snap.clean \/ ~Live(c.acct) THEN row
         ELSE [row EXCEPT ![c.acct] = CleanRow("live")]

\* clearErrorState: decided on the snapshot, applied to the row.
Reset(r) ==
  LET c == conn[r] IN
  row' = IF c.snap.clean \/ ~Live(c.acct) THEN row
         ELSE [row EXCEPT ![c.acct].limited = Unset, ![c.acct].backoff = 0,
                          ![c.acct].err = FALSE, ![c.acct].status = "active"]

(* Ends of a request: what it had read is forgotten.  The cursor is written *)
(* back when the handler returns, which for a stream is before its end.     *)
Rest(r, pc, rows) ==
  conn' = [conn EXCEPT ![r] = Blank(pc, rows)]
Finish(r, pc, rows) == Rest(r, pc, rows) /\ rrCursor' = conn[r].cursor
Answer(r) == Finish(r, "answered", conn[r].rows + 1)
Refuse(r) == Finish(r, "refused", conn[r].rows)
RefuseWithRow(r) == Finish(r, "refused", conn[r].rows + 1)

\* Mutant of FallThrough: the handler logs a row before it throws.
FallThroughLogged(r) ==
  /\ conn' = [conn EXCEPT ![r].pc = "deferred", ![r].handler = "minimax",
                          ![r].acct = NONE, ![r].snap = NoSnapshot,
                          ![r].cursor = conn[r].entry, ![r].rows = @ + 1]
  /\ UNCHANGED rrCursor

\* An exception that leaves a delegated handler: handleProxy goes on with its
\* own path, with the cursor it had before it called the handler.
FallThrough(r) ==
  /\ conn' = [conn EXCEPT ![r].pc = "deferred", ![r].handler = "minimax",
                          ![r].acct = NONE, ![r].snap = NoSnapshot,
                          ![r].cursor = conn[r].entry]
  /\ UNCHANGED rrCursor

-----------------------------------------------------------------------------
(* A request up to the call of the upstream.                               *)

RouteOf(m) == IF ModelProvider[m] = NONE THEN "minimax" ELSE ModelProvider[m]

\* handleProxyWrapper: the cursor is copied before the body has been read.
Arrive(r) ==
  /\ conn[r].pc \in {"idle", "refused", "answered", "cut"}
  /\ \E k \in Key, m \in Model :
       conn' = [conn EXCEPT ![r] =
         [Blank("reading", 0) EXCEPT !.key = k, !.model = m, !.handler = RouteOf(m),
                      !.entry = rrCursor, !.cursor = rrCursor]]
  /\ UNCHANGED <<row, lock, rrCursor, sticky, setting>>

\* A body over 10 MB or no JSON: no selection takes place.
BadRequest(r) ==
  /\ conn[r].pc = "reading"
  /\ Refuse(r)
  /\ UNCHANGED <<row, lock, sticky, setting>>

ToSelect(r, h) == conn[r].pc \in {"reading", "deferred"} /\ conn[r].handler = h

\* No account of the provider, or none available: 503.
NoAccount(r) ==
  /\ \E h \in Selecting : ToSelect(r, h) /\ Available(h) = {}
  /\ Refuse(r)
  /\ UNCHANGED <<row, lock, sticky, setting>>

\* Selection, resolution of the model (400), lock gate (429), call.
Select(r) ==
  \E h \in Selecting :
    LET c == conn[r]
        mode == setting[h]
        cursor == AdvancedCursor(mode, c.cursor) IN
    /\ ToSelect(r, h)
    /\ \E a \in Choice(Available(h), mode, c.key, c.cursor) :
         /\ sticky' = IF mode = "sticky" THEN [sticky EXCEPT ![c.key] = a] ELSE sticky
         /\ \/ /\ ModelProvider[c.model] # NONE /\ lock[a][c.model] = 0
               /\ conn' = [conn EXCEPT ![r].pc = "fetching", ![r].acct = a,
                                       ![r].snap = Snapshot(row[a]), ![r].cursor = cursor]
               /\ UNCHANGED rrCursor
            \/ /\ ModelProvider[c.model] = NONE \/ lock[a][c.model] > 0
               /\ Rest(r, "refused", c.rows)
               /\ rrCursor' = cursor
    /\ UNCHANGED <<row, lock, setting>>

\* Notion takes its first enabled row, cooling or not; every refusal is logged.
NotionSelect(r) ==
  /\ ToSelect(r, "notion")
  /\ \/ /\ Enabled("notion") = {}
        /\ RefuseWithRow(r)
        /\ UNCHANGED row
     \/ \E a \in First(Enabled("notion")) :
          \/ /\ a \in IncompleteAccounts
             /\ row' = [row EXCEPT ![a].status = "error", ![a].err = TRUE]
             /\ RefuseWithRow(r)
          \/ /\ a \notin IncompleteAccounts /\ lock[a][conn[r].model] > 0
             /\ RefuseWithRow(r)
             /\ UNCHANGED row
          \/ /\ a \notin IncompleteAccounts /\ lock[a][conn[r].model] = 0
             /\ conn' = [conn EXCEPT ![r].pc = "fetching", ![r].acct = a,
                                     ![r].snap = Snapshot(row[a])]
             /\ UNCHANGED <<row, rrCursor>>
  /\ UNCHANGED <<lock, sticky, setting>>

-----------------------------------------------------------------------------
(* The upstream's answer.                                                  *)

\* A failed answer, its body read.  In the MiniMax shape a lock that cannot be
\* inserted ends in the catch, which logs a 502; elsewhere it escapes.
UpstreamError(r) ==
  /\ conn[r].pc = "fetching"
  /\ \E resp \in UpstreamErrors :
       /\ Penalise(r, resp)
       /\ \/ (LockInsertFails(r, resp) => conn[r].handler = "minimax") /\ Answer(r)
          \/ LockInsertFails(r, resp) /\ conn[r].handler # "minimax" /\ FallThrough(r)
  /\ UNCHANGED <<sticky, setting>>

\* The call itself fails: only Kiro's catch penalises the account, as a 502.
TransportFailure ==
  [status |-> 502, phrase |-> "", baseResp |-> 0, windowReset |-> 0,
   retryAfter |-> 0, errorCode |-> ""]
FetchThrows(r) ==
  /\ conn[r].pc = "fetching"
  /\ IF conn[r].handler = "kiro"
       THEN /\ Penalise(r, TransportFailure)
            /\ IF LockInsertFails(r, TransportFailure) THEN FallThrough(r) ELSE Answer(r)
       ELSE Answer(r) /\ UNCHANGED <<row, lock>>
  /\ UNCHANGED <<sticky, setting>>

\* The body of a failed answer breaks: Notion reads it outside of any try, and
\* falls through; in the other handlers this is FetchThrows.
ErrorBodyBreaks(r) ==
  /\ conn[r].pc = "fetching" /\ conn[r].handler = "notion"
  /\ FallThrough(r)
  /\ UNCHANGED <<row, lock, sticky, setting>>

\* A success resets the account (Notion never does) and is then a stream, a
\* body still to be read (MiniMax) or a body already read (Kiro).
UpstreamOk(r) ==
  /\ conn[r].pc = "fetching"
  /\ IF conn[r].handler = "notion" THEN UNCHANGED row ELSE Reset(r)
  /\ \/ /\ conn' = [conn EXCEPT ![r] = [Blank("stream", conn[r].rows) EXCEPT !.handler = conn[r].handler]]
        /\ rrCursor' = conn[r].cursor
     \/ /\ conn[r].handler = "minimax"
        /\ conn' = [conn EXCEPT ![r] = [Blank("body", conn[r].rows) EXCEPT !.cursor = conn[r].cursor]]
        /\ UNCHANGED rrCursor
     \/ conn[r].handler = "kiro" /\ Answer(r)
  /\ UNCHANGED <<lock, sticky, setting>>

\* resp.text() of a buffered answer, which may also throw: one row either way.
BodyRead(r) ==
  /\ conn[r].pc = "body"
  /\ Answer(r)
  /\ UNCHANGED <<row, lock, sticky, setting>>

\* The response is already returned; pipeWithUsage queues the row at the end.
StreamEnd(r) ==
  /\ conn[r].pc = "stream"
  /\ Rest(r, "answered", conn[r].rows + 1)
  /\ UNCHANGED <<row, lock, rrCursor, sticky, setting>>

\* The upstream body breaks, or the client leaves and no chunk follows: the
\* callback never fires.  Notion's loop catches this and logs.
StreamCut(r) ==
  /\ conn[r].pc = "stream" /\ conn[r].handler # "notion"
  /\ Rest(r, "cut", conn[r].rows)
  /\ UNCHANGED <<row, lock, rrCursor, sticky, setting>>

-----------------------------------------------------------------------------
(* The admin API and the clock.  An operation on an id that does not exist *)
(* touches no row and answers 204 all the same.                             *)

Disable(a) ==
  /\ "disable" \in AdminOps /\ Live(a)
  /\ row' = [row EXCEPT ![a].enabled = FALSE]
  /\ UNCHANGED <<lock, rrCursor, sticky, setting, conn>>

Enable(a) ==
  /\ "enable" \in AdminOps /\ Live(a)
  /\ row' = [row EXCEPT ![a].enabled = TRUE]
  /\ UNCHANGED <<lock, rrCursor, sticky, setting, conn>>

\* ON DELETE CASCADE takes the locks along.
Delete(a) ==
  /\ "delete" \in AdminOps /\ Live(a)
  /\ row' = [row EXCEPT ![a] = CleanRow("deleted")]
  /\ lock' = [lock EXCEPT ![a] = [m \in Model |-> 0]]
  /\ UNCHANGED <<rrCursor, sticky, setting, conn>>

Create(a) ==
  /\ "create" \in AdminOps
  /\ row[a].state = "unborn" /\ \A b \in Account : b < a => row[b].state # "unborn"
  /\ row' = [row EXCEPT ![a] = CleanRow("live")]
  /\ UNCHANGED <<lock, rrCursor, sticky, setting, conn>>

ClearLock(a, m) ==
  /\ "clear lock" \in AdminOps /\ lock[a][m] > 0
  /\ lock' = [lock EXCEPT ![a][m] = 0]
  /\ UNCHANGED <<row, rrCursor, sticky, setting, conn>>

ChangeSelection ==
  /\ "selection" \in AdminOps
  /\ setting' \in SelectionSettings
  /\ UNCHANGED <<row, lock, rrCursor, sticky, conn>>

Elapse(t) == IF t > 0 THEN t - 1 ELSE t
Tick ==
  /\ row' = [a \in Account |-> [row[a] EXCEPT !.limited = Elapse(@)]]
  /\ lock' = [a \in Account |-> [m \in Model |-> Elapse(lock[a][m])]]
  /\ UNCHANGED <<rrCursor, sticky, setting, conn>>

-----------------------------------------------------------------------------
Handle(r) ==
  \/ Arrive(r) \/ BadRequest(r) \/ NoAccount(r) \/ Select(r) \/ NotionSelect(r)
  \/ UpstreamError(r) \/ FetchThrows(r) \/ ErrorBodyBreaks(r) \/ UpstreamOk(r)
  \/ BodyRead(r) \/ StreamEnd(r) \/ StreamCut(r)

Administer ==
  \/ \E a \in Account : Disable(a) \/ Enable(a) \/ Delete(a) \/ Create(a)
  \/ \E a \in Account, m \in Model : ClearLock(a, m)
  \/ ChangeSelection

Next == (\E r \in Request : Handle(r)) \/ Administer \/ Tick

Spec == Init /\ [][Next]_vars

-----------------------------------------------------------------------------
(* Properties.                                                             *)

Stage == {"idle", "reading", "deferred", "fetching", "body", "stream",
          "refused", "answered", "cut"}
RowState ==
  [state : {"unborn", "live", "deleted"}, enabled : BOOLEAN,
   status : {"active", "error"}, backoff : 0 .. BACKOFF_MAX_LEVEL,
   limited : Timer, err : BOOLEAN]
SnapshotState ==
  [backoff : 0 .. BACKOFF_MAX_LEVEL, status : {"active", "error"}, clean : BOOLEAN]
ConnState ==
  [pc : Stage, key : Key \cup {NONE}, model : Model \cup {NONE}, handler : Handler,
   acct : Account \cup {NONE}, snap : SnapshotState,
   entry : 0 .. CursorPeriod - 1, cursor : 0 .. CursorPeriod - 1, rows : Nat]

\* The tables, the selection state and the requests keep their types.
TypeOK ==
  /\ row \in [Account -> RowState]
  /\ lock \in [Account -> [Model -> 0 .. MaxTimer]]
  /\ rrCursor \in 0 .. CursorPeriod - 1
  /\ sticky \in [Key -> Account \cup {NONE}]
  /\ setting \in [Selecting -> SelectionMode]
  /\ conn \in [Request -> ConnState]

(* An account that is penalised in any way (cooling or once cooled, on a    *)
(* rung, in status error) carries a last_error, whatever stale snapshots    *)
(* were written over each other: an operator who sees no error sees a clean *)
(* account, and the early return of clearErrorState never skips an account  *)
(* on account of last_error alone.                                          *)
PenaltyLeavesError ==
  \A a \in Account :
    row[a].limited # Unset \/ row[a].backoff > 0 \/ row[a].status = "error" => row[a].err

(* Model locks exist for existing accounts only: no answer that arrives     *)
(* after the account was deleted leaves a lock behind (locks.ts relies on   *)
(* the foreign key, which makes the insertion throw).                       *)
NoOrphanLocks ==
  \A a \in Account, m \in Model : lock[a][m] > 0 => Live(a)

(* A model is sent to an account of another provider ("a MiniMax request    *)
(* sent upstream with a foreign key", minimax.ts:264-266) only to MiniMax's, *)
(* by the fall-through of a request whose own account was deleted under it, *)
(* or of a request to Notion, whose error handling has no catch.            *)
ForeignFetchOnlyByFallThrough ==
  \A r \in Request : LET c == conn[r] IN
    c.pc = "fetching" /\ AccountProvider[c.acct] # ModelProvider[c.model] =>
      /\ c.handler = "minimax" /\ AccountProvider[c.acct] = "minimax"
      /\ \/ ModelProvider[c.model] = "notion"
         \/ \E a \in Account : row[a].state = "deleted"
                              /\ AccountProvider[a] = ModelProvider[c.model]

(* However a request ends, after a lock conflict, a fall-through or a       *)
(* broken body too, it queues at most one row, and exactly one if it ends   *)
(* with an upstream's answer; only a cut stream was sent and has none.      *)
OneRowPerAnswer ==
  \A r \in Request :
    /\ conn[r].rows <= 1
    /\ conn[r].pc = "answered" => conn[r].rows = 1
    /\ conn[r].pc \in {"reading", "deferred", "fetching", "body", "stream", "cut"}
         => conn[r].rows = 0

(* An account that was disabled, by an admin or because its balance is      *)
(* exhausted, is not enabled again by anything but the admin: no answer to  *)
(* a request that selected it before may undo it.                           *)
DisabledStaysDisabled ==
  [][ \A a \in Account :
        (Live(a) /\ ~row[a].enabled /\ row'[a].enabled) =>
          Enable(a) \/ Delete(a) ]_vars

(* A sticky pin moves only off an account that could not have served the    *)
(* request: disabled, cooling, deleted, or of another provider than the     *)
(* model asked for.                                                         *)
PinMovesOnlyWhenUnavailable ==
  [][ \A k \in Key :
        sticky[k] # NONE /\ sticky'[k] # sticky[k] =>
          \E r \in Request : conn[r].key = k /\ sticky[k] \notin Available(conn[r].handler) ]_vars

(* ARCHITECTURE.md:282: the backoff level "resets to 0 on next success".    *)
SuccessResets ==
  [][ \A r \in Request :
        conn[r].pc = "fetching" /\ conn'[r].pc \in {"stream", "body"} /\ Live(conn[r].acct)
          => row'[conn[r].acct].backoff = 0 ]_vars
=============================================================================
