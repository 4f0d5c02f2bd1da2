------------------------ MODULE RequestPipelineProofs ------------------------
(***************************************************************************)
(* Safety of RequestPipeline for any number of accounts, requests, models  *)
(* and keys, any selection setting and any set of upstream errors.         *)
(*                                                                         *)
(* The types are inductive only together with RouteInv: what a request     *)
(* has read names an account that exists or existed, of the provider its   *)
(* handler serves.  The other invariants are proved on top of the two.     *)
(* A penalty is well typed because every verdict of ErrorRules is, for     *)
(* every answer and level: that comes first.                               *)
(***************************************************************************)
EXTENDS RequestPipeline, TLAPS

-----------------------------------------------------------------------------
(* ErrorRules: what every verdict satisfies.                               *)

Level == 0 .. BACKOFF_MAX_LEVEL

(* A step up the ladder stays on it and never goes down.                   *)
LEMMA NextLevelOnLadder ==
  ASSUME NEW level \in Level
  PROVE  NextLevel(level) \in 1 .. BACKOFF_MAX_LEVEL /\ NextLevel(level) >= level
BY LadderAssumption DEF NextLevel, Level, Doublings

(* Every rung has a cooldown: the ladder is total (the table of doublings   *)
(* covers the levels below the last) and no rung is free.                   *)
LEMMA RungCosts ==
  ASSUME NEW level \in 1 .. BACKOFF_MAX_LEVEL
  PROVE  GetQuotaCooldown(level) \in Nat \ {0}
<1>1. CASE level >= BACKOFF_MAX_LEVEL
  BY <1>1, LadderAssumption DEF GetQuotaCooldown, Doublings
<1>2. CASE level < BACKOFF_MAX_LEVEL
  <2>1. level \in 1 .. 7
    BY <1>2, LadderAssumption DEF Doublings
  <2>2. Doublings[level] \in Nat \ {0}
    BY <2>1 DEF Doublings
  <2>3. BASE_MS * Doublings[level] \in Nat \ {0}
    BY <2>2, LadderAssumption
  <2> QED
    BY <1>2, <2>1, <2>3, LadderAssumption DEF GetQuotaCooldown, Doublings
<1> QED
  BY <1>1, <1>2, LadderAssumption DEF Doublings

LEMMA BackoffIsDecision ==
  ASSUME NEW level \in Level
  PROVE  Backoff(level) \in Decision
BY NextLevelOnLadder, RungCosts DEF Backoff, Decision, Source

LEMMA CoolIsDecision ==
  ASSUME NEW ms \in Nat, NEW source \in Source
  PROVE  Cool(ms, source) \in Decision
BY DEF Cool, Decision, NoLevel

LEMMA BalanceIsDecision == BalanceExhausted \in Decision
BY DEF BalanceExhausted, Decision, NoLevel, Source

(* The first matching rule is one of the table.                            *)
LEMMA SmallestIndex ==
  ASSUME NEW S \in SUBSET (1 .. 10), S # {}
  PROVE  \E i \in S : \A j \in S : i <= j
<1>1. PICK k \in S : k \in 1 .. 10
  OBVIOUS
<1>2. SUFFICES ASSUME \A i \in S : \E j \in S : j < i PROVE FALSE
  OBVIOUS
<1>3. 1 \notin S BY <1>2
<1>4. 2 \notin S BY <1>2, <1>3
<1>5. 3 \notin S BY <1>2, <1>3, <1>4
<1>6. 4 \notin S BY <1>2, <1>3, <1>4, <1>5
<1>7. 5 \notin S BY <1>2, <1>3, <1>4, <1>5, <1>6
<1>8. 6 \notin S BY <1>2, <1>3, <1>4, <1>5, <1>6, <1>7
<1>9. 7 \notin S BY <1>2, <1>3, <1>4, <1>5, <1>6, <1>7, <1>8
<1>10. 8 \notin S BY <1>2, <1>3, <1>4, <1>5, <1>6, <1>7, <1>8, <1>9
<1>11. 9 \notin S BY <1>2, <1>3, <1>4, <1>5, <1>6, <1>7, <1>8, <1>9, <1>10
<1>12. 10 \notin S BY <1>2, <1>3, <1>4, <1>5, <1>6, <1>7, <1>8, <1>9, <1>10, <1>11
<1> QED
  BY <1>1, <1>3, <1>4, <1>5, <1>6, <1>7, <1>8, <1>9, <1>10, <1>11, <1>12

LEMMA FirstMatchingRule ==
  ASSUME NEW resp, Matching(resp) # {}
  PROVE  FirstOf(Matching(resp)) \in 1 .. 10
<1>1. Matching(resp) \in SUBSET (1 .. 10)
  BY DEF Matching
<1>2. \E i \in Matching(resp) : \A j \in Matching(resp) : i <= j
  BY <1>1, SmallestIndex
<1>3. FirstOf(Matching(resp)) \in Matching(resp)
  BY <1>2 DEF FirstOf
<1> QED
  BY <1>1, <1>3

LEMMA RuleCooldowns ==
  ASSUME NEW i \in 1 .. 10
  PROVE  ERROR_RULES[i].cooldown \in Nat
<1>1. /\ ERROR_RULES[1].cooldown = 0 /\ ERROR_RULES[2].cooldown = 0
      /\ ERROR_RULES[3].cooldown = 0 /\ ERROR_RULES[4].cooldown = 0
      /\ ERROR_RULES[5].cooldown = 0 /\ ERROR_RULES[6].cooldown = 0
  BY DEF ERROR_RULES, PhraseRule, StatusRule
<1>2. /\ ERROR_RULES[7].cooldown = TRANSIENT_MS /\ ERROR_RULES[8].cooldown = TRANSIENT_MS
      /\ ERROR_RULES[9].cooldown = TRANSIENT_MS /\ ERROR_RULES[10].cooldown = TRANSIENT_MS
  BY DEF ERROR_RULES, PhraseRule, StatusRule
<1>3. i \in {1, 2, 3, 4, 5, 6} \/ i \in {7, 8, 9, 10}
  OBVIOUS
<1> QED
  BY <1>1, <1>2, <1>3, CooldownAssumption

LEMMA TableIsDecision ==
  ASSUME NEW resp, NEW level \in Level
  PROVE  TableDecision(resp, level) \in Decision
<1>1. CASE Matching(resp) = {}
  BY <1>1, CoolIsDecision, CooldownAssumption DEF TableDecision, Source
<1>2. CASE Matching(resp) # {}
  <2> DEFINE i == FirstOf(Matching(resp))
  <2>1. i \in 1 .. 10
    BY <1>2, FirstMatchingRule
  <2>2. Cool(ERROR_RULES[i].cooldown, "rule") \in Decision
    BY <2>1, RuleCooldowns, CoolIsDecision DEF Source
  <2>3. TableDecision(resp, level) =
          IF ERROR_RULES[i].backoff THEN Backoff(level) ELSE Cool(ERROR_RULES[i].cooldown, "rule")
    BY <1>2 DEF TableDecision
  <2> QED
    BY <2>2, <2>3, BackoffIsDecision
<1> QED
  BY <1>1, <1>2

(* Every answer gets a verdict of the right shape: its level, if it has     *)
(* one, is on the ladder, and its cooldown is a duration.                   *)
THEOREM VerdictIsDecision ==
  ASSUME NEW resp \in Response, NEW level \in Level
  PROVE  CheckFallbackError(resp, level) \in Decision
<1>1. /\ resp.retryAfter \in Nat /\ resp.windowReset \in Nat
      /\ resp.retryAfter * SECOND_MS \in Nat
  BY CooldownAssumption DEF Response
<1>2. /\ Cool(resp.retryAfter * SECOND_MS, "rule") \in Decision
      /\ Cool(resp.windowReset, "window-reset") \in Decision
  BY <1>1, CoolIsDecision DEF Source
<1>3. /\ Cool(0, "token-limit") \in Decision /\ Cool(0, "rule") \in Decision
      /\ Cool(0, "param") \in Decision
      /\ Cool(TIMEOUT_MS, "rule") \in Decision /\ Cool(TRANSIENT_MS, "rule") \in Decision
  BY CoolIsDecision, CooldownAssumption DEF Source
<1>4. ASSUME resp.errorCode \in DOMAIN ErrorCodeDecision
      PROVE  ErrorCodeDecision[resp.errorCode] \in Decision
  BY <1>3, <1>4, BalanceIsDecision DEF ErrorCodeDecision
<1>5. ASSUME resp.baseResp \in BaseRespCodes
      PROVE  BaseRespDecision(resp.baseResp, level) \in Decision
  <2> DEFINE code == resp.baseResp
  <2>1. \/ code \in {1002, 1027} \/ code = 1008 \/ code = 1039 \/ code = 2013
        \/ code = 1004 \/ code = 1001 \/ code = 1013
    BY <1>5 DEF BaseRespCodes
  <2>2. Backoff(level) \in Decision
    BY BackoffIsDecision
  <2> QED
    BY <2>1, <2>2, <1>3, BalanceIsDecision DEF BaseRespDecision
<1> QED
  BY <1>2, <1>4, <1>5, TableIsDecision DEF CheckFallbackError

-----------------------------------------------------------------------------
(* RequestPipeline.                                                        *)

Underway == {"reading", "deferred", "fetching"}
Gone(h) == \E a \in Account : row[a].state = "deleted" /\ AccountProvider[a] = h

\* A request is with the handler of its model, or with MiniMax's because an
\* account of its model's provider was deleted, or Notion's handler threw.
RoutedWell(c) ==
  /\ c.model \in Model /\ c.key \in Key
  /\ \/ c.handler = RouteOf(c.model)
     \/ /\ c.handler = "minimax" /\ ModelProvider[c.model] # NONE
        /\ ModelProvider[c.model] = "notion" \/ Gone(ModelProvider[c.model])
\* The account it calls the upstream with is one of its handler's.
CallsWell(c) ==
  /\ c.acct \in Account /\ AccountProvider[c.acct] = c.handler
  /\ row[c.acct].state # "unborn" /\ ModelProvider[c.model] # NONE

RouteInv ==
  \A r \in Request :
    /\ conn[r].pc \in Underway => RoutedWell(conn[r])
    /\ conn[r].pc = "fetching" => CallsWell(conn[r])

BaseInv == TypeOK /\ RouteInv

\* Rows are created once and deleted once.
RowsPersist ==
  \A a \in Account :
    /\ row[a].state # "unborn" => row'[a].state # "unborn"
    /\ row[a].state = "deleted" => row'[a].state = "deleted"

-----------------------------------------------------------------------------
(* Types of the values the actions build.                                  *)

LEMMA RestTyped ==
  ASSUME NEW pc \in Stage, NEW rows \in Nat
  PROVE  Blank(pc, rows) \in ConnState /\ Blank(pc, rows).pc = pc
<1>1. 0 \in 0 .. BACKOFF_MAX_LEVEL /\ 0 \in 0 .. CursorPeriod - 1
  BY SelectionAssumption, LadderAssumption DEF Doublings
<1>2. NoSnapshot \in SnapshotState
  BY <1>1 DEF NoSnapshot, SnapshotState
<1> QED
  BY <1>1, <1>2 DEF Blank, ConnState, Handler

LEMMA CleanRowTyped ==
  ASSUME NEW state \in {"unborn", "live", "deleted"}
  PROVE  CleanRow(state) \in RowState /\ CleanRow(state).state = state
BY LadderAssumption, ErrorAssumption DEF CleanRow, RowState, Timer, Unset, Doublings

LEMMA SnapshotTyped ==
  ASSUME NEW r \in RowState
  PROVE  Snapshot(r) \in SnapshotState
BY DEF Snapshot, Clean, RowState, SnapshotState

LEMMA RemainingTyped ==
  ASSUME NEW ms \in Nat
  PROVE  Remaining(ms) \in 0 .. MaxTimer
BY ErrorAssumption DEF Remaining

LEMMA PenalisedTyped ==
  ASSUME NEW r \in RowState, NEW snap \in SnapshotState, NEW d \in Decision, NEW status
  PROVE  /\ Penalised(r, snap, d, status) \in RowState
         /\ Penalised(r, snap, d, status).state = r.state
         /\ Penalised(r, snap, d, status).err
         /\ Penalised(r, snap, d, status).enabled => r.enabled
<1> DEFINE limited == IF d.cooldown > 0 THEN Remaining(d.cooldown) ELSE Unset
           backoff == IF d.level = NoLevel THEN snap.backoff ELSE d.level
           stat == IF status = 401 THEN "error" ELSE snap.status
           enabled == r.enabled /\ d.source # "balance"
<1>1. limited \in Timer
  BY RemainingTyped DEF Decision, Timer
<1>2. backoff \in 0 .. BACKOFF_MAX_LEVEL
  BY DEF Decision, SnapshotState
<1>3. stat \in {"active", "error"}
  BY DEF SnapshotState
<1>4. enabled \in BOOLEAN /\ (enabled => r.enabled)
  BY DEF RowState
<1>5. Penalised(r, snap, d, status) =
        [r EXCEPT !.limited = limited, !.backoff = backoff, !.err = TRUE,
                  !.status = stat, !.enabled = enabled]
  BY DEF Penalised
<1> HIDE DEF limited, backoff, stat, enabled
<1> QED
  BY <1>1, <1>2, <1>3, <1>4, <1>5 DEF RowState

LEMMA ChoiceAvailable ==
  ASSUME NEW h, NEW mode, NEW k, NEW cursor
  PROVE  Choice(Available(h), mode, k, cursor) \subseteq Available(h)
BY DEF Choice, RoundRobin, LowestBackoff, First, Pinned

LEMMA AvailableLive ==
  ASSUME NEW h, NEW a \in Available(h)
  PROVE  a \in Account /\ row[a].state = "live" /\ AccountProvider[a] = h
BY DEF Available, Enabled, Live

LEMMA CursorTyped ==
  ASSUME NEW mode, NEW cursor \in 0 .. CursorPeriod - 1
  PROVE  AdvancedCursor(mode, cursor) \in 0 .. CursorPeriod - 1
<1>1. (cursor + 1) % CursorPeriod \in 0 .. CursorPeriod - 1
  BY SelectionAssumption
<1> QED
  BY <1>1 DEF AdvancedCursor

LEMMA RouteTyped ==
  ASSUME NEW m \in Model
  PROVE  RouteOf(m) \in Handler
BY ProviderAssumption DEF RouteOf, Handler

-----------------------------------------------------------------------------
(* The parts the actions are built from.                                   *)

\* Replacing one request's record keeps BaseInv's part about requests if the
\* new record is well-formed and no row is taken back.
LEMMA ConnStep ==
  ASSUME BaseInv, RowsPersist, NEW r \in Request, NEW c \in ConnState,
         conn' = [conn EXCEPT ![r] = c],
         c.pc \in Underway => RoutedWell(c),
         c.pc = "fetching" => CallsWell(c)
  PROVE  conn' \in [Request -> ConnState] /\ RouteInv'
<1>1. conn \in [Request -> ConnState]
  BY DEF BaseInv, TypeOK
<1>2. conn' \in [Request -> ConnState]
  BY <1>1
<1>3. ASSUME NEW q \in Request PROVE conn'[q] = IF q = r THEN c ELSE conn[q]
  BY <1>1
<1>4. ASSUME NEW h, Gone(h) PROVE Gone(h)'
  BY <1>4 DEF Gone, RowsPersist
<1>5. ASSUME NEW q \in Request
      PROVE  /\ conn'[q].pc \in Underway => RoutedWell(conn[q])'
             /\ conn'[q].pc = "fetching" => CallsWell(conn[q])'
  <2>1. CASE q = r
    BY <1>3, <1>4, <2>1 DEF RoutedWell, CallsWell, RowsPersist
  <2>2. CASE q # r
    <3>1. conn'[q] = conn[q]
      BY <1>3, <2>2
    <3> QED
      BY <1>4, <3>1 DEF BaseInv, RouteInv, RoutedWell, CallsWell, RowsPersist
  <2> QED
    BY <2>1, <2>2
<1> QED
  BY <1>2, <1>5 DEF RouteInv

LEMMA RestStep ==
  ASSUME BaseInv, RowsPersist, NEW r \in Request, NEW pc \in Stage \ Underway,
         NEW rows \in Nat, Rest(r, pc, rows)
  PROVE  conn' \in [Request -> ConnState] /\ RouteInv'
<1> DEFINE c == Blank(pc, rows)
<1>1. c \in ConnState
  BY RestTyped
<1>2. c.pc \notin Underway /\ c.pc # "fetching"
  BY RestTyped DEF Underway
<1>3. conn' = [conn EXCEPT ![r] = c]
  BY DEF Rest
<1> HIDE DEF c
<1> QED
  BY <1>1, <1>2, <1>3, ConnStep

\* A request that ends writes back the cursor it holds.
LEMMA FinishStep ==
  ASSUME BaseInv, RowsPersist, NEW r \in Request, NEW pc \in Stage \ Underway,
         NEW rows \in Nat, Finish(r, pc, rows)
  PROVE  conn' \in [Request -> ConnState] /\ RouteInv' /\ rrCursor' \in 0 .. CursorPeriod - 1
<1>1. conn[r].cursor \in 0 .. CursorPeriod - 1
  BY DEF BaseInv, TypeOK, ConnState
<1> QED
  BY <1>1, RestStep DEF Finish

\* A penalty concerns one row: it never takes it back, always leaves an error
\* and never enables it; a lock is set on a live row only.
LEMMA PenaliseStep ==
  ASSUME BaseInv, NEW r \in Request, conn[r].pc = "fetching", NEW resp \in Response,
         Penalise(r, resp)
  PROVE  /\ row' \in [Account -> RowState]
         /\ lock' \in [Account -> [Model -> 0 .. MaxTimer]]
         /\ RowsPersist
         /\ \A a \in Account : row'[a].enabled => row[a].enabled
         /\ PenaltyLeavesError => PenaltyLeavesError'
         /\ NoOrphanLocks => NoOrphanLocks'
<1> DEFINE a == conn[r].acct
           m == conn[r].model
           snap == conn[r].snap
           d == CheckFallbackError(resp, snap.backoff)
           new == Penalised(row[a], snap, d, resp.status)
<1>1. /\ row \in [Account -> RowState] /\ lock \in [Account -> [Model -> 0 .. MaxTimer]]
      /\ conn[r] \in ConnState
  BY DEF BaseInv, TypeOK
<1>2. a \in Account /\ m \in Model
  BY DEF BaseInv, RouteInv, CallsWell, RoutedWell, Underway
<1>3. snap \in SnapshotState /\ snap.backoff \in Level
  BY <1>1 DEF ConnState, SnapshotState, Level
<1>4. d \in Decision
  BY <1>3, VerdictIsDecision
<1>5. /\ new \in RowState /\ new.state = row[a].state /\ new.err
      /\ new.enabled => row[a].enabled
  <2> HIDE DEF a, snap, d
  <2>1. row[a] \in RowState
    BY <1>1, <1>2
  <2>2. new \in RowState
    BY <2>1, <1>3, <1>4, PenalisedTyped
  <2>3. new.state = row[a].state /\ new.err
    BY <2>1, <1>3, <1>4, PenalisedTyped
  <2>4. new.enabled => row[a].enabled
    BY <2>1, <1>3, <1>4, PenalisedTyped
  <2> QED
    BY <2>2, <2>3, <2>4
<1>6. Remaining(d.cooldown) \in 0 .. MaxTimer
  BY <1>4, RemainingTyped DEF Decision
<1>7. /\ row' = IF Live(a) THEN [row EXCEPT ![a] = new] ELSE row
      /\ lock' = IF Live(a) /\ d.cooldown > 0
                   THEN [lock EXCEPT ![a][m] = Remaining(d.cooldown)] ELSE lock
  BY <1>1, <1>2 DEF Penalise
<1> HIDE DEF a, m, snap, d, new
<1>8. row' \in [Account -> RowState]
  BY <1>1, <1>2, <1>5, <1>7
<1>9. lock' \in [Account -> [Model -> 0 .. MaxTimer]]
  BY <1>1, <1>2, <1>6, <1>7
<1>10. \A b \in Account : row'[b] = row[b] \/ (b = a /\ row'[b] = new)
  BY <1>1, <1>2, <1>7
<1>11. RowsPersist /\ \A b \in Account : row'[b].state = row[b].state
  BY <1>5, <1>10 DEF RowsPersist
<1>12. \A b \in Account : row'[b].enabled => row[b].enabled
  BY <1>5, <1>10
<1>13. PenaltyLeavesError => PenaltyLeavesError'
  BY <1>5, <1>10 DEF PenaltyLeavesError
<1>14. ASSUME NoOrphanLocks, NEW b \in Account, NEW n \in Model, lock'[b][n] > 0
       PROVE  Live(b)
  <2>1. CASE lock'[b][n] = lock[b][n]
    BY <1>14, <2>1 DEF NoOrphanLocks
  <2>2. CASE lock'[b][n] # lock[b][n]
    BY <1>1, <1>2, <1>7, <2>2
  <2> QED
    BY <2>1, <2>2
<1>15. NoOrphanLocks => NoOrphanLocks'
  BY <1>11, <1>14 DEF NoOrphanLocks, Live
<1> QED
  BY <1>8, <1>9, <1>11, <1>12, <1>13, <1>15

\* A reset concerns one row as well, and leaves it clean.
LEMMA ResetStep ==
  ASSUME BaseInv, NEW r \in Request, conn[r].pc = "fetching", Reset(r)
  PROVE  /\ row' \in [Account -> RowState]
         /\ RowsPersist
         /\ \A a \in Account : row'[a].state = row[a].state /\ row'[a].enabled = row[a].enabled
         /\ PenaltyLeavesError => PenaltyLeavesError'
<1> DEFINE a == conn[r].acct
           new == [row[a] EXCEPT !.limited = Unset, !.backoff = 0, !.err = FALSE,
                                 !.status = "active"]
<1>1. row \in [Account -> RowState]
  BY DEF BaseInv, TypeOK
<1>2. a \in Account
  BY DEF BaseInv, RouteInv, CallsWell
<1>3. /\ new \in RowState /\ new.state = row[a].state /\ new.enabled = row[a].enabled
      /\ new.limited = Unset /\ new.backoff = 0 /\ new.status = "active"
  <2>1. row[a] \in RowState
    BY <1>1, <1>2
  <2>2. Unset \in Timer /\ 0 \in 0 .. BACKOFF_MAX_LEVEL
    BY LadderAssumption DEF Timer, Doublings
  <2> QED
    BY <2>1, <2>2 DEF RowState
<1>4. row' = row \/ row' = [row EXCEPT ![a] = new]
  BY <1>1, <1>2 DEF Reset
<1> HIDE DEF a, new
<1>5. row' \in [Account -> RowState]
  BY <1>1, <1>2, <1>3, <1>4
<1>6. \A b \in Account : row'[b] = row[b] \/ (b = a /\ row'[b] = new)
  BY <1>1, <1>2, <1>4
<1>7. PenaltyLeavesError => PenaltyLeavesError'
  BY <1>3, <1>6 DEF PenaltyLeavesError
<1> QED
  BY <1>3, <1>5, <1>6, <1>7 DEF RowsPersist

-----------------------------------------------------------------------------
(* The base invariant.                                                     *)

LEMMA BaseInit == Init => BaseInv
<1> SUFFICES ASSUME Init PROVE BaseInv
  OBVIOUS
<1>1. row \in [Account -> RowState]
  <2>1. ASSUME NEW a \in Account
        PROVE  CleanRow(IF a \in InitialAccounts THEN "live" ELSE "unborn") \in RowState
    BY CleanRowTyped
  <2> QED
    BY <2>1 DEF Init
<1>2. lock \in [Account -> [Model -> 0 .. MaxTimer]]
  BY ErrorAssumption DEF Init
<1>3. rrCursor \in 0 .. CursorPeriod - 1
  BY SelectionAssumption DEF Init
<1>4. sticky \in [Key -> Account \cup {NONE}] /\ setting \in [Selecting -> SelectionMode]
  BY SelectionAssumption DEF Init
<1>5. Blank("idle", 0) \in ConnState /\ Blank("idle", 0).pc = "idle"
  BY RestTyped DEF Stage
<1>6. conn \in [Request -> ConnState]
  BY <1>5 DEF Init
<1>7. RouteInv
  BY <1>5 DEF Init, RouteInv, Underway
<1> QED
  BY <1>1, <1>2, <1>3, <1>4, <1>6, <1>7 DEF BaseInv, TypeOK

LEMMA Persist ==
  ASSUME UNCHANGED row
  PROVE  RowsPersist
BY DEF RowsPersist

\* A fall-through follows the deletion of the account the request had, or
\* leaves Notion's handler.
LEMMA FallThroughStep ==
  ASSUME BaseInv, RowsPersist, NEW r \in Request, conn[r].pc = "fetching",
         ~Live(conn[r].acct) \/ conn[r].handler = "notion",
         conn[r].handler # "minimax", FallThrough(r)
  PROVE  conn' \in [Request -> ConnState] /\ RouteInv' /\ rrCursor' \in 0 .. CursorPeriod - 1
<1> DEFINE c == [conn[r] EXCEPT !.pc = "deferred", !.handler = "minimax",
                                !.acct = NONE, !.snap = NoSnapshot, !.cursor = conn[r].entry]
<1>1. conn[r] \in ConnState /\ conn \in [Request -> ConnState] /\ row \in [Account -> RowState]
      /\ rrCursor \in 0 .. CursorPeriod - 1
  BY DEF BaseInv, TypeOK
<1>2. RoutedWell(conn[r]) /\ CallsWell(conn[r])
  BY DEF BaseInv, RouteInv, Underway
<1>3. ModelProvider[conn[r].model] = "notion" \/ Gone(ModelProvider[conn[r].model])
  <2>1. CASE ~Live(conn[r].acct)
    <3>1. row[conn[r].acct].state = "deleted" /\ conn[r].acct \in Account
      BY <1>1, <1>2, <2>1 DEF CallsWell, RowState, Live
    <3>2. AccountProvider[conn[r].acct] = ModelProvider[conn[r].model]
      BY <1>2 DEF CallsWell, RoutedWell, RouteOf
    <3> QED
      BY <3>1, <3>2 DEF Gone
  <2>2. CASE conn[r].handler = "notion"
    BY <1>2, <2>2 DEF CallsWell, RoutedWell, RouteOf
  <2> QED
    BY <2>1, <2>2
<1>4. c \in ConnState
  <2>1. NoSnapshot \in SnapshotState
    BY LadderAssumption DEF NoSnapshot, SnapshotState, Doublings
  <2> QED
    BY <1>1, <2>1 DEF ConnState, Stage, Handler
<1>5. c.pc = "deferred" /\ c.model = conn[r].model /\ c.key = conn[r].key /\ c.handler = "minimax"
  BY <1>1 DEF ConnState
<1>6. RoutedWell(c)
  BY <1>2, <1>3, <1>5 DEF RoutedWell, CallsWell
<1>7. conn' = [conn EXCEPT ![r] = c]
  BY <1>1 DEF FallThrough
<1> HIDE DEF c
<1>8. conn' \in [Request -> ConnState] /\ RouteInv'
  BY <1>4, <1>5, <1>6, <1>7, ConnStep
<1> QED
  BY <1>1, <1>8 DEF FallThrough

\* An account is picked for the request: both forms of selection.
LEMMA ForwardStep ==
  ASSUME BaseInv, RowsPersist, NEW r \in Request, NEW h \in Handler, ToSelect(r, h),
         NEW a \in Account, row[a].state = "live", AccountProvider[a] = h,
         ModelProvider[conn[r].model] # NONE, NEW cursor \in 0 .. CursorPeriod - 1,
         conn' = [conn EXCEPT ![r] = [conn[r] EXCEPT !.pc = "fetching", !.acct = a,
                                        !.snap = Snapshot(row[a]), !.cursor = cursor]]
  PROVE  conn' \in [Request -> ConnState] /\ RouteInv'
<1> DEFINE c == [conn[r] EXCEPT !.pc = "fetching", !.acct = a,
                                !.snap = Snapshot(row[a]), !.cursor = cursor]
<1>1. conn[r] \in ConnState /\ row[a] \in RowState
  BY DEF BaseInv, TypeOK
<1>2. RoutedWell(conn[r]) /\ conn[r].handler = h
  BY DEF BaseInv, RouteInv, Underway, ToSelect
<1>3. Snapshot(row[a]) \in SnapshotState
  BY <1>1, SnapshotTyped
<1>4. c \in ConnState
  BY <1>1, <1>3 DEF ConnState, Stage
<1>5. /\ c.pc = "fetching" /\ c.acct = a /\ c.model = conn[r].model
      /\ c.key = conn[r].key /\ c.handler = conn[r].handler
  BY <1>1 DEF ConnState
<1>6. RoutedWell(c) /\ CallsWell(c)
  BY <1>2, <1>5 DEF RoutedWell, CallsWell
<1>7. conn' = [conn EXCEPT ![r] = c]
  OBVIOUS
<1> HIDE DEF c
<1> QED
  BY <1>4, <1>6, <1>7, ConnStep

LEMMA BaseStep == BaseInv /\ [Next]_vars => BaseInv'
<1> SUFFICES ASSUME BaseInv, [Next]_vars PROVE BaseInv'
  OBVIOUS
<1> USE DEF BaseInv
<1>1. /\ row \in [Account -> RowState] /\ lock \in [Account -> [Model -> 0 .. MaxTimer]]
      /\ rrCursor \in 0 .. CursorPeriod - 1 /\ sticky \in [Key -> Account \cup {NONE}]
      /\ setting \in [Selecting -> SelectionMode] /\ conn \in [Request -> ConnState]
  BY DEF TypeOK
<1>2. ASSUME NEW r \in Request
      PROVE  conn[r] \in ConnState /\ conn[r].rows \in Nat /\ conn[r].rows + 1 \in Nat
             /\ conn[r].cursor \in 0 .. CursorPeriod - 1
  BY <1>1 DEF ConnState
<1>3. {"refused", "answered", "cut", "stream", "body"} \subseteq Stage \ Underway
  BY DEF Stage, Underway
<1> DEFINE ConnTyped == conn' \in [Request -> ConnState] /\ RouteInv'
           CursorKept == rrCursor' \in 0 .. CursorPeriod - 1
<1>4. ASSUME NEW r \in Request, UNCHANGED row, Refuse(r) \/ RefuseWithRow(r)
      PROVE  ConnTyped /\ CursorKept
  BY <1>2, <1>3, <1>4, Persist, FinishStep DEF Refuse, RefuseWithRow
<1>5. ASSUME NEW r \in Request, RowsPersist, Answer(r)
      PROVE  ConnTyped /\ CursorKept
  BY <1>2, <1>3, <1>5, FinishStep DEF Answer
<1>6. ASSUME NEW r \in Request, Handle(r) PROVE BaseInv'
  <2>1. CASE Arrive(r)
    <3>1. PICK k \in Key, m \in Model : conn' = [conn EXCEPT ![r] =
             [Blank("reading", 0) EXCEPT !.key = k, !.model = m, !.handler = RouteOf(m),
                                         !.entry = rrCursor, !.cursor = rrCursor]]
      BY <2>1 DEF Arrive
    <3> DEFINE c == [Blank("reading", 0) EXCEPT !.key = k, !.model = m, !.handler = RouteOf(m),
                                         !.entry = rrCursor, !.cursor = rrCursor]
    <3>2. Blank("reading", 0) \in ConnState /\ Blank("reading", 0).pc = "reading"
      BY RestTyped DEF Stage
    <3>3. c \in ConnState /\ c.pc = "reading" /\ RoutedWell(c)
      BY <3>2, <1>1, RouteTyped DEF ConnState, RoutedWell
    <3>4. conn' = [conn EXCEPT ![r] = c]
      BY <3>1
    <3>5. RowsPersist
      BY <2>1, Persist DEF Arrive
    <3> HIDE DEF c
    <3>6. ConnTyped
      BY <3>3, <3>4, <3>5, ConnStep
    <3> QED
      BY <1>1, <2>1, <3>6 DEF Arrive, TypeOK
  <2>2. CASE BadRequest(r) \/ NoAccount(r)
    <3>1. ConnTyped /\ CursorKept
      BY <1>4, <2>2 DEF BadRequest, NoAccount
    <3> QED
      BY <1>1, <2>2, <3>1 DEF BadRequest, NoAccount, TypeOK
  <2>3. CASE Select(r)
    <3>1. PICK h \in Selecting :
            LET c == conn[r]
                mode == setting[h]
                cursor == AdvancedCursor(mode, c.cursor) IN
            /\ ToSelect(r, h)
            /\ \E a \in Choice(Available(h), mode, c.key, c.cursor) :
                 /\ sticky' = IF mode = "sticky" THEN [sticky EXCEPT ![c.key] = a] ELSE sticky
                 /\ \/ /\ ModelProvider[c.model] # NONE /\ lock[a][c.model] = 0
                       /\ conn' = [conn EXCEPT ![r].pc = "fetching", ![r].acct = a,
                                               ![r].snap = Snapshot(row[a]), ![r].cursor = cursor]
                       /\ UNCHANGED rrCursor
                    \/ /\ ModelProvider[c.model] = NONE \/ lock[a][c.model] > 0
                       /\ Rest(r, "refused", c.rows)
                       /\ rrCursor' = cursor
      BY <2>3 DEF Select
    <3> DEFINE mode == setting[h]
               cursor == AdvancedCursor(mode, conn[r].cursor)
    <3>2. PICK a \in Choice(Available(h), mode, conn[r].key, conn[r].cursor) :
            /\ sticky' = IF mode = "sticky" THEN [sticky EXCEPT ![conn[r].key] = a] ELSE sticky
            /\ \/ /\ ModelProvider[conn[r].model] # NONE /\ lock[a][conn[r].model] = 0
                  /\ conn' = [conn EXCEPT ![r].pc = "fetching", ![r].acct = a,
                                          ![r].snap = Snapshot(row[a]), ![r].cursor = cursor]
                  /\ UNCHANGED rrCursor
               \/ /\ ModelProvider[conn[r].model] = NONE \/ lock[a][conn[r].model] > 0
                  /\ Rest(r, "refused", conn[r].rows)
                  /\ rrCursor' = cursor
      BY <3>1
    <3>3. cursor \in 0 .. CursorPeriod - 1
      BY <1>2, CursorTyped
    <3>4. a \in Account /\ row[a].state = "live" /\ AccountProvider[a] = h
      BY <3>2, ChoiceAvailable, AvailableLive
    <3>5. RowsPersist /\ UNCHANGED <<row, lock, setting>>
      BY <2>3, Persist DEF Select
    <3>6. ToSelect(r, h) /\ h \in Handler
      BY <3>1 DEF Selecting, Handler
    <3> HIDE DEF cursor, mode
    <3>7. ConnTyped /\ CursorKept
      <4>1. CASE /\ ModelProvider[conn[r].model] # NONE
                 /\ conn' = [conn EXCEPT ![r].pc = "fetching", ![r].acct = a,
                                         ![r].snap = Snapshot(row[a]), ![r].cursor = cursor]
                 /\ UNCHANGED rrCursor
        <5>1. conn' = [conn EXCEPT ![r] = [conn[r] EXCEPT !.pc = "fetching", !.acct = a,
                                        !.snap = Snapshot(row[a]), !.cursor = cursor]]
          BY <4>1
        <5>2. conn' \in [Request -> ConnState] /\ RouteInv'
          <6>1. BaseInv /\ RowsPersist /\ ModelProvider[conn[r].model] # NONE
            BY <3>5, <4>1
          <6> HIDE DEF BaseInv
          <6> QED
            BY <3>3, <3>4, <3>6, <5>1, <6>1, ForwardStep
        <5> QED
          BY <1>1, <4>1, <5>2
      <4>2. CASE Rest(r, "refused", conn[r].rows) /\ rrCursor' = cursor
        BY <1>2, <1>3, <3>3, <3>5, <4>2, RestStep
      <4> QED
        BY <3>2, <4>1, <4>2
    <3>8. sticky' \in [Key -> Account \cup {NONE}]
      BY <1>1, <3>2, <3>4
    <3> QED
      BY <1>1, <3>5, <3>7, <3>8 DEF TypeOK
  <2>4. CASE NotionSelect(r)
    <3>1. ToSelect(r, "notion") /\ UNCHANGED <<lock, sticky, setting>>
      BY <2>4 DEF NotionSelect
    <3>2. CASE RefuseWithRow(r) /\ UNCHANGED row
      <4>1. ConnTyped /\ CursorKept
        BY <1>4, <3>2
      <4> QED
        BY <1>1, <3>1, <3>2, <4>1 DEF TypeOK
    <3>3. ASSUME NEW a \in First(Enabled("notion")), RefuseWithRow(r),
                 row' = [row EXCEPT ![a].status = "error", ![a].err = TRUE]
          PROVE  BaseInv'
      <4>1. row' \in [Account -> RowState] /\ RowsPersist
        BY <1>1, <3>3, ZenonT(40) DEF RowState, RowsPersist
      <4>2. ConnTyped /\ CursorKept
        BY <1>2, <1>3, <3>3, <4>1, FinishStep DEF RefuseWithRow
      <4> QED
        BY <1>1, <3>1, <4>1, <4>2 DEF TypeOK
    <3>4. ASSUME NEW a \in First(Enabled("notion")), UNCHANGED <<row, rrCursor>>,
                 conn' = [conn EXCEPT ![r].pc = "fetching", ![r].acct = a,
                                      ![r].snap = Snapshot(row[a])]
          PROVE  BaseInv'
      <4>1. a \in Account /\ row[a].state = "live" /\ AccountProvider[a] = "notion"
        BY DEF First, Enabled, Live
      <4>2. RoutedWell(conn[r]) /\ conn[r].handler = "notion"
        BY <3>1 DEF RouteInv, Underway, ToSelect
      <4>3. ModelProvider[conn[r].model] # NONE
        BY <4>2 DEF RoutedWell, RouteOf
      <4>4. conn' = [conn EXCEPT ![r] = [conn[r] EXCEPT !.pc = "fetching", !.acct = a,
                                 !.snap = Snapshot(row[a]), !.cursor = conn[r].cursor]]
        BY <1>1, <1>2, <3>4 DEF ConnState
      <4>5. RowsPersist
        BY <3>4, Persist
      <4>6. ConnTyped
        BY <1>2, <3>1, <4>1, <4>3, <4>4, <4>5, ForwardStep DEF Handler
      <4> QED
        BY <1>1, <3>1, <3>4, <4>6 DEF TypeOK
    <3> QED
      BY <2>4, <3>2, <3>3, <3>4 DEF NotionSelect
  <2>5. CASE UpstreamError(r)
    <3>1. PICK resp \in UpstreamErrors :
            /\ Penalise(r, resp)
            /\ \/ (LockInsertFails(r, resp) => conn[r].handler = "minimax") /\ Answer(r)
               \/ LockInsertFails(r, resp) /\ conn[r].handler # "minimax" /\ FallThrough(r)
      BY <2>5 DEF UpstreamError
    <3>2. resp \in Response /\ conn[r].pc = "fetching" /\ UNCHANGED <<sticky, setting>>
      BY <2>5, ErrorAssumption DEF UpstreamError
    <3>3. RowsPersist /\ row' \in [Account -> RowState] /\ lock' \in [Account -> [Model -> 0 .. MaxTimer]]
      BY <3>1, <3>2, PenaliseStep
    <3>4. ConnTyped /\ CursorKept
      <4>1. CASE Answer(r)
        BY <1>5, <3>3, <4>1
      <4>2. CASE LockInsertFails(r, resp) /\ conn[r].handler # "minimax" /\ FallThrough(r)
        BY <3>2, <3>3, <4>2, FallThroughStep DEF LockInsertFails
      <4> QED
        BY <3>1, <4>1, <4>2
    <3> QED
      BY <1>1, <3>2, <3>3, <3>4 DEF TypeOK
  <2>6. CASE FetchThrows(r)
    <3>1. conn[r].pc = "fetching" /\ UNCHANGED <<sticky, setting>>
      BY <2>6 DEF FetchThrows
    <3>2. CASE conn[r].handler # "kiro"
      <4>1. Answer(r) /\ UNCHANGED <<row, lock>>
        BY <2>6, <3>2 DEF FetchThrows
      <4>2. ConnTyped /\ CursorKept
        BY <1>5, <4>1, Persist
      <4> QED
        BY <1>1, <3>1, <4>1, <4>2 DEF TypeOK
    <3>3. CASE conn[r].handler = "kiro"
      <4>1. Penalise(r, TransportFailure)
        BY <2>6, <3>3 DEF FetchThrows
      <4>2. TransportFailure \in Response
        BY DEF TransportFailure, Response, Phrase, ErrorCode
      <4>3. RowsPersist /\ row' \in [Account -> RowState] /\ lock' \in [Account -> [Model -> 0 .. MaxTimer]]
        BY <3>1, <4>1, <4>2, PenaliseStep
      <4>4. CASE Answer(r)
        <5>1. ConnTyped /\ CursorKept
          BY <1>5, <4>3, <4>4
        <5> QED
          BY <1>1, <3>1, <4>3, <5>1 DEF TypeOK
      <4>5. CASE LockInsertFails(r, TransportFailure) /\ FallThrough(r)
        <5>1. ConnTyped /\ CursorKept
          BY <3>1, <3>3, <4>3, <4>5, FallThroughStep DEF LockInsertFails
        <5> QED
          BY <1>1, <3>1, <4>3, <5>1 DEF TypeOK
      <4> QED
        BY <2>6, <3>3, <4>4, <4>5 DEF FetchThrows
    <3> QED
      BY <3>2, <3>3
  <2>7. CASE UpstreamOk(r)
    <3>1. conn[r].pc = "fetching" /\ UNCHANGED <<lock, sticky, setting>>
      BY <2>7 DEF UpstreamOk
    <3>2. RowsPersist /\ row' \in [Account -> RowState]
      <4>1. CASE UNCHANGED row
        BY <1>1, <4>1, Persist
      <4>2. CASE Reset(r)
        BY <3>1, <4>2, ResetStep
      <4> QED
        BY <2>7, <4>1, <4>2 DEF UpstreamOk
    <3>3. ConnTyped /\ CursorKept
      <4>1. CASE Answer(r)
        BY <1>5, <3>2, <4>1
      <4>2. CASE /\ conn' = [conn EXCEPT ![r] =
                      [Blank("stream", conn[r].rows) EXCEPT !.handler = conn[r].handler]]
                 /\ rrCursor' = conn[r].cursor
        <5> DEFINE c == [Blank("stream", conn[r].rows) EXCEPT !.handler = conn[r].handler]
        <5>1. Blank("stream", conn[r].rows) \in ConnState /\ Blank("stream", conn[r].rows).pc = "stream"
          BY <1>2, RestTyped DEF Stage
        <5>2. c \in ConnState /\ c.pc = "stream"
          BY <1>2, <5>1 DEF ConnState
        <5>3. conn' = [conn EXCEPT ![r] = c]
          BY <4>2
        <5> HIDE DEF c
        <5>4. ConnTyped
          BY <3>2, <5>2, <5>3, ConnStep DEF Underway
        <5> QED
          BY <1>2, <4>2, <5>4
      <4>3. CASE /\ conn' = [conn EXCEPT ![r] =
                      [Blank("body", conn[r].rows) EXCEPT !.cursor = conn[r].cursor]]
                 /\ UNCHANGED rrCursor
        <5> DEFINE c == [Blank("body", conn[r].rows) EXCEPT !.cursor = conn[r].cursor]
        <5>1. Blank("body", conn[r].rows) \in ConnState /\ Blank("body", conn[r].rows).pc = "body"
          BY <1>2, RestTyped DEF Stage
        <5>2. c \in ConnState /\ c.pc = "body"
          BY <1>2, <5>1 DEF ConnState
        <5>3. conn' = [conn EXCEPT ![r] = c]
          BY <4>3
        <5> HIDE DEF c
        <5>4. ConnTyped
          BY <3>2, <5>2, <5>3, ConnStep DEF Underway
        <5> QED
          BY <1>1, <4>3, <5>4
      <4> QED
        BY <2>7, <4>1, <4>2, <4>3 DEF UpstreamOk
    <3> QED
      BY <1>1, <3>1, <3>2, <3>3 DEF TypeOK
  <2>8. CASE BodyRead(r)
    <3>1. ConnTyped /\ CursorKept
      BY <1>5, <2>8, Persist DEF BodyRead
    <3> QED
      BY <1>1, <2>8, <3>1 DEF BodyRead, TypeOK
  <2>9. CASE StreamEnd(r) \/ StreamCut(r)
    <3>1. ConnTyped
      BY <1>2, <1>3, <2>9, Persist, RestStep DEF StreamEnd, StreamCut
    <3> QED
      BY <1>1, <2>9, <3>1 DEF StreamEnd, StreamCut, TypeOK
  <2>10. CASE ErrorBodyBreaks(r)
    <3>1. ConnTyped /\ CursorKept
      BY <2>10, Persist, FallThroughStep DEF ErrorBodyBreaks
    <3> QED
      BY <1>1, <2>10, <3>1 DEF ErrorBodyBreaks, TypeOK
  <2> QED
    BY <1>6, <2>1, <2>2, <2>3, <2>4, <2>5, <2>6, <2>7, <2>8, <2>9, <2>10 DEF Handle
<1>7. ASSUME RowsPersist, UNCHANGED conn PROVE RouteInv'
  BY <1>7 DEF RouteInv, RoutedWell, CallsWell, Gone, RowsPersist
<1>8. ASSUME NEW a \in Account, Disable(a) \/ Enable(a) \/ Delete(a) \/ Create(a) PROVE BaseInv'
  <2>1. UNCHANGED <<rrCursor, sticky, setting, conn>>
    BY <1>8 DEF Disable, Enable, Delete, Create
  <2>2. lock' \in [Account -> [Model -> 0 .. MaxTimer]]
    BY <1>1, <1>8, ErrorAssumption DEF Disable, Enable, Delete, Create
  <2>3. row' \in [Account -> RowState] /\ RowsPersist
    <3>1. CASE Disable(a) \/ Enable(a)
      <4>1. PICK b \in BOOLEAN : row' = [row EXCEPT ![a].enabled = b]
        BY <3>1 DEF Disable, Enable
      <4>2. row[a] \in RowState
        BY <1>1
      <4>3. [row[a] EXCEPT !.enabled = b] \in RowState
            /\ [row[a] EXCEPT !.enabled = b].state = row[a].state
        BY <4>2 DEF RowState
      <4> QED
        BY <1>1, <4>1, <4>3 DEF RowsPersist
    <3>2. CASE Delete(a)
      <4>1. CleanRow("deleted") \in RowState /\ CleanRow("deleted").state = "deleted"
        BY CleanRowTyped
      <4> QED
        BY <1>1, <3>2, <4>1 DEF Delete, Live, RowsPersist
    <3>3. CASE Create(a)
      <4>1. CleanRow("live") \in RowState /\ CleanRow("live").state = "live"
        BY CleanRowTyped
      <4> QED
        BY <1>1, <3>3, <4>1 DEF Create, RowsPersist
    <3> QED
      BY <1>8, <3>1, <3>2, <3>3
  <2> QED
    BY <1>1, <1>7, <2>1, <2>2, <2>3 DEF TypeOK
<1>9. ASSUME NEW a \in Account, NEW m \in Model, ClearLock(a, m) PROVE BaseInv'
  <2>1. lock' \in [Account -> [Model -> 0 .. MaxTimer]]
    <3>1. 0 \in 0 .. MaxTimer
      BY ErrorAssumption
    <3>2. lock' = [lock EXCEPT ![a][m] = 0]
      BY <1>9 DEF ClearLock
    <3> QED
      BY <1>1, <3>1, <3>2
  <2> QED
    BY <1>1, <1>7, <1>9, <2>1, Persist DEF ClearLock, TypeOK
<1>10. CASE ChangeSelection
  BY <1>1, <1>7, <1>10, Persist, SelectionAssumption DEF ChangeSelection, TypeOK
<1>11. CASE Tick
  <2>1. row' \in [Account -> RowState] /\ RowsPersist
    <3>1. ASSUME NEW t \in Timer PROVE Elapse(t) \in Timer
      BY ErrorAssumption DEF Elapse, Timer, Unset
    <3>2. ASSUME NEW a \in Account
          PROVE  [row[a] EXCEPT !.limited = Elapse(@)] \in RowState
                 /\ row'[a].state = row[a].state
      BY <1>1, <1>11, <3>1 DEF Tick, RowState
    <3> QED
      BY <1>11, <3>2 DEF Tick, RowsPersist
  <2>2. lock' \in [Account -> [Model -> 0 .. MaxTimer]]
    BY <1>1, <1>11, ErrorAssumption DEF Tick, Elapse
  <2> QED
    BY <1>1, <1>7, <1>11, <2>1, <2>2 DEF Tick, TypeOK
<1>12. CASE UNCHANGED vars
  BY <1>1, <1>7, <1>12, Persist DEF vars, TypeOK
<1> QED
  BY <1>6, <1>8, <1>9, <1>10, <1>11, <1>12 DEF Next, Administer

-----------------------------------------------------------------------------
(* What the tables promise.                                                *)

EnabledByAdmin ==
  \A a \in Account :
    (Live(a) /\ ~row[a].enabled /\ row'[a].enabled) => Enable(a) \/ Delete(a)

TablesKept ==
  /\ PenaltyLeavesError => PenaltyLeavesError'
  /\ NoOrphanLocks => NoOrphanLocks'
  /\ EnabledByAdmin

LEMMA TablesUntouched ==
  ASSUME UNCHANGED <<row, lock>>
  PROVE  TablesKept
BY DEF TablesKept, PenaltyLeavesError, NoOrphanLocks, EnabledByAdmin, Live

LEMMA HandleTables ==
  ASSUME BaseInv, NEW r \in Request, Handle(r)
  PROVE  TablesKept
<1>1. row \in [Account -> RowState]
  BY DEF BaseInv, TypeOK
<1>2. ASSUME NEW resp \in Response, conn[r].pc = "fetching", Penalise(r, resp)
      PROVE  TablesKept
  BY <1>2, PenaliseStep DEF TablesKept, EnabledByAdmin
<1>3. CASE UNCHANGED <<row, lock>>
  BY <1>3, TablesUntouched
<1>4. CASE NotionSelect(r)
  <2>1. ASSUME NEW a \in First(Enabled("notion")),
               row' = [row EXCEPT ![a].status = "error", ![a].err = TRUE]
        PROVE  TablesKept
    <3> DEFINE new == [row[a] EXCEPT !.status = "error", !.err = TRUE]
    <3>1. a \in Account
      BY DEF First, Enabled
    <3>2. row[a] \in RowState
      BY <1>1, <3>1
    <3>3. new.err /\ new.state = row[a].state /\ new.enabled = row[a].enabled
      BY <3>2 DEF RowState
    <3>4. row' = [row EXCEPT ![a] = new]
      BY <2>1
    <3> HIDE DEF new
    <3>5. \A b \in Account : row'[b] = row[b] \/ (b = a /\ row'[b] = new)
      BY <1>1, <3>1, <3>4
    <3>6. UNCHANGED lock
      BY <1>4 DEF NotionSelect
    <3>7. \A b \in Account : row'[b].state = row[b].state /\ row'[b].enabled = row[b].enabled
      BY <3>3, <3>5
    <3>8. PenaltyLeavesError => PenaltyLeavesError'
      BY <3>3, <3>5 DEF PenaltyLeavesError
    <3>9. NoOrphanLocks => NoOrphanLocks'
      BY <3>6, <3>7 DEF NoOrphanLocks, Live
    <3> QED
      BY <3>7, <3>8, <3>9 DEF TablesKept, EnabledByAdmin
  <2> QED
    BY <1>3, <1>4, <2>1 DEF NotionSelect
<1>5. CASE UpstreamError(r)
  BY <1>2, <1>5, ErrorAssumption DEF UpstreamError
<1>6. CASE FetchThrows(r)
  <2>1. TransportFailure \in Response
    BY DEF TransportFailure, Response, Phrase, ErrorCode
  <2> QED
    BY <1>2, <1>3, <1>6, <2>1 DEF FetchThrows
<1>7. CASE UpstreamOk(r)
  <2>1. conn[r].pc = "fetching" /\ UNCHANGED lock
    BY <1>7 DEF UpstreamOk
  <2>2. CASE Reset(r)
    <3>1. PenaltyLeavesError => PenaltyLeavesError'
      BY <2>1, <2>2, ResetStep
    <3>2. \A a \in Account : row'[a].state = row[a].state /\ row'[a].enabled = row[a].enabled
      BY <2>1, <2>2, ResetStep
    <3>3. NoOrphanLocks => NoOrphanLocks'
      BY <2>1, <3>2 DEF NoOrphanLocks, Live
    <3> QED
      BY <3>1, <3>2, <3>3 DEF TablesKept, EnabledByAdmin
  <2> QED
    BY <1>3, <1>7, <2>1, <2>2 DEF UpstreamOk
<1>8. Arrive(r) \/ BadRequest(r) \/ NoAccount(r) \/ Select(r)
        \/ ErrorBodyBreaks(r) \/ BodyRead(r) \/ StreamEnd(r) \/ StreamCut(r) => UNCHANGED <<row, lock>>
  BY DEF Arrive, BadRequest, NoAccount, Select, ErrorBodyBreaks, BodyRead, StreamEnd, StreamCut
<1> QED
  BY <1>3, <1>4, <1>5, <1>6, <1>7, <1>8 DEF Handle

LEMMA TablesStep ==
  ASSUME BaseInv, [Next]_vars
  PROVE  TablesKept
<1>1. row \in [Account -> RowState] /\ lock \in [Account -> [Model -> 0 .. MaxTimer]]
  BY DEF BaseInv, TypeOK
<1>2. ASSUME NEW a \in Account, Disable(a) \/ Enable(a)
      PROVE  TablesKept
  <2>1. PICK b \in BOOLEAN : row' = [row EXCEPT ![a].enabled = b]
    BY <1>2 DEF Disable, Enable
  <2>2. row[a] \in RowState
    BY <1>1
  <2> DEFINE new == [row[a] EXCEPT !.enabled = b]
  <2>3. /\ new.state = row[a].state /\ new.err = row[a].err /\ new.limited = row[a].limited
        /\ new.backoff = row[a].backoff /\ new.status = row[a].status
    BY <2>2 DEF RowState
  <2>4. row' = [row EXCEPT ![a] = new]
    BY <2>1
  <2> HIDE DEF new
  <2>5. \A c \in Account : row'[c] = row[c] \/ (c = a /\ row'[c] = new)
    BY <1>1, <2>4
  <2>6. UNCHANGED lock
    BY <1>2 DEF Disable, Enable
  <2>7. PenaltyLeavesError => PenaltyLeavesError'
    BY <2>3, <2>5 DEF PenaltyLeavesError
  <2>8. NoOrphanLocks => NoOrphanLocks'
    BY <2>3, <2>5, <2>6 DEF NoOrphanLocks, Live
  <2>9. EnabledByAdmin
    <3>1. CASE Enable(a)
      BY <2>5, <3>1 DEF EnabledByAdmin
    <3>2. CASE Disable(a)
      <4>1. ~row'[a].enabled
        BY <1>1, <2>2, <3>2 DEF Disable, RowState
      <4> QED
        BY <2>5, <4>1 DEF EnabledByAdmin
    <3> QED
      BY <1>2, <3>1, <3>2
  <2> QED
    BY <2>7, <2>8, <2>9 DEF TablesKept
<1>3. ASSUME NEW a \in Account, NEW state \in {"live", "deleted"}, row' = [row EXCEPT ![a] = CleanRow(state)],
             state = "deleted" => Delete(a), state = "live" => ~Live(a) /\ UNCHANGED lock
      PROVE  TablesKept
  <2>1. \A c \in Account : row'[c] = row[c] \/ (c = a /\ row'[c] = CleanRow(state))
    BY <1>1, <1>3
  <2>2. /\ CleanRow(state).state = state /\ CleanRow(state).limited = Unset
        /\ CleanRow(state).backoff = 0 /\ CleanRow(state).status = "active"
    BY DEF CleanRow
  <2>3. PenaltyLeavesError => PenaltyLeavesError'
    BY <2>1, <2>2 DEF PenaltyLeavesError
  <2>4. EnabledByAdmin
    BY <1>3, <2>1 DEF EnabledByAdmin
  <2>5. ASSUME NoOrphanLocks, NEW c \in Account, NEW m \in Model, lock'[c][m] > 0
        PROVE  row'[c].state = "live"
    <3>1. CASE c # a
      BY <1>1, <1>3, <2>1, <2>5, <3>1 DEF NoOrphanLocks, Live, Delete
    <3>2. CASE c = a /\ state = "live"
      BY <1>1, <1>3, <2>2, <3>2
    <3>3. CASE c = a /\ state = "deleted"
      BY <1>1, <1>3, <2>5, <3>3 DEF Delete
    <3> QED
      BY <3>1, <3>2, <3>3
  <2> QED
    BY <2>3, <2>4, <2>5 DEF TablesKept, NoOrphanLocks, Live
<1>4. ASSUME NEW a \in Account, Delete(a) \/ Create(a)
      PROVE  TablesKept
  BY <1>3, <1>4 DEF Delete, Create, Live
<1>5. ASSUME UNCHANGED row, \A c \in Account, n \in Model : lock'[c][n] > 0 => lock[c][n] > 0
      PROVE  TablesKept
  BY <1>5 DEF TablesKept, PenaltyLeavesError, NoOrphanLocks, EnabledByAdmin, Live
<1>6. ASSUME NEW a \in Account, NEW m \in Model, ClearLock(a, m) PROVE TablesKept
  <2>1. ASSUME NEW c \in Account, NEW n \in Model, lock'[c][n] > 0 PROVE lock[c][n] > 0
    BY <1>1, <1>6, <2>1 DEF ClearLock
  <2> QED
    BY <1>5, <1>6, <2>1 DEF ClearLock
<1>7. CASE Tick
  <2>1. ASSUME NEW a \in Account
        PROVE  /\ row'[a].limited = Elapse(row[a].limited) /\ row'[a].err = row[a].err
               /\ row'[a].backoff = row[a].backoff /\ row'[a].status = row[a].status
               /\ row'[a].state = row[a].state /\ row'[a].enabled = row[a].enabled
    BY <1>1, <1>7 DEF Tick, RowState
  <2>2. ASSUME NEW a \in Account, row'[a].limited # Unset PROVE row[a].limited # Unset
    BY <2>1, <2>2 DEF Elapse, Unset
  <2>3. PenaltyLeavesError => PenaltyLeavesError'
    BY <2>1, <2>2 DEF PenaltyLeavesError
  <2>4. ASSUME NEW a \in Account, NEW m \in Model, lock'[a][m] > 0 PROVE lock[a][m] > 0
    BY <1>1, <1>7, <2>4 DEF Tick, Elapse
  <2>5. NoOrphanLocks => NoOrphanLocks'
    BY <2>1, <2>4 DEF NoOrphanLocks, Live
  <2> QED
    BY <2>1, <2>3, <2>5 DEF TablesKept, EnabledByAdmin
<1>8. CASE ChangeSelection \/ UNCHANGED vars
  BY <1>8, TablesUntouched DEF ChangeSelection, vars
<1> QED
  BY <1>2, <1>4, <1>6, <1>7, <1>8, HandleTables DEF Next, Administer

-----------------------------------------------------------------------------
(* What a request leaves in the log.                                       *)

RowsRight(c) ==
  /\ c.rows <= 1
  /\ c.pc = "answered" => c.rows = 1
  /\ c.pc \in {"reading", "deferred", "fetching", "body", "stream", "cut"} => c.rows = 0

LEMMA ReplaceRight ==
  ASSUME BaseInv, OneRowPerAnswer, NEW r \in Request, NEW c,
         conn' = [conn EXCEPT ![r] = c], RowsRight(c)
  PROVE  OneRowPerAnswer'
<1>1. conn \in [Request -> ConnState]
  BY DEF BaseInv, TypeOK
<1>2. \A q \in Request : conn'[q] = IF q = r THEN c ELSE conn[q]
  BY <1>1
<1> QED
  BY <1>2 DEF OneRowPerAnswer, RowsRight

LEMMA RestRight ==
  ASSUME BaseInv, OneRowPerAnswer, NEW r \in Request, NEW pc, NEW rows, Rest(r, pc, rows),
         \/ pc = "answered" /\ rows = 1
         \/ pc = "refused" /\ rows \in {0, 1}
         \/ pc = "cut" /\ rows = 0
  PROVE  OneRowPerAnswer'
<1>1. Blank(pc, rows).pc = pc /\ Blank(pc, rows).rows = rows
  BY DEF Blank
<1>2. RowsRight(Blank(pc, rows))
  BY <1>1 DEF RowsRight
<1> QED
  BY <1>2, ReplaceRight DEF Rest

LEMMA RowsStep ==
  ASSUME BaseInv, [Next]_vars, OneRowPerAnswer
  PROVE  OneRowPerAnswer'
<1>1. conn \in [Request -> ConnState]
  BY DEF BaseInv, TypeOK
<1>2. ASSUME NEW r \in Request PROVE conn[r] \in ConnState
  BY <1>1
<1>3. CASE UNCHANGED conn
  BY <1>3 DEF OneRowPerAnswer
<1>4. ASSUME NEW r \in Request, conn[r].pc \in {"reading", "deferred", "fetching", "body", "stream"}
      PROVE  /\ conn[r].rows = 0
             /\ Answer(r) => OneRowPerAnswer'
             /\ Refuse(r) => OneRowPerAnswer'
             /\ RefuseWithRow(r) => OneRowPerAnswer'
             /\ Rest(r, "refused", conn[r].rows) => OneRowPerAnswer'
             /\ Rest(r, "cut", conn[r].rows) => OneRowPerAnswer'
             /\ Rest(r, "answered", conn[r].rows + 1) => OneRowPerAnswer'
  <2>1. conn[r].rows = 0
    BY <1>4 DEF OneRowPerAnswer
  <2> QED
    BY <2>1, RestRight DEF Answer, Refuse, RefuseWithRow, Finish
<1>5. ASSUME NEW r \in Request, Handle(r) PROVE OneRowPerAnswer'
  <2>1. CASE Arrive(r)
    <3>1. PICK k \in Key, m \in Model : conn' = [conn EXCEPT ![r] =
             [Blank("reading", 0) EXCEPT !.key = k, !.model = m, !.handler = RouteOf(m),
                                         !.entry = rrCursor, !.cursor = rrCursor]]
      BY <2>1 DEF Arrive
    <3> DEFINE c == [Blank("reading", 0) EXCEPT !.key = k, !.model = m, !.handler = RouteOf(m),
                                         !.entry = rrCursor, !.cursor = rrCursor]
    <3>2. c.pc = "reading" /\ c.rows = 0
      BY DEF Blank
    <3>3. conn' = [conn EXCEPT ![r] = c]
      BY <3>1
    <3> HIDE DEF c
    <3>9. RowsRight(c)
      BY <3>2 DEF RowsRight
    <3> QED
      BY <3>3, <3>9, ReplaceRight
  <2>2. CASE BadRequest(r) \/ NoAccount(r)
    BY <1>4, <2>2 DEF BadRequest, NoAccount, ToSelect
  <2>3. CASE Select(r)
    <3>1. conn[r].pc \in {"reading", "deferred"}
      BY <2>3 DEF Select, ToSelect
    <3>2. \/ Rest(r, "refused", conn[r].rows)
          \/ \E a, cursor :
               conn' = [conn EXCEPT ![r].pc = "fetching", ![r].acct = a,
                                    ![r].snap = Snapshot(row[a]), ![r].cursor = cursor]
      BY <2>3 DEF Select
    <3>3. CASE Rest(r, "refused", conn[r].rows)
      BY <1>4, <3>1, <3>3
    <3>4. ASSUME NEW a, NEW cursor,
                 conn' = [conn EXCEPT ![r].pc = "fetching", ![r].acct = a,
                                      ![r].snap = Snapshot(row[a]), ![r].cursor = cursor]
          PROVE  OneRowPerAnswer'
      <4> DEFINE c == [conn[r] EXCEPT !.pc = "fetching", !.acct = a,
                                      !.snap = Snapshot(row[a]), !.cursor = cursor]
      <4>1. c.pc = "fetching" /\ c.rows = 0
        BY <1>2, <1>4, <3>1 DEF ConnState
      <4>2. conn' = [conn EXCEPT ![r] = c]
        BY <3>4
      <4> HIDE DEF c
      <4>3. RowsRight(c)
        BY <4>1 DEF RowsRight
      <4> QED
        BY <4>2, <4>3, ReplaceRight
    <3> QED
      BY <3>2, <3>3, <3>4
  <2>4. CASE NotionSelect(r)
    <3>1. conn[r].pc \in {"reading", "deferred"}
      BY <2>4 DEF NotionSelect, ToSelect
    <3>2. CASE RefuseWithRow(r)
      BY <1>4, <3>1, <3>2
    <3>3. ASSUME NEW a, conn' = [conn EXCEPT ![r].pc = "fetching", ![r].acct = a,
                                             ![r].snap = Snapshot(row[a])]
          PROVE  OneRowPerAnswer'
      <4> DEFINE c == [conn[r] EXCEPT !.pc = "fetching", !.acct = a,
                                      !.snap = Snapshot(row[a]), !.cursor = conn[r].cursor]
      <4>1. c.pc = "fetching" /\ c.rows = 0
        BY <1>2, <1>4, <3>1 DEF ConnState
      <4>2. conn' = [conn EXCEPT ![r] = c]
        BY <1>1, <1>2, <3>3 DEF ConnState
      <4> HIDE DEF c
      <4>3. RowsRight(c)
        BY <4>1 DEF RowsRight
      <4> QED
        BY <4>2, <4>3, ReplaceRight
    <3> QED
      BY <2>4, <3>2, <3>3 DEF NotionSelect
  <2>5. ASSUME conn[r].pc = "fetching", FallThrough(r) PROVE OneRowPerAnswer'
    <3> DEFINE c == [conn[r] EXCEPT !.pc = "deferred", !.handler = "minimax", !.acct = NONE,
                                    !.snap = NoSnapshot, !.cursor = conn[r].entry]
    <3>1. c.pc = "deferred" /\ c.rows = 0
      BY <1>2, <1>4, <2>5 DEF ConnState
    <3>2. conn' = [conn EXCEPT ![r] = c]
      BY <2>5 DEF FallThrough
    <3> HIDE DEF c
    <3>9. RowsRight(c)
      BY <3>1 DEF RowsRight
    <3> QED
      BY <3>2, <3>9, ReplaceRight
  <2>6. CASE UpstreamError(r) \/ FetchThrows(r) \/ ErrorBodyBreaks(r)
    <3>1. conn[r].pc = "fetching" /\ (Answer(r) \/ FallThrough(r))
      BY <2>6 DEF UpstreamError, FetchThrows, ErrorBodyBreaks
    <3> QED
      BY <1>4, <2>5, <3>1
  <2>7. CASE UpstreamOk(r)
    <3>1. conn[r].pc = "fetching" /\ conn[r].rows = 0
      BY <1>4, <2>7 DEF UpstreamOk
    <3>2. CASE conn' = [conn EXCEPT ![r] =
                 [Blank("stream", conn[r].rows) EXCEPT !.handler = conn[r].handler]]
      <4> DEFINE c == [Blank("stream", conn[r].rows) EXCEPT !.handler = conn[r].handler]
      <4>1. c.pc = "stream" /\ c.rows = 0
        BY <3>1 DEF Blank
      <4>2. conn' = [conn EXCEPT ![r] = c]
        BY <3>2
      <4> HIDE DEF c
      <4>9. RowsRight(c)
        BY <4>1 DEF RowsRight
      <4> QED
        BY <4>2, <4>9, ReplaceRight
    <3>3. CASE conn' = [conn EXCEPT ![r] =
                 [Blank("body", conn[r].rows) EXCEPT !.cursor = conn[r].cursor]]
      <4> DEFINE c == [Blank("body", conn[r].rows) EXCEPT !.cursor = conn[r].cursor]
      <4>1. c.pc = "body" /\ c.rows = 0
        BY <3>1 DEF Blank
      <4>2. conn' = [conn EXCEPT ![r] = c]
        BY <3>3
      <4> HIDE DEF c
      <4>9. RowsRight(c)
        BY <4>1 DEF RowsRight
      <4> QED
        BY <4>2, <4>9, ReplaceRight
    <3>4. CASE Answer(r)
      BY <1>4, <3>1, <3>4
    <3> QED
      BY <2>7, <3>2, <3>3, <3>4 DEF UpstreamOk
  <2>8. CASE BodyRead(r) \/ StreamEnd(r) \/ StreamCut(r)
    BY <1>4, <2>8 DEF BodyRead, StreamEnd, StreamCut
  <2> QED
    BY <1>5, <2>1, <2>2, <2>3, <2>4, <2>6, <2>7, <2>8 DEF Handle
<1>6. Administer \/ Tick \/ UNCHANGED vars => UNCHANGED conn
  BY DEF Administer, Disable, Enable, Delete, Create, ClearLock, ChangeSelection, Tick, vars
<1> QED
  BY <1>3, <1>5, <1>6 DEF Next

-----------------------------------------------------------------------------
(* The sticky map: only a selection writes it, and a selection that finds   *)
(* its pin available keeps it.                                              *)

LEMMA PinKept ==
  ASSUME BaseInv, NEW r \in Request, Select(r), NEW k \in Key, sticky'[k] # sticky[k]
  PROVE  conn[r].key = k /\ sticky[k] \notin Available(conn[r].handler)
<1>1. DOMAIN sticky = Key
  BY DEF BaseInv, TypeOK
<1>2. PICK h \in Selecting :
        /\ conn[r].handler = h
        /\ \E a \in Choice(Available(h), setting[h], conn[r].key, conn[r].cursor) :
             sticky' = IF setting[h] = "sticky" THEN [sticky EXCEPT ![conn[r].key] = a] ELSE sticky
  BY DEF Select, ToSelect
<1>3. PICK a \in Choice(Available(h), setting[h], conn[r].key, conn[r].cursor) :
        sticky' = IF setting[h] = "sticky" THEN [sticky EXCEPT ![conn[r].key] = a] ELSE sticky
  BY <1>2
<1>4. setting[h] = "sticky" /\ conn[r].key = k /\ a # sticky[k]
  BY <1>1, <1>3
<1>5. ~Pinned(Available(h), k)
  BY <1>3, <1>4 DEF Choice
<1> QED
  BY <1>2, <1>4, <1>5 DEF Pinned

LEMMA PinsElsewhere ==
  ASSUME NEW r \in Request, Handle(r), ~Select(r)
  PROVE  UNCHANGED sticky
BY DEF Handle, Arrive, BadRequest, NoAccount, NotionSelect, UpstreamError, FetchThrows,
       ErrorBodyBreaks, UpstreamOk, BodyRead, StreamEnd, StreamCut

-----------------------------------------------------------------------------
(* The theorems.                                                           *)

LEMMA BaseAlways == Spec => []BaseInv
<1> QED
  BY BaseInit, BaseStep, PTL DEF Spec

\* Types: the state of accounts, locks, cursor, sticky map and requests keeps
\* its type in every execution, for all values of the constants.
THEOREM TypesHold == Spec => []TypeOK
<1>1. BaseInv => TypeOK
  BY DEF BaseInv
<1> QED
  BY <1>1, BaseAlways, PTL

\* An account in any penalty carries a last_error (applyErrorState and
\* clearErrorState of proxy/pipeline.ts, under any interleaving).
THEOREM PenaltyAlwaysLeavesError == Spec => []PenaltyLeavesError
<1>1. Init => PenaltyLeavesError
  BY DEF Init, PenaltyLeavesError, CleanRow
<1>2. BaseInv /\ PenaltyLeavesError /\ [Next]_vars => PenaltyLeavesError'
  BY TablesStep DEF TablesKept
<1> QED
  BY <1>1, <1>2, BaseAlways, PTL DEF Spec

\* No late answer leaves a model lock to a deleted account (accounts/locks.ts
\* under the foreign key and the cascade of account_model_locks).
THEOREM LocksNeverOrphaned == Spec => []NoOrphanLocks
<1>1. Init => NoOrphanLocks
  BY DEF Init, NoOrphanLocks
<1>2. BaseInv /\ NoOrphanLocks /\ [Next]_vars => NoOrphanLocks'
  BY TablesStep DEF TablesKept
<1> QED
  BY <1>1, <1>2, BaseAlways, PTL DEF Spec

\* A foreign account is used only on the fall-through of a handler whose
\* account was deleted, or of Notion's (proxy/minimax.ts, the catch around the
\* delegation).
THEOREM ForeignFetchesFallThrough == Spec => []ForeignFetchOnlyByFallThrough
<1>1. BaseInv => ForeignFetchOnlyByFallThrough
  BY DEF BaseInv, RouteInv, Underway, RoutedWell, CallsWell, Gone, RouteOf,
         ForeignFetchOnlyByFallThrough
<1> QED
  BY <1>1, BaseAlways, PTL

\* At most one request_log row per request, exactly one per upstream answer.
THEOREM RowsCounted == Spec => []OneRowPerAnswer
<1>1. Init => OneRowPerAnswer
  BY DEF Init, OneRowPerAnswer, Blank
<1>2. BaseInv /\ OneRowPerAnswer /\ [Next]_vars => OneRowPerAnswer'
  BY RowsStep
<1> QED
  BY <1>1, <1>2, BaseAlways, PTL DEF Spec

\* Only the admin enables an account again, however late the answers of the
\* requests that had selected it arrive.
THEOREM OnlyTheAdminEnables == Spec => DisabledStaysDisabled
<1>1. BaseInv /\ [Next]_vars =>
        [\A a \in Account :
           (Live(a) /\ ~row[a].enabled /\ row'[a].enabled) => Enable(a) \/ Delete(a)]_vars
  BY TablesStep DEF TablesKept, EnabledByAdmin
<1> QED
  BY <1>1, BaseAlways, PTL DEF Spec, DisabledStaysDisabled

\* selectAccount keeps a sticky pin as long as its account can serve the request,
\* whatever the overlapping requests and the admin do to the account.
THEOREM PinsKeptWhileAvailable == Spec => PinMovesOnlyWhenUnavailable
<1>1. BaseInv /\ [Next]_vars =>
        [\A k \in Key :
           sticky[k] # NONE /\ sticky'[k] # sticky[k] =>
             \E r \in Request : conn[r].key = k /\ sticky[k] \notin Available(conn[r].handler)]_vars
  <2> SUFFICES ASSUME BaseInv, Next, NEW k \in Key, sticky'[k] # sticky[k]
               PROVE  \E r \in Request : /\ conn[r].key = k
                                         /\ sticky[k] \notin Available(conn[r].handler)
    OBVIOUS
  <2>1. Administer \/ Tick => UNCHANGED sticky
    BY DEF Administer, Disable, Enable, Delete, Create, ClearLock, ChangeSelection, Tick
  <2>2. PICK r \in Request : Handle(r)
    BY <2>1 DEF Next
  <2>3. Select(r)
    BY <2>2, PinsElsewhere
  <2> QED
    BY <2>3, PinKept
<1> QED
  BY <1>1, BaseAlways, PTL DEF Spec, PinMovesOnlyWhenUnavailable
=============================================================================
