--------------------------- MODULE ComboChainProofs ---------------------------
(***************************************************************************)
(* The fallback loop, for any number of accounts, requests, combos and     *)
(* members: no attempt starts on an account that is cooling or locked,     *)
(* every attempt leaves its row, no member is left out, and every step is  *)
(* one that FallbackChain allows.                                          *)
(*                                                                         *)
(* A step concerns one request.  Move says what it may do to that request: *)
(* the record it leaves is well placed in the loop (Good, the inductive    *)
(* invariant), an attempt starts on a fresh account, and the client sees   *)
(* a step of the promise.  Each action is shown to be a Move, and the four *)
(* results are read off it.                                                *)
(***************************************************************************)
EXTENDS ComboChain, RequestPipelineProofs

ComboStage == Stage \cup {"chaining", "delegated"}
Cursors == 0 .. CursorPeriod - 1
ComboConn ==
  [pc : ComboStage, key : Key \cup {NONE}, model : Model \cup {NONE}, handler : Handler,
   acct : Account \cup {NONE}, snap : SnapshotState, entry : Cursors, cursor : Cursors,
   rows : Nat]
ChainState ==
  [members : Combos \cup {<<>>}, next : Nat \ {0}, mode : SelectionMode, last : Nat,
   attempts : Nat, turn : Nat]

ComboTyped ==
  /\ row \in [Account -> RowState]
  /\ rrCursor \in Cursors
  /\ setting \in [Selecting -> SelectionMode]
  /\ conn \in [Request -> ComboConn]
  /\ chain \in [Request -> ChainState]

\* Where the loop stands: the members before `next` have had their turn.
Placed(c, d) ==
  /\ c.pc \in {"reading", "chaining", "delegated", "fetching", "body"} => d.members \in Combos
  /\ c.pc = "reading" => c.rows = 0 /\ d.next = 1 /\ d.turn = 0 /\ d.attempts = 0
  /\ c.pc \in {"chaining", "delegated"} => d.turn < d.next
  /\ c.pc = "delegated" => c.model \in Model
  /\ c.pc \in {"delegated", "fetching", "body"} => d.next <= Len(d.members)
  /\ c.pc \in {"fetching", "body"} => d.turn = d.next

Deleted(table) == \E a \in Account : table[a].state = "deleted"
Open(c) == IF c.pc \in {"fetching", "body", "stream", "cut"} THEN 1 ELSE 0
Logged(table, c, d) == c.rows + Open(c) = d.attempts \/ Deleted(table)

Called(table, c) == c.pc = "fetching" => c.acct \in Account /\ table[c.acct].state # "unborn"

Heard(c, d) ==
  c.pc = "refused" /\ d.next <= Len(d.members) =>
    d.last \notin CuredElsewhere \/ (d.last = 503 /\ d.attempts = 0 /\ d.next = 1)

Good(table, c, d) == Placed(c, d) /\ Logged(table, c, d) /\ Called(table, c) /\ Heard(c, d)

ComboInv == ComboTyped /\ \A r \in Request : Good(row, conn[r], chain[r])

\* An attempt starts on an account that could be selected.
Starts(old, c) ==
  old.pc # "fetching" /\ c.pc = "fetching" =>
    /\ row[c.acct].state = "live" /\ row[c.acct].enabled /\ row[c.acct].limited <= 0
    /\ lock[c.acct][c.model] = 0

\* What FallbackChain sees of a request, and what it lets it do.
View(c, d) == [phase |-> Phase(c.pc), size |-> Len(d.members), tried |-> d.turn, verdict |-> d.last]
Final == {resp.status : resp \in UpstreamErrors} \ Retryable

Begins(s, t) ==
  /\ s.phase \in {"rest", "delivered", "failed"} /\ t.phase = "between"
  /\ t.size \in 1 .. MaxMembers /\ t.tried = 0 /\ t.verdict = 0
Tries(s, t) ==
  /\ s.phase = "between" /\ t.phase = "trying"
  /\ t.tried \in s.tried + 1 .. s.size /\ t.size = s.size /\ t.verdict = s.verdict
Refuses(s, t) ==
  /\ s.phase = "between" /\ t.phase = "between"
  /\ t.tried \in s.tried + 1 .. s.size /\ t.size = s.size /\ t.verdict \in Retryable
Fails(s, t) ==
  /\ s.phase = "trying" /\ t.tried = s.tried /\ t.size = s.size
  /\ \/ t.phase = "between" /\ t.verdict \in Retryable
     \/ t.phase = "failed" /\ t.verdict \in Final
Delivers(s, t) ==
  /\ s.phase = "trying" /\ t.phase = "delivered"
  /\ t.tried = s.tried /\ t.size = s.size /\ t.verdict = s.verdict
GivesUp(s, t) ==
  /\ s.phase = "between" /\ t.phase = "failed" /\ t.tried = s.tried /\ t.size = s.size
  /\ t.verdict = IF s.verdict = 0 THEN 429 ELSE s.verdict
TurnsAway(s, t) ==
  /\ s.phase = "between" /\ s.tried = 0 /\ t.phase = "failed" /\ t.tried = s.tried
  /\ t.size = s.size /\ t.verdict = 503
Stays(s, t) ==
  t.phase = s.phase /\ t.size = s.size /\ t.tried = s.tried /\ t.verdict = s.verdict
Promised(s, t) ==
  \/ Begins(s, t) \/ Tries(s, t) \/ Refuses(s, t) \/ Fails(s, t) \/ Delivers(s, t)
  \/ GivesUp(s, t) \/ TurnsAway(s, t) \/ Stays(s, t)

Move(r, c, d) ==
  /\ conn' = [conn EXCEPT ![r] = c]
  /\ chain' = [chain EXCEPT ![r] = d]
  /\ Good(row', c, d)
  /\ Starts(conn[r], c)
  /\ Promised(View(conn[r], chain[r]), View(c, d))
Moves(r) == \E c \in ComboConn, d \in ChainState : Move(r, c, d)

\* What a step leaves of the tables.
TablesTyped ==
  /\ row' \in [Account -> RowState] /\ RowsPersist
  /\ rrCursor' \in Cursors
  /\ setting' \in [Selecting -> SelectionMode]

-----------------------------------------------------------------------------
(* Moves and the invariant.                                                *)

LEMMA GoodPersists ==
  ASSUME RowsPersist, NEW c, NEW d, Good(row, c, d)
  PROVE  Good(row', c, d)
BY DEF Good, Logged, Deleted, Called, RowsPersist

LEMMA MoveKeeps ==
  ASSUME ComboInv, TablesTyped, NEW r \in Request, Moves(r)
  PROVE  ComboInv'
<1>1. PICK c \in ComboConn, d \in ChainState : Move(r, c, d)
  BY DEF Moves
<1>2. conn' \in [Request -> ComboConn] /\ chain' \in [Request -> ChainState]
  BY <1>1 DEF ComboInv, ComboTyped, Move
<1>3. ASSUME NEW q \in Request PROVE Good(row', conn'[q], chain'[q])
  <2>1. CASE q = r
    BY <1>1, <2>1 DEF ComboInv, ComboTyped, Move
  <2>2. CASE q # r
    <3>1. conn'[q] = conn[q] /\ chain'[q] = chain[q]
      BY <1>1, <2>2 DEF ComboInv, ComboTyped, Move
    <3>2. Good(row, conn[q], chain[q])
      BY DEF ComboInv
    <3> QED
      BY <3>1, <3>2, GoodPersists DEF TablesTyped
  <2> QED
    BY <2>1, <2>2
<1>4. ComboInv' <=> ComboTyped' /\ \A q \in Request : Good(row', conn'[q], chain'[q])
  BY DEF ComboInv, Good, Placed, Logged, Deleted, Open, Called, Heard
<1> QED
  BY <1>2, <1>3, <1>4 DEF ComboTyped, TablesTyped

LEMMA MoveStarts ==
  ASSUME ComboInv, NEW r \in Request, Moves(r), NEW q \in Request,
         conn[q].pc # "fetching", conn'[q].pc = "fetching"
  PROVE  LET a == conn'[q].acct IN
         /\ row[a].state = "live" /\ row[a].enabled /\ row[a].limited <= 0
         /\ lock[a][conn'[q].model] = 0
<1>1. PICK c \in ComboConn, d \in ChainState : Move(r, c, d)
  BY DEF Moves
<1>2. CASE q = r
  <2>1. conn'[q] = c
    BY <1>1, <1>2 DEF ComboInv, ComboTyped, Move
  <2> QED
    BY <1>1, <1>2, <2>1 DEF Move, Starts
<1>3. CASE q # r
  BY <1>1, <1>3 DEF ComboInv, ComboTyped, Move
<1> QED
  BY <1>2, <1>3

\* A step that FallbackChain allows one request is one of its steps.
LEMMA MovePromised ==
  ASSUME ComboInv, NEW r \in Request, Moves(r)
  PROVE  [Promise!Next]_Promise!vars
<1>1. PICK c \in ComboConn, d \in ChainState : Move(r, c, d)
  BY DEF Moves
<1> DEFINE phase == [q \in Request |-> Phase(conn[q].pc)]
           size == [q \in Request |-> Len(chain[q].members)]
           tried == [q \in Request |-> chain[q].turn]
           verdict == [q \in Request |-> chain[q].last]
           s == View(conn[r], chain[r])
           t == View(c, d)
<1>2. /\ phase' = [phase EXCEPT ![r] = t.phase] /\ size' = [size EXCEPT ![r] = t.size]
      /\ tried' = [tried EXCEPT ![r] = t.tried] /\ verdict' = [verdict EXCEPT ![r] = t.verdict]
  BY <1>1 DEF ComboInv, ComboTyped, Move, View
<1>3. s.phase = phase[r] /\ s.size = size[r] /\ s.tried = tried[r] /\ s.verdict = verdict[r]
  BY DEF View
<1>4. Promised(s, t)
  BY <1>1 DEF Move
<1>5. /\ [phase EXCEPT ![r] = phase[r]] = phase /\ [size EXCEPT ![r] = size[r]] = size
      /\ [tried EXCEPT ![r] = tried[r]] = tried /\ [verdict EXCEPT ![r] = verdict[r]] = verdict
  OBVIOUS
<1> HIDE DEF s, t, phase, size, tried, verdict
<1>a. t.phase = s.phase => phase' = phase
  BY <1>2, <1>3, <1>5
<1>b. t.size = s.size => size' = size
  BY <1>2, <1>3, <1>5
<1>c. t.tried = s.tried => tried' = tried
  BY <1>2, <1>3, <1>5
<1>d. t.verdict = s.verdict => verdict' = verdict
  BY <1>2, <1>3, <1>5
<1>6. CASE Begins(s, t)
  BY <1>2, <1>3, <1>6 DEF Begins, phase, size, tried, verdict, Promise!Next, Promise!Begin
<1>7. CASE Tries(s, t)
  <2>1. phase[r] = "between" /\ phase' = [phase EXCEPT ![r] = "trying"]
    BY <1>2, <1>3, <1>7 DEF Tries
  <2>2. t.tried \in tried[r] + 1 .. size[r] /\ tried' = [tried EXCEPT ![r] = t.tried]
    BY <1>2, <1>3, <1>7 DEF Tries
  <2>3. size' = size /\ verdict' = verdict
    BY <1>b, <1>d, <1>7 DEF Tries
  <2> QED
    BY <2>1, <2>2, <2>3 DEF phase, size, tried, verdict, Promise!Next, Promise!Try, Promise!GiveTurn
<1>8. CASE Refuses(s, t)
  <2>1. phase[r] = "between" /\ phase' = phase
    BY <1>3, <1>a, <1>8 DEF Refuses
  <2>2. t.tried \in tried[r] + 1 .. size[r] /\ tried' = [tried EXCEPT ![r] = t.tried]
    BY <1>2, <1>3, <1>8 DEF Refuses
  <2>3. size' = size /\ t.verdict \in Retryable /\ verdict' = [verdict EXCEPT ![r] = t.verdict]
    BY <1>2, <1>b, <1>8 DEF Refuses
  <2> QED
    BY <2>1, <2>2, <2>3 DEF phase, size, tried, verdict, Promise!Next, Promise!Refuse, Promise!GiveTurn
<1>9. CASE Fails(s, t)
  <2>1. phase[r] = "trying" /\ size' = size /\ tried' = tried
    BY <1>3, <1>b, <1>c, <1>9 DEF Fails
  <2>2. verdict' = [verdict EXCEPT ![r] = t.verdict]
    BY <1>2
  <2>3. CASE t.phase = "between" /\ t.verdict \in Retryable
    <3>1. phase' = [phase EXCEPT ![r] = "between"]
      BY <1>2, <2>3
    <3> QED
      BY <2>1, <2>2, <2>3, <3>1 DEF phase, size, tried, verdict, Promise!Next, Promise!Fail
  <2>4. CASE t.phase = "failed" /\ t.verdict \in Final
    <3>1. phase' = [phase EXCEPT ![r] = "failed"]
      BY <1>2, <2>4
    <3> QED
      BY <2>1, <2>2, <2>4, <3>1 DEF Final, phase, size, tried, verdict, Promise!Next, Promise!Fail
  <2> QED
    BY <1>9, <2>3, <2>4 DEF Fails
<1>10. CASE Delivers(s, t)
  <2>1. phase[r] = "trying" /\ phase' = [phase EXCEPT ![r] = "delivered"]
    BY <1>2, <1>3, <1>10 DEF Delivers
  <2>2. size' = size /\ tried' = tried /\ verdict' = verdict
    BY <1>b, <1>c, <1>d, <1>10 DEF Delivers
  <2> QED
    BY <2>1, <2>2 DEF phase, size, tried, verdict, Promise!Next, Promise!Deliver
<1>11. CASE GivesUp(s, t)
  <2>1. phase[r] = "between" /\ phase' = [phase EXCEPT ![r] = "failed"]
    BY <1>2, <1>3, <1>11 DEF GivesUp
  <2>2. size' = size /\ tried' = tried
    BY <1>b, <1>c, <1>11 DEF GivesUp
  <2>3. verdict' = [verdict EXCEPT ![r] = IF verdict[r] = 0 THEN 429 ELSE verdict[r]]
    BY <1>2, <1>3, <1>11 DEF GivesUp
  <2> QED
    BY <2>1, <2>2, <2>3 DEF phase, size, tried, verdict, Promise!Next, Promise!GiveUp
<1>12. CASE TurnsAway(s, t)
  <2>1. phase[r] = "between" /\ tried[r] = 0 /\ phase' = [phase EXCEPT ![r] = "failed"]
    BY <1>2, <1>3, <1>12 DEF TurnsAway
  <2>2. size' = size /\ tried' = tried /\ verdict' = [verdict EXCEPT ![r] = 503]
    BY <1>2, <1>b, <1>c, <1>12 DEF TurnsAway
  <2> QED
    BY <2>1, <2>2 DEF phase, size, tried, verdict, Promise!Next, Promise!TurnAway
<1>13. CASE Stays(s, t)
  BY <1>a, <1>b, <1>c, <1>d, <1>13 DEF Stays, phase, size, tried, verdict, Promise!vars
<1> QED
  BY <1>4, <1>6, <1>7, <1>8, <1>9, <1>10, <1>11, <1>12, <1>13 DEF Promised

-----------------------------------------------------------------------------
(* The records the actions build.                                          *)

LEMMA ComboRest ==
  ASSUME NEW pc \in ComboStage, NEW rows \in Nat
  PROVE  Blank(pc, rows) \in ComboConn /\ Blank(pc, rows).pc = pc /\ Blank(pc, rows).rows = rows
<1>1. 0 \in 0 .. BACKOFF_MAX_LEVEL /\ 0 \in Cursors
  BY SelectionAssumption, LadderAssumption DEF Doublings, Cursors
<1>2. NoSnapshot \in SnapshotState
  BY <1>1 DEF NoSnapshot, SnapshotState
<1> QED
  BY <1>1, <1>2 DEF Blank, ComboConn, Handler

LEMMA RecordsTyped ==
  ASSUME ComboInv, NEW r \in Request
  PROVE  conn[r] \in ComboConn /\ chain[r] \in ChainState /\ Good(row, conn[r], chain[r])
BY DEF ComboInv, ComboTyped

LEMMA StatusNumbers == {401, 402, 403, 429, 502, 503, 504} \subseteq Nat
OBVIOUS

\* The end of a request that keeps its chain.
LEMMA RestMoves ==
  ASSUME ComboInv, RowsPersist, NEW r \in Request, NEW pc \in {"stream", "answered", "cut"},
         conn[r].pc \in {"fetching", "body", "stream"}, UNCHANGED chain,
         NEW rows \in Nat, Rest(r, pc, rows),
         rows = conn[r].rows + (IF pc = "answered" THEN 1 ELSE 0)
  PROVE  Moves(r)
<1> DEFINE c == Blank(pc, rows)
           d == chain[r]
<1>1. conn[r] \in ComboConn /\ d \in ChainState /\ Good(row, conn[r], d)
  BY RecordsTyped
<1>2. c \in ComboConn /\ c.pc = pc /\ c.rows = rows
  BY ComboRest DEF ComboStage, Stage
<1>3. conn' = [conn EXCEPT ![r] = c] /\ chain' = [chain EXCEPT ![r] = d]
  BY DEF Rest, ComboInv, ComboTyped
<1> HIDE DEF c, d
<1>4. d.attempts \in Nat /\ conn[r].rows \in Nat
  BY <1>1 DEF ChainState, ComboConn
<1>5. Logged(row', c, d)
  <2>1. Logged(row, conn[r], d) /\ (Deleted(row) => Deleted(row'))
    BY <1>1 DEF Good, Deleted, RowsPersist
  <2> QED
    BY <1>2, <1>4, <2>1 DEF Logged, Open
<1>6. Good(row', c, d)
  BY <1>2, <1>5 DEF Good, Placed, Called, Heard
<1>7. Promised(View(conn[r], d), View(c, d))
  BY <1>2 DEF Promised, Delivers, Stays, View, Phase
<1>8. Starts(conn[r], c)
  BY <1>2 DEF Starts
<1> QED
  BY <1>1, <1>2, <1>3, <1>6, <1>7, <1>8 DEF Moves, Move, View, d

\* On to the next member.
LEMMA ContinueMoves ==
  ASSUME ComboInv, RowsPersist, NEW r \in Request, NEW last \in Nat, NEW rows \in Nat,
         NEW cursor \in Cursors, Continue(r, last, rows, cursor),
         conn[r].pc \in {"chaining", "delegated", "fetching", "body"},
         chain[r].next <= Len(chain[r].members),
         rows = conn[r].rows + Open(conn[r]) \/ Deleted(row'),
         IF conn[r].pc = "chaining" THEN last = chain[r].last ELSE last \in Retryable
  PROVE  Moves(r)
<1> DEFINE c == [Blank("chaining", rows) EXCEPT !.key = conn[r].key, !.cursor = cursor]
           d == [chain[r] EXCEPT !.last = last, !.next = @ + 1,
                                 !.turn = IF conn[r].pc = "chaining" THEN @ ELSE chain[r].next]
           s == chain[r]
<1>1. conn[r] \in ComboConn /\ s \in ChainState /\ Good(row, conn[r], s)
  BY RecordsTyped
<1>2. c \in ComboConn /\ c.pc = "chaining" /\ c.rows = rows
  <2> DEFINE b == Blank("chaining", rows)
  <2>1. b \in ComboConn /\ b.pc = "chaining" /\ b.rows = rows
    BY ComboRest DEF ComboStage
  <2>2. conn[r].key \in Key \cup {NONE}
    BY <1>1 DEF ComboConn
  <2>3. c = [b EXCEPT !.key = conn[r].key, !.cursor = cursor]
    OBVIOUS
  <2> HIDE DEF b, c
  <2> QED
    BY <2>1, <2>2, <2>3 DEF ComboConn
<1>3. conn' = [conn EXCEPT ![r] = c] /\ chain' = [chain EXCEPT ![r] = d]
  BY <1>1 DEF Continue, ComboInv, ComboTyped, ChainState
<1>4. /\ d \in ChainState /\ d.members = s.members /\ d.next = s.next + 1 /\ d.last = last
      /\ d.attempts = s.attempts
      /\ d.turn = IF conn[r].pc = "chaining" THEN s.turn ELSE s.next
  <2> DEFINE turn == IF conn[r].pc = "chaining" THEN s.turn ELSE s.next
  <2>1. turn \in Nat /\ s.next + 1 \in Nat \ {0}
    BY <1>1 DEF ChainState
  <2>2. d = [s EXCEPT !.last = last, !.next = s.next + 1, !.turn = turn]
    BY <1>1 DEF ChainState
  <2> HIDE DEF turn, d, s
  <2>3. /\ d \in ChainState /\ d.members = s.members /\ d.next = s.next + 1 /\ d.last = last
        /\ d.attempts = s.attempts /\ d.turn = turn
    BY <1>1, <2>1, <2>2 DEF ChainState
  <2> QED
    BY <2>3 DEF turn
<1> HIDE DEF c, d, s
<1>5. /\ s.next \in Nat \ {0} /\ s.turn \in Nat /\ s.attempts \in Nat /\ conn[r].rows \in Nat
      /\ Open(conn[r]) \in Nat /\ s.members \in Combos \cup {<<>>}
  BY <1>1 DEF ChainState, ComboConn, Open
<1>6. Placed(c, d)
  BY <1>1, <1>2, <1>4, <1>5 DEF Good, Placed
<1>7. Logged(row', c, d)
  <2>1. Logged(row, conn[r], s) /\ (Deleted(row) => Deleted(row'))
    BY <1>1 DEF Good, Deleted, RowsPersist
  <2> QED
    BY <1>2, <1>4, <1>5, <2>1 DEF Logged, Open
<1>8. Good(row', c, d)
  BY <1>2, <1>6, <1>7 DEF Good, Called, Heard
<1>9. Promised(View(conn[r], s), View(c, d))
  <2>1. CASE conn[r].pc = "chaining"
    BY <1>2, <1>4, <2>1 DEF Promised, Stays, View, Phase, s
  <2>2. CASE conn[r].pc = "delegated"
    <3>1. s.turn < s.next /\ s.next <= Len(s.members) /\ Len(s.members) \in Nat
      BY <1>1, <2>2, CombosAssumption DEF Good, Placed, s
    <3> QED
      BY <1>2, <1>4, <1>5, <2>2, <3>1 DEF Promised, Refuses, View, Phase
  <2>3. CASE conn[r].pc \in {"fetching", "body"}
    <3>1. s.turn = s.next
      BY <1>1, <2>3 DEF Good, Placed
    <3> QED
      BY <1>2, <1>4, <2>3, <3>1 DEF Promised, Fails, View, Phase
  <2> QED
    BY <2>1, <2>2, <2>3
<1>10. Starts(conn[r], c)
  BY <1>2 DEF Starts
<1> QED
  BY <1>2, <1>3, <1>4, <1>8, <1>9, <1>10 DEF Moves, Move, s

\* A call of the upstream for the member whose turn it is.
LEMMA CallMoves ==
  ASSUME ComboInv, UNCHANGED row, NEW r \in Request, conn[r].pc \in {"chaining", "delegated"},
         chain[r].next <= Len(chain[r].members),
         NEW a \in Account, row[a].state = "live", row[a].enabled, row[a].limited <= 0,
         NEW m \in Model, lock[a][m] = 0, NEW handler \in Handler, NEW cursor \in Cursors,
         Call(r, a, m, handler, cursor)
  PROVE  Moves(r)
<1> DEFINE snap == Snapshot(row[a])
           s == chain[r]
           c == [conn[r] EXCEPT !.pc = "fetching", !.model = m, !.handler = handler, !.acct = a,
                                !.snap = snap, !.cursor = cursor]
           d == [s EXCEPT !.attempts = @ + 1, !.turn = s.next]
<1>1. conn[r] \in ComboConn /\ s \in ChainState /\ Good(row, conn[r], s)
  BY RecordsTyped
<1>2. snap \in SnapshotState
  BY SnapshotTyped DEF ComboInv, ComboTyped
<1>3. conn' = [conn EXCEPT ![r] = c] /\ chain' = [chain EXCEPT ![r] = d]
  BY <1>1 DEF Call, ComboInv, ComboTyped
<1> HIDE DEF snap, s
<1>4. c \in ComboConn /\ c.pc = "fetching" /\ c.acct = a /\ c.model = m /\ c.rows = conn[r].rows
  BY <1>1, <1>2 DEF ComboConn, ComboStage, Stage
<1>5. /\ d \in ChainState /\ d.members = s.members /\ d.next = s.next /\ d.turn = s.next
      /\ d.attempts = s.attempts + 1 /\ d.last = s.last
  <2>1. s.attempts + 1 \in Nat /\ s.next \in Nat
    BY <1>1 DEF ChainState
  <2>2. d = [s EXCEPT !.attempts = s.attempts + 1, !.turn = s.next]
    BY <1>1 DEF ChainState
  <2> HIDE DEF d
  <2> QED
    BY <1>1, <2>1, <2>2 DEF ChainState
<1> HIDE DEF c, d
<1>6. /\ s.next \in Nat \ {0} /\ s.turn \in Nat /\ s.attempts \in Nat /\ conn[r].rows \in Nat
      /\ s.turn < s.next /\ s.members \in Combos
  BY <1>1 DEF ChainState, ComboConn, Good, Placed
<1>7. s.next <= Len(s.members) /\ Len(s.members) \in Nat
  BY <1>6, CombosAssumption DEF s
<1>8. Logged(row', c, d)
  <2>1. conn[r].rows = s.attempts \/ Deleted(row)
    BY <1>1, <1>6 DEF Good, Logged, Open
  <2> QED
    BY <1>4, <1>5, <1>6, <2>1 DEF Logged, Open
<1>9. Good(row', c, d)
  BY <1>4, <1>5, <1>6, <1>7, <1>8 DEF Good, Placed, Called, Heard
<1>10. Starts(conn[r], c)
  BY <1>4 DEF Starts
<1>11. Promised(View(conn[r], s), View(c, d))
  BY <1>4, <1>5, <1>6, <1>7 DEF Promised, Tries, View, Phase
<1> QED
  BY <1>3, <1>4, <1>5, <1>9, <1>10, <1>11 DEF Moves, Move, s

\* The end of a request with an error.
LEMMA RefuseMoves ==
  ASSUME ComboInv, RowsPersist, NEW r \in Request, conn[r].pc \in {"reading", "chaining", "fetching"},
         NEW rows \in Nat, Rest(r, "refused", rows),
         NEW last \in Nat, chain' = [chain EXCEPT ![r].last = last],
         rows = conn[r].rows + Open(conn[r]) \/ Deleted(row'),
         \/ conn[r].pc = "reading" /\ last = 503
         \/ /\ conn[r].pc = "chaining" /\ Exhausted(r)
            /\ last = IF chain[r].last = 0 THEN 429 ELSE chain[r].last
         \/ conn[r].pc = "fetching" /\ last \in Final
  PROVE  Moves(r)
<1> DEFINE s == chain[r]
           c == Blank("refused", rows)
           d == [s EXCEPT !.last = last]
<1>1. conn[r] \in ComboConn /\ s \in ChainState /\ Good(row, conn[r], s)
  BY RecordsTyped
<1>2. c \in ComboConn /\ c.pc = "refused" /\ c.rows = rows
  BY ComboRest DEF ComboStage, Stage
<1>3. conn' = [conn EXCEPT ![r] = c] /\ chain' = [chain EXCEPT ![r] = d]
  BY <1>1 DEF Rest, ComboInv, ComboTyped
<1>4. /\ d \in ChainState /\ d.members = s.members /\ d.next = s.next /\ d.turn = s.turn
      /\ d.attempts = s.attempts /\ d.last = last
  BY <1>1 DEF ChainState
<1>5. Exhausted(r) <=> s.next > Len(s.members)
  BY DEF Exhausted
<1> HIDE DEF c, d, s
<1>6. s.next \in Nat \ {0} /\ s.attempts \in Nat /\ conn[r].rows \in Nat /\ s.turn \in Nat
  BY <1>1 DEF ChainState, ComboConn
<1>7. s.members \in Combos /\ Len(s.members) \in Nat
  BY <1>1, CombosAssumption DEF Good, Placed
<1>8. Logged(row', c, d)
  <2>1. Logged(row, conn[r], s) /\ (Deleted(row) => Deleted(row'))
    BY <1>1 DEF Good, Deleted, RowsPersist
  <2> QED
    BY <1>2, <1>4, <1>6, <2>1 DEF Logged, Open
<1>9. conn[r].pc = "reading" => s.attempts = 0 /\ s.next = 1 /\ s.turn = 0
  BY <1>1 DEF Good, Placed
<1>10. Heard(c, d)
  BY <1>2, <1>4, <1>5, <1>6, <1>7, <1>9 DEF Heard, Final, Retryable, CuredElsewhere, s
<1>11. Good(row', c, d)
  BY <1>2, <1>8, <1>10 DEF Good, Placed, Called
<1>12. Promised(View(conn[r], s), View(c, d))
  <2>1. CASE conn[r].pc = "reading"
    BY <1>2, <1>4, <1>9, <2>1 DEF Promised, TurnsAway, View, Phase
  <2>2. CASE conn[r].pc = "chaining"
    BY <1>2, <1>4, <2>2 DEF Promised, GivesUp, View, Phase, s
  <2>3. CASE conn[r].pc = "fetching"
    BY <1>2, <1>4, <2>3 DEF Promised, Fails, View, Phase
  <2> QED
    BY <2>1, <2>2, <2>3
<1>13. Starts(conn[r], c)
  BY <1>2 DEF Starts
<1> QED
  BY <1>2, <1>3, <1>4, <1>11, <1>12, <1>13 DEF Moves, Move, s

-----------------------------------------------------------------------------
(* What the steps do to the accounts table.                                *)

LEMMA TablesKeptTyped ==
  ASSUME ComboInv, UNCHANGED <<row, setting>>, rrCursor' \in Cursors
  PROVE  TablesTyped
BY DEF ComboInv, ComboTyped, TablesTyped, RowsPersist

LEMMA ComboPenalises ==
  ASSUME ComboInv, NEW r \in Request, conn[r].pc = "fetching", NEW resp \in Response,
         Penalise(r, resp)
  PROVE  row' \in [Account -> RowState] /\ RowsPersist
<1> DEFINE a == conn[r].acct
           snap == conn[r].snap
           d == CheckFallbackError(resp, snap.backoff)
           new == Penalised(row[a], snap, d, resp.status)
<1>1. row \in [Account -> RowState] /\ conn[r] \in ComboConn
  BY DEF ComboInv, ComboTyped
<1>2. a \in Account
  BY DEF ComboInv, Good, Called
<1>3. snap \in SnapshotState /\ snap.backoff \in Level
  BY <1>1 DEF ComboConn, SnapshotState, Level
<1>4. d \in Decision
  BY <1>3, VerdictIsDecision
<1>5. new \in RowState /\ new.state = row[a].state
  <2> HIDE DEF a, snap, d
  <2>1. row[a] \in RowState
    BY <1>1, <1>2
  <2> QED
    BY <2>1, <1>3, <1>4, PenalisedTyped
<1>6. row' = IF Live(a) THEN [row EXCEPT ![a] = new] ELSE row
  BY <1>1, <1>2 DEF Penalise
<1> HIDE DEF a, snap, d, new
<1>7. row' \in [Account -> RowState]
  BY <1>1, <1>2, <1>5, <1>6
<1>8. \A b \in Account : row'[b].state = row[b].state
  BY <1>1, <1>2, <1>5, <1>6
<1> QED
  BY <1>7, <1>8 DEF RowsPersist

LEMMA ComboResets ==
  ASSUME ComboInv, NEW r \in Request, conn[r].pc = "fetching", Reset(r)
  PROVE  row' \in [Account -> RowState] /\ RowsPersist
<1> DEFINE a == conn[r].acct
           new == [row[a] EXCEPT !.limited = Unset, !.backoff = 0, !.err = FALSE,
                                 !.status = "active"]
<1>1. row \in [Account -> RowState]
  BY DEF ComboInv, ComboTyped
<1>2. a \in Account
  BY DEF ComboInv, Good, Called
<1>3. new \in RowState /\ new.state = row[a].state
  <2>1. row[a] \in RowState
    BY <1>1, <1>2
  <2>2. Unset \in Timer /\ 0 \in 0 .. BACKOFF_MAX_LEVEL
    BY LadderAssumption DEF Timer, Doublings
  <2> QED
    BY <2>1, <2>2 DEF RowState
<1>4. row' = row \/ row' = [row EXCEPT ![a] = new]
  BY <1>1, <1>2 DEF Reset
<1> HIDE DEF a, new
<1>5. row' \in [Account -> RowState]
  BY <1>1, <1>2, <1>3, <1>4
<1>6. \A b \in Account : row'[b].state = row[b].state
  BY <1>1, <1>2, <1>3, <1>4
<1> QED
  BY <1>5, <1>6 DEF RowsPersist

\* A lock cannot be inserted for a deleted account only.
LEMMA LockLostDeleted ==
  ASSUME ComboInv, NEW r \in Request, conn[r].pc = "fetching", NEW resp,
         LockInsertFails(r, resp), RowsPersist
  PROVE  Deleted(row')
<1>1. conn[r].acct \in Account /\ row[conn[r].acct].state # "unborn"
  BY DEF ComboInv, Good, Called
<1>2. row[conn[r].acct].state = "deleted"
  BY <1>1 DEF ComboInv, ComboTyped, RowState, LockInsertFails, Live
<1> QED
  BY <1>1, <1>2 DEF Deleted, RowsPersist

-----------------------------------------------------------------------------
(* The loop.                                                               *)

LEMMA MemberModel ==
  ASSUME ComboInv, NEW r \in Request, conn[r].pc \in {"chaining"}, ~Exhausted(r)
  PROVE  Member(r) \in Model /\ chain[r].next <= Len(chain[r].members)
<1>1. chain[r].members \in Combos /\ chain[r].next \in Nat \ {0}
  BY RecordsTyped DEF Good, Placed, ChainState
<1>2. chain[r].members \in Seq(Model) /\ Len(chain[r].members) \in Nat
  BY <1>1, CombosAssumption
<1>3. chain[r].next \in 1 .. Len(chain[r].members)
  BY <1>1, <1>2 DEF Exhausted
<1> QED
  BY <1>2, <1>3 DEF Member

LEMMA CandidatesFresh ==
  ASSUME ComboInv, NEW m, NEW a \in Candidates(m)
  PROVE  a \in Account /\ row[a].state = "live" /\ row[a].enabled /\ row[a].limited <= 0
BY DEF Candidates, Available, Enabled, Live

LEMMA ChoiceOf ==
  ASSUME NEW S, NEW mode, NEW k, NEW cursor, NEW a \in Choice(S, mode, k, cursor)
  PROVE  a \in S
BY DEF Choice, RoundRobin, LowestBackoff, First, Pinned

LEMMA ArriveMoves ==
  ASSUME ComboInv, NEW r \in Request, ComboArrive(r)
  PROVE  Moves(r)
<1>1. PICK k \in Key, members \in Combos :
        /\ conn' = [conn EXCEPT ![r] =
             [Blank("reading", 0) EXCEPT !.key = k, !.entry = rrCursor, !.cursor = rrCursor]]
        /\ chain' = [chain EXCEPT ![r] = NewChain(members)]
  BY DEF ComboArrive
<1> DEFINE b == Blank("reading", 0)
           c == [b EXCEPT !.key = k, !.entry = rrCursor, !.cursor = rrCursor]
           d == NewChain(members)
<1>2. b \in ComboConn /\ b.pc = "reading" /\ b.rows = 0
  BY ComboRest DEF ComboStage, Stage
<1>3. rrCursor \in Cursors
  BY DEF ComboInv, ComboTyped
<1> HIDE DEF b
<1>4. c \in ComboConn /\ c.pc = "reading" /\ c.rows = 0
  BY <1>2, <1>3 DEF ComboConn
<1>5. /\ d \in ChainState /\ d.members = members /\ d.next = 1 /\ d.last = 0
      /\ d.attempts = 0 /\ d.turn = 0
  BY DEF NewChain, ChainState, SelectionMode
<1>6. conn' = [conn EXCEPT ![r] = c] /\ chain' = [chain EXCEPT ![r] = d]
  BY <1>1 DEF b
<1> HIDE DEF c, d
<1>7. Good(row', c, d)
  BY <1>4, <1>5 DEF Good, Placed, Logged, Open, Called, Heard
<1>8. Promised(View(conn[r], chain[r]), View(c, d))
  <2>1. Len(members) \in 1 .. MaxMembers
    BY CombosAssumption
  <2> QED
    BY <1>4, <1>5, <2>1 DEF ComboArrive, Promised, Begins, View, Phase
<1>9. Starts(conn[r], c)
  BY <1>4 DEF Starts
<1> QED
  BY <1>4, <1>5, <1>6, <1>7, <1>8, <1>9 DEF Moves, Move

LEMMA EnterMoves ==
  ASSUME ComboInv, NEW r \in Request, Enter(r)
  PROVE  TablesTyped /\ Moves(r)
<1> DEFINE s == chain[r]
<1>1. /\ conn[r] \in ComboConn /\ s \in ChainState /\ Good(row, conn[r], s)
      /\ conn[r].pc = "reading" /\ conn[r].cursor \in Cursors /\ conn[r].rows \in Nat
  BY RecordsTyped DEF Enter, ComboConn
<1>2. CASE Refuse(r) /\ chain' = [chain EXCEPT ![r].last = 503]
  <2>1. TablesTyped
    BY <1>1, <1>2, TablesKeptTyped DEF Enter, Refuse, Finish
  <2>2. RowsPersist /\ Rest(r, "refused", conn[r].rows)
    BY <1>2, <2>1 DEF TablesTyped, Refuse, Finish
  <2>3. conn[r].rows = conn[r].rows + Open(conn[r]) /\ 503 \in Nat
    BY <1>1 DEF Open
  <2> QED
    BY <1>1, <1>2, <2>1, <2>2, <2>3, RefuseMoves, ZenonT(40)
<1>3. CASE /\ chain' = [chain EXCEPT ![r].mode = setting["minimax"]]
           /\ conn' = [conn EXCEPT ![r].pc = "chaining"]
           /\ UNCHANGED rrCursor
  <2> DEFINE c == [conn[r] EXCEPT !.pc = "chaining"]
             d == [s EXCEPT !.mode = setting["minimax"]]
  <2>1. TablesTyped
    BY <1>3, TablesKeptTyped DEF Enter, ComboInv, ComboTyped
  <2>2. setting["minimax"] \in SelectionMode
    BY DEF ComboInv, ComboTyped, Selecting
  <2>3. c \in ComboConn /\ c.pc = "chaining" /\ c.rows = conn[r].rows
    BY <1>1 DEF ComboConn, ComboStage
  <2>4. /\ d \in ChainState /\ d.members = s.members /\ d.next = s.next /\ d.turn = s.turn
        /\ d.attempts = s.attempts /\ d.last = s.last
    BY <1>1, <2>2 DEF ChainState
  <2>5. conn' = [conn EXCEPT ![r] = c] /\ chain' = [chain EXCEPT ![r] = d]
    BY <1>1, <1>3 DEF ComboInv, ComboTyped
  <2> HIDE DEF c, d, s
  <2>6. Good(row', c, d)
    BY <1>1, <2>3, <2>4 DEF Good, Placed, Logged, Open, Called, Heard
  <2>7. Promised(View(conn[r], s), View(c, d))
    BY <1>1, <2>3, <2>4 DEF Promised, Stays, View, Phase
  <2>8. Starts(conn[r], c)
    BY <2>3 DEF Starts
  <2> QED
    BY <2>1, <2>3, <2>4, <2>5, <2>6, <2>7, <2>8 DEF Moves, Move, s
<1> QED
  BY <1>2, <1>3 DEF Enter

LEMMA PassOverMoves ==
  ASSUME ComboInv, NEW r \in Request, PassOver(r)
  PROVE  TablesTyped /\ Moves(r)
<1>1. TablesTyped
  BY TablesKeptTyped DEF PassOver, ComboInv, ComboTyped
<1>2. /\ conn[r].pc = "chaining" /\ conn[r].cursor \in Cursors /\ conn[r].rows \in Nat
      /\ chain[r].last \in Nat /\ Open(conn[r]) = 0
  BY RecordsTyped DEF PassOver, ComboConn, ChainState, Open
<1>3. chain[r].next <= Len(chain[r].members)
  BY <1>2, MemberModel DEF PassOver
<1>4. Continue(r, chain[r].last, conn[r].rows, conn[r].cursor)
  BY DEF PassOver, Skip
<1> QED
  BY <1>1, <1>2, <1>3, <1>4, ContinueMoves DEF TablesTyped

LEMMA TurnMoves ==
  ASSUME ComboInv, NEW r \in Request, Turn(r)
  PROVE  TablesTyped /\ Moves(r)
<1> DEFINE m == Member(r)
           cursor == AdvancedCursor(chain[r].mode, conn[r].cursor)
           s == chain[r]
<1>1. TablesTyped
  BY TablesKeptTyped DEF Turn, ComboInv, ComboTyped, Skip, Continue, Call
<1>2. /\ conn[r] \in ComboConn /\ s \in ChainState /\ Good(row, conn[r], s)
      /\ conn[r].pc = "chaining" /\ conn[r].cursor \in Cursors /\ conn[r].rows \in Nat
      /\ s.last \in Nat /\ Open(conn[r]) = 0
  BY RecordsTyped DEF Turn, ComboConn, ChainState, Open
<1>3. m \in Model /\ s.next <= Len(s.members)
  BY <1>2, MemberModel DEF Turn
<1>4. cursor \in Cursors
  BY <1>2, CursorTyped DEF Cursors
<1>5. PICK a \in Choice(Candidates(m), chain[r].mode, conn[r].key, conn[r].cursor) :
        \/ lock[a][m] > 0 /\ Skip(r, cursor)
        \/ /\ lock[a][m] = 0
           /\ conn' = [conn EXCEPT ![r].pc = "delegated", ![r].model = m,
                         ![r].handler = "kiro", ![r].entry = cursor, ![r].cursor = cursor]
           /\ UNCHANGED chain
        \/ lock[a][m] = 0 /\ Call(r, a, m, "minimax", cursor)
  BY DEF Turn
<1>6. a \in Account /\ row[a].state = "live" /\ row[a].enabled /\ row[a].limited <= 0
  BY ChoiceOf, CandidatesFresh
<1>7. UNCHANGED row
  BY DEF Turn
<1> HIDE DEF m, cursor
<1>8. CASE lock[a][m] > 0 /\ Skip(r, cursor)
  BY <1>1, <1>2, <1>3, <1>4, <1>8, ContinueMoves DEF Skip, TablesTyped
<1>9. CASE /\ conn' = [conn EXCEPT ![r].pc = "delegated", ![r].model = m,
                         ![r].handler = "kiro", ![r].entry = cursor, ![r].cursor = cursor]
           /\ UNCHANGED chain
  <2> DEFINE c == [conn[r] EXCEPT !.pc = "delegated", !.model = m, !.handler = "kiro",
                                  !.entry = cursor, !.cursor = cursor]
  <2>1. conn' = [conn EXCEPT ![r] = c] /\ chain' = [chain EXCEPT ![r] = s]
    BY <1>2, <1>9 DEF ComboInv, ComboTyped
  <2>2. c \in ComboConn /\ c.pc = "delegated" /\ c.rows = conn[r].rows /\ c.model = m
    BY <1>2, <1>3, <1>4 DEF ComboConn, ComboStage, Handler
  <2> HIDE DEF c, s
  <2>3. Good(row', c, s)
    BY <1>2, <1>3, <1>7, <2>2 DEF Good, Placed, Logged, Open, Called, Heard
  <2>4. Promised(View(conn[r], s), View(c, s))
    BY <1>2, <2>2 DEF Promised, Stays, View, Phase
  <2>5. Starts(conn[r], c)
    BY <2>2 DEF Starts
  <2> QED
    BY <1>1, <1>2, <2>1, <2>2, <2>3, <2>4, <2>5 DEF Moves, Move, s
<1>10. CASE lock[a][m] = 0 /\ Call(r, a, m, "minimax", cursor)
  BY <1>1, <1>2, <1>3, <1>4, <1>6, <1>7, <1>10, CallMoves DEF Handler
<1> QED
  BY <1>5, <1>8, <1>9, <1>10

LEMMA DelegateMoves ==
  ASSUME ComboInv, NEW r \in Request, Delegate(r)
  PROVE  TablesTyped /\ Moves(r)
<1> DEFINE m == conn[r].model
           mode == setting["kiro"]
           cursor == AdvancedCursor(mode, conn[r].cursor)
           s == chain[r]
<1>1. TablesTyped
  BY TablesKeptTyped DEF Delegate, ComboInv, ComboTyped
<1>2. /\ conn[r] \in ComboConn /\ s \in ChainState /\ Good(row, conn[r], s)
      /\ conn[r].pc = "delegated" /\ conn[r].cursor \in Cursors /\ conn[r].rows \in Nat
      /\ Open(conn[r]) = 0
  BY RecordsTyped DEF Delegate, ComboConn, Open
<1>3. s.next <= Len(s.members) /\ m \in Model
  BY <1>2 DEF Good, Placed
<1>4. cursor \in Cursors
  BY <1>2, CursorTyped DEF Cursors
<1>5. UNCHANGED row
  BY DEF Delegate
<1>6. 503 \in Nat /\ 429 \in Nat /\ 503 \in Retryable /\ 429 \in Retryable
  BY DEF Retryable
<1> HIDE DEF m, cursor, mode
<1>7. CASE Continue(r, 503, conn[r].rows, conn[r].cursor)
  BY <1>1, <1>2, <1>3, <1>6, <1>7, ContinueMoves DEF TablesTyped
<1>8. CASE Continue(r, 429, conn[r].rows, cursor)
  BY <1>1, <1>2, <1>3, <1>4, <1>6, <1>8, ContinueMoves DEF TablesTyped
<1>9. ASSUME NEW a \in Available("kiro"), lock[a][m] = 0, Call(r, a, m, "kiro", cursor)
      PROVE  Moves(r)
  <2>1. a \in Account /\ row[a].state = "live" /\ row[a].enabled /\ row[a].limited <= 0
    BY DEF Available, Enabled, Live
  <2> QED
    BY <1>2, <1>3, <1>4, <1>5, <1>9, <2>1, CallMoves DEF Handler, m
<1> QED
  BY <1>1, <1>7, <1>8, <1>9, ChoiceOf DEF Delegate, m, mode, cursor

LEMMA ExhaustMoves ==
  ASSUME ComboInv, NEW r \in Request, Exhaust(r)
  PROVE  TablesTyped /\ Moves(r)
<1> DEFINE last == IF chain[r].last = 0 THEN 429 ELSE chain[r].last
<1>1. /\ conn[r].pc = "chaining" /\ conn[r].cursor \in Cursors /\ conn[r].rows \in Nat
      /\ Open(conn[r]) = 0 /\ last \in Nat
  BY RecordsTyped DEF Exhaust, ComboConn, ChainState, Open
<1>2. TablesTyped
  BY <1>1, TablesKeptTyped DEF Exhaust, Refuse, Finish
<1>3. chain' = [chain EXCEPT ![r].last = last] /\ Exhausted(r)
  BY DEF Exhaust, ComboInv, ComboTyped, ChainState
<1>4. Rest(r, "refused", conn[r].rows)
  BY DEF Exhaust, Refuse, Finish
<1>5. last = IF chain[r].last = 0 THEN 429 ELSE chain[r].last
  OBVIOUS
<1>6. RowsPersist /\ conn[r].rows = conn[r].rows + Open(conn[r])
  BY <1>1, <1>2 DEF TablesTyped
<1>7. conn[r].rows = conn[r].rows + Open(conn[r]) \/ Deleted(row')
  BY <1>6
<1>8. \/ conn[r].pc = "reading" /\ last = 503
      \/ /\ conn[r].pc = "chaining" /\ Exhausted(r)
         /\ last = IF chain[r].last = 0 THEN 429 ELSE chain[r].last
      \/ conn[r].pc = "fetching" /\ last \in Final
  BY <1>1, <1>3, <1>5
<1>9. conn[r].pc \in {"reading", "chaining", "fetching"} /\ last \in Nat /\ RowsPersist
  BY <1>1, <1>6
<1> HIDE DEF last
<1>10. Moves(r)
  BY <1>1, <1>3, <1>4, <1>7, <1>8, <1>9, RefuseMoves
<1> QED
  BY <1>2, <1>10

-----------------------------------------------------------------------------
(* The answers of the upstream.                                            *)

LEMMA Fetching ==
  ASSUME ComboInv, NEW r \in Request, conn[r].pc \in {"fetching", "body"}
  PROVE  /\ conn[r] \in ComboConn /\ chain[r] \in ChainState /\ Good(row, conn[r], chain[r])
         /\ conn[r].rows \in Nat /\ conn[r].rows + 1 \in Nat /\ Open(conn[r]) = 1
         /\ conn[r].cursor \in Cursors /\ conn[r].entry \in Cursors
         /\ chain[r].next <= Len(chain[r].members)
BY RecordsTyped DEF ComboConn, Open, Good, Placed

\* A failed attempt with its row; the loop goes on.
LEMMA NextMemberMoves ==
  ASSUME ComboInv, RowsPersist, NEW r \in Request, conn[r].pc \in {"fetching", "body"},
         NEW last \in Retryable, Continue(r, last, conn[r].rows + 1, conn[r].cursor)
  PROVE  Moves(r)
<1>1. last \in Nat
  BY DEF Retryable
<1> QED
  BY <1>1, Fetching, ContinueMoves

LEMMA LockLostMoves ==
  ASSUME ComboInv, RowsPersist, NEW r \in Request, conn[r].pc = "fetching", Deleted(row'),
         LockLost(r)
  PROVE  Moves(r)
<1>1. 502 \in Nat /\ 502 \in Retryable
  BY DEF Retryable
<1>2. CASE Continue(r, 502, conn[r].rows, conn[r].entry)
  BY <1>1, <1>2, Fetching, ContinueMoves
<1>3. CASE Continue(r, 502, conn[r].rows + 1, conn[r].cursor)
  BY <1>1, <1>3, NextMemberMoves
<1> QED
  BY <1>2, <1>3 DEF LockLost

LEMMA FailsMoves ==
  ASSUME ComboInv, NEW r \in Request, MemberFails(r)
  PROVE  TablesTyped /\ Moves(r)
<1>1. PICK resp \in UpstreamErrors :
        /\ Penalise(r, resp)
        /\ \/ LockInsertFails(r, resp) /\ LockLost(r) /\ UNCHANGED rrCursor
           \/ /\ resp.status \in Retryable
              /\ Continue(r, resp.status, conn[r].rows + 1, conn[r].cursor)
              /\ UNCHANGED rrCursor
           \/ /\ resp.status \notin Retryable
              /\ chain' = [chain EXCEPT ![r].last = resp.status]
              /\ RefuseWithRow(r)
  BY DEF MemberFails
<1>2. conn[r].pc = "fetching" /\ UNCHANGED setting
  BY DEF MemberFails
<1>3. resp \in Response /\ resp.status \in Nat
  BY ErrorAssumption DEF Response
<1>4. row' \in [Account -> RowState] /\ RowsPersist
  BY <1>1, <1>2, <1>3, ComboPenalises
<1>5. rrCursor' \in Cursors
  BY <1>1, <1>2, Fetching DEF RefuseWithRow, Finish, ComboInv, ComboTyped
<1>6. TablesTyped
  BY <1>2, <1>4, <1>5 DEF TablesTyped, ComboInv, ComboTyped
<1>7. CASE LockInsertFails(r, resp) /\ LockLost(r)
  BY <1>2, <1>4, <1>6, <1>7, LockLostDeleted, LockLostMoves
<1>8. CASE resp.status \in Retryable /\ Continue(r, resp.status, conn[r].rows + 1, conn[r].cursor)
  BY <1>2, <1>4, <1>6, <1>8, NextMemberMoves
<1>9. CASE /\ resp.status \notin Retryable
           /\ chain' = [chain EXCEPT ![r].last = resp.status]
           /\ RefuseWithRow(r)
  <2> DEFINE status == resp.status
             rows == conn[r].rows + 1
  <2>1. status \in Nat /\ status \in Final
    BY <1>3, <1>9 DEF Final
  <2>2. rows \in Nat /\ Rest(r, "refused", rows)
    BY <1>2, <1>9, Fetching DEF RefuseWithRow, Finish
  <2>3. rows = conn[r].rows + Open(conn[r])
    BY <1>2 DEF Open
  <2>4. chain' = [chain EXCEPT ![r].last = status]
    BY <1>9
  <2> HIDE DEF status, rows
  <2>5. Moves(r)
    BY <1>2, <1>4, <2>1, <2>2, <2>3, <2>4, RefuseMoves
  <2> QED
    BY <1>6, <2>5
<1> QED
  BY <1>1, <1>7, <1>8, <1>9

LEMMA ThrowsMoves ==
  ASSUME ComboInv, NEW r \in Request, MemberThrows(r)
  PROVE  TablesTyped /\ Moves(r)
<1>1. conn[r].pc = "fetching" /\ UNCHANGED <<rrCursor, setting>>
  BY DEF MemberThrows
<1>2. TransportFailure \in Response
  BY DEF TransportFailure, Response, Phrase, ErrorCode
<1>3. row' \in [Account -> RowState] /\ RowsPersist
  <2>1. CASE Penalise(r, TransportFailure)
    BY <1>1, <1>2, <2>1, ComboPenalises
  <2>2. CASE UNCHANGED row
    BY <2>2 DEF ComboInv, ComboTyped, RowsPersist
  <2> QED
    BY <2>1, <2>2 DEF MemberThrows
<1>4. TablesTyped
  BY <1>1, <1>3 DEF TablesTyped, ComboInv, ComboTyped
<1>5. CASE LockInsertFails(r, TransportFailure) /\ LockLost(r)
  <2>1. Deleted(row')
    BY <1>1, <1>3, <1>5, LockLostDeleted
  <2> QED
    BY <1>1, <1>3, <1>4, <1>5, <2>1, LockLostMoves
<1>6. CASE Continue(r, 502, conn[r].rows + 1, conn[r].cursor)
  <2>1. 502 \in Retryable
    BY DEF Retryable
  <2> QED
    BY <1>1, <1>3, <1>4, <1>6, <2>1, NextMemberMoves
<1> QED
  BY <1>5, <1>6 DEF MemberThrows

LEMMA AnswersMoves ==
  ASSUME ComboInv, NEW r \in Request, MemberAnswers(r)
  PROVE  TablesTyped /\ Moves(r)
<1>1. conn[r].pc = "fetching" /\ UNCHANGED <<setting, chain>>
  BY DEF MemberAnswers
<1>2. row' \in [Account -> RowState] /\ RowsPersist
  BY <1>1, ComboResets DEF MemberAnswers
<1>3. rrCursor' \in Cursors
  BY <1>1, Fetching DEF MemberAnswers, Answer, Finish, ComboInv, ComboTyped
<1>4. TablesTyped
  BY <1>1, <1>2, <1>3 DEF TablesTyped, ComboInv, ComboTyped
<1>5. CASE Rest(r, "stream", conn[r].rows)
  BY <1>1, <1>2, <1>4, <1>5, Fetching, RestMoves
<1>6. CASE Answer(r)
  BY <1>1, <1>2, <1>4, <1>6, Fetching, RestMoves DEF Answer, Finish
<1>7. CASE conn' = [conn EXCEPT ![r].pc = "body", ![r].acct = NONE, ![r].snap = NoSnapshot]
  <2> DEFINE c == [conn[r] EXCEPT !.pc = "body", !.acct = NONE, !.snap = NoSnapshot]
             s == chain[r]
  <2>1. conn[r] \in ComboConn /\ s \in ChainState /\ Good(row, conn[r], s)
    BY RecordsTyped
  <2>2. NoSnapshot \in SnapshotState
    BY LadderAssumption DEF NoSnapshot, SnapshotState, Doublings
  <2>3. c \in ComboConn /\ c.pc = "body" /\ c.rows = conn[r].rows
    BY <2>1, <2>2 DEF ComboConn, ComboStage, Stage
  <2>4. conn' = [conn EXCEPT ![r] = c] /\ chain' = [chain EXCEPT ![r] = s]
    BY <1>1, <1>7, <2>1 DEF ComboInv, ComboTyped
  <2> HIDE DEF c, s
  <2>5. Logged(row', c, s)
    BY <1>1, <1>2, <2>1, <2>3 DEF Good, Logged, Deleted, RowsPersist, Open
  <2>6. Good(row', c, s)
    BY <1>1, <2>1, <2>3, <2>5 DEF Good, Placed, Called, Heard
  <2>7. Promised(View(conn[r], s), View(c, s)) /\ Starts(conn[r], c)
    BY <1>1, <2>3 DEF Promised, Stays, View, Phase, Starts
  <2> QED
    BY <1>4, <2>1, <2>3, <2>4, <2>6, <2>7 DEF Moves, Move, s
<1> QED
  BY <1>5, <1>6, <1>7 DEF MemberAnswers, Rest

LEMMA BodyMoves ==
  ASSUME ComboInv, NEW r \in Request, MemberBody(r)
  PROVE  TablesTyped /\ Moves(r)
<1>1. conn[r].pc = "body" /\ UNCHANGED <<row, setting>>
  BY DEF MemberBody
<1>2. RowsPersist
  BY <1>1, Persist
<1>3. rrCursor' \in Cursors
  BY <1>1, Fetching DEF MemberBody, Answer, Finish, ComboInv, ComboTyped
<1>4. TablesTyped
  BY <1>1, <1>3, TablesKeptTyped
<1>5. CASE Answer(r) /\ UNCHANGED chain
  BY <1>1, <1>2, <1>4, <1>5, Fetching, RestMoves DEF Answer, Finish
<1>6. CASE Continue(r, 502, conn[r].rows + 1, conn[r].cursor)
  <2>1. 502 \in Retryable
    BY DEF Retryable
  <2> QED
    BY <1>1, <1>2, <1>4, <1>6, <2>1, NextMemberMoves
<1> QED
  BY <1>5, <1>6 DEF MemberBody

LEMMA StreamMoves ==
  ASSUME ComboInv, NEW r \in Request, StreamEnd(r) \/ StreamCut(r), UNCHANGED chain
  PROVE  TablesTyped /\ Moves(r)
<1>1. conn[r].pc = "stream" /\ UNCHANGED <<row, rrCursor, setting>>
  BY DEF StreamEnd, StreamCut
<1>2. RowsPersist
  BY <1>1, Persist
<1>3. TablesTyped
  BY <1>1, TablesKeptTyped DEF ComboInv, ComboTyped
<1>4. conn[r].rows \in Nat /\ conn[r].rows + 1 \in Nat
  BY RecordsTyped DEF ComboConn
<1>5. CASE Rest(r, "answered", conn[r].rows + 1)
  BY <1>1, <1>2, <1>3, <1>4, <1>5, RestMoves
<1>6. CASE Rest(r, "cut", conn[r].rows)
  BY <1>1, <1>2, <1>3, <1>4, <1>6, RestMoves
<1> QED
  BY <1>5, <1>6 DEF StreamEnd, StreamCut

-----------------------------------------------------------------------------
(* The admin, the clock, and all steps together.                           *)

LEMMA OneRowTyped ==
  ASSUME ComboInv, NEW a \in Account, NEW new \in RowState,
         row' = [row EXCEPT ![a] = new], UNCHANGED <<rrCursor, setting>>,
         row[a].state # "unborn" => new.state # "unborn",
         row[a].state = "deleted" => new.state = "deleted"
  PROVE  TablesTyped
BY DEF ComboInv, ComboTyped, TablesTyped, RowsPersist

LEMMA AdministerTyped ==
  ASSUME ComboInv, Administer
  PROVE  TablesTyped /\ UNCHANGED conn
<1>1. row \in [Account -> RowState]
  BY DEF ComboInv, ComboTyped
<1>2. ASSUME NEW a \in Account, Disable(a) \/ Enable(a) PROVE TablesTyped /\ UNCHANGED conn
  <2>1. PICK b \in BOOLEAN : row' = [row EXCEPT ![a].enabled = b]
    BY <1>2 DEF Disable, Enable
  <2> DEFINE new == [row[a] EXCEPT !.enabled = b]
  <2>2. new \in RowState /\ new.state = row[a].state
    BY <1>1 DEF RowState
  <2>3. row' = [row EXCEPT ![a] = new] /\ UNCHANGED <<rrCursor, setting, conn>>
    BY <1>1, <1>2, <2>1 DEF Disable, Enable
  <2> HIDE DEF new
  <2> QED
    BY <2>2, <2>3, OneRowTyped
<1>3. ASSUME NEW a \in Account, Delete(a) PROVE TablesTyped /\ UNCHANGED conn
  <2>1. CleanRow("deleted") \in RowState /\ CleanRow("deleted").state = "deleted"
    BY CleanRowTyped
  <2> QED
    BY <1>3, <2>1, OneRowTyped DEF Delete
<1>4. ASSUME NEW a \in Account, Create(a) PROVE TablesTyped /\ UNCHANGED conn
  <2>1. CleanRow("live") \in RowState /\ CleanRow("live").state = "live"
    BY CleanRowTyped
  <2> QED
    BY <1>4, <2>1, OneRowTyped DEF Create
<1>5. ASSUME NEW a \in Account, NEW m \in Model, ClearLock(a, m) PROVE TablesTyped /\ UNCHANGED conn
  BY <1>5, TablesKeptTyped DEF ClearLock, ComboInv, ComboTyped
<1>6. CASE ChangeSelection
  <2>1. setting' \in [Selecting -> SelectionMode]
    BY <1>6, SelectionAssumption DEF ChangeSelection
  <2> QED
    BY <1>6, <2>1 DEF ChangeSelection, ComboInv, ComboTyped, TablesTyped, RowsPersist
<1> QED
  BY <1>2, <1>3, <1>4, <1>5, <1>6 DEF Administer

LEMMA TickTyped ==
  ASSUME ComboInv, Tick
  PROVE  TablesTyped /\ UNCHANGED conn
<1>1. ASSUME NEW a \in Account
      PROVE  row'[a] \in RowState /\ row'[a].state = row[a].state
  <2> DEFINE limited == Elapse(row[a].limited)
  <2>1. row[a] \in RowState
    BY DEF ComboInv, ComboTyped
  <2>2. limited \in Timer
    BY <2>1, ErrorAssumption DEF RowState, Timer, Unset, Elapse
  <2>3. row'[a] = [row[a] EXCEPT !.limited = limited]
    BY <2>1 DEF Tick, RowState
  <2> HIDE DEF limited
  <2> QED
    BY <2>1, <2>2, <2>3 DEF RowState
<1>2. row' \in [Account -> RowState]
  BY <1>1 DEF Tick
<1> QED
  BY <1>1, <1>2 DEF Tick, ComboInv, ComboTyped, TablesTyped, RowsPersist

LEMMA QuietKeeps ==
  ASSUME ComboInv, TablesTyped, UNCHANGED <<conn, chain>>
  PROVE  ComboInv'
<1>1. ASSUME NEW q \in Request PROVE Good(row', conn[q], chain[q])
  <2>1. Good(row, conn[q], chain[q])
    BY DEF ComboInv
  <2> QED
    BY <2>1, GoodPersists DEF TablesTyped
<1>2. ComboInv' <=> ComboTyped' /\ \A q \in Request : Good(row', conn'[q], chain'[q])
  BY DEF ComboInv, Good, Placed, Logged, Deleted, Open, Called, Heard
<1> QED
  BY <1>1, <1>2 DEF ComboInv, ComboTyped, TablesTyped

\* A step is a move of one request, or leaves the requests alone.
LEMMA StepMoves ==
  ASSUME ComboInv, [CNext]_cvars
  PROVE  TablesTyped /\ ((\E r \in Request : Moves(r)) \/ UNCHANGED <<conn, chain>>)
<1>1. CASE UNCHANGED cvars
  BY <1>1, TablesKeptTyped DEF cvars, ComboInv, ComboTyped
<1>2. ASSUME NEW r \in Request, Progress(r) PROVE TablesTyped /\ Moves(r)
  BY <1>2, EnterMoves, PassOverMoves, TurnMoves, ExhaustMoves, DelegateMoves, FailsMoves,
     ThrowsMoves, AnswersMoves, BodyMoves DEF Progress, Loop
<1>3. ASSUME NEW r \in Request, ComboArrive(r) PROVE TablesTyped /\ Moves(r)
  <2>1. TablesTyped
    BY <1>3, TablesKeptTyped DEF ComboArrive, ComboInv, ComboTyped
  <2> QED
    BY <1>3, <2>1, ArriveMoves
<1>4. ASSUME NEW r \in Request, StreamEnd(r) \/ StreamCut(r), UNCHANGED chain
      PROVE  TablesTyped /\ Moves(r)
  BY <1>4, StreamMoves
<1>5. CASE (Administer \/ Tick) /\ UNCHANGED chain
  BY <1>5, AdministerTyped, TickTyped
<1> QED
  BY <1>1, <1>2, <1>3, <1>4, <1>5 DEF CNext, Surroundings

LEMMA ComboInitially == CInit => ComboInv
<1> SUFFICES ASSUME CInit PROVE ComboInv
  OBVIOUS
<1>1. row \in [Account -> RowState]
  <2>1. ASSUME NEW a \in Account
        PROVE  CleanRow(IF a \in InitialAccounts THEN "live" ELSE "unborn") \in RowState
    BY CleanRowTyped
  <2> QED
    BY <2>1 DEF CInit, Init
<1>2. rrCursor \in Cursors /\ setting \in [Selecting -> SelectionMode]
  BY SelectionAssumption DEF CInit, Init, Cursors
<1>3. Blank("idle", 0) \in ComboConn /\ Blank("idle", 0).pc = "idle" /\ Blank("idle", 0).rows = 0
  BY ComboRest DEF ComboStage, Stage
<1>4. NewChain(<<>>) \in ChainState /\ NewChain(<<>>).attempts = 0
  BY DEF NewChain, ChainState, SelectionMode
<1>5. conn \in [Request -> ComboConn] /\ chain \in [Request -> ChainState]
  BY <1>3, <1>4 DEF CInit, Init
<1>6. ASSUME NEW r \in Request PROVE Good(row, conn[r], chain[r])
  <2>1. conn[r] = Blank("idle", 0) /\ chain[r] = NewChain(<<>>)
    BY DEF CInit, Init
  <2> QED
    BY <1>3, <1>4, <2>1 DEF Good, Placed, Logged, Open, Called, Heard
<1> QED
  BY <1>1, <1>2, <1>5, <1>6 DEF ComboInv, ComboTyped

LEMMA ComboStep == ComboInv /\ [CNext]_cvars => ComboInv'
BY StepMoves, MoveKeeps, QuietKeeps

LEMMA ComboAlways == CSpec => []ComboInv
BY ComboInitially, ComboStep, PTL DEF CSpec

-----------------------------------------------------------------------------
\* Whatever is deleted, locked or penalised in between, every call of an
\* upstream that a combo makes leaves one row (the observability comments in
\* combo.ts and logAttempt), unless an account has been deleted.
THEOREM AttemptsLogged == CSpec => []EveryAttemptLogged
<1>1. ComboInv => EveryAttemptLogged
  BY DEF ComboInv, Good, Logged, Open, Deleted, EveryAttemptLogged
<1> QED
  BY <1>1, ComboAlways, PTL

\* A client gets an error back only when no other member could have helped, or
\* all of them have had their turn (the loop of handleCombo and RETRYABLE).
THEOREM EveryMemberAsked == CSpec => []NoMemberLeftOut
<1>1. ComboInv => NoMemberLeftOut
  <2> SUFFICES ASSUME ComboInv, NEW r \in Request, conn[r].pc = "refused", ~Exhausted(r)
               PROVE  \/ chain[r].last \notin CuredElsewhere
                      \/ chain[r].last = 503 /\ chain[r].attempts = 0 /\ chain[r].next = 1
    BY DEF NoMemberLeftOut
  <2>1. chain[r].next \in Nat /\ Len(chain[r].members) \in Nat
    <3>1. chain[r].members \in Combos \cup {<<>>} /\ chain[r].next \in Nat
      BY RecordsTyped DEF ChainState
    <3>2. Len(<<>>) \in Nat
      OBVIOUS
    <3> QED
      BY <3>1, <3>2, CombosAssumption
  <2> QED
    BY <2>1, RecordsTyped DEF Good, Heard, Exhausted
<1> QED
  BY <1>1, ComboAlways, PTL

\* No attempt starts on an account that is cooling, disabled or locked for the
\* member's model, not even on one this request has just penalised (the loop
\* selects anew for every member, combo.ts:146-160).
THEOREM AttemptsFresh == CSpec => TriesOnlyFreshAccounts
<1> DEFINE Fresh ==
      \A r \in Request :
        conn[r].pc # "fetching" /\ conn'[r].pc = "fetching" =>
          LET a == conn'[r].acct IN
          /\ row[a].state = "live" /\ row[a].enabled /\ row[a].limited <= 0
          /\ lock[a][conn'[r].model] = 0
<1>1. ComboInv /\ [CNext]_cvars => Fresh
  BY StepMoves, MoveStarts
<1>2. ComboInv /\ [CNext]_cvars => [Fresh]_cvars
  BY <1>1
<1> QED
  BY <1>2, ComboAlways, PTL DEF CSpec, TriesOnlyFreshAccounts

\* The loop of handleCombo implements FallbackChain: what a client sees is the
\* promise, for any number of clients at once.
THEOREM LoopKeepsPromise == CSpec => PromiseKept
<1>1. CInit => Promise!Init
  <2>1. Blank("idle", 0).pc = "idle"
    BY ComboRest DEF ComboStage, Stage
  <2>2. NewChain(<<>>).members = <<>> /\ NewChain(<<>>).turn = 0 /\ NewChain(<<>>).last = 0
    BY DEF NewChain
  <2> QED
    BY <2>1, <2>2 DEF CInit, Init, Promise!Init, Phase
<1>2. ComboInv /\ [CNext]_cvars => [Promise!Next]_Promise!vars
  <2> SUFFICES ASSUME ComboInv, [CNext]_cvars PROVE [Promise!Next]_Promise!vars
    OBVIOUS
  <2>1. CASE \E r \in Request : Moves(r)
    BY <2>1, MovePromised
  <2>2. CASE UNCHANGED <<conn, chain>>
    BY <2>2 DEF Promise!vars
  <2> QED
    BY <2>1, <2>2, StepMoves
<1> QED
  BY <1>1, <1>2, ComboAlways, PTL DEF CSpec, PromiseKept, Promise!Spec
===============================================================================
