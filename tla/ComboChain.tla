----------------------------- MODULE ComboChain -----------------------------
(***************************************************************************)
(* The fallback loop of a combo (proxy/combo.ts) over the accounts, locks, *)
(* cursor and sticky map of RequestPipeline.  Requests name a combo; the   *)
(* attempt a request is making is kept in `conn`, as in RequestPipeline,   *)
(* and the state of its loop in `chain`.                                   *)
(*                                                                         *)
(* A member of a provider of its own ("kiro" stands for Kiro, CodeBuddy,   *)
(* Pioneer and Tabi) is handed to that provider's handler, which selects   *)
(* again.  Members of Notion, Z.AI and QwenCloud ("notion") have no branch *)
(* in the loop and are sent along MiniMax's path with the account the loop *)
(* itself has selected, which may be anyone's.                             *)
(*                                                                         *)
(* The loop runs from one await to the next without interruption however   *)
(* many members it passes over: `Looping` holds every other step back      *)
(* while a request is in it.  A handler may await (augmentRequest) before  *)
(* it selects, so "delegated" is a stage others can interleave with.       *)
(***************************************************************************)
EXTENDS RequestPipeline

CONSTANTS
  Combos,       \* the sequences of models the admin has configured
  MaxMembers    \* the length of the longest

ASSUME CombosAssumption ==
  Combos \subseteq Seq(Model) /\ \A members \in Combos : Len(members) \in 1 .. MaxMembers

VARIABLE chain
cvars == <<row, lock, rrCursor, sticky, setting, conn, chain>>

\* History: attempts counts the calls of an upstream, turn is the last member
\* that was called or refused by its handler.
NewChain(members) ==
  [members |-> members, next |-> 1, mode |-> "lowest-backoff", last |-> 0,
   attempts |-> 0, turn |-> 0]

CInit == Init /\ chain = [r \in Request |-> NewChain(<<>>)]

\* Mutant of Retryable: an exhausted balance ends the chain.
RetryableUnlessPayment == {429, 502, 503, 504, 401, 403}

Retryable == {429, 502, 503, 504, 401, 402, 403}

Looping == \E r \in Request : conn[r].pc = "chaining"
Exhausted(r) == chain[r].next > Len(chain[r].members)
Member(r) == chain[r].members[chain[r].next]

-----------------------------------------------------------------------------
(* The loop.                                                               *)

ComboArrive(r) ==
  /\ conn[r].pc \in {"idle", "refused", "answered", "cut"}
  /\ \E k \in Key, members \in Combos :
       /\ conn' = [conn EXCEPT ![r] =
            [Blank("reading", 0) EXCEPT !.key = k, !.entry = rrCursor, !.cursor = rrCursor]]
       /\ chain' = [chain EXCEPT ![r] = NewChain(members)]
  /\ UNCHANGED <<row, lock, rrCursor, sticky, setting>>

\* 503 when no account is enabled; otherwise MiniMax's mode, read once.
Enter(r) ==
  /\ conn[r].pc = "reading"
  /\ \/ /\ \A h \in Handler : Enabled(h) = {}
        /\ chain' = [chain EXCEPT ![r].last = 503]
        /\ Refuse(r)
     \/ /\ \E h \in Handler : Enabled(h) # {}
        /\ chain' = [chain EXCEPT ![r].mode = setting["minimax"]]
        /\ conn' = [conn EXCEPT ![r].pc = "chaining"]
        /\ UNCHANGED rrCursor
  /\ UNCHANGED <<row, lock, sticky, setting>>

\* On to the next member, with the error to report if it was the last.
Continue(r, last, rows, cursor) ==
  /\ conn' = [conn EXCEPT ![r] =
       [Blank("chaining", rows) EXCEPT !.key = conn[r].key, !.cursor = cursor]]
  /\ chain' = [chain EXCEPT ![r].last = last, ![r].next = @ + 1,
                            ![r].turn = IF conn[r].pc = "chaining" THEN @ ELSE chain[r].next]
Skip(r, cursor) == Continue(r, chain[r].last, conn[r].rows, cursor)

\* A call of the upstream with account a.
Call(r, a, m, handler, cursor) ==
  /\ conn' = [conn EXCEPT ![r].pc = "fetching", ![r].model = m, ![r].handler = handler,
                          ![r].acct = a, ![r].snap = Snapshot(row[a]), ![r].cursor = cursor]
  /\ chain' = [chain EXCEPT ![r].attempts = @ + 1, ![r].turn = chain[r].next]

\* Mutant of Candidates: accounts that are cooling are selected again.
CandidatesCooling(m) ==
  IF ModelProvider[m] = "minimax" THEN Enabled("minimax") ELSE UNION {Enabled(h) : h \in Handler}

\* The accounts the loop itself selects from.
Candidates(m) ==
  IF ModelProvider[m] = "minimax" THEN Available("minimax")
  ELSE UNION {Available(h) : h \in Handler}

\* Mutant of PassOver: the loop stays at the member.
PassOverNothing(r) ==
  /\ conn[r].pc = "chaining" /\ ~Exhausted(r)
  /\ ModelProvider[Member(r)] = NONE \/ Candidates(Member(r)) = {}
  /\ UNCHANGED cvars

\* Model not resolvable, or no account for it.
PassOver(r) ==
  /\ conn[r].pc = "chaining" /\ ~Exhausted(r)
  /\ ModelProvider[Member(r)] = NONE \/ Candidates(Member(r)) = {}
  /\ Skip(r, conn[r].cursor)
  /\ UNCHANGED <<row, lock, rrCursor, sticky, setting>>

\* The loop's own selection and lock test; they precede every kind of member.
Turn(r) ==
  LET m == Member(r)
      mode == chain[r].mode
      cursor == AdvancedCursor(mode, conn[r].cursor) IN
  /\ conn[r].pc = "chaining" /\ ~Exhausted(r) /\ ModelProvider[m] # NONE
  /\ \E a \in Choice(Candidates(m), mode, conn[r].key, conn[r].cursor) :
       /\ sticky' = IF mode = "sticky" THEN [sticky EXCEPT ![conn[r].key] = a] ELSE sticky
       /\ \/ lock[a][m] > 0 /\ Skip(r, cursor)
          \/ /\ lock[a][m] = 0 /\ ModelProvider[m] = "kiro"
             /\ conn' = [conn EXCEPT ![r].pc = "delegated", ![r].model = m,
                           ![r].handler = "kiro", ![r].entry = cursor, ![r].cursor = cursor]
             /\ UNCHANGED chain
          \/ /\ lock[a][m] = 0 /\ ModelProvider[m] # "kiro"
             /\ Call(r, a, m, "minimax", cursor)
  /\ UNCHANGED <<row, lock, rrCursor, setting>>

\* The provider's handler: 503 without an account, 429 for a locked model.
Delegate(r) ==
  LET m == conn[r].model
      mode == setting["kiro"]
      cursor == AdvancedCursor(mode, conn[r].cursor) IN
  /\ conn[r].pc = "delegated"
  /\ \/ /\ Available("kiro") = {}
        /\ Continue(r, 503, conn[r].rows, conn[r].cursor)
        /\ UNCHANGED sticky
     \/ \E a \in Choice(Available("kiro"), mode, conn[r].key, conn[r].cursor) :
          /\ sticky' = IF mode = "sticky" THEN [sticky EXCEPT ![conn[r].key] = a] ELSE sticky
          /\ \/ lock[a][m] > 0 /\ Continue(r, 429, conn[r].rows, cursor)
             \/ lock[a][m] = 0 /\ Call(r, a, m, "kiro", cursor)
  /\ UNCHANGED <<row, lock, rrCursor, setting>>

\* Mutant of Exhaust: the last error is not given back.
ExhaustWith429(r) ==
  /\ conn[r].pc = "chaining" /\ Exhausted(r)
  /\ chain' = [chain EXCEPT ![r].last = 429]
  /\ Refuse(r)
  /\ UNCHANGED <<row, lock, sticky, setting>>

\* Every member had its turn: the last error, or 429.
Exhaust(r) ==
  /\ conn[r].pc = "chaining" /\ Exhausted(r)
  /\ chain' = [chain EXCEPT ![r].last = IF @ = 0 THEN 429 ELSE @]
  /\ Refuse(r)
  /\ UNCHANGED <<row, lock, sticky, setting>>

-----------------------------------------------------------------------------
(* The answer of a member's upstream.                                      *)

\* The lock cannot be inserted for an account deleted meanwhile: the loop's
\* own path logs a 502; the handler throws, and the cursor it had advanced
\* is lost with it.
LockLost(r) ==
  IF conn[r].handler = "kiro" THEN Continue(r, 502, conn[r].rows, conn[r].entry)
  ELSE Continue(r, 502, conn[r].rows + 1, conn[r].cursor)

MemberFails(r) ==
  /\ conn[r].pc = "fetching"
  /\ \E resp \in UpstreamErrors :
       /\ Penalise(r, resp)
       /\ \/ LockInsertFails(r, resp) /\ LockLost(r) /\ UNCHANGED rrCursor
          \/ /\ ~LockInsertFails(r, resp) /\ resp.status \in Retryable
             /\ Continue(r, resp.status, conn[r].rows + 1, conn[r].cursor)
             /\ UNCHANGED rrCursor
          \/ /\ ~LockInsertFails(r, resp) /\ resp.status \notin Retryable
             /\ chain' = [chain EXCEPT ![r].last = resp.status]
             /\ RefuseWithRow(r)
  /\ UNCHANGED <<sticky, setting>>

\* Mutant of MemberThrows: no row for the failed call.
MemberThrowsUnlogged(r) ==
  /\ conn[r].pc = "fetching"
  /\ IF conn[r].handler = "kiro" THEN Penalise(r, TransportFailure) ELSE UNCHANGED <<row, lock>>
  /\ Continue(r, 502, conn[r].rows, conn[r].cursor)
  /\ UNCHANGED <<rrCursor, sticky, setting>>

\* The call throws: 502, with a penalty in Kiro's handler only.
MemberThrows(r) ==
  /\ conn[r].pc = "fetching"
  /\ IF conn[r].handler = "kiro" THEN Penalise(r, TransportFailure) ELSE UNCHANGED <<row, lock>>
  /\ IF conn[r].handler = "kiro" /\ LockInsertFails(r, TransportFailure) THEN LockLost(r)
     ELSE Continue(r, 502, conn[r].rows + 1, conn[r].cursor)
  /\ UNCHANGED <<rrCursor, sticky, setting>>

MemberAnswers(r) ==
  /\ conn[r].pc = "fetching"
  /\ Reset(r)
  /\ \/ /\ conn' = [conn EXCEPT ![r] = Blank("stream", conn[r].rows)]
        /\ rrCursor' = conn[r].cursor
     \/ /\ conn[r].handler = "minimax"
        /\ conn' = [conn EXCEPT ![r].pc = "body", ![r].acct = NONE, ![r].snap = NoSnapshot]
        /\ UNCHANGED rrCursor
     \/ conn[r].handler = "kiro" /\ Answer(r)
  /\ UNCHANGED <<lock, sticky, setting, chain>>

\* resp.text() of the loop's own path: when it throws the loop goes on.
MemberBody(r) ==
  /\ conn[r].pc = "body"
  /\ \/ Answer(r) /\ UNCHANGED chain
     \/ Continue(r, 502, conn[r].rows + 1, conn[r].cursor) /\ UNCHANGED rrCursor
  /\ UNCHANGED <<row, lock, sticky, setting>>

-----------------------------------------------------------------------------
Loop(r) == PassOver(r) \/ Turn(r) \/ Exhaust(r)

\* The stages that end by themselves: the loop never waits, a handler gets to
\* its selection, and a call or a body is answered, fails or times out.
Progress(r) ==
  \/ Loop(r)
  \/ /\ ~Looping
     /\ Enter(r) \/ Delegate(r) \/ MemberFails(r) \/ MemberThrows(r)
          \/ MemberAnswers(r) \/ MemberBody(r)

Surroundings ==
  /\ ~Looping
  /\ \/ \E r \in Request : ComboArrive(r)
     \/ (\E r \in Request : StreamEnd(r) \/ StreamCut(r)) /\ UNCHANGED chain
     \/ (Administer \/ Tick) /\ UNCHANGED chain

CNext == (\E r \in Request : Progress(r)) \/ Surroundings

CSpec == CInit /\ [][CNext]_cvars
\* The event loop runs what is ready, though other requests may come between.
FairCSpec == CSpec /\ \A r \in Request : SF_cvars(Progress(r))

-----------------------------------------------------------------------------
(* Properties.                                                             *)

(* Every call of an upstream a combo makes leaves exactly one row, also when *)
(* the loop goes on (the observability comments in combo.ts), unless the    *)
(* account was deleted during the call.                                     *)
EveryAttemptLogged ==
  \A r \in Request :
    LET open == IF conn[r].pc \in {"fetching", "body", "stream", "cut"} THEN 1 ELSE 0 IN
    conn[r].rows + open = chain[r].attempts \/ \E a \in Account : row[a].state = "deleted"

(* A combo gives an error back only for a failure no other model can cure,  *)
(* or after every member has had its turn (or without any account at all).  *)
CuredElsewhere == {401, 402, 403, 429, 502, 503, 504}
NoMemberLeftOut ==
  \A r \in Request :
    conn[r].pc = "refused" /\ ~Exhausted(r) =>
      \/ chain[r].last \notin CuredElsewhere
      \/ chain[r].last = 503 /\ chain[r].attempts = 0 /\ chain[r].next = 1

(* "Re-select account each iteration so recently-backoffed accounts are     *)
(* skipped" (combo.ts:146): whatever the loop and the handlers it delegates *)
(* to select, no attempt starts on an account that is cooling, disabled or  *)
(* locked for the member's model, the ones this very request penalised      *)
(* included.                                                                *)
TriesOnlyFreshAccounts ==
  [][ \A r \in Request :
        conn[r].pc # "fetching" /\ conn'[r].pc = "fetching" =>
          LET a == conn'[r].acct IN
          /\ row[a].state = "live" /\ row[a].enabled /\ row[a].limited <= 0
          /\ lock[a][conn'[r].model] = 0 ]_cvars

(* A combo request always comes to an end.                                  *)
Settled == {"idle", "stream", "answered", "refused", "cut"}
ComboSettles ==
  \A r \in Request : conn[r].pc \notin Settled ~> conn[r].pc \in Settled

(* combo.ts:131-136: "we must filter to minimax-only accounts here to avoid *)
(* a sticky-pinned Pioneer account leaking into a MiniMax upstream call".   *)
MiniMaxPathUsesMiniMaxAccounts ==
  \A r \in Request :
    conn[r].pc = "fetching" /\ conn[r].handler = "minimax" =>
      AccountProvider[conn[r].acct] = "minimax"

(* The loop implements the promise of FallbackChain.                        *)
Phase(pc) ==
  CASE pc = "idle" -> "rest"
    [] pc \in {"reading", "chaining", "delegated"} -> "between"
    [] pc \in {"fetching", "body"} -> "trying"
    [] pc = "refused" -> "failed"
    [] OTHER -> "delivered"

Promise == INSTANCE FallbackChain WITH
  Retryable <- Retryable,
  Final <- {resp.status : resp \in UpstreamErrors} \ Retryable,
  phase <- [r \in Request |-> Phase(conn[r].pc)],
  size <- [r \in Request |-> Len(chain[r].members)],
  tried <- [r \in Request |-> chain[r].turn],
  verdict <- [r \in Request |-> chain[r].last]
PromiseKept == Promise!Spec
=============================================================================
