---------------------------- MODULE AccountLadder ----------------------------
(***************************************************************************)
(* One account, served one request at a time: each upstream answer is      *)
(* judged with the level the account has, and the verdict is written back. *)
(* This is the sequential use of ErrorRules (proxy/pipeline.ts, the        *)
(* applyErrorState / clearErrorState pair, reduced to backoff_level); what *)
(* concurrency does to it is the subject of RequestPipeline.               *)
(*                                                                         *)
(* `streak` is a history variable: the number of ladder failures since the *)
(* last success, counted up to StreakBound.                                *)
(***************************************************************************)
EXTENDS ErrorRules

CONSTANTS
  Responses,     \* the failed answers the upstream may give
  StreakBound    \* bound on the history variable; above BACKOFF_MAX_LEVEL

ASSUME ResponsesAssumption == Responses \subseteq Response
ASSUME StreakAssumption == StreakBound \in Nat /\ StreakBound > BACKOFF_MAX_LEVEL

VARIABLES
  level,      \* backoff_level
  last,       \* the last verdict, with the answer's Retry-After in seconds
  streak
vars == <<level, last, streak>>

CallSites == {"shared", "minimax"}

Judge(site, resp) ==
  IF site = "shared" THEN SharedHandlerDecision(resp, level)
                     ELSE MinimaxDecision(resp, level)

Verdict(d, seconds, site) == [decision |-> d, seconds |-> seconds, site |-> site]

Init ==
  /\ level = 0
  /\ last = Verdict(Cool(0, "rule"), 0, "shared")
  /\ streak = 0

\* A failed answer: newBackoffLevel ?? backoffLevel.
Fail(site, resp) ==
  LET d == Judge(site, resp) IN
  /\ level' = IF d.level = NoLevel THEN level ELSE d.level
  /\ last' = Verdict(d, IF resp.status = 429 THEN resp.retryAfter ELSE 0, site)
  /\ streak' = IF d.level # NoLevel /\ streak < StreakBound THEN streak + 1 ELSE streak

\* A successful answer resets the account.
Succeed ==
  /\ level' = 0
  /\ streak' = 0
  /\ UNCHANGED last

Next ==
  \/ \E site \in CallSites, resp \in Responses : Fail(site, resp)
  \/ Succeed

Spec == Init /\ [][Next]_vars

-----------------------------------------------------------------------------
(* The n-th ladder failure in a row costs BASE_MS * 2^(n-1) until the last  *)
(* rung, and MAX_MS from there on, however other failures (fixed cooldowns, *)
(* caller errors, exhausted balance) are interleaved with them.             *)
LadderCost(n) == IF n < BACKOFF_MAX_LEVEL THEN BASE_MS * 2 ^ (n - 1) ELSE MAX_MS

LadderCountsFailures ==
  /\ level = (IF streak < BACKOFF_MAX_LEVEL THEN streak ELSE BACKOFF_MAX_LEVEL)
  /\ last.decision.level # NoLevel /\ streak > 0 =>
       last.decision.level <= level /\ last.decision.cooldown = LadderCost(last.decision.level)

(* "Semantic codes override text matching" (error-rules.ts): once an answer *)
(* carries a semantic code and no wait of its own, neither its wording nor  *)
(* its HTTP status may change the verdict; an OpenAI-style code in turn     *)
(* overrides the MiniMax one.                                               *)
NoOwnWait(resp) == resp.retryAfter = 0 /\ resp.windowReset = 0
VerdictsOf(S) == {CheckFallbackError(resp, level) : resp \in S}

SemanticCodesDecide ==
  /\ \A code \in DOMAIN ErrorCodeDecision :
       LET S == {resp \in Responses : resp.errorCode = code /\ NoOwnWait(resp)} IN
       \A d, e \in VerdictsOf(S) : d = e
  /\ \A code \in BaseRespCodes :
       LET S == {resp \in Responses : /\ resp.baseResp = code /\ NoOwnWait(resp)
                                      /\ resp.errorCode \notin DOMAIN ErrorCodeDecision} IN
       \A d, e \in VerdictsOf(S) : d = e

(* ARCHITECTURE.md:278 and error-rules.test.ts: a 429 that carries          *)
(* Retry-After cools the account for that many seconds.                     *)
RetryAfterHonoured ==
  last.seconds > 0 => last.decision.cooldown = last.seconds * SECOND_MS
=============================================================================
