----------------------------- MODULE ErrorRules -----------------------------
(***************************************************************************)
(* How the router judges a failed upstream answer: the backoff ladder of   *)
(* accounts/backoff.ts, the rule table of accounts/error-rules.ts and the  *)
(* two call conventions it is used with (proxy/minimax.ts, proxy/combo.ts  *)
(* on one side, proxy/error-handling.ts on the other).                     *)
(*                                                                         *)
(* An upstream answer is a record                                          *)
(*   [status, phrase, baseResp, windowReset, retryAfter, errorCode]        *)
(* as parseError (providers/parse-error.ts) extracts it.  0 (numbers) and  *)
(* "" (strings) stand for `undefined`: every test the code makes on these  *)
(* fields is a truthiness or an equality test.  The message is reduced to  *)
(* the one phrase of the rule table it contains, or "".                    *)
(*                                                                         *)
(* The module has no variables: AccountLadder drives it alone, and         *)
(* RequestPipeline and ComboChain use it for the penalties they apply.     *)
(***************************************************************************)
EXTENDS Integers, Sequences

CONSTANTS
  BASE_MS,            \* 1000, first rung of the ladder
  MAX_MS,             \* 4 * 60 * 1000, last rung
  BACKOFF_MAX_LEVEL,  \* 8
  TRANSIENT_MS,       \* 5000, cooldown of 5xx and of unknown failures
  TIMEOUT_MS,         \* 10000, cooldown of base_resp 1001
  SECOND_MS           \* 1000, milliseconds per second

\* The ladder: 2 ** (level - 1) for the levels below BACKOFF_MAX_LEVEL.
Doublings == <<1, 2, 4, 8, 16, 32, 64>>

ASSUME LadderAssumption ==
  /\ BACKOFF_MAX_LEVEL \in 1 .. Len(Doublings) + 1
  /\ BASE_MS \in Nat \ {0} /\ MAX_MS \in Nat \ {0}

ASSUME CooldownAssumption ==
  /\ TRANSIENT_MS \in Nat \ {0} /\ TIMEOUT_MS \in Nat \ {0}
  /\ SECOND_MS \in Nat \ {0}

NoLevel == -1         \* newBackoffLevel is undefined

Phrase == {"", "rate limit", "rate growth", "window exhausted"}
\* "unknown_code" is any code the rules do not name.
ErrorCode == {"", "insufficient_user_quota", "invalid_api_key", "authentication_error",
              "context_length_exceeded", "unknown_code"}

Response ==
  [status : Nat, phrase : Phrase, baseResp : Nat, windowReset : Nat,
   retryAfter : Nat, errorCode : ErrorCode]

Source == {"rule", "default", "window-reset", "balance", "token-limit", "param"}

Decision ==
  [fallback : BOOLEAN, cooldown : Nat,
   level : {NoLevel} \cup 1 .. BACKOFF_MAX_LEVEL, source : Source]

\* Mutant of GetQuotaCooldown: the exponent is the level, not the level before it.
GetQuotaCooldownShifted(level) ==
  IF level <= 0 THEN 0
  ELSE IF level + 1 >= BACKOFF_MAX_LEVEL THEN MAX_MS
  ELSE BASE_MS * Doublings[level + 1]

GetQuotaCooldown(level) ==
  IF level <= 0 THEN 0
  ELSE IF level >= BACKOFF_MAX_LEVEL THEN MAX_MS
  ELSE BASE_MS * Doublings[level]

\* Mutant of NextLevel: without the cap.
NextLevelUncapped(level) == level + 1

NextLevel(level) ==
  IF level + 1 > BACKOFF_MAX_LEVEL THEN BACKOFF_MAX_LEVEL ELSE level + 1

Cool(ms, source) ==
  [fallback |-> TRUE, cooldown |-> ms, level |-> NoLevel, source |-> source]

Backoff(level) ==
  [fallback |-> TRUE, cooldown |-> GetQuotaCooldown(NextLevel(level)),
   level |-> NextLevel(level), source |-> "rule"]

BalanceExhausted ==
  [fallback |-> FALSE, cooldown |-> 0, level |-> NoLevel, source |-> "balance"]

-----------------------------------------------------------------------------
(* The semantic codes, which are judged before the text and the status.    *)

ErrorCodeDecision ==
  [c \in {"insufficient_user_quota", "invalid_api_key",
          "authentication_error", "context_length_exceeded"} |->
     CASE c = "insufficient_user_quota" -> BalanceExhausted
       [] c = "context_length_exceeded" -> Cool(0, "token-limit")
       [] OTHER                         -> Cool(0, "rule")]

BaseRespCodes == {1001, 1002, 1004, 1008, 1013, 1027, 1039, 2013}

BaseRespDecision(code, level) ==
  CASE code \in {1002, 1027} -> Backoff(level)
    [] code = 1008           -> BalanceExhausted
    [] code = 1039           -> Cool(0, "token-limit")
    [] code = 2013           -> Cool(0, "param")
    [] code = 1004           -> Cool(0, "rule")
    [] code = 1001           -> Cool(TIMEOUT_MS, "rule")
    [] code = 1013           -> Cool(TRANSIENT_MS, "rule")

(* The rule table: a rule names a phrase or a status ("" and 0 match        *)
(* nothing) and either climbs the ladder or sets a fixed cooldown.          *)
PhraseRule(phrase, backoff) ==
  [phrase |-> phrase, status |-> 0, backoff |-> backoff, cooldown |-> 0]
StatusRule(status, backoff, cooldown) ==
  [phrase |-> "", status |-> status, backoff |-> backoff, cooldown |-> cooldown]

ERROR_RULES ==
  << PhraseRule("rate limit", TRUE),
     PhraseRule("rate growth", TRUE),
     PhraseRule("window exhausted", FALSE),
     StatusRule(429, TRUE, 0),
     StatusRule(401, FALSE, 0),
     StatusRule(400, FALSE, 0),
     StatusRule(500, FALSE, TRANSIENT_MS),
     StatusRule(502, FALSE, TRANSIENT_MS),
     StatusRule(503, FALSE, TRANSIENT_MS),
     StatusRule(504, FALSE, TRANSIENT_MS) >>

Matching(resp) ==
  {i \in 1 .. 10 : LET rule == ERROR_RULES[i] IN
     \/ rule.phrase # "" /\ rule.phrase = resp.phrase
     \/ rule.status # 0 /\ rule.status = resp.status}

FirstOf(S) == CHOOSE i \in S : \A j \in S : i <= j

TableDecision(resp, level) ==
  IF Matching(resp) = {} THEN Cool(TRANSIENT_MS, "default")
  ELSE LET rule == ERROR_RULES[FirstOf(Matching(resp))] IN
       IF rule.backoff THEN Backoff(level) ELSE Cool(rule.cooldown, "rule")

\* Mutant of CheckFallbackError: text and status are judged before the codes.
CheckTableFirst(resp, level) ==
  IF resp.status = 429 /\ resp.retryAfter > 0
    THEN Cool(resp.retryAfter * SECOND_MS, "rule")
  ELSE IF Matching(resp) # {} THEN TableDecision(resp, level)
  ELSE IF resp.errorCode \in DOMAIN ErrorCodeDecision
    THEN ErrorCodeDecision[resp.errorCode]
  ELSE IF resp.baseResp \in BaseRespCodes
    THEN BaseRespDecision(resp.baseResp, level)
  ELSE TableDecision(resp, level)

(* The rules in their order of priority.  retryAfter is what the caller    *)
(* passes for the Retry-After header; the code multiplies it by 1000.      *)
CheckFallbackError(resp, level) ==
  IF resp.status = 429 /\ resp.retryAfter > 0
    THEN Cool(resp.retryAfter * SECOND_MS, "rule")
  ELSE IF resp.baseResp \in {2056, 2061} /\ resp.windowReset > 0
    THEN Cool(resp.windowReset, "window-reset")
  ELSE IF resp.errorCode \in DOMAIN ErrorCodeDecision
    THEN ErrorCodeDecision[resp.errorCode]
  ELSE IF resp.baseResp \in BaseRespCodes
    THEN BaseRespDecision(resp.baseResp, level)
  ELSE TableDecision(resp, level)

-----------------------------------------------------------------------------
(* The two call conventions.  handleUpstreamError passes the seconds of the *)
(* header; the MiniMax handler and the combo loop pass milliseconds.        *)
SharedHandlerDecision(resp, level) == CheckFallbackError(resp, level)

MinimaxDecision(resp, level) ==
  CheckFallbackError([resp EXCEPT !.retryAfter = @ * SECOND_MS], level)
=============================================================================
