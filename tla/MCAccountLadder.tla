--------------------------- MODULE MCAccountLadder ---------------------------
(***************************************************************************)
(* AccountLadder with the constants of the source and every combination of *)
(* a representative of each case of the rule table.                        *)
(***************************************************************************)
EXTENDS AccountLadder

MCResponses ==
  [status : {400, 401, 418, 429, 503},
   phrase : {"", "rate limit", "window exhausted"},
   baseResp : {0, 1001, 1002, 1004, 1008, 1013, 1027, 1039, 2013, 2056},
   windowReset : {0, 700},
   retryAfter : {0, 2},
   errorCode : {"", "insufficient_user_quota", "invalid_api_key",
                "context_length_exceeded", "unknown_code"}]

MCRetryResponses == {resp \in MCResponses :
  /\ resp.phrase = "" /\ resp.baseResp = 0 /\ resp.windowReset = 0 /\ resp.errorCode = ""}
=============================================================================
