---------------------------- MODULE MCComboChain ----------------------------
(***************************************************************************)
(* Combos over one account of MiniMax, one of a provider with its own      *)
(* handler (Kiro) and, for the fall-through, one of Notion.                *)
(***************************************************************************)
EXTENDS ComboChain, TLC

Answer3(status, baseResp) ==
  [status |-> status, phrase |-> "", baseResp |-> baseResp, windowReset |-> 0,
   retryAfter |-> 0, errorCode |-> ""]
RateLimited == Answer3(429, 0)
BadRequest400 == Answer3(400, 0)
NoBalance == Answer3(402, 1008)

Uniform(mode) == [h \in Selecting |-> mode]
MCSettings == {Uniform("round-robin"), Uniform("sticky")}
StickySettings == {Uniform("sticky")}

MCAccounts == 1 .. 2
MCProvider == <<"minimax", "kiro">>
MCModels == {"mm", "kr", "unknown"}
MCModelProvider == [mm |-> "minimax", kr |-> "kiro", unknown |-> NONE]
MCErrors == {RateLimited, BadRequest400, NoBalance}
MCOps == {"delete", "create", "enable", "clear lock"}
MCCombos == {<<"mm", "kr", "mm">>, <<"kr", "unknown", "mm">>}

\* Two combos at a time over the same two accounts; one goes on to a second
\* model of the account it has just penalised.
PairModels == {"mm", "m2", "kr"}
PairModelProvider == [mm |-> "minimax", m2 |-> "minimax", kr |-> "kiro"]
PairErrors == {RateLimited, NoBalance}
PairOps == {"delete"}
PairCombos == {<<"kr", "mm">>, <<"mm", "m2">>}
RequestSymmetry == Permutations(Request)

\* The fall-through: Notion's model with MiniMax accounts configured.
ForeignProvider == <<"kiro", "notion">>
ForeignModels == {"nt"}
ForeignModelProvider == [nt |-> "notion"]
ForeignCombos == {<<"nt">>}
ForeignErrors == {RateLimited}
=============================================================================
