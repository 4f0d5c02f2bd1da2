-------------------------- MODULE MCRequestPipeline --------------------------
(***************************************************************************)
(* Two instances of RequestPipeline: two requests over two accounts of one *)
(* provider (contention, all selection modes), and two requests over one   *)
(* account of each kind of handler (routing, deletion, fall-through).      *)
(***************************************************************************)
EXTENDS RequestPipeline, TLC

RequestSymmetry == Permutations(Request)

Answer3(status, baseResp, errorCode) ==
  [status |-> status, phrase |-> "", baseResp |-> baseResp, windowReset |-> 0,
   retryAfter |-> 0, errorCode |-> errorCode]
RateLimited   == Answer3(429, 0, "")
BadKey        == Answer3(401, 0, "")
Unavailable   == Answer3(503, 0, "")
NoBalance     == Answer3(402, 1008, "")

Uniform(mode) == [h \in Selecting |-> mode]
PoolOps == {"disable", "enable", "selection", "clear lock"}
RouteOps == {"delete", "create"}
PoolSettings == {Uniform("round-robin"), Uniform("sticky")}
RouteSettings == {Uniform("sticky")}

\* Contention: accounts 1 and 2 of MiniMax, 2 created later.
PoolAccounts == 1 .. 2
PoolInitial == {1, 2}
PoolProvider == [a \in PoolAccounts |-> "minimax"]
PoolModels == {"mm"}
PoolModelProvider == [m \in PoolModels |-> "minimax"]
PoolErrors == {RateLimited, NoBalance}

\* Routing: one account of each handler.
RouteAccounts == 1 .. 4
RouteInitial == 1 .. 3
RouteProvider == <<"kiro", "minimax", "notion", "notion">>
RouteIncomplete == {4}
RouteModels == {"kr", "nt", "unknown"}
RouteModelProvider == [kr |-> "kiro", nt |-> "notion", unknown |-> NONE]
RouteErrors == {Unavailable, BadKey}
=============================================================================
