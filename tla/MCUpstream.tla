------------------------------ MODULE MCUpstream ------------------------------
(***************************************************************************)
(* What lies between an account and its upstream, on small instances: the  *)
(* transports, the Kiro credentials, the Kiro login and the quota puller.  *)
(* They share no state, so a behaviour runs one of them, its `focus`, and  *)
(* the others keep an initial state: the state spaces add up instead of    *)
(* multiplying.                                                            *)
(***************************************************************************)
EXTENDS Transport, KiroToken, KiroLogin, QuotaPuller

VARIABLE focus

upstreamVars == <<focus, transportVars, kiroVars, loginVars, quotaVars>>

-----------------------------------------------------------------------------
(* Three transports, of which the pool of the first assignment uses two, a *)
(* relay and a proxy the second; a fourth is free for an admin to create.  *)
MCTransportId == 1 .. 4
Row(type, kind, url) == [type |-> type, kind |-> kind, url |-> url, enabled |-> TRUE]
MCInitialTransports ==
  <<Row("proxy", "http", "u1"), Row("proxy", "http", "u2"), Row("relay", "vercel", "v"), Absent>>
MCRowChoices == {Row("proxy", "socks5", "u1")}
MCPatches ==
  {[enabled |-> FALSE], [url |-> "u2"], [kind |-> "socks5", url |-> "u2"]}
Wants(relay, pool, proxy) == [relay |-> relay, pool |-> pool, proxy |-> proxy, every |-> 1]
MCAssignments == {Wants(NONE, <<1, 2>>, NONE), Wants(3, <<>>, 1)}
MCGlobals ==
  {[relay |-> NONE, proxy |-> NONE, kind |-> "none", mode |-> "block"],
   [relay |-> NONE, proxy |-> "u1", kind |-> "http", mode |-> "direct"]}

MCQuotaAccount == <<"a1", "a2">>

-----------------------------------------------------------------------------
UpstreamInit ==
  /\ focus \in {"transport", "kiro", "login", "quota"}
  /\ TransportInit /\ KiroInit /\ LoginInit /\ QuotaInit
  /\ focus # "transport" =>
       global.mode = "block" /\ \A a \in TransportAccount : assigned[a].relay = NONE
  /\ focus # "kiro" => kiro = NoCopy
  /\ focus # "quota" => \A a \in Listed : qacct[a] = "on"

UpstreamNext ==
  /\ UNCHANGED focus
  /\ \/ focus = "transport" /\ TransportNext /\ UNCHANGED <<kiroVars, loginVars, quotaVars>>
     \/ focus = "kiro" /\ KiroNext /\ UNCHANGED <<transportVars, loginVars, quotaVars>>
     \/ focus = "login" /\ LoginNext /\ UNCHANGED <<transportVars, kiroVars, quotaVars>>
     \/ focus = "quota" /\ QuotaNext /\ UNCHANGED <<transportVars, kiroVars, loginVars>>

UpstreamSpec == UpstreamInit /\ [][UpstreamNext]_upstreamVars /\ LoginFairness

\* Every part keeps to its types.
UpstreamTypeOK == TransportTypeOK /\ KiroTypeOK /\ LoginTypeOK /\ QuotaTypeOK
===============================================================================
