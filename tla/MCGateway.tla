------------------------------- MODULE MCGateway -------------------------------
(***************************************************************************)
(* What happens to a request and its answer between the client and the     *)
(* upstream, on small instances: the names and caches it is looked up in,  *)
(* the handlers of the providers, the bodies they send, the streams they   *)
(* assemble, the relay that reads usages, and what the dashboard shows of  *)
(* it all.  A behaviour runs one of them, its `focus`, as in MCUpstream.   *)
(***************************************************************************)
EXTENDS
  ProviderHandlers, SseStream, UsageRelay, RequestBody, Registry, LookupCaches,
  ConsoleStream, Dashboard

VARIABLE focus

gatewayVars ==
  <<focus, handlerVars, streamVars, relayVars, bodyVars, registryVars, cacheVars,
    consoleVars, dashboardVars>>

-----------------------------------------------------------------------------
\* Lines that fit into the tail, and one that does not.
MCBodies ==
  {<<"text", "usage", "text">>, <<"usage", "long", "usage">>, <<"text", "usage">>, <<"long">>}
MCSize == [text |-> 1, usage |-> 2, long |-> 4]

\* Messages as clients send them: tool results as strings and as blocks, an
\* error among them, two calls of one message.
Of(role, shape, kinds) == [role |-> role, shape |-> shape, pieces |-> kinds]
MCOpenAIMessages ==
  {Of("system", "string", <<"text">>), Of("user", "string", <<"text">>),
   Of("user", "array", <<"text", "image">>), Of("assistant", "string", <<"text">>),
   Of("assistant", "string", <<"text", "use", "use">>),
   Of("tool", "string", <<"result">>), Of("tool", "array", <<"result">>)}
MCAnthropicMessages ==
  {Of("user", "string", <<"text">>), Of("user", "array", <<"result", "text">>),
   Of("user", "array", <<"error">>), Of("assistant", "array", <<"text", "use">>)}
Settings(augment, rtk, forced) == [augment |-> augment, rtk |-> rtk, forced |-> forced]
MCSetups ==
  {Settings(FALSE, FALSE, FALSE), Settings(TRUE, TRUE, FALSE), Settings(TRUE, FALSE, TRUE)}
\* One provider's models have no namespace, the other's have its prefix for one.
MCRegistryName == {<<"", "x">>, <<"tabi", "x">>}
MCPrefixOf == [kiro |-> "kr", tabi |-> "tabi"]
MCCatalogue == [kiro |-> {<<"", "x">>}, tabi |-> {<<"tabi", "x">>}]
\* Kiro's is one of its thinking variants.
MCSeededOff == {<<"kiro", <<"", "x">>>>}

MCReplies == {<<"text", "use", "thinking", "text">>}

-----------------------------------------------------------------------------
\* A part that is not the focus has one initial state.  The dashboard is opened
\* on a page that observes the query.
PlainClient ==
  [format |-> "openai", tools |-> FALSE,
   body |-> [NoBody EXCEPT !.messages = Number(<<Of("user", "string", <<"text">>)>>)]]
AtRest ==
  /\ focus = "handlers" \/ provider = "kiro"
  /\ focus = "stream" \/ assembler = "kiro"
  /\ focus = "relay" \/ (reader = "tail" /\ pieces = PiecesOf(<<"long">>))
  /\ focus = "body" \/ (sender = PlainClient /\ stage = "combo" /\ setup = Settings(FALSE, FALSE, FALSE))
  /\ IF focus = "dashboard" THEN Observed ELSE query = "me" /\ route = "login"

GatewayInit ==
  /\ query \in Query /\ route \in Page
  /\ focus \in {"handlers", "stream", "relay", "body", "registry", "caches", "console",
               "dashboard"}
  /\ AtRest
  /\ HandlersInit /\ StreamInit /\ RelayInit /\ BodyInit /\ RegistryInit /\ CachesInit
  /\ ConsoleInit /\ DashboardInit

GatewayNext ==
  /\ UNCHANGED focus
  /\ \/ focus = "handlers" /\ HandlersNext
        /\ UNCHANGED <<streamVars, relayVars, bodyVars, registryVars, cacheVars, consoleVars, dashboardVars>>
     \/ focus = "stream" /\ StreamNext
        /\ UNCHANGED <<handlerVars, relayVars, bodyVars, registryVars, cacheVars, consoleVars, dashboardVars>>
     \/ focus = "relay" /\ RelayNext
        /\ UNCHANGED <<handlerVars, streamVars, bodyVars, registryVars, cacheVars, consoleVars, dashboardVars>>
     \/ focus = "body" /\ BodyNext
        /\ UNCHANGED <<handlerVars, streamVars, relayVars, registryVars, cacheVars, consoleVars, dashboardVars>>
     \/ focus = "registry" /\ RegistryNext
        /\ UNCHANGED <<handlerVars, streamVars, relayVars, bodyVars, cacheVars, consoleVars, dashboardVars>>
     \/ focus = "caches" /\ CachesNext
        /\ UNCHANGED <<handlerVars, streamVars, relayVars, bodyVars, registryVars, consoleVars, dashboardVars>>
     \/ focus = "console" /\ ConsoleNext
        /\ UNCHANGED <<handlerVars, streamVars, relayVars, bodyVars, registryVars, cacheVars, dashboardVars>>
     \/ focus = "dashboard" /\ DashboardNext
        /\ UNCHANGED <<handlerVars, streamVars, relayVars, bodyVars, registryVars, cacheVars, consoleVars>>

GatewaySpec == GatewayInit /\ [][GatewayNext]_gatewayVars

\* Every part keeps to its types.
GatewayTypeOK ==
  /\ HandlersTypeOK /\ StreamTypeOK /\ RelayTypeOK /\ BodyTypeOK
  /\ RegistryTypeOK /\ CachesTypeOK /\ ConsoleTypeOK /\ DashboardTypeOK
===============================================================================
