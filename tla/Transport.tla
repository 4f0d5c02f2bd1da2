------------------------------ MODULE Transport ------------------------------
(***************************************************************************)
(* How a call of an upstream finds its way out: the transports table and   *)
(* its admin API, resolveTransportForAccount with its cache of one second, *)
(* the rotation of proxy pools, the LRU of HTTP dispatchers (a dispatcher  *)
(* that leaves it is closed), the cache of SOCKS agents, and               *)
(* proxyAwareFetch with its two failure modes.                             *)
(*                                                                         *)
(* A call gives way to others at three places: between the reading of its  *)
(* account's row and the resolution, while it awaits the import of undici  *)
(* (the cache has been read, and is written afterwards), and while it      *)
(* awaits the dispatcher it was given.  The `transport` setting is read    *)
(* live: its cache is dropped by every write.                              *)
(*                                                                         *)
(* What goes out for a Kiro account has legs: the refresh of its token and *)
(* the lookup of its profile, each if it is needed, then the call itself,  *)
(* all with the transport that was resolved first.  The handler's failure  *)
(* mode is for the last of them only.                                      *)
(***************************************************************************)
EXTENDS Integers, Sequences, FiniteSets, SequencesExt, SequenceFilter

CONSTANTS
  NONE,             \* no relay, no proxy, no dispatcher
  TransportId,
  TransportAccount,
  KiroAccount,      \* the accounts whose calls may need a token or a profile first
  TransportCall,
  RowChoices,       \* the rows an admin creates: [type, kind, url, enabled]
  Patches,          \* the patches an admin sends: subsets of kind, url, enabled
  InitialTransports,
  Assignments,      \* what an account's row may say: [relay, pool, proxy, every]
  Globals,          \* values of the `transport` setting: [relay, proxy, kind, mode]
  EnvProxy,         \* the proxy of the environment, or NONE
  CacheSize,        \* MAX_SIZE of the two caches
  ResolvedTtl,      \* TTL_MS, in units of time
  MaxAgents,        \* bound: HTTP dispatchers made in a behaviour
  MaxEdits          \* bound: operations of the admin in a behaviour

RowFields == {"type", "kind", "url", "enabled"}
Legs == {"refresh", "profile", "upstream"}

ASSUME TransportAssumption ==
  /\ KiroAccount \subseteq TransportAccount
  /\ NONE \notin Legs \cup {"direct"} /\ {CacheSize, ResolvedTtl} \subseteq Nat \ {0}
  /\ \A want \in Assignments : want.pool \in Seq(TransportId)
  /\ \A row \in RowChoices : DOMAIN row = RowFields /\ row.type \in {"proxy", "relay"}
  /\ DOMAIN InitialTransports = TransportId
  /\ \A id \in TransportId : LET row == InitialTransports[id] IN
       DOMAIN row = RowFields /\ row.type \in {"none", "proxy", "relay"}
  /\ \A patch \in Patches : DOMAIN patch \subseteq RowFields \ {"type"}

VARIABLES
  transport,   \* the table
  assigned,    \* the transport columns of the accounts table
  global,      \* the `transport` setting
  resolved,    \* the cache of resolutions, an entry or NONE per account
  rotation,    \* pool cursors
  dispatcher,  \* the LRU: <<[url, agent], ...>>, least recently used first
  socks,       \* the URLs with a SOCKS agent, oldest first
  agent,       \* "unused", "open" or "closed"
  tcall,       \* the calls under way
  edits        \* how often the admin has changed something

transportVars ==
  <<transport, assigned, global, resolved, rotation, dispatcher, socks, agent, tcall,
    edits>>

Absent == [type |-> "none", kind |-> "none", url |-> NONE, enabled |-> FALSE]
Direct == [relay |-> NONE, proxy |-> NONE, kind |-> "none"]
Relay(url) == [Direct EXCEPT !.relay = url]
Proxy(kind, url) == [Direct EXCEPT !.proxy = url, !.kind = kind]
\* A call: the account's row, the leg, the way out, and the failure mode that its
\* maker has for the call of the upstream.
Idle == [pc |-> "idle", acct |-> NONE, want |-> NONE, leg |-> NONE, cfg |-> Direct,
         mode |-> "direct", agent |-> 0, out |-> NONE]

TransportInit ==
  /\ transport = InitialTransports
  /\ assigned \in [TransportAccount -> Assignments]
  /\ global \in Globals
  /\ resolved = [a \in TransportAccount |-> NONE]
  /\ rotation = [a \in TransportAccount |-> [cursor |-> 0, count |-> 0]]
  /\ dispatcher = <<>>
  /\ socks = <<>>
  /\ agent = [i \in 1 .. MaxAgents |-> "unused"]
  /\ tcall = [c \in TransportCall |-> Idle]
  /\ edits = 0

-----------------------------------------------------------------------------
(* Resolution.                                                             *)

Usable(table, id, type) == id # NONE /\ table[id].type = type /\ table[id].enabled
RowProxy(table, id) == Proxy(table[id].kind, table[id].url)

\* The enabled members of a pool, in its order.
ActivePool(table, ids) ==
  LET usable == Filtered(ids, {id \in ToSet(ids) : Usable(table, id, "proxy")})
  IN  [i \in DOMAIN usable |-> RowProxy(table, usable[i])]

\* What the tables say of an assignment: a relay, else the active members of
\* the pool, else the single proxy, else nothing.
TableAnswer(table, want) ==
  IF Usable(table, want.relay, "relay")
    THEN [kind |-> "value", value |-> Relay(table[want.relay].url), active |-> <<>>]
  ELSE IF ActivePool(table, want.pool) # <<>>
    THEN [kind |-> "pool", value |-> Direct, active |-> ActivePool(table, want.pool)]
  ELSE [kind |-> "value", active |-> <<>>,
        value |-> IF Usable(table, want.proxy, "proxy") THEN RowProxy(table, want.proxy)
                  ELSE Direct]

GlobalSet == global.relay # NONE \/ global.proxy # NONE
GlobalConfig == [relay |-> global.relay, proxy |-> global.proxy, kind |-> global.kind]

\* A live entry is used if the account's transport columns are those it was
\* made for.
CachedAnswer(a, want) == resolved[a] # NONE /\ resolved[a].key = want

\* The member whose turn it is, and the rotation after it.
Turn(a, active) == active[(rotation[a].cursor % Len(active)) + 1]
Turned(a, active, every) ==
  IF rotation[a].count + 1 >= every
  THEN [cursor |-> (rotation[a].cursor + 1) % Len(active), count |-> 0]
  ELSE [rotation[a] EXCEPT !.count = @ + 1]

\* resolveTransportForAccount.  The global setting is looked at only when
\* nothing is cached and the tables name nothing; its answer is not cached.
Answer(a, want) == IF CachedAnswer(a, want) THEN resolved[a].answer ELSE TableAnswer(transport, want)
ViaGlobal(a, want) ==
  ~CachedAnswer(a, want) /\ GlobalSet
  /\ TableAnswer(transport, want).kind = "value" /\ TableAnswer(transport, want).value = Direct

Config(a, want) ==
  IF Answer(a, want).kind = "pool" THEN Turn(a, Answer(a, want).active)
  ELSE IF ViaGlobal(a, want) THEN GlobalConfig
  ELSE Answer(a, want).value

Resolve(a, want) ==
  /\ rotation' = IF Answer(a, want).kind = "pool"
                 THEN [rotation EXCEPT ![a] = Turned(a, Answer(a, want).active, want.every)]
                 ELSE rotation
  /\ resolved' = [resolved EXCEPT ![a] =
       IF CachedAnswer(a, want) THEN @
       ELSE IF ViaGlobal(a, want) THEN NONE
       ELSE [key |-> want, answer |-> TableAnswer(transport, want), ttl |-> ResolvedTtl]]

-----------------------------------------------------------------------------
(* The two caches of agents.                                               *)

Closing(agents) == [i \in DOMAIN agent |-> IF i \in agents THEN "closed" ELSE agent[i]]
Cached(url) == \E i \in DOMAIN dispatcher : dispatcher[i].url = url
AgentOf(url) == dispatcher[CHOOSE i \in DOMAIN dispatcher : dispatcher[i].url = url].agent
Without(url) == Filtered(dispatcher, {d \in ToSet(dispatcher) : d.url # url})
Promoted(url) == Append(Without(url), [url |-> url, agent |-> AgentOf(url)])

\* Lru.set of a new agent: the one it replaces, or the oldest if the cache is
\* full, is disposed of, which closes it.
\* Mutant of LruDisposed: an agent that is replaced is not disposed of.
LruDisposedOnOverflow(url) ==
  IF Cached(url) THEN {}
  ELSE IF Len(dispatcher) >= CacheSize THEN {Head(dispatcher).agent} ELSE {}
LruDisposed(url) ==
  IF Cached(url) THEN {AgentOf(url)}
  ELSE IF Len(dispatcher) >= CacheSize THEN {Head(dispatcher).agent} ELSE {}
LruSet(url, new) ==
  Append(IF Cached(url) THEN Without(url)
         ELSE IF Len(dispatcher) >= CacheSize THEN Tail(dispatcher) ELSE dispatcher,
         [url |-> url, agent |-> new])

\* invalidateDispatcher and invalidateSocks for the URLs of some rows.
Invalidate(rows) ==
  LET http == {r.url : r \in {x \in rows : x.type = "proxy" /\ x.kind # "socks5"}}
      viaSocks == {r.url : r \in {x \in rows : x.type = "proxy" /\ x.kind = "socks5"}}
  IN  /\ dispatcher' = Filtered(dispatcher, {d \in ToSet(dispatcher) : d.url \notin http})
      /\ agent' = Closing({dispatcher[i].agent :
                           i \in {j \in DOMAIN dispatcher : dispatcher[j].url \in http}})
      /\ socks' = Filtered(socks, ToSet(socks) \ viaSocks)

\* getSocksDispatcher: first in, first out; an agent is not closed.
SocksSet(url) ==
  IF url \in ToSet(socks) THEN socks
  ELSE Append(IF Len(socks) >= CacheSize THEN Tail(socks) ELSE socks, url)

-----------------------------------------------------------------------------
(* Calls.                                                                  *)

\* A handler has selected an account: its row is read here and used later.
TakeAccount(c) ==
  /\ tcall[c].pc = "idle"
  /\ \E a \in TransportAccount :
       tcall' = [tcall EXCEPT ![c] =
         [Idle EXCEPT !.pc = "selected", !.acct = a, !.want = assigned[a]]]
  /\ UNCHANGED <<transport, assigned, global, resolved, rotation, dispatcher, socks, agent, edits>>

Done(call, out) == [call EXCEPT !.pc = "done", !.out = out, !.agent = 0]

\* The legs with which the calls of an account may begin.
FirstLegs(a) == {"upstream"} \cup (IF a \in KiroAccount THEN {"refresh", "profile"} ELSE {})

\* proxyAwareFetch up to its first await: the relay replaces the target; the
\* proxy is the configuration's or else the environment's.
Enter(c, leg, cfg, mode) ==
  LET proxy == IF cfg.proxy # NONE THEN cfg.proxy ELSE EnvProxy
      started == [tcall[c] EXCEPT !.acct = NONE, !.want = NONE, !.leg = leg, !.mode = mode, !.out = NONE,
                               !.cfg = [relay |-> cfg.relay, proxy |-> proxy, kind |-> cfg.kind]]
  IN  /\ tcall' = [tcall EXCEPT ![c] =
           IF cfg.relay # NONE THEN Done(started, "relay")
           ELSE IF proxy = NONE THEN Done(started, "direct")
           ELSE IF cfg.kind = "socks5"
             THEN [started EXCEPT !.pc = IF proxy \in ToSet(socks) THEN "holding" ELSE "importing"]
           ELSE IF Cached(proxy)
             THEN [started EXCEPT !.pc = "holding", !.agent = AgentOf(proxy)]
           ELSE [started EXCEPT !.pc = "importing"]]
      /\ dispatcher' = IF cfg.relay = NONE /\ cfg.kind # "socks5" /\ Cached(proxy)
                       THEN Promoted(proxy) ELSE dispatcher

\* The handler's call: resolution, failure mode and fetch in one go.
Send(c) ==
  /\ tcall[c].pc = "selected"
  /\ Resolve(tcall[c].acct, tcall[c].want)
  /\ \E leg \in FirstLegs(tcall[c].acct) :
       Enter(c, leg, Config(tcall[c].acct, tcall[c].want), global.mode)
  /\ UNCHANGED <<transport, assigned, global, socks, agent, edits>>

\* The next leg: a refresh may lead to a lookup of the profile, and both lead to
\* the call.  (A refresh that fails ends it all, as Finish does.)
NextLeg(c) ==
  LET call == tcall[c] IN
  /\ call.pc = "done" /\ call.leg \in {"refresh", "profile"}
  /\ \E leg \in {"profile", "upstream"} \ {call.leg} :
       Enter(c, leg, call.cfg, call.mode)
  /\ UNCHANGED <<transport, assigned, global, resolved, rotation, socks, agent, edits>>

\* What reads the account's row and calls at once, without a failure mode: GET
\* /v1/models, and the admin's test of a model, which may refresh a token too.
CallAtOnce(c) ==
  /\ tcall[c].pc = "idle"
  /\ \E a \in TransportAccount :
       /\ Resolve(a, assigned[a])
       /\ \E leg \in FirstLegs(a) : Enter(c, leg, Config(a, assigned[a]), "direct")
  /\ UNCHANGED <<transport, assigned, global, socks, agent, edits>>

\* What resolves nothing: the test of a transport, also of one just created
\* (geoip), and calls that are given none (the Kiro login, its usage).
Probe(c) ==
  /\ tcall[c].pc = "idle"
  /\ \/ Enter(c, "upstream", Direct, "direct")
     \/ \E id \in TransportId :
          /\ transport[id].type # "none"
          /\ Enter(c, "upstream",
                   IF transport[id].type = "relay" THEN Relay(transport[id].url)
                   ELSE RowProxy(transport, id), "direct")
  /\ UNCHANGED <<transport, assigned, global, resolved, rotation, socks, agent, edits>>

\* The import has come: an agent is made and set, whoever else has set one.
Imported(c) ==
  LET url == tcall[c].cfg.proxy IN
  /\ tcall[c].pc = "importing"
  /\ \/ /\ tcall[c].cfg.kind = "socks5"
        /\ socks' = SocksSet(url)
        /\ tcall' = [tcall EXCEPT ![c].pc = "holding"]
        /\ UNCHANGED <<dispatcher, agent>>
     \/ /\ tcall[c].cfg.kind # "socks5"
        /\ \E new \in {i \in DOMAIN agent : agent[i] = "unused"} :
             /\ \A i \in 1 .. new - 1 : agent[i] # "unused"
             /\ agent' = [Closing(LruDisposed(url)) EXCEPT ![new] = "open"]
             /\ dispatcher' = LruSet(url, new)
             /\ tcall' = [tcall EXCEPT ![c].pc = "holding", ![c].agent = new]
        /\ UNCHANGED socks
  /\ UNCHANGED <<transport, assigned, global, resolved, rotation, edits>>

\* proxyOpts: the failure mode that the fetch is given, if any.
FailureMode(call) == IF call.leg = "upstream" THEN call.mode ELSE "direct"

\* Mutant of AfterFailure: the mode is forgotten for a failure of the agent.
AfterFailureDirect(c) == "direct"
AfterFailure(c) == IF FailureMode(tcall[c]) = "block" THEN "blocked" ELSE "direct"

\* The call through the proxy: it fails if its agent has been closed since,
\* and may fail for reasons of its own.
ThroughProxy(c) ==
  /\ tcall[c].pc = "holding"
  /\ \E out \in {"proxy", AfterFailure(c)} :
       /\ (tcall[c].agent > 0 /\ agent[tcall[c].agent] = "closed") => out # "proxy"
       /\ tcall' = [tcall EXCEPT ![c] = Done(@, out)]
  /\ UNCHANGED <<transport, assigned, global, resolved, rotation, dispatcher, socks, agent, edits>>

\* The caller has its response or its error.
Finish(c) ==
  /\ tcall[c].pc = "done"
  /\ tcall' = [tcall EXCEPT ![c] = Idle]
  /\ UNCHANGED <<transport, assigned, global, resolved, rotation, dispatcher, socks, agent, edits>>

-----------------------------------------------------------------------------
(* The admin, and the clock.                                               *)

Edit == edits < MaxEdits /\ edits' = edits + 1
Forget == resolved' = [a \in TransportAccount |-> NONE]

CreateTransport(id) ==
  /\ Edit
  /\ transport[id] = Absent /\ InitialTransports[id] = Absent
  /\ \E r \in RowChoices : transport' = [transport EXCEPT ![id] = r]
  /\ Forget
  /\ UNCHANGED <<assigned, global, rotation, dispatcher, socks, agent, tcall>>

\* Mutant of UpdateForgets: only a new URL or kind drops the resolutions.
UpdateForgetsUrl(p) ==
  IF {"url", "kind"} \cap DOMAIN p # {} THEN Forget ELSE UNCHANGED resolved
UpdateForgets(p) == Forget

\* PATCH: agents are dropped only when URL and kind come together, and then
\* those of the new URL, not of the old.
UpdateTransport(id) ==
  /\ Edit
  /\ transport[id].type # "none"
  /\ \E p \in Patches :
       /\ "kind" \in DOMAIN p => (p.kind \in {"http", "socks5"} <=> transport[id].type = "proxy")
       /\ transport' = [transport EXCEPT ![id] =
            [f \in DOMAIN @ |-> IF f \in DOMAIN p THEN p[f] ELSE @[f]]]
       /\ IF {"url", "kind"} \subseteq DOMAIN p
          THEN Invalidate({[type |-> "proxy", kind |-> p.kind, url |-> p.url]})
          ELSE UNCHANGED <<dispatcher, socks, agent>>
       /\ UpdateForgets(p)
  /\ UNCHANGED <<assigned, global, rotation, tcall>>

\* DELETE of one id, or of many: the agents of each proxy that existed.
DeleteTransports(ids) ==
  /\ Edit
  /\ \E id \in ids : transport[id] # Absent
  /\ Invalidate({transport[id] : id \in ids})
  /\ transport' = [id \in TransportId |-> IF id \in ids THEN Absent ELSE transport[id]]
  /\ Forget
  /\ UNCHANGED <<assigned, global, rotation, tcall>>

\* PATCH of an account's transport columns: the key of its entry changes.
Assign(a) ==
  /\ Edit
  /\ \E want \in Assignments : want # assigned[a] /\ assigned' = [assigned EXCEPT ![a] = want]
  /\ UNCHANGED <<transport, global, resolved, rotation, dispatcher, socks, agent, tcall>>

SetGlobal ==
  /\ Edit
  /\ \E g \in Globals : g # global /\ global' = g
  /\ UNCHANGED <<transport, assigned, resolved, rotation, dispatcher, socks, agent, tcall>>

TransportTick ==
  /\ \E a \in TransportAccount : resolved[a] # NONE
  /\ resolved' = [a \in TransportAccount |->
       IF resolved[a] = NONE \/ resolved[a].ttl = 1 THEN NONE
       ELSE [resolved[a] EXCEPT !.ttl = @ - 1]]
  /\ UNCHANGED <<transport, assigned, global, rotation, dispatcher, socks, agent, tcall, edits>>

TransportNext ==
  \/ \E c \in TransportCall :
       \/ TakeAccount(c) \/ Send(c) \/ NextLeg(c) \/ CallAtOnce(c) \/ Probe(c)
       \/ Imported(c) \/ ThroughProxy(c) \/ Finish(c)
  \/ \E id \in TransportId : CreateTransport(id) \/ UpdateTransport(id)
  \/ \E ids \in SUBSET TransportId : DeleteTransports(ids)
  \/ \E a \in TransportAccount : Assign(a)
  \/ SetGlobal
  \/ TransportTick

TransportSpec == TransportInit /\ [][TransportNext]_transportVars

-----------------------------------------------------------------------------
TransportTypeOK ==
  /\ \A id \in TransportId : transport[id].type \in {"none", "proxy", "relay"}
  /\ assigned \in [TransportAccount -> Assignments]
  /\ global \in Globals
  /\ \A a \in TransportAccount :
       resolved[a] = NONE \/ /\ resolved[a].answer.kind = "pool" => resolved[a].answer.active # <<>>
                             /\ resolved[a].ttl \in 1 .. ResolvedTtl
  /\ rotation \in [TransportAccount -> [cursor : Nat, count : Nat]]
  /\ Len(dispatcher) <= CacheSize /\ Len(socks) <= CacheSize
  /\ agent \in [1 .. MaxAgents -> {"unused", "open", "closed"}]
  /\ \A c \in TransportCall :
       /\ tcall[c].pc \in {"idle", "selected", "importing", "holding", "done"}
       /\ tcall[c].leg \in Legs \cup {NONE}

\* A cached resolution is what the transports table says now for the
\* assignment it was made for: every edit of the table, in whatever order with
\* resolutions under way, is in force from the next call on
\* (repos/transports.ts drops the cache, resolve.ts:123-143 fills it).
ResolutionsCurrent ==
  \A a \in TransportAccount :
    resolved[a] # NONE => resolved[a].answer = TableAnswer(transport, resolved[a].key)

\* No dispatcher is left open outside the cache, where nobody would ever close
\* it: two calls that both miss make two, and the one that is replaced,
\* evicted or invalidated is closed (dispatcher-cache.ts, lru.ts).
NoDispatcherLeaks ==
  \A i \in DOMAIN agent :
    agent[i] = "open" <=> \E j \in DOMAIN dispatcher : dispatcher[j].agent = i

\* A handler's call of its upstream, made while failures are to be blocked and
\* given a proxy, never reaches it directly, not even when its dispatcher was
\* closed under it by another call, or when the legs before it have gone out
\* directly for the same reason (proxy-fetch.ts:120-128).  Those legs, and what
\* CallAtOnce makes for a client, do go out directly then, in block mode too:
\* they are given no mode (token-refresh.ts:50-81, profile.ts:45-65).
BlockedNeverDirect ==
  \A c \in TransportCall : LET call == tcall[c] IN
    call.leg = "upstream" /\ call.out = "direct" /\ call.mode = "block" => call.cfg.proxy = NONE
=============================================================================
