---------------------------- MODULE UpstreamProofs ----------------------------
(***************************************************************************)
(* What lies between an account and its upstream: Transport for any number *)
(* of calls, accounts, transports and agents, KiroToken for any number of  *)
(* calls, tokens and edits, QuotaPuller for any number of ticks, accounts  *)
(* and rows, the types of all of them and of KiroLogin, and the ladder of  *)
(* AccountLadder for any answers, costs and rungs up to eight.             *)
(*                                                                         *)
(* Transports: the cache of resolutions is never behind the table, and a   *)
(* handler's call of its upstream that failure is to block never goes out  *)
(* directly.  Neither needs the caches of agents: an agent that is closed  *)
(* under a call makes it fail, and what a failure leads to was settled     *)
(* when the leg was begun, whatever became of the legs before it           *)
(* (Decided).  An entry is only ever made from the table as it is, and     *)
(* every edit of the table empties the cache (Entries).  That no agent is  *)
(* left open and unreachable does need them (AgentsInv): the open agents   *)
(* are those of the cache, which holds no URL and no agent twice.          *)
(*                                                                         *)
(* Credentials: StoredTokenAccepted says nothing while an answer is on its *)
(* way.  What makes it inductive (Rotation) is why such an answer may be   *)
(* stored whenever it comes: a new token is known to nobody but the call   *)
(* that was given it, so that nobody can have used it up, and while the    *)
(* stored token is refused, a call that holds a new one is going to store  *)
(* it.                                                                     *)
(*                                                                         *)
(* Snapshots: pruning compares two formats of a time, whose order agrees   *)
(* with that of the times up to a day (DayOrder); the rest is what a       *)
(* filter keeps of the rows, however many ticks have written them.         *)
(*                                                                         *)
(* The ladder: a verdict either has no level or is the next rung from the  *)
(* level it was given (AnyVerdict), so that the level counts the rungs     *)
(* climbed since the last success.                                         *)
(***************************************************************************)
EXTENDS MCUpstream, AccountLadder, SequenceLemmas, TLAPS

-----------------------------------------------------------------------------
(* The transports.                                                         *)

CallFields == {"pc", "acct", "want", "leg", "cfg", "mode", "agent", "out"}
EntryFields == {"key", "answer", "ttl"}

CallsShaped ==
  /\ DOMAIN tcall = TransportCall
  /\ \A c \in TransportCall : DOMAIN tcall[c] = CallFields

\* Only a leg that is done has gone out, and one that was given the mode and
\* was to be blocked went out directly for want of a proxy.
Decided(call) ==
  /\ call.out = "direct" => call.pc = "done"
  /\ call.leg = "upstream" /\ call.out = "direct" /\ call.mode = "block" => call.cfg.proxy = NONE

CallsInv == CallsShaped /\ \A c \in TransportCall : Decided(tcall[c])

Entry(e) ==
  e # NONE => DOMAIN e = EntryFields /\ e.answer = TableAnswer(transport, e.key)
Entries ==
  /\ DOMAIN resolved = TransportAccount
  /\ \A a \in TransportAccount : Entry(resolved[a])

-----------------------------------------------------------------------------
(* The calls.                                                              *)

LEMMA IdleDecided == DOMAIN Idle = CallFields /\ Decided(Idle)
BY TransportAssumption DEF Idle, CallFields, Decided

LEMMA CallsInitially == TransportInit => CallsInv
BY IdleDecided DEF TransportInit, CallsInv, CallsShaped

\* One call is replaced by another.
LEMMA CallStep ==
  ASSUME CallsInv, NEW c \in TransportCall, NEW call,
         tcall' = [tcall EXCEPT ![c] = call], DOMAIN call = CallFields, Decided(call)
  PROVE  CallsInv'
<1>1. DOMAIN tcall' = TransportCall
  BY DEF CallsInv, CallsShaped
<1>2. \A k \in TransportCall : tcall'[k] = call \/ tcall'[k] = tcall[k]
  BY DEF CallsInv, CallsShaped
<1> QED
  BY <1>1, <1>2 DEF CallsInv, CallsShaped, Decided

LEMMA EnterStep ==
  ASSUME CallsInv, NEW c \in TransportCall, NEW leg, NEW cfg, NEW mode, Enter(c, leg, cfg, mode)
  PROVE  CallsInv'
<1> DEFINE proxy == IF cfg.proxy # NONE THEN cfg.proxy ELSE EnvProxy
           config == [relay |-> cfg.relay, proxy |-> proxy, kind |-> cfg.kind]
           started == [tcall[c] EXCEPT !.acct = NONE, !.want = NONE, !.leg = leg, !.mode = mode,
                                       !.out = NONE, !.cfg = config]
<1>1. DOMAIN tcall = TransportCall /\ DOMAIN tcall[c] = CallFields /\ NONE # "direct"
  BY TransportAssumption DEF CallsInv, CallsShaped
<1>2. /\ DOMAIN started = CallFields /\ started.out # "direct" /\ started.cfg = config
  BY <1>1 DEF CallFields
<1>3. config.proxy = proxy
  OBVIOUS
<1>4. PICK new :
        /\ tcall' = [tcall EXCEPT ![c] = new]
        /\ \/ new = Done(started, "relay")
           \/ new = Done(started, "direct") /\ proxy = NONE
           \/ \E pc \in {"holding", "importing"} : new = [started EXCEPT !.pc = pc]
           \/ \E n : new = [started EXCEPT !.pc = "holding", !.agent = n]
  BY DEF Enter
<1> HIDE DEF started, config, proxy
<1>5. DOMAIN new = CallFields /\ Decided(new)
  <2>1. CASE new = Done(started, "relay")
    BY <1>2, <2>1 DEF Done, Decided, CallFields
  <2>2. CASE new = Done(started, "direct") /\ proxy = NONE
    BY <1>2, <1>3, <2>2 DEF Done, Decided, CallFields
  <2>3. ASSUME NEW pc \in {"holding", "importing"}, new = [started EXCEPT !.pc = pc]
        PROVE  DOMAIN new = CallFields /\ Decided(new)
    BY <1>2, <2>3 DEF Decided, CallFields
  <2>4. ASSUME NEW n, new = [started EXCEPT !.pc = "holding", !.agent = n]
        PROVE  DOMAIN new = CallFields /\ Decided(new)
    BY <1>2, <2>4 DEF Decided, CallFields
  <2> QED
    BY <1>4, <2>1, <2>2, <2>3, <2>4
<1> QED
  BY <1>4, <1>5, CallStep

LEMMA CallsStep == CallsInv /\ [TransportNext]_transportVars => CallsInv'
<1> SUFFICES ASSUME CallsInv, [TransportNext]_transportVars PROVE CallsInv'
  OBVIOUS
<1> USE DEF CallsShaped
<1>a. ASSUME NEW c \in TransportCall
      PROVE  DOMAIN tcall = TransportCall /\ DOMAIN tcall[c] = CallFields /\ Decided(tcall[c])
  BY DEF CallsInv
<1>1. ASSUME NEW c \in TransportCall, TakeAccount(c) PROVE CallsInv'
  <2>1. PICK a \in TransportAccount :
          tcall' = [tcall EXCEPT ![c] =
            [Idle EXCEPT !.pc = "selected", !.acct = a, !.want = assigned[a]]]
    BY <1>1 DEF TakeAccount
  <2> DEFINE call == [Idle EXCEPT !.pc = "selected", !.acct = a, !.want = assigned[a]]
  <2>2. DOMAIN call = CallFields /\ Decided(call)
    BY TransportAssumption DEF Idle, CallFields, Decided
  <2> HIDE DEF call
  <2> QED
    BY <2>1, <2>2, CallStep DEF call
<1>2. ASSUME NEW c \in TransportCall, Send(c) \/ NextLeg(c) PROVE CallsInv'
  BY <1>2, EnterStep DEF Send, NextLeg
<1>3. ASSUME NEW c \in TransportCall, CallAtOnce(c) \/ Probe(c) PROVE CallsInv'
  BY <1>3, EnterStep DEF CallAtOnce, Probe
<1>4. ASSUME NEW c \in TransportCall, Imported(c) PROVE CallsInv'
  <2>1. tcall[c].pc = "importing" /\ tcall[c].out # "direct"
    BY <1>4, <1>a DEF Imported, Decided
  <2>2. CASE tcall' = [tcall EXCEPT ![c].pc = "holding"]
    <3> DEFINE call == [tcall[c] EXCEPT !.pc = "holding"]
    <3>1. DOMAIN call = CallFields /\ Decided(call)
      BY <1>a, <2>1 DEF Decided, CallFields
    <3>2. tcall' = [tcall EXCEPT ![c] = call]
      BY <1>a, <2>2
    <3> HIDE DEF call
    <3> QED
      BY <3>1, <3>2, CallStep
  <2>3. ASSUME NEW n, tcall' = [tcall EXCEPT ![c].pc = "holding", ![c].agent = n] PROVE CallsInv'
    <3> DEFINE call == [tcall[c] EXCEPT !.pc = "holding", !.agent = n]
    <3>1. DOMAIN call = CallFields /\ Decided(call)
      BY <1>a, <2>1 DEF Decided, CallFields
    <3>2. tcall' = [tcall EXCEPT ![c] = call]
      BY <1>a, <2>3
    <3> HIDE DEF call
    <3> QED
      BY <3>1, <3>2, CallStep
  <2> QED
    BY <1>4, <2>2, <2>3 DEF Imported
<1>5. ASSUME NEW c \in TransportCall, ThroughProxy(c) PROVE CallsInv'
  <2>1. PICK out \in {"proxy", AfterFailure(c)} : tcall' = [tcall EXCEPT ![c] = Done(tcall[c], out)]
    BY <1>5, <1>a DEF ThroughProxy
  <2>2. DOMAIN Done(tcall[c], out) = CallFields /\ Decided(Done(tcall[c], out))
    BY <1>a, <2>1 DEF Done, AfterFailure, FailureMode, Decided, CallFields
  <2> QED
    BY <2>1, <2>2, CallStep
<1>6. ASSUME NEW c \in TransportCall, Finish(c) PROVE CallsInv'
  BY <1>6, IdleDecided, CallStep DEF Finish
<1>7. CASE UNCHANGED tcall
  BY <1>7 DEF CallsInv
<1> QED
  BY <1>1, <1>2, <1>3, <1>4, <1>5, <1>6, <1>7
  DEF TransportNext, transportVars, CreateTransport, UpdateTransport, DeleteTransports, Assign,
      SetGlobal, TransportTick

-----------------------------------------------------------------------------
(* The cache of resolutions.                                               *)

LEMMA EntriesInitially == TransportInit => Entries
BY DEF TransportInit, Entries, Entry

\* An empty cache is current whatever the table says.
LEMMA Emptied == Forget => Entries'
BY DEF Forget, Entries, Entry

LEMMA Untouched == Entries /\ UNCHANGED <<transport, resolved>> => Entries'
BY DEF Entries, Entry

LEMMA ResolveStep ==
  ASSUME Entries, UNCHANGED transport, NEW a, NEW want, Resolve(a, want)
  PROVE  Entries'
<1> DEFINE entry == [key |-> want, answer |-> TableAnswer(transport, want), ttl |-> ResolvedTtl]
<1>1. Entry(entry)
  BY DEF Entry, EntryFields
<1>2. DOMAIN resolved' = TransportAccount
  BY DEF Resolve, Entries
<1>3. \A b \in TransportAccount : resolved'[b] \in {resolved[b], NONE, entry}
  BY DEF Resolve, Entries
<1> HIDE DEF entry
<1> QED
  BY <1>1, <1>2, <1>3 DEF Entries, Entry

LEMMA TickStep == Entries /\ TransportTick => Entries'
<1> SUFFICES ASSUME Entries, TransportTick PROVE Entries'
  OBVIOUS
<1>1. UNCHANGED transport /\ DOMAIN resolved' = TransportAccount
  BY DEF TransportTick
<1>2. ASSUME NEW a \in TransportAccount, resolved'[a] # NONE
      PROVE  /\ DOMAIN resolved'[a] = EntryFields
             /\ resolved'[a].answer = TableAnswer(transport, resolved'[a].key)
  <2>1. resolved[a] # NONE /\ resolved'[a] = [resolved[a] EXCEPT !.ttl = @ - 1]
    BY <1>2 DEF TransportTick
  <2>2. /\ DOMAIN resolved[a] = EntryFields
        /\ resolved[a].answer = TableAnswer(transport, resolved[a].key)
    BY <2>1 DEF Entries, Entry
  <2> QED
    BY <2>1, <2>2 DEF EntryFields
<1> QED
  BY <1>1, <1>2 DEF Entries, Entry

LEMMA EntriesStep == Entries /\ [TransportNext]_transportVars => Entries'
<1> SUFFICES ASSUME Entries, [TransportNext]_transportVars PROVE Entries'
  OBVIOUS
<1>1. ASSUME NEW c \in TransportCall, Send(c) PROVE Entries'
  BY <1>1, ResolveStep DEF Send
<1>2. ASSUME NEW c \in TransportCall,
             \/ TakeAccount(c) \/ NextLeg(c) \/ Probe(c)
             \/ Imported(c) \/ ThroughProxy(c) \/ Finish(c)
      PROVE  Entries'
  BY <1>2, Untouched DEF TakeAccount, NextLeg, Probe, Imported, ThroughProxy, Finish
<1>9. ASSUME NEW c \in TransportCall, CallAtOnce(c) PROVE Entries'
  BY <1>9, ResolveStep DEF CallAtOnce
<1>3. ASSUME NEW id \in TransportId, CreateTransport(id) \/ UpdateTransport(id) PROVE Entries'
  BY <1>3, Emptied DEF CreateTransport, UpdateTransport, UpdateForgets
<1>4. ASSUME NEW ids \in SUBSET TransportId, DeleteTransports(ids) PROVE Entries'
  BY <1>4, Emptied DEF DeleteTransports
<1>5. ASSUME NEW a \in TransportAccount, Assign(a) PROVE Entries'
  BY <1>5, Untouched DEF Assign
<1>6. CASE SetGlobal
  BY <1>6, Untouched DEF SetGlobal
<1>7. CASE TransportTick
  BY <1>7, TickStep
<1>8. CASE UNCHANGED transportVars
  BY <1>8, Untouched DEF transportVars
<1> QED
  BY <1>1, <1>2, <1>3, <1>4, <1>5, <1>6, <1>7, <1>8, <1>9 DEF TransportNext

-----------------------------------------------------------------------------
\* In failure mode "block" no handler's call of its upstream that was given a
\* proxy reaches it without (proxy-fetch.ts:120-128), even if others close its
\* dispatcher and its own earlier legs, which carry no mode, went out directly.
THEOREM BlockedStaysBlocked == TransportSpec => []BlockedNeverDirect
<1>1. CallsInv => BlockedNeverDirect
  BY DEF CallsInv, Decided, BlockedNeverDirect
<1> QED
  BY <1>1, CallsInitially, CallsStep, PTL DEF TransportSpec

\* A cached resolution is the table's, whatever edits come between resolutions
\* (repos/transports.ts drops the cache that resolve.ts:123-143 fills).
THEOREM ResolutionsNeverStale == TransportSpec => []ResolutionsCurrent
<1>1. Entries => ResolutionsCurrent
  BY DEF Entries, Entry, ResolutionsCurrent
<1> QED
  BY <1>1, EntriesInitially, EntriesStep, PTL DEF TransportSpec

-----------------------------------------------------------------------------
(* The agents.                                                             *)

\* The cache as a sequence: it holds a URL once, and an agent once.
Lru(d) ==
  /\ d \in Seq(ToSet(d))
  /\ \A i, j \in 1 .. Len(d) : d[i].url = d[j].url \/ d[i].agent = d[j].agent => i = j
Agents(d) == {d[i].agent : i \in 1 .. Len(d)}

LEMMA OwnElements == ASSUME NEW D, NEW d \in Seq(D) PROVE d \in Seq(ToSet(d))
<1>1. \A i \in 1 .. Len(d) : d[i] \in ToSet(d)
  BY DEF ToSet
<1> QED
  BY <1>1

LEMMA Filtering ==
  ASSUME NEW d, Lru(d), NEW S
  PROVE  /\ Lru(Filtered(d, S))
         /\ Agents(Filtered(d, S)) = {d[i].agent : i \in {j \in 1 .. Len(d) : d[j] \in S}}
         /\ \A i \in 1 .. Len(Filtered(d, S)) : Filtered(d, S)[i] \in S
<1> DEFINE e == Filtered(d, S)
<1>1. d \in Seq(ToSet(d)) /\ e \in Seq(ToSet(d))
  BY FilteredTyped DEF Lru
<1>2. PICK f : Picks(f, d, e, S)
  BY <1>1, FilteredPicks
<1>3. /\ \A i \in 1 .. Len(e) : e[i] \in S /\ \E k \in 1 .. Len(d) : d[k] = e[i]
      /\ \A k \in 1 .. Len(d) : d[k] \in S => \E i \in 1 .. Len(e) : e[i] = d[k]
  BY <1>1, FilteredMembers
<1> HIDE DEF e
<1>4. e \in Seq(ToSet(e)) /\ Len(e) \in Nat
  BY <1>1, OwnElements
<1>5. ASSUME NEW i \in 1 .. Len(e), NEW j \in 1 .. Len(e), e[i].url = e[j].url \/ e[i].agent = e[j].agent
      PROVE  i = j
  <2>1. /\ f[i] \in 1 .. Len(d) /\ f[j] \in 1 .. Len(d)
        /\ e[i] = d[f[i]] /\ e[j] = d[f[j]]
    BY <1>2 DEF Picks
  <2>2. f[i] = f[j]
    BY <1>5, <2>1 DEF Lru
  <2> QED
    BY <1>2, <1>4, <2>2, PicksOnce
<1>6. Agents(e) = {d[i].agent : i \in {j \in 1 .. Len(d) : d[j] \in S}}
  <2>1. ASSUME NEW i \in 1 .. Len(e) PROVE \E k \in 1 .. Len(d) : d[k] \in S /\ e[i].agent = d[k].agent
    <3>1. PICK k \in 1 .. Len(d) : d[k] = e[i]
      BY <1>3
    <3> QED
      BY <1>3, <3>1
  <2>2. ASSUME NEW k \in 1 .. Len(d), d[k] \in S PROVE \E i \in 1 .. Len(e) : e[i].agent = d[k].agent
    <3>1. PICK i \in 1 .. Len(e) : e[i] = d[k]
      BY <1>3, <2>2
    <3> QED
      BY <3>1
  <2> QED
    BY <2>1, <2>2 DEF Agents
<1>7. Lru(e)
  BY <1>4, <1>5 DEF Lru
<1> QED
  BY <1>3, <1>6, <1>7 DEF e

LEMMA Appending ==
  ASSUME NEW d, Lru(d), NEW url, NEW n, n \notin Agents(d),
         \A i \in 1 .. Len(d) : d[i].url # url
  PROVE  LET e == Append(d, [url |-> url, agent |-> n]) IN
         Lru(e) /\ Agents(e) = Agents(d) \cup {n} /\ Len(e) = Len(d) + 1
<1> DEFINE slot == [url |-> url, agent |-> n]
           e == Append(d, slot)
           D == ToSet(d) \cup {slot}
<1>1. d \in Seq(D) /\ slot \in D /\ Len(d) \in Nat
  BY SeqMonotonic DEF Lru
<1>2. slot.url = url /\ slot.agent = n
  OBVIOUS
<1> HIDE DEF slot, D
<1>3. /\ e \in Seq(D) /\ Len(e) = Len(d) + 1 /\ e[Len(d) + 1] = slot
      /\ \A i \in 1 .. Len(d) : e[i] = d[i]
  BY <1>1
<1> HIDE DEF e
<1>4. \A i \in 1 .. Len(e) : i \in 1 .. Len(d) \/ i = Len(d) + 1
  BY <1>1, <1>3
<1>5. ASSUME NEW i \in 1 .. Len(e), NEW j \in 1 .. Len(e), e[i].url = e[j].url \/ e[i].agent = e[j].agent
      PROVE  i = j
  <2>1. CASE i \in 1 .. Len(d) /\ j \in 1 .. Len(d)
    BY <1>3, <1>5, <2>1 DEF Lru
  <2>2. \A k \in 1 .. Len(d) : e[k].url # url /\ e[k].agent # n
    BY <1>3 DEF Agents
  <2> QED
    BY <1>2, <1>3, <1>4, <1>5, <2>1, <2>2
<1>6. Agents(e) = Agents(d) \cup {n}
  <2>1. \A i \in 1 .. Len(d) : i \in 1 .. Len(e) /\ e[i].agent = d[i].agent
    BY <1>1, <1>3
  <2>2. Len(d) + 1 \in 1 .. Len(e) /\ e[Len(d) + 1].agent = n
    BY <1>1, <1>2, <1>3
  <2> QED
    BY <1>4, <2>1, <2>2 DEF Agents
<1>7. Lru(e)
  BY <1>3, <1>5, OwnElements DEF Lru
<1> QED
  BY <1>3, <1>6, <1>7 DEF e, slot

LEMMA Evicting ==
  ASSUME NEW d, Lru(d), d # <<>>
  PROVE  /\ Lru(Tail(d)) /\ Len(Tail(d)) = Len(d) - 1
         /\ Agents(Tail(d)) = Agents(d) \ {Head(d).agent} /\ Head(d).agent \in Agents(d)
         /\ \A i \in 1 .. Len(Tail(d)) : \E j \in 1 .. Len(d) : Tail(d)[i] = d[j]
<1> DEFINE e == Tail(d)
<1>1. /\ e \in Seq(ToSet(d)) /\ Len(e) = Len(d) - 1 /\ Len(d) \in Nat \ {0} /\ Head(d) = d[1]
      /\ \A i \in 1 .. Len(e) : e[i] = d[i + 1]
  BY DEF Lru
<1> HIDE DEF e
<1>2. e \in Seq(ToSet(e))
  BY <1>1, OwnElements
<1>3. \A i \in 1 .. Len(e) : i + 1 \in 1 .. Len(d)
  BY <1>1
<1>4. Lru(e)
  <2>1. ASSUME NEW i \in 1 .. Len(e), NEW j \in 1 .. Len(e), e[i].url = e[j].url \/ e[i].agent = e[j].agent
        PROVE  i = j
    <3>1. /\ i + 1 \in 1 .. Len(d) /\ j + 1 \in 1 .. Len(d)
          /\ e[i] = d[i + 1] /\ e[j] = d[j + 1]
      BY <1>1, <1>3
    <3>2. i + 1 = j + 1
      BY <2>1, <3>1 DEF Lru
    <3> QED
      BY <3>2
  <2> QED
    BY <1>2, <2>1 DEF Lru
<1>5. \A j \in 1 .. Len(d) : j # 1 => j - 1 \in 1 .. Len(e) /\ e[j - 1] = d[j]
  BY <1>1
<1>6. 1 \in 1 .. Len(d)
  BY <1>1
<1>7. Agents(e) = Agents(d) \ {d[1].agent}
  <2>1. \A i \in 1 .. Len(e) : e[i].agent \in Agents(d) /\ e[i].agent # d[1].agent
    <3> SUFFICES ASSUME NEW i \in 1 .. Len(e) PROVE e[i].agent \in Agents(d) /\ e[i].agent # d[1].agent
      OBVIOUS
    <3>1. i + 1 # 1 /\ i + 1 \in 1 .. Len(d) /\ e[i] = d[i + 1]
      BY <1>1, <1>3
    <3> HIDE DEF Lru
    <3>2. d[i + 1].agent # d[1].agent
      BY <1>6, <3>1 DEF Lru
    <3> QED
      BY <3>1, <3>2 DEF Agents
  <2>2. \A j \in 1 .. Len(d) : d[j].agent # d[1].agent => d[j].agent \in Agents(e)
    BY <1>5 DEF Agents
  <2> QED
    BY <2>1, <2>2 DEF Agents
<1> QED
  BY <1>1, <1>3, <1>4, <1>6, <1>7 DEF e, Agents

\* What the two caches of agents hold, and which agents are open.
AgentsInv ==
  /\ Lru(dispatcher) /\ Len(dispatcher) <= CacheSize
  /\ agent \in [1 .. MaxAgents -> {"unused", "open", "closed"}]
  /\ Agents(dispatcher) \subseteq 1 .. MaxAgents
  /\ \A i \in 1 .. MaxAgents : agent[i] = "open" <=> i \in Agents(dispatcher)
  /\ socks \in Seq(ToSet(socks)) /\ Len(socks) <= CacheSize

LEMMA AgentsInitially == TransportInit => AgentsInv
<1> SUFFICES ASSUME TransportInit PROVE AgentsInv
  OBVIOUS
<1>1. dispatcher = <<>> /\ socks = <<>> /\ agent = [i \in 1 .. MaxAgents |-> "unused"]
  BY DEF TransportInit
<1>2. Lru(<<>>) /\ Agents(<<>>) = {}
  BY DEF Lru, Agents
<1>3. \A i \in 1 .. MaxAgents : agent[i] = "unused"
  BY <1>1
<1> QED
  BY <1>1, <1>2, <1>3, TransportAssumption DEF AgentsInv

\* A URL that is taken out takes its agent along, and no other.
LEMMA TakenOut ==
  ASSUME Lru(dispatcher), NEW url, Cached(url)
  PROVE  /\ Lru(Without(url)) /\ Len(Without(url)) < Len(dispatcher)
         /\ AgentOf(url) \in Agents(dispatcher)
         /\ Agents(Without(url)) = Agents(dispatcher) \ {AgentOf(url)}
         /\ \A i \in 1 .. Len(Without(url)) : Without(url)[i].url # url
<1> DEFINE S == {d \in ToSet(dispatcher) : d.url # url}
           k == CHOOSE i \in DOMAIN dispatcher : dispatcher[i].url = url
<1>1. DOMAIN dispatcher = 1 .. Len(dispatcher) /\ dispatcher \in Seq(ToSet(dispatcher))
  BY DEF Lru
<1>2. k \in 1 .. Len(dispatcher) /\ dispatcher[k].url = url
  BY <1>1 DEF Cached
<1>3. AgentOf(url) = dispatcher[k].agent
  BY DEF AgentOf
<1>4. Without(url) = Filtered(dispatcher, S)
  BY DEF Without
<1> HIDE DEF k
<1>5. \A i \in 1 .. Len(dispatcher) : dispatcher[i] \in S <=> dispatcher[i].url # url
  BY <1>1 DEF ToSet
<1>6. \A d \in S : d.url # url
  OBVIOUS
<1> HIDE DEF S
<1>7. /\ Lru(Without(url))
      /\ Agents(Without(url)) = {dispatcher[i].agent : i \in {j \in 1 .. Len(dispatcher) : dispatcher[j] \in S}}
      /\ \A i \in 1 .. Len(Without(url)) : Without(url)[i] \in S
  BY <1>4, Filtering
<1>8. Len(Without(url)) < Len(dispatcher)
  BY <1>1, <1>2, <1>4, <1>5, FilteredShorter
<1>9. \A j \in 1 .. Len(dispatcher) : dispatcher[j].agent = dispatcher[k].agent <=> dispatcher[j].url = url
  BY <1>2 DEF Lru
<1>10. Agents(Without(url)) = Agents(dispatcher) \ {dispatcher[k].agent}
  BY <1>5, <1>7, <1>9 DEF Agents
<1> QED
  BY <1>2, <1>3, <1>6, <1>7, <1>8, <1>10 DEF Agents

LEMMA Promoting ==
  ASSUME Lru(dispatcher), NEW url, Cached(url)
  PROVE  /\ Lru(Promoted(url)) /\ Len(Promoted(url)) <= Len(dispatcher)
         /\ Agents(Promoted(url)) = Agents(dispatcher)
<1>1. /\ Lru(Without(url)) /\ Len(Without(url)) < Len(dispatcher)
      /\ AgentOf(url) \in Agents(dispatcher)
      /\ Agents(Without(url)) = Agents(dispatcher) \ {AgentOf(url)}
      /\ \A i \in 1 .. Len(Without(url)) : Without(url)[i].url # url
  BY TakenOut
<1>2. /\ Lru(Promoted(url)) /\ Len(Promoted(url)) = Len(Without(url)) + 1
      /\ Agents(Promoted(url)) = Agents(Without(url)) \cup {AgentOf(url)}
  BY <1>1, Appending DEF Promoted
<1>3. Len(Without(url)) \in Nat /\ Len(dispatcher) \in Nat
  BY <1>1 DEF Lru
<1> QED
  BY <1>1, <1>2, <1>3

\* The agent that makes room is the one that is disposed of.
LEMMA Setting ==
  ASSUME Lru(dispatcher), Len(dispatcher) <= CacheSize, NEW url, NEW new, new \notin Agents(dispatcher)
  PROVE  /\ Lru(LruSet(url, new)) /\ Len(LruSet(url, new)) <= CacheSize
         /\ Agents(LruSet(url, new)) = (Agents(dispatcher) \ LruDisposed(url)) \cup {new}
         /\ LruDisposed(url) \subseteq Agents(dispatcher)
<1> DEFINE room == IF Cached(url) THEN Without(url)
                   ELSE IF Len(dispatcher) >= CacheSize THEN Tail(dispatcher) ELSE dispatcher
<1>0. Len(dispatcher) \in Nat /\ DOMAIN dispatcher = 1 .. Len(dispatcher) /\ CacheSize \in Nat \ {0}
  BY TransportAssumption DEF Lru
<1>1. /\ Lru(room) /\ Len(room) < CacheSize
      /\ Agents(room) = Agents(dispatcher) \ LruDisposed(url) /\ LruDisposed(url) \subseteq Agents(dispatcher)
      /\ \A i \in 1 .. Len(room) : room[i].url # url
  <2>1. CASE Cached(url)
    <3>1. /\ Lru(Without(url)) /\ Len(Without(url)) < Len(dispatcher)
          /\ AgentOf(url) \in Agents(dispatcher)
          /\ Agents(Without(url)) = Agents(dispatcher) \ {AgentOf(url)}
          /\ \A i \in 1 .. Len(Without(url)) : Without(url)[i].url # url
      BY <2>1, TakenOut
    <3>2. Len(Without(url)) \in Nat
      BY <3>1 DEF Lru
    <3>3. LruDisposed(url) = {AgentOf(url)} /\ room = Without(url)
      BY <2>1 DEF LruDisposed
    <3> HIDE DEF room
    <3> QED
      BY <1>0, <3>1, <3>2, <3>3
  <2>2. CASE ~Cached(url) /\ Len(dispatcher) >= CacheSize
    <3>1. dispatcher # <<>>
      BY <1>0, <2>2
    <3>2. /\ Lru(Tail(dispatcher)) /\ Len(Tail(dispatcher)) = Len(dispatcher) - 1
          /\ Agents(Tail(dispatcher)) = Agents(dispatcher) \ {Head(dispatcher).agent}
          /\ Head(dispatcher).agent \in Agents(dispatcher)
          /\ \A i \in 1 .. Len(Tail(dispatcher)) :
               \E j \in 1 .. Len(dispatcher) : Tail(dispatcher)[i] = dispatcher[j]
      BY <3>1, Evicting
    <3>3. \A j \in 1 .. Len(dispatcher) : dispatcher[j].url # url
      BY <1>0, <2>2 DEF Cached
    <3>4. LruDisposed(url) = {Head(dispatcher).agent} /\ room = Tail(dispatcher)
      BY <2>2 DEF LruDisposed
    <3> HIDE DEF room
    <3> QED
      BY <1>0, <3>2, <3>3, <3>4
  <2>3. CASE ~Cached(url) /\ ~(Len(dispatcher) >= CacheSize)
    <3>1. \A j \in 1 .. Len(dispatcher) : dispatcher[j].url # url
      BY <1>0, <2>3 DEF Cached
    <3>2. LruDisposed(url) = {} /\ room = dispatcher
      BY <2>3 DEF LruDisposed
    <3> HIDE DEF room
    <3> QED
      BY <1>0, <2>3, <3>1, <3>2
  <2> QED
    BY <2>1, <2>2, <2>3
<1>2. LruSet(url, new) = Append(room, [url |-> url, agent |-> new])
  BY DEF LruSet
<1> HIDE DEF room
<1>3. /\ Lru(LruSet(url, new)) /\ Len(LruSet(url, new)) = Len(room) + 1
      /\ Agents(LruSet(url, new)) = Agents(room) \cup {new}
  BY <1>1, <1>2, Appending
<1>4. Len(room) \in Nat
  BY <1>1 DEF Lru
<1> QED
  BY <1>0, <1>1, <1>3, <1>4

LEMMA AgentsKept ==
  ASSUME AgentsInv, UNCHANGED <<dispatcher, agent, socks>> PROVE AgentsInv'
BY DEF AgentsInv, Lru, Agents

\* An entry that is found becomes the newest.
LEMMA EnterAgents ==
  ASSUME AgentsInv, NEW c, NEW leg, NEW cfg, NEW mode, Enter(c, leg, cfg, mode),
         UNCHANGED <<agent, socks>>
  PROVE  AgentsInv'
<1>1. CASE dispatcher' = dispatcher
  BY <1>1, AgentsKept
<1>2. CASE dispatcher' # dispatcher
  <2>1. PICK url : Cached(url) /\ dispatcher' = Promoted(url)
    BY <1>2 DEF Enter
  <2>2. /\ Lru(Promoted(url)) /\ Len(Promoted(url)) <= Len(dispatcher)
        /\ Agents(Promoted(url)) = Agents(dispatcher)
    BY <2>1, Promoting DEF AgentsInv
  <2>3. Lru(dispatcher') /\ Agents(dispatcher') = Agents(dispatcher)
    BY <2>1, <2>2
  <2>4. Len(dispatcher') \in Nat /\ Len(dispatcher) \in Nat
    BY <2>3 DEF AgentsInv, Lru
  <2>5. Len(dispatcher') <= CacheSize /\ CacheSize \in Nat
    BY <2>1, <2>2, <2>4, TransportAssumption DEF AgentsInv
  <2> QED
    BY <2>3, <2>5 DEF AgentsInv
<1> QED
  BY <1>1, <1>2

LEMMA SocksKept ==
  ASSUME AgentsInv, NEW url
  PROVE  SocksSet(url) \in Seq(ToSet(SocksSet(url))) /\ Len(SocksSet(url)) <= CacheSize
<1> DEFINE D == ToSet(socks) \cup {url}
<1>1. /\ socks \in Seq(D) /\ Len(socks) <= CacheSize /\ Len(socks) \in Nat
      /\ url \in D /\ CacheSize \in Nat \ {0}
  BY TransportAssumption, SeqMonotonic DEF AgentsInv
<1> HIDE DEF D
<1>2. CASE url \in ToSet(socks)
  BY <1>2 DEF SocksSet, AgentsInv
<1>3. CASE url \notin ToSet(socks)
  <2> DEFINE room == IF Len(socks) >= CacheSize THEN Tail(socks) ELSE socks
  <2>1. Len(socks) >= CacheSize => socks # <<>>
    BY <1>1
  <2>2. room \in Seq(D) /\ Len(room) < CacheSize
    BY <1>1, <2>1
  <2>3. SocksSet(url) = Append(room, url)
    BY <1>3 DEF SocksSet
  <2> HIDE DEF room
  <2>4. SocksSet(url) \in Seq(D) /\ Len(SocksSet(url)) = Len(room) + 1 /\ Len(room) \in Nat
    BY <1>1, <2>2, <2>3
  <2> QED
    BY <1>1, <2>2, <2>4, OwnElements
<1> QED
  BY <1>2, <1>3

\* The agents of a URL leave the cache and are closed.
LEMMA InvalidateAgents ==
  ASSUME AgentsInv, NEW rows, Invalidate(rows)
  PROVE  AgentsInv'
<1> DEFINE http == {r.url : r \in {x \in rows : x.type = "proxy" /\ x.kind # "socks5"}}
           viaSocks == {r.url : r \in {x \in rows : x.type = "proxy" /\ x.kind = "socks5"}}
           S == {d \in ToSet(dispatcher) : d.url \notin http}
           closed == {dispatcher[i].agent : i \in {j \in DOMAIN dispatcher : dispatcher[j].url \in http}}
           keep == ToSet(socks) \ viaSocks
<1>1. /\ dispatcher' = Filtered(dispatcher, S) /\ agent' = Closing(closed)
      /\ socks' = Filtered(socks, keep)
  BY DEF Invalidate
<1>2. /\ DOMAIN dispatcher = 1 .. Len(dispatcher) /\ dispatcher \in Seq(ToSet(dispatcher))
      /\ socks \in Seq(ToSet(socks)) /\ CacheSize \in Nat /\ DOMAIN agent = 1 .. MaxAgents
  BY TransportAssumption DEF AgentsInv, Lru
<1>3. \A i \in 1 .. Len(dispatcher) : dispatcher[i] \in S <=> dispatcher[i].url \notin http
  BY <1>2 DEF ToSet
<1> HIDE DEF S
<1>4. closed = {dispatcher[i].agent : i \in {j \in 1 .. Len(dispatcher) : dispatcher[j] \notin S}}
  BY <1>2, <1>3
<1> HIDE DEF http, viaSocks, closed, keep
<1>5. /\ Lru(dispatcher')
      /\ Agents(dispatcher') = {dispatcher[i].agent : i \in {j \in 1 .. Len(dispatcher) : dispatcher[j] \in S}}
  BY <1>1, Filtering DEF AgentsInv
<1>6. Len(dispatcher') <= CacheSize
  <2>1. Len(dispatcher') <= Len(dispatcher)
    BY <1>1, <1>2, FilteredShorter
  <2>2. Len(dispatcher') \in Nat /\ Len(dispatcher) \in Nat
    BY <1>5 DEF AgentsInv, Lru
  <2> QED
    BY <1>2, <2>1, <2>2 DEF AgentsInv
<1>7. socks' \in Seq(ToSet(socks')) /\ Len(socks') <= CacheSize
  <2>1. socks' \in Seq(ToSet(socks)) /\ Len(socks') <= Len(socks)
    BY <1>1, <1>2, FilteredTyped, FilteredShorter
  <2>2. Len(socks') \in Nat /\ Len(socks) \in Nat
    BY <1>2, <2>1
  <2> QED
    BY <1>2, <2>1, <2>2, OwnElements DEF AgentsInv
<1>8. Agents(dispatcher') = Agents(dispatcher) \ closed /\ closed \subseteq Agents(dispatcher)
  <2>1. \A i, j \in 1 .. Len(dispatcher) : dispatcher[i].agent = dispatcher[j].agent => i = j
    BY DEF AgentsInv, Lru
  <2> QED
    BY <1>4, <1>5, <2>1 DEF Agents
<1>9. /\ agent' \in [1 .. MaxAgents -> {"unused", "open", "closed"}]
      /\ \A i \in 1 .. MaxAgents : agent'[i] = IF i \in closed THEN "closed" ELSE agent[i]
  BY <1>1, <1>2 DEF Closing, AgentsInv
<1> QED
  BY <1>5, <1>6, <1>7, <1>8, <1>9 DEF AgentsInv

LEMMA ImportedAgents == ASSUME AgentsInv, NEW c, Imported(c) PROVE AgentsInv'
<1> DEFINE url == tcall[c].cfg.proxy
<1>1. CASE socks' = SocksSet(url) /\ UNCHANGED <<dispatcher, agent>>
  BY <1>1, SocksKept DEF AgentsInv, Lru, Agents
<1>2. ASSUME NEW new \in DOMAIN agent, agent[new] = "unused",
             agent' = [Closing(LruDisposed(url)) EXCEPT ![new] = "open"],
             dispatcher' = LruSet(url, new), UNCHANGED socks
      PROVE  AgentsInv'
  <2>1. new \in 1 .. MaxAgents /\ DOMAIN agent = 1 .. MaxAgents
    BY DEF AgentsInv
  <2>2. new \notin Agents(dispatcher)
    BY <1>2, <2>1 DEF AgentsInv
  <2>3. /\ Lru(dispatcher') /\ Len(dispatcher') <= CacheSize
        /\ Agents(dispatcher') = (Agents(dispatcher) \ LruDisposed(url)) \cup {new}
        /\ LruDisposed(url) \subseteq Agents(dispatcher)
    BY <1>2, <2>2, Setting DEF AgentsInv
  <2>4. \A i \in 1 .. MaxAgents :
          agent'[i] = IF i = new THEN "open" ELSE IF i \in LruDisposed(url) THEN "closed" ELSE agent[i]
    BY <1>2, <2>1 DEF Closing
  <2>5. agent' \in [1 .. MaxAgents -> {"unused", "open", "closed"}]
    BY <1>2, <2>1 DEF Closing, AgentsInv
  <2> QED
    BY <1>2, <2>1, <2>2, <2>3, <2>4, <2>5 DEF AgentsInv
<1> QED
  BY <1>1, <1>2 DEF Imported

LEMMA AgentsStep == AgentsInv /\ [TransportNext]_transportVars => AgentsInv'
<1> SUFFICES ASSUME AgentsInv, [TransportNext]_transportVars PROVE AgentsInv'
  OBVIOUS
<1>1. ASSUME NEW c \in TransportCall, Send(c) \/ NextLeg(c) \/ CallAtOnce(c) \/ Probe(c)
      PROVE  AgentsInv'
  BY <1>1, EnterAgents DEF Send, NextLeg, CallAtOnce, Probe
<1>2. ASSUME NEW c \in TransportCall, Imported(c) PROVE AgentsInv'
  BY <1>2, ImportedAgents
<1>3. ASSUME NEW c \in TransportCall, TakeAccount(c) \/ ThroughProxy(c) \/ Finish(c) PROVE AgentsInv'
  BY <1>3, AgentsKept DEF TakeAccount, ThroughProxy, Finish
<1>4. ASSUME NEW id \in TransportId, CreateTransport(id) PROVE AgentsInv'
  BY <1>4, AgentsKept DEF CreateTransport
<1>5. ASSUME NEW id \in TransportId, UpdateTransport(id) PROVE AgentsInv'
  BY <1>5, AgentsKept, InvalidateAgents DEF UpdateTransport
<1>6. ASSUME NEW ids \in SUBSET TransportId, DeleteTransports(ids) PROVE AgentsInv'
  BY <1>6, InvalidateAgents DEF DeleteTransports
<1>7. CASE \/ \E a \in TransportAccount : Assign(a)
           \/ SetGlobal \/ TransportTick \/ UNCHANGED transportVars
  BY <1>7, AgentsKept DEF Assign, SetGlobal, TransportTick, transportVars
<1> QED
  BY <1>1, <1>2, <1>3, <1>4, <1>5, <1>6, <1>7 DEF TransportNext

\* A dispatcher is open exactly while it is in the cache, for any number of
\* calls that miss, evict and are invalidated (dispatcher-cache.ts, lru.ts).
THEOREM DispatchersAllClosed == TransportSpec => []NoDispatcherLeaks
<1>1. AgentsInv => NoDispatcherLeaks
  <2> SUFFICES ASSUME AgentsInv PROVE NoDispatcherLeaks
    OBVIOUS
  <2>1. DOMAIN agent = 1 .. MaxAgents /\ DOMAIN dispatcher = 1 .. Len(dispatcher)
    BY DEF AgentsInv, Lru
  <2> QED
    BY <2>1 DEF AgentsInv, Agents, NoDispatcherLeaks
<1> QED
  BY <1>1, AgentsInitially, AgentsStep, PTL DEF TransportSpec

-----------------------------------------------------------------------------
(* The types of the transports.                                            *)

CallTyped(call) ==
  /\ call.pc \in {"idle", "selected", "importing", "holding", "done"}
  /\ call.leg \in Legs \cup {NONE}
  /\ call.pc = "selected" => call.acct \in TransportAccount /\ call.want \in Assignments

RowTyped(row) == DOMAIN row = RowFields /\ row.type \in {"none", "proxy", "relay"}
TableTyped == DOMAIN transport = TransportId /\ \A id \in TransportId : RowTyped(transport[id])

Rotations == [cursor : Nat, count : Nat]

ResolvedTyped ==
  /\ assigned \in [TransportAccount -> Assignments] /\ global \in Globals
  /\ rotation \in [TransportAccount -> Rotations]
  /\ \A a \in TransportAccount :
       resolved[a] # NONE => resolved[a].key \in Assignments /\ resolved[a].ttl \in 1 .. ResolvedTtl

CallsTyped == \A c \in TransportCall : CallTyped(tcall[c])

LEMMA PoolHasMembers ==
  ASSUME NEW table, NEW want \in Assignments, TableAnswer(table, want).kind = "pool"
  PROVE  /\ TableAnswer(table, want).active # <<>>
         /\ Len(TableAnswer(table, want).active) \in Nat \ {0}
<1> DEFINE usable == Filtered(want.pool, {id \in ToSet(want.pool) : Usable(table, id, "proxy")})
           active == ActivePool(table, want.pool)
<1>1. TableAnswer(table, want).active = active /\ active # <<>>
  BY DEF TableAnswer
<1>2. usable \in Seq(TransportId)
  BY TransportAssumption, FilteredTyped
<1>3. active = [i \in DOMAIN usable |-> RowProxy(table, usable[i])]
  BY DEF ActivePool
<1> HIDE DEF usable, active
<1>4. Len(usable) \in Nat /\ DOMAIN usable = 1 .. Len(usable)
  BY <1>2
<1>5. active = [i \in 1 .. Len(usable) |-> RowProxy(table, usable[i])]
  BY <1>3, <1>4
<1>6. active \in Seq({RowProxy(table, usable[i]) : i \in 1 .. Len(usable)})
  BY <1>4, <1>5
<1> QED
  BY <1>1, <1>6, EmptySeq

\* Whatever the cache or the table answers, a pool has members.
LEMMA AnsweredPool ==
  ASSUME Entries, ResolvedTyped, NEW a \in TransportAccount, NEW want \in Assignments,
         Answer(a, want).kind = "pool"
  PROVE  Answer(a, want).active # <<>> /\ Len(Answer(a, want).active) \in Nat \ {0}
<1>1. PICK key \in Assignments : Answer(a, want) = TableAnswer(transport, key)
  BY DEF Answer, CachedAnswer, Entries, Entry, ResolvedTyped
<1> QED
  BY <1>1, PoolHasMembers

LEMMA TypesInitially == TransportInit => TableTyped /\ ResolvedTyped /\ CallsTyped
<1> SUFFICES ASSUME TransportInit PROVE TableTyped /\ ResolvedTyped /\ CallsTyped
  OBVIOUS
<1>1. TableTyped
  BY TransportAssumption DEF TransportInit, TableTyped, RowTyped
<1>2. ResolvedTyped
  BY DEF TransportInit, ResolvedTyped, Rotations
<1>3. CallsTyped
  BY TransportAssumption DEF TransportInit, CallsTyped, CallTyped, Idle
<1> QED
  BY <1>1, <1>2, <1>3

LEMMA TableStep == TableTyped /\ [TransportNext]_transportVars => TableTyped'
<1> SUFFICES ASSUME TableTyped, [TransportNext]_transportVars PROVE TableTyped'
  OBVIOUS
<1>0. RowTyped(Absent)
  BY DEF RowTyped, Absent, RowFields
<1>1. ASSUME NEW id \in TransportId, CreateTransport(id) PROVE TableTyped'
  <2>1. PICK r \in RowChoices : transport' = [transport EXCEPT ![id] = r]
    BY <1>1 DEF CreateTransport
  <2>2. RowTyped(r)
    BY TransportAssumption DEF RowTyped
  <2> QED
    BY <2>1, <2>2 DEF TableTyped
<1>2. ASSUME NEW id \in TransportId, UpdateTransport(id) PROVE TableTyped'
  <2> DEFINE row == transport[id]
  <2>1. PICK p \in Patches :
          transport' = [transport EXCEPT ![id] =
            [f \in DOMAIN row |-> IF f \in DOMAIN p THEN p[f] ELSE row[f]]]
    BY <1>2 DEF UpdateTransport
  <2>2. DOMAIN p \subseteq RowFields \ {"type"}
    BY TransportAssumption
  <2>3. RowTyped(row)
    BY DEF TableTyped
  <2>4. RowTyped([f \in DOMAIN row |-> IF f \in DOMAIN p THEN p[f] ELSE row[f]])
    BY <2>2, <2>3 DEF RowTyped, RowFields
  <2> QED
    BY <2>1, <2>4 DEF TableTyped
<1>3. ASSUME NEW ids \in SUBSET TransportId, DeleteTransports(ids) PROVE TableTyped'
  BY <1>0, <1>3 DEF DeleteTransports, TableTyped
<1>4. CASE UNCHANGED transport
  BY <1>4 DEF TableTyped
<1> QED
  BY <1>1, <1>2, <1>3, <1>4
  DEF TransportNext, transportVars, TakeAccount, Send, NextLeg, CallAtOnce, Probe, Imported,
      ThroughProxy, Finish, Assign, SetGlobal, TransportTick

LEMMA CallTypes ==
  CallsShaped /\ CallsTyped /\ ResolvedTyped /\ [TransportNext]_transportVars => CallsTyped'
<1> SUFFICES ASSUME CallsShaped, CallsTyped, ResolvedTyped, [TransportNext]_transportVars
             PROVE  CallsTyped'
  OBVIOUS
<1>a. ASSUME NEW c \in TransportCall, NEW call, tcall' = [tcall EXCEPT ![c] = call], CallTyped(call)
      PROVE  CallsTyped'
  BY <1>a DEF CallsTyped, CallsShaped
<1>b. ASSUME NEW c \in TransportCall, NEW leg \in Legs, NEW cfg, NEW mode, Enter(c, leg, cfg, mode)
      PROVE  CallsTyped'
  <2> DEFINE proxy == IF cfg.proxy # NONE THEN cfg.proxy ELSE EnvProxy
             config == [relay |-> cfg.relay, proxy |-> proxy, kind |-> cfg.kind]
             started == [tcall[c] EXCEPT !.acct = NONE, !.want = NONE, !.leg = leg,
                                         !.mode = mode, !.out = NONE, !.cfg = config]
  <2>1. DOMAIN started = CallFields /\ started.leg = leg
    BY DEF CallsShaped, CallFields
  <2>2. PICK new :
          /\ tcall' = [tcall EXCEPT ![c] = new]
          /\ \/ \E out : new = Done(started, out)
             \/ \E pc \in {"holding", "importing"} : new = [started EXCEPT !.pc = pc]
             \/ \E n : new = [started EXCEPT !.pc = "holding", !.agent = n]
    BY <1>b DEF Enter
  <2> HIDE DEF started
  <2>3. new.pc \in {"done", "holding", "importing"} /\ new.leg = leg
    BY <2>1, <2>2 DEF Done, CallFields
  <2> QED
    BY <1>a, <2>2, <2>3 DEF CallTyped
<1>1. ASSUME NEW c \in TransportCall, TakeAccount(c) PROVE CallsTyped'
  <2>1. PICK a \in TransportAccount :
          tcall' = [tcall EXCEPT ![c] =
            [Idle EXCEPT !.pc = "selected", !.acct = a, !.want = assigned[a]]]
    BY <1>1 DEF TakeAccount
  <2>2. CallTyped([Idle EXCEPT !.pc = "selected", !.acct = a, !.want = assigned[a]])
    BY TransportAssumption DEF CallTyped, Idle, ResolvedTyped
  <2> QED
    BY <1>a, <2>1, <2>2
<1>2. ASSUME NEW c \in TransportCall, Send(c) PROVE CallsTyped'
  BY <1>2, <1>b DEF Send, FirstLegs, Legs
<1>7. ASSUME NEW c \in TransportCall, NextLeg(c) PROVE CallsTyped'
  BY <1>7, <1>b DEF NextLeg, Legs
<1>8. ASSUME NEW c \in TransportCall, CallAtOnce(c) \/ Probe(c) PROVE CallsTyped'
  BY <1>8, <1>b DEF CallAtOnce, Probe, FirstLegs, Legs
<1>3. ASSUME NEW c \in TransportCall, Imported(c) PROVE CallsTyped'
  <2>1. DOMAIN tcall = TransportCall /\ DOMAIN tcall[c] = CallFields
    BY DEF CallsShaped
  <2>2. /\ \A d \in TransportCall \ {c} : tcall'[d] = tcall[d]
        /\ tcall'[c].pc = "holding" /\ tcall'[c].leg = tcall[c].leg
    BY <1>3, <2>1 DEF Imported, CallFields
  <2> QED
    BY <2>2 DEF CallsTyped, CallTyped
<1>4. ASSUME NEW c \in TransportCall, ThroughProxy(c) PROVE CallsTyped'
  <2>1. PICK out : tcall' = [tcall EXCEPT ![c] = Done(tcall[c], out)]
    BY <1>4 DEF ThroughProxy, CallsShaped
  <2>2. CallTyped(Done(tcall[c], out))
    BY DEF CallTyped, CallsTyped, Done, CallsShaped, CallFields
  <2> QED
    BY <1>a, <2>1, <2>2
<1>5. ASSUME NEW c \in TransportCall, Finish(c) PROVE CallsTyped'
  BY <1>5, <1>a, TransportAssumption DEF Finish, Idle, CallTyped
<1>6. CASE UNCHANGED tcall
  BY <1>6 DEF CallsTyped
<1> QED
  BY <1>1, <1>2, <1>3, <1>4, <1>5, <1>6, <1>7, <1>8
  DEF TransportNext, transportVars, CreateTransport, UpdateTransport, DeleteTransports, Assign,
      SetGlobal, TransportTick

LEMMA RotationTyped ==
  ASSUME Entries, ResolvedTyped, NEW a \in TransportAccount, NEW want \in Assignments, Resolve(a, want)
  PROVE  rotation' \in [TransportAccount -> Rotations]
<1>1. CASE Answer(a, want).kind = "pool"
  <2> DEFINE n == Len(Answer(a, want).active)
             turned == Turned(a, Answer(a, want).active, want.every)
  <2>1. n \in Nat \ {0} /\ rotation[a] \in Rotations
    BY <1>1, AnsweredPool DEF ResolvedTyped
  <2>2. turned = IF rotation[a].count + 1 >= want.every
                 THEN [cursor |-> (rotation[a].cursor + 1) % n, count |-> 0]
                 ELSE [rotation[a] EXCEPT !.count = @ + 1]
    BY DEF Turned
  <2> HIDE DEF n, turned
  <2>3. turned \in Rotations
    BY <2>1, <2>2 DEF Rotations
  <2>4. rotation' = [rotation EXCEPT ![a] = turned]
    BY <1>1 DEF Resolve, turned
  <2> QED
    BY <2>3, <2>4 DEF ResolvedTyped
<1>2. CASE Answer(a, want).kind # "pool"
  BY <1>2 DEF Resolve, ResolvedTyped
<1> QED
  BY <1>1, <1>2

LEMMA ResolvedStep ==
  CallsTyped /\ Entries /\ ResolvedTyped /\ [TransportNext]_transportVars => ResolvedTyped'
<1> SUFFICES ASSUME CallsTyped, Entries, ResolvedTyped, [TransportNext]_transportVars
             PROVE  ResolvedTyped'
  OBVIOUS
<1> DEFINE Lasting(a) == resolved'[a] # NONE =>
                        resolved'[a].key \in Assignments /\ resolved'[a].ttl \in 1 .. ResolvedTtl
<1>0. ASSUME NEW acct \in TransportAccount, NEW want \in Assignments, Resolve(acct, want),
             UNCHANGED <<assigned, global>>
      PROVE  ResolvedTyped'
  <2> DEFINE entry == [key |-> want, answer |-> TableAnswer(transport, want), ttl |-> ResolvedTtl]
  <2>1. rotation' \in [TransportAccount -> Rotations]
    BY <1>0, RotationTyped
  <2>2. entry.key \in Assignments /\ entry.ttl \in 1 .. ResolvedTtl
    BY TransportAssumption
  <2>3. \A b \in TransportAccount : resolved'[b] \in {resolved[b], NONE, entry}
    BY <1>0 DEF Resolve, Entries
  <2> HIDE DEF entry
  <2>4. \A b \in TransportAccount : Lasting(b)
    BY <2>2, <2>3 DEF ResolvedTyped
  <2> QED
    BY <1>0, <2>1, <2>4 DEF ResolvedTyped
<1>1. ASSUME NEW c \in TransportCall, Send(c) PROVE ResolvedTyped'
  BY <1>0, <1>1 DEF Send, CallsTyped, CallTyped
<1>7. ASSUME NEW c \in TransportCall, CallAtOnce(c) PROVE ResolvedTyped'
  BY <1>0, <1>7 DEF CallAtOnce, ResolvedTyped
<1>2. CASE TransportTick
  <2>1. ASSUME NEW a \in TransportAccount PROVE Lasting(a)
    <3>1. CASE resolved[a] # NONE /\ resolved[a].ttl # 1
      <4>1. resolved'[a] = [resolved[a] EXCEPT !.ttl = @ - 1] /\ DOMAIN resolved[a] = EntryFields
        BY <1>2, <3>1 DEF TransportTick, Entries, Entry
      <4>2. resolved'[a].key = resolved[a].key /\ resolved'[a].ttl = resolved[a].ttl - 1
        BY <4>1 DEF EntryFields
      <4>3. ResolvedTtl \in Nat /\ resolved[a].ttl \in 1 .. ResolvedTtl
        BY <3>1, TransportAssumption DEF ResolvedTyped
      <4> QED
        BY <3>1, <4>2, <4>3 DEF ResolvedTyped
    <3>2. CASE resolved[a] = NONE \/ resolved[a].ttl = 1
      BY <1>2, <3>2 DEF TransportTick
    <3> QED
      BY <3>1, <3>2
  <2> QED
    BY <1>2, <2>1 DEF TransportTick, ResolvedTyped
<1>3. ASSUME NEW a \in TransportAccount, Assign(a) PROVE ResolvedTyped'
  BY <1>3 DEF Assign, ResolvedTyped
<1>4. CASE SetGlobal
  BY <1>4 DEF SetGlobal, ResolvedTyped
<1>5. CASE Forget /\ UNCHANGED <<assigned, global, rotation>>
  BY <1>5 DEF Forget, ResolvedTyped
<1>6. CASE UNCHANGED <<assigned, global, rotation, resolved>>
  BY <1>6 DEF ResolvedTyped
<1> QED
  BY <1>1, <1>2, <1>3, <1>4, <1>5, <1>6, <1>7
  DEF TransportNext, transportVars, TakeAccount, NextLeg, Probe, Imported, ThroughProxy, Finish, CreateTransport,
      UpdateTransport, UpdateForgets, DeleteTransports

TransportInv == CallsInv /\ Entries /\ AgentsInv /\ TableTyped /\ ResolvedTyped /\ CallsTyped

LEMMA TransportTypes == TransportInv => TransportTypeOK
<1> SUFFICES ASSUME TransportInv PROVE TransportTypeOK
  OBVIOUS
<1>1. ASSUME NEW a \in TransportAccount, resolved[a] # NONE
      PROVE  /\ resolved[a].answer.kind = "pool" => resolved[a].answer.active # <<>>
             /\ resolved[a].ttl \in 1 .. ResolvedTtl
  <2>1. resolved[a].key \in Assignments /\ resolved[a].answer = TableAnswer(transport, resolved[a].key)
    BY <1>1 DEF TransportInv, Entries, Entry, ResolvedTyped
  <2> QED
    BY <1>1, <2>1, PoolHasMembers DEF TransportInv, ResolvedTyped
<1>2. \A id \in TransportId : transport[id].type \in {"none", "proxy", "relay"}
  BY DEF TransportInv, TableTyped, RowTyped
<1>3. \A c \in TransportCall :
        /\ tcall[c].pc \in {"idle", "selected", "importing", "holding", "done"}
        /\ tcall[c].leg \in Legs \cup {NONE}
  BY DEF TransportInv, CallsTyped, CallTyped
<1> QED
  BY <1>1, <1>2, <1>3 DEF TransportInv, AgentsInv, ResolvedTyped, Rotations, TransportTypeOK

LEMMA TransportInitially == TransportInit => TransportInv
BY CallsInitially, EntriesInitially, AgentsInitially, TypesInitially DEF TransportInv

LEMMA TransportStep == TransportInv /\ [TransportNext]_transportVars => TransportInv'
BY CallsStep, EntriesStep, AgentsStep, TableStep, CallTypes, ResolvedStep DEF TransportInv, CallsInv

-----------------------------------------------------------------------------
(* The Kiro credentials.                                                   *)


\* The call was given a new refresh token and has not stored it.
Holds(c) == kcall[c].pc = "answered" /\ kcall[c].token # kcall[c].copy.refresh

Issued ==
  /\ issued \in Nat \ {0} /\ kiro.refresh \in 1 .. issued /\ accepted \subseteq 1 .. issued
  /\ \A c \in KiroCall : kcall[c].copy.refresh \in 1 .. issued /\ kcall[c].token \in 1 .. issued

KnownToItsCall ==
  \A c \in KiroCall : Holds(c) =>
    /\ kcall[c].token # 1 /\ kcall[c].token \in accepted /\ kcall[c].token # kiro.refresh
    /\ \A d \in KiroCall :
         /\ kcall[d].copy.refresh # kcall[c].token
         /\ d # c /\ Holds(d) => kcall[d].token # kcall[c].token

WillBeStored == ~lost => kiro.refresh \in accepted \/ \E c \in KiroCall : Holds(c)

Rotation == Issued /\ KnownToItsCall /\ WillBeStored

\* Copies that include the last edit agree with the row, as far as a call may
\* write the row back.
Personal ==
  \A c \in KiroCall :
    /\ kcall[c].seen <= kiroEdits
    /\ kcall[c].pc = "discovering" => kcall[c].copy.persona = "cli"
    /\ kcall[c].pc # "idle" /\ kcall[c].copy.persona = "cli" /\ kcall[c].seen = kiroEdits
         => kiro.persona = "cli"

-----------------------------------------------------------------------------
(* Types                                                                   *)

LEMMA NewCallTyped == NewCall \in Calls
BY KiroAssumption DEF NewCall, Calls, NoCopy, KiroRow, Personas

LEMMA KiroTypedInitially == KiroInit => KiroTypeOK
<1> SUFFICES ASSUME KiroInit PROVE KiroTypeOK
  OBVIOUS
<1>1. kiro \in KiroRow
  BY KiroAssumption DEF KiroInit, KiroRow
<1>2. kcall \in [KiroCall -> Calls]
  BY NewCallTyped DEF KiroInit
<1>3. accepted \subseteq 1 .. MaxTokens /\ issued \in 1 .. MaxTokens
  BY KiroAssumption DEF KiroInit
<1>4. lost \in BOOLEAN
  BY Zenon DEF KiroInit
<1>5. kiroEdits \in 0 .. MaxKiroEdits
  BY KiroAssumption DEF KiroInit
<1> QED
  BY <1>1, <1>2, <1>3, <1>4, <1>5 DEF KiroTypeOK

LEMMA KiroTypedStep == KiroTypeOK /\ [KiroNext]_kiroVars => KiroTypeOK'
<1> SUFFICES ASSUME KiroTypeOK, [KiroNext]_kiroVars PROVE KiroTypeOK'
  OBVIOUS
<1>0. kcall \in [KiroCall -> Calls] /\ kiro \in KiroRow
  BY DEF KiroTypeOK
<1>10. ASSUME NEW c \in KiroCall, EndCall(c) PROVE kcall' \in [KiroCall -> Calls]
  BY <1>0, <1>10, NewCallTyped DEF EndCall
<1>11. ASSUME NEW c \in KiroCall, NEW pc \in {"bearer", "asking", "discovering"}, Stage(c, pc)
       PROVE  kcall' \in [KiroCall -> Calls]
  BY <1>0, <1>11 DEF Stage, Calls
<1>1. ASSUME NEW c \in KiroCall, ReadRow(c) PROVE KiroTypeOK'
  <2>1. PICK discovers \in BOOLEAN :
          kcall' = [kcall EXCEPT ![c] =
            [NewCall EXCEPT !.pc = "read", !.discovers = discovers, !.copy = kiro, !.seen = kiroEdits]]
    BY <1>1 DEF ReadRow
  <2>2. [NewCall EXCEPT !.pc = "read", !.discovers = discovers, !.copy = kiro, !.seen = kiroEdits] \in Calls
    BY <1>0, NewCallTyped DEF KiroTypeOK, Calls
  <2> QED
    BY <1>0, <1>1, <2>1, <2>2 DEF ReadRow, KiroTypeOK
<1>2. ASSUME NEW c \in KiroCall, EnsureAccessToken(c) PROVE KiroTypeOK'
  BY <1>2, <1>11 DEF EnsureAccessToken, KiroTypeOK
<1>3. ASSUME NEW c \in KiroCall, Upstream(c) PROVE KiroTypeOK'
  <2>1. kiro' = kiro /\ kiroEdits' = kiroEdits
    BY <1>3 DEF Upstream
  <2>2. kcall[c].copy.refresh \in 1 .. MaxTokens
    BY <1>0 DEF Calls, KiroRow
  <2>3. CASE EndCall(c) /\ UNCHANGED <<accepted, issued, lost>>
    BY <1>0, <1>10, <2>1, <2>3 DEF KiroTypeOK
  <2>4. CASE /\ kcall' = [kcall EXCEPT ![c].pc = "answered", ![c].token = kcall[c].copy.refresh]
             /\ UNCHANGED <<accepted, issued, lost>>
    <3>1. kcall' \in [KiroCall -> Calls]
      BY <1>0, <2>2, <2>4 DEF Calls
    <3> QED
      BY <1>0, <2>1, <2>4, <3>1 DEF KiroTypeOK
  <2>5. CASE /\ issued < MaxTokens /\ issued' = issued + 1
             /\ accepted' = (accepted \ {kcall[c].copy.refresh}) \cup {issued + 1}
             /\ \/ /\ kcall' = [kcall EXCEPT ![c].pc = "answered", ![c].token = issued + 1]
                   /\ UNCHANGED lost
                \/ EndCall(c) /\ lost' = TRUE
    <3>1. issued + 1 \in 1 .. MaxTokens /\ accepted' \subseteq 1 .. MaxTokens
      BY <2>5, KiroAssumption DEF KiroTypeOK
    <3>2. kcall' \in [KiroCall -> Calls]
      BY <1>0, <1>10, <2>5, <3>1 DEF Calls
    <3> QED
      BY <1>0, <2>1, <2>5, <3>1, <3>2 DEF KiroTypeOK
  <2> QED
    BY <1>3, <2>3, <2>4, <2>5 DEF Upstream
<1>4. ASSUME NEW c \in KiroCall, Persist(c) PROVE KiroTypeOK'
  <2>1. PICK ttl \in {0, BearerTtl} : kiro' = Stored(c, ttl)
    BY <1>4 DEF Persist
  <2>2. ttl \in 0 .. BearerTtl /\ kcall[c].token \in 1 .. MaxTokens
    BY <1>0, KiroAssumption DEF Calls
  <2>3. kiro' \in KiroRow
    BY <1>0, <2>1, <2>2 DEF Stored, KiroRow
  <2> QED
    BY <1>4, <1>11, <2>3 DEF Persist, KiroTypeOK
<1>5. ASSUME NEW c \in KiroCall, UseBearer(c) PROVE KiroTypeOK'
  BY <1>5, <1>10, <1>11 DEF UseBearer, KiroTypeOK
<1>6. ASSUME NEW c \in KiroCall, Discovered(c) PROVE KiroTypeOK'
  <2>1. kiro' \in KiroRow
    BY <1>0, <1>6 DEF Discovered, ProviderData, KiroRow, Calls
  <2> QED
    BY <1>6, <1>10, <2>1 DEF Discovered, KiroTypeOK
<1>7. CASE EditAccount
  <2>1. kiroEdits' \in 0 .. MaxKiroEdits /\ UNCHANGED <<kcall, lost>>
    BY <1>7, KiroAssumption DEF EditAccount, KiroTypeOK
  <2>2. /\ kiro' \in KiroRow /\ issued' \in 1 .. MaxTokens
        /\ accepted' \subseteq 1 .. MaxTokens
    BY <1>0, <1>7, KiroAssumption DEF EditAccount, KiroTypeOK, KiroRow
  <2> QED
    BY <1>0, <2>1, <2>2 DEF KiroTypeOK
<1>8. CASE KiroTick
  <2> DEFINE Aged(r) == [r EXCEPT !.ttl = IF @ > 0 THEN @ - 1 ELSE 0]
  <2>1. \A r \in KiroRow : Aged(r) \in KiroRow
    BY KiroAssumption DEF KiroRow
  <2>2. kiro' = Aged(kiro) /\ kcall' = [c \in KiroCall |-> [kcall[c] EXCEPT !.copy = Aged(@)]]
    BY <1>8 DEF KiroTick
  <2>3. \A c \in KiroCall : kcall[c] \in Calls /\ Aged(kcall[c].copy) \in KiroRow
    BY <1>0, <2>1 DEF Calls
  <2> HIDE DEF Aged
  <2>4. kcall' \in [KiroCall -> Calls]
    BY <2>2, <2>3 DEF Calls
  <2> QED
    BY <1>0, <1>8, <2>1, <2>2, <2>4 DEF KiroTick, KiroTypeOK
<1> QED
  BY <1>1, <1>2, <1>3, <1>4, <1>5, <1>6, <1>7, <1>8 DEF KiroNext, KiroTypeOK, kiroVars

-----------------------------------------------------------------------------
(* Refresh tokens                                                          *)

LEMMA RotationInitially == KiroInit => Rotation
<1> SUFFICES ASSUME KiroInit PROVE Rotation
  OBVIOUS
<1>1. kiro.refresh = 1 /\ \A c \in KiroCall : kcall[c] = NewCall
  BY DEF KiroInit
<1> QED
  BY <1>1 DEF KiroInit, Rotation, Issued, KnownToItsCall, WillBeStored, Holds, NewCall, NoCopy

\* A step that leaves tokens, rows and copies as they are, or takes a copy of
\* the row, keeps the invariant; only a call that holds nothing may change stage.
LEMMA RotationKept ==
  ASSUME Rotation,
         kiro'.refresh = kiro.refresh, UNCHANGED <<accepted, issued, lost>>,
         \A c \in KiroCall :
           /\ kcall'[c].copy.refresh \in {kcall[c].copy.refresh, kiro.refresh, 1}
           /\ kcall'[c].token \in {kcall[c].token, 1}
           /\ Holds(c)' <=> Holds(c)
           /\ Holds(c) => kcall'[c].token = kcall[c].token
  PROVE  Rotation'
<1>1. Issued'
  BY DEF Rotation, Issued
<1>2. KnownToItsCall'
  BY DEF Rotation, KnownToItsCall
<1>3. WillBeStored'
  BY DEF Rotation, WillBeStored
<1> QED
  BY <1>1, <1>2, <1>3 DEF Rotation

LEMMA RotationStep == KiroTypeOK /\ Rotation /\ [KiroNext]_kiroVars => Rotation'
<1> SUFFICES ASSUME KiroTypeOK, Rotation, [KiroNext]_kiroVars PROVE Rotation'
  OBVIOUS
<1>0. kcall \in [KiroCall -> Calls] /\ kiro \in KiroRow /\ issued \in Nat \ {0}
  BY DEF KiroTypeOK
\* Steps of a call that holds no new token, and gets none.
<1>a. ASSUME NEW c \in KiroCall, ~Holds(c), kiro'.refresh = kiro.refresh,
             UNCHANGED <<accepted, issued, lost>>,
             NEW call, kcall' = [kcall EXCEPT ![c] = call],
             call.copy.refresh \in {kcall[c].copy.refresh, kiro.refresh, 1},
             call.token \in {kcall[c].token, 1},
             call.pc # "answered" \/ call.token = call.copy.refresh
      PROVE  Rotation'
  <2>1. ~Holds(c)' /\ kcall'[c] = call
    BY <1>0, <1>a DEF Holds
  <2>2. \A d \in KiroCall \ {c} : kcall'[d] = kcall[d]
    BY <1>0, <1>a
  <2>3. \A d \in KiroCall \ {c} : Holds(d)' <=> Holds(d)
    BY <2>2 DEF Holds
  <2> QED
    BY <1>a, <2>1, <2>2, <2>3, RotationKept
<1>1. ASSUME NEW c \in KiroCall, ReadRow(c) PROVE Rotation'
  <2>1. PICK discovers \in BOOLEAN :
          kcall' = [kcall EXCEPT ![c] =
            [NewCall EXCEPT !.pc = "read", !.discovers = discovers, !.copy = kiro, !.seen = kiroEdits]]
    BY <1>1 DEF ReadRow
  <2> QED
    BY <1>1, <1>a, <2>1 DEF ReadRow, Holds, NewCall
<1>b. ASSUME NEW c \in KiroCall, ~Holds(c), kiro'.refresh = kiro.refresh,
             UNCHANGED <<accepted, issued, lost>>, EndCall(c)
      PROVE  Rotation'
  BY <1>a, <1>b DEF EndCall, NewCall, NoCopy
<1>c. ASSUME NEW c \in KiroCall, ~Holds(c), kiro'.refresh = kiro.refresh,
             UNCHANGED <<accepted, issued, lost>>,
             NEW pc, pc # "answered", Stage(c, pc)
      PROVE  Rotation'
  <2>1. kcall' = [kcall EXCEPT ![c] = [kcall[c] EXCEPT !.pc = pc]]
    BY <1>c DEF Stage
  <2> QED
    BY <1>0, <1>a, <1>c, <2>1 DEF Calls
<1>2. ASSUME NEW c \in KiroCall, EnsureAccessToken(c) PROVE Rotation'
  BY <1>2, <1>c DEF EnsureAccessToken, Holds
<1>3. ASSUME NEW c \in KiroCall, Upstream(c) PROVE Rotation'
  <2> DEFINE used == kcall[c].copy.refresh
  <2>0. ~Holds(c) /\ kiro' = kiro
    BY <1>3 DEF Upstream, Holds
  <2>1. CASE EndCall(c) /\ UNCHANGED <<accepted, issued, lost>>
    BY <1>b, <2>0, <2>1
  <2>2. CASE /\ kcall' = [kcall EXCEPT ![c].pc = "answered", ![c].token = used]
             /\ UNCHANGED <<accepted, issued, lost>>
    \* The same token again.
    <3>1. \A d \in KiroCall \ {c} : kcall'[d] = kcall[d]
      BY <1>0, <2>2
    <3>2. kcall'[c].copy = kcall[c].copy /\ kcall'[c].token = used
      BY <1>0, <2>2 DEF Calls
    <3>3. ~Holds(c)' /\ \A d \in KiroCall \ {c} : Holds(d)' <=> Holds(d)
      BY <3>1, <3>2 DEF Holds
    <3>4. Issued'
      BY <2>0, <2>2, <3>1, <3>2 DEF Rotation, Issued
    <3>5. KnownToItsCall'
      <4>1. \A d \in KiroCall : kcall'[d].copy.refresh = kcall[d].copy.refresh
        BY <3>1, <3>2
      <4>2. \A d \in KiroCall : Holds(d)' => Holds(d) /\ kcall'[d].token = kcall[d].token
        BY <3>1, <3>3
      <4>3. accepted' = accepted /\ kiro' = kiro
        BY <2>0, <2>2
      <4> QED
        BY <4>1, <4>2, <4>3 DEF Rotation, KnownToItsCall
    <3>6. WillBeStored'
      BY <2>0, <2>2, <3>3 DEF Rotation, WillBeStored
    <3> QED
      BY <3>4, <3>5, <3>6 DEF Rotation
  <2>3. CASE /\ issued' = issued + 1 /\ accepted' = (accepted \ {used}) \cup {issued + 1}
             /\ kcall' = [kcall EXCEPT ![c].pc = "answered", ![c].token = issued + 1]
             /\ UNCHANGED lost
    \* A new one, which nobody else has; the others keep theirs.
    <3>1. \A d \in KiroCall \ {c} : kcall'[d] = kcall[d]
      BY <1>0, <2>3
    <3>2. kcall'[c].copy = kcall[c].copy /\ kcall'[c].token = issued + 1 /\ kcall'[c].pc = "answered"
      BY <1>0, <2>3 DEF Calls
    <3>3. Issued'
      BY <1>0, <2>0, <2>3, <3>1, <3>2 DEF Rotation, Issued
    <3>4. Holds(c)' /\ \A d \in KiroCall \ {c} : Holds(d)' <=> Holds(d)
      BY <1>0, <3>1, <3>2 DEF Rotation, Issued, Holds
    <3>5. KnownToItsCall'
      <4>1. ASSUME NEW d \in KiroCall, d # c, Holds(d)
            PROVE  kcall[d].token \in accepted' /\ kcall[d].token # issued + 1
        BY <1>0, <2>3, <4>1 DEF Rotation, Issued, KnownToItsCall
      <4>2. \A d \in KiroCall : kcall[d].copy.refresh # issued + 1 /\ kcall[d].token # issued + 1
        BY <1>0 DEF Rotation, Issued
      <4>3. kiro.refresh # issued + 1 /\ issued + 1 # 1 /\ issued + 1 \in accepted'
        BY <1>0, <2>3 DEF Rotation, Issued
      <4> QED
        BY <2>0, <3>1, <3>2, <3>4, <4>1, <4>2, <4>3 DEF Rotation, KnownToItsCall
    <3>6. WillBeStored'
      BY <3>4 DEF WillBeStored
    <3> QED
      BY <3>3, <3>5, <3>6 DEF Rotation
  <2>4. CASE /\ issued' = issued + 1 /\ accepted' = (accepted \ {used}) \cup {issued + 1}
             /\ EndCall(c) /\ lost' = TRUE
    <3>1. kcall'[c] = NewCall /\ \A d \in KiroCall \ {c} : kcall'[d] = kcall[d]
      BY <1>0, <2>4 DEF EndCall
    <3>2. Issued'
      <4>1. NewCall.copy.refresh = 1 /\ NewCall.token = 1
        BY DEF NewCall, NoCopy
      <4>2. \A d \in KiroCall : kcall'[d].copy.refresh \in 1 .. issued + 1 /\ kcall'[d].token \in 1 .. issued + 1
        BY <1>0, <3>1, <4>1 DEF Rotation, Issued
      <4>3. used \in 1 .. issued /\ issued' = issued + 1 /\ issued' \in Nat \ {0}
        BY <1>0, <2>4 DEF Rotation, Issued
      <4>4. kiro'.refresh \in 1 .. issued' /\ accepted' \subseteq 1 .. issued'
        <5>1. accepted \subseteq 1 .. issued /\ kiro.refresh \in 1 .. issued
          BY DEF Rotation, Issued
        <5>2. accepted' \subseteq accepted \cup {issued + 1}
          BY <2>4
        <5>3. issued \in Nat /\ issued' = issued + 1
          BY <4>3 DEF Rotation, Issued
        <5>4. 1 .. issued \subseteq 1 .. issued' /\ issued + 1 \in 1 .. issued'
          BY <5>3
        <5>5. kiro' = kiro
          BY <2>0
        <5> QED
          BY <5>1, <5>2, <5>4, <5>5
      <4> QED
        BY <4>2, <4>3, <4>4 DEF Issued
    <3>3. ~Holds(c)' /\ \A d \in KiroCall \ {c} : Holds(d)' <=> Holds(d)
      BY <3>1 DEF Holds, NewCall
    <3>4. KnownToItsCall'
      BY <2>0, <2>4, <3>1, <3>3 DEF Rotation, KnownToItsCall, NewCall, NoCopy
    <3> QED
      BY <2>4, <3>2, <3>4 DEF Rotation, WillBeStored
  <2> QED
    BY <1>3, <2>1, <2>2, <2>3, <2>4 DEF Upstream
<1>4. ASSUME NEW c \in KiroCall, Persist(c) PROVE Rotation'
  <2>1. PICK ttl \in {0, BearerTtl} : kiro' = Stored(c, ttl)
    BY <1>4 DEF Persist
  <2>2. kiro'.refresh = IF Holds(c) THEN kcall[c].token ELSE kiro.refresh
    BY <1>0, <1>4, <2>1 DEF Persist, Stored, Holds, KiroRow
  <2>3. kcall'[c] = [kcall[c] EXCEPT !.pc = "bearer"] /\ \A d \in KiroCall \ {c} : kcall'[d] = kcall[d]
    BY <1>0, <1>4 DEF Persist, Stage
  <2>4. \A d \in KiroCall : kcall'[d].copy = kcall[d].copy /\ kcall'[d].token = kcall[d].token
    BY <1>0, <2>3 DEF Calls
  <2>5. ~Holds(c)' /\ \A d \in KiroCall \ {c} : Holds(d)' <=> Holds(d)
    BY <1>0, <2>3 DEF Holds, Calls
  <2>6. UNCHANGED <<accepted, issued, lost>>
    BY <1>4 DEF Persist
  <2>7. Issued'
    BY <2>2, <2>4, <2>6 DEF Rotation, Issued
  <2>8. KnownToItsCall'
    BY <2>2, <2>4, <2>5, <2>6 DEF Rotation, KnownToItsCall
  <2>9. WillBeStored'
    BY <2>2, <2>5, <2>6 DEF Rotation, KnownToItsCall, WillBeStored
  <2> QED
    BY <2>7, <2>8, <2>9 DEF Rotation
<1>5. ASSUME NEW c \in KiroCall, UseBearer(c) PROVE Rotation'
  BY <1>5, <1>b, <1>c DEF UseBearer, Holds
<1>6. ASSUME NEW c \in KiroCall, Discovered(c) PROVE Rotation'
  <2>1. kiro'.refresh = kiro.refresh
    BY <1>0, <1>6 DEF Discovered, KiroRow
  <2> QED
    BY <1>6, <1>b, <2>1 DEF Discovered, Holds
<1>7. CASE EditAccount
  <2>1. UNCHANGED <<kcall, lost>>
    BY <1>7 DEF EditAccount
  <2>2. CASE kiro'.refresh = kiro.refresh /\ UNCHANGED <<accepted, issued>>
    BY <2>1, <2>2 DEF Rotation, Issued, KnownToItsCall, WillBeStored, Holds
  <2>3. CASE issued' = issued + 1 /\ accepted' = accepted \cup {issued + 1} /\ kiro'.refresh = issued + 1
    BY <1>0, <2>1, <2>3 DEF Rotation, Issued, KnownToItsCall, WillBeStored, Holds
  <2> QED
    BY <1>0, <1>7, <2>2, <2>3 DEF EditAccount, KiroRow
<1>8. CASE KiroTick
  <2>1. kiro'.refresh = kiro.refresh /\ UNCHANGED <<accepted, issued, lost>>
    BY <1>0, <1>8 DEF KiroTick, KiroRow
  <2>2. \A c \in KiroCall :
          /\ kcall'[c].copy.refresh = kcall[c].copy.refresh
          /\ kcall'[c].token = kcall[c].token /\ kcall'[c].pc = kcall[c].pc
    BY <1>0, <1>8 DEF KiroTick, KiroRow, Calls
  <2> QED
    BY <2>1, <2>2, RotationKept DEF Holds
<1>9. CASE UNCHANGED kiroVars
  BY <1>9 DEF kiroVars, Rotation, Issued, KnownToItsCall, WillBeStored, Holds
<1> QED
  BY <1>1, <1>2, <1>3, <1>4, <1>5, <1>6, <1>7, <1>8, <1>9 DEF KiroNext

-----------------------------------------------------------------------------
(* The persona                                                             *)

LEMMA PersonalInitially == KiroInit => Personal
BY DEF KiroInit, Personal, NewCall, NoCopy

LEMMA PersonalStep == KiroTypeOK /\ Personal /\ [KiroNext]_kiroVars => Personal'
<1> SUFFICES ASSUME KiroTypeOK, Personal, [KiroNext]_kiroVars PROVE Personal'
  OBVIOUS
<1>0. kcall \in [KiroCall -> Calls] /\ kiro \in KiroRow /\ kiroEdits \in Nat
  BY KiroAssumption DEF KiroTypeOK
\* What one call does to itself while the row keeps its persona.
<1>a. ASSUME NEW c \in KiroCall, kiro'.persona = kiro.persona, UNCHANGED kiroEdits,
             NEW call, kcall' = [kcall EXCEPT ![c] = call],
             \/ call = NewCall
             \/ /\ call.copy = kcall[c].copy /\ call.seen = kcall[c].seen
                /\ kcall[c].pc # "idle"
                /\ call.pc = "discovering" => call.copy.persona = "cli"
      PROVE  Personal'
  <2>1. kcall'[c] = call /\ \A d \in KiroCall \ {c} : kcall'[d] = kcall[d]
    BY <1>0, <1>a
  <2>2. CASE call = NewCall
    BY <1>0, <1>a, <2>1, <2>2 DEF Personal, NewCall
  <2>3. CASE call # NewCall
    BY <1>0, <1>a, <2>1, <2>3 DEF Personal
  <2> QED
    BY <2>2, <2>3
<1>1. ASSUME NEW c \in KiroCall, ReadRow(c) PROVE Personal'
  <2>1. PICK discovers \in BOOLEAN :
          kcall' = [kcall EXCEPT ![c] =
            [NewCall EXCEPT !.pc = "read", !.discovers = discovers, !.copy = kiro, !.seen = kiroEdits]]
    BY <1>1 DEF ReadRow
  <2>2. kcall'[c].copy = kiro /\ kcall'[c].seen = kiroEdits /\ kcall'[c].pc = "read"
    BY <1>0, <2>1 DEF NewCall
  <2>3. \A d \in KiroCall \ {c} : kcall'[d] = kcall[d]
    BY <1>0, <2>1
  <2> QED
    BY <1>0, <1>1, <2>2, <2>3 DEF ReadRow, Personal
<1>2. ASSUME NEW c \in KiroCall, EnsureAccessToken(c) PROVE Personal'
  <2>1. PICK pc \in {"bearer", "asking"} : kcall' = [kcall EXCEPT ![c] = [kcall[c] EXCEPT !.pc = pc]]
    BY <1>2 DEF EnsureAccessToken, Stage
  <2> QED
    BY <1>0, <1>2, <1>a, <2>1 DEF EnsureAccessToken, Calls
<1>3. ASSUME NEW c \in KiroCall, Upstream(c) PROVE Personal'
  <2>1. kiro' = kiro /\ kiroEdits' = kiroEdits /\ kcall[c].pc = "asking"
    BY <1>3 DEF Upstream
  <2>2. CASE kcall' = [kcall EXCEPT ![c] = NewCall]
    BY <1>a, <2>1, <2>2
  <2>3. ASSUME NEW token,
               kcall' = [kcall EXCEPT ![c] = [kcall[c] EXCEPT !.pc = "answered", !.token = token]]
        PROVE  Personal'
    BY <1>0, <1>a, <2>1, <2>3 DEF Calls
  <2>4. \/ kcall' = [kcall EXCEPT ![c] = NewCall]
        \/ \E token : kcall' = [kcall EXCEPT ![c] = [kcall[c] EXCEPT !.pc = "answered", !.token = token]]
    BY <1>0, <1>3 DEF Upstream, EndCall, Calls
  <2> QED
    BY <2>2, <2>3, <2>4
<1>4. ASSUME NEW c \in KiroCall, Persist(c) PROVE Personal'
  <2>1. kiro'.persona = kiro.persona
    BY <1>0, <1>4 DEF Persist, Stored, KiroRow
  <2>2. kcall' = [kcall EXCEPT ![c] = [kcall[c] EXCEPT !.pc = "bearer"]]
    BY <1>4 DEF Persist, Stage
  <2> QED
    BY <1>0, <1>4, <1>a, <2>1, <2>2 DEF Persist, Calls
<1>5. ASSUME NEW c \in KiroCall, UseBearer(c) PROVE Personal'
  <2>1. CASE EndCall(c)
    BY <1>5, <1>a, <2>1 DEF UseBearer, EndCall
  <2>2. CASE kcall[c].copy.persona = "cli" /\ Stage(c, "discovering")
    <3>1. kcall' = [kcall EXCEPT ![c] = [kcall[c] EXCEPT !.pc = "discovering"]]
      BY <2>2 DEF Stage
    <3> QED
      BY <1>0, <1>5, <1>a, <2>2, <3>1 DEF UseBearer, Calls
  <2> QED
    BY <1>5, <2>1, <2>2 DEF UseBearer
<1>6. ASSUME NEW c \in KiroCall, Discovered(c) PROVE Personal'
  \* The persona that is written is that of the CLI.
  <2>1. kiro'.persona \in {kiro.persona, "cli"}
    BY <1>0, <1>6 DEF Discovered, ProviderData, KiroRow, Personal
  <2>2. kcall'[c] = NewCall /\ \A d \in KiroCall \ {c} : kcall'[d] = kcall[d]
    BY <1>0, <1>6 DEF Discovered, EndCall
  <2> QED
    BY <1>0, <1>6, <2>1, <2>2 DEF Discovered, Personal, NewCall
<1>7. CASE EditAccount
  <2>1. kcall' = kcall /\ kiroEdits' = kiroEdits + 1
    BY <1>7 DEF EditAccount
  <2>2. \A c \in KiroCall : kcall[c].seen \in Nat /\ kcall[c].seen <= kiroEdits
    BY <1>0 DEF Personal, Calls
  <2>3. \A c \in KiroCall : kcall[c].seen <= kiroEdits + 1 /\ kcall[c].seen # kiroEdits + 1
    BY <1>0, <2>2
  <2> QED
    BY <2>1, <2>3 DEF Personal
<1>8. CASE KiroTick
  <2>1. kiro'.persona = kiro.persona /\ kiroEdits' = kiroEdits
    BY <1>0, <1>8 DEF KiroTick, KiroRow
  <2>2. \A c \in KiroCall :
          /\ kcall'[c].copy.persona = kcall[c].copy.persona
          /\ kcall'[c].seen = kcall[c].seen /\ kcall'[c].pc = kcall[c].pc
    BY <1>0, <1>8 DEF KiroTick, KiroRow, Calls
  <2> QED
    BY <2>1, <2>2 DEF Personal
<1>9. CASE UNCHANGED kiroVars
  BY <1>9 DEF kiroVars, Personal
<1> QED
  BY <1>1, <1>2, <1>3, <1>4, <1>5, <1>6, <1>7, <1>8, <1>9 DEF KiroNext

LEMMA OlderCopies ==
  KiroTypeOK /\ Personal /\ KiroNext =>
    (kiro'.persona # kiro.persona =>
       \/ kiroEdits' = kiroEdits + 1
       \/ \E c \in KiroCall :
            kcall[c].pc = "discovering" /\ kcall'[c].pc = "idle" /\ kcall[c].seen < kiroEdits)
<1> SUFFICES ASSUME KiroTypeOK, Personal, KiroNext, kiro'.persona # kiro.persona,
                    kiroEdits' # kiroEdits + 1
             PROVE  \E c \in KiroCall :
                      kcall[c].pc = "discovering" /\ kcall'[c].pc = "idle" /\ kcall[c].seen < kiroEdits
  OBVIOUS
<1>0. kcall \in [KiroCall -> Calls] /\ kiro \in KiroRow
  BY DEF KiroTypeOK
<1>1. PICK c \in KiroCall : Persist(c) \/ Discovered(c)
  BY <1>0 DEF KiroNext, ReadRow, EnsureAccessToken, Upstream, UseBearer, EditAccount, KiroTick, KiroRow
<1>2. Discovered(c)
  BY <1>0, <1>1 DEF Persist, Stored, KiroRow
<1>3. kiro'.persona = "cli" /\ kiro.persona # "cli"
  BY <1>0, <1>2 DEF Discovered, ProviderData, KiroRow, Personal
<1>4. kcall[c].seen < kiroEdits
  <2>1. kcall[c].seen <= kiroEdits /\ kcall[c].seen # kiroEdits
    BY <1>2, <1>3 DEF Discovered, Personal
  <2>2. kcall[c].seen \in Int /\ kiroEdits \in Int
    BY <1>0, KiroAssumption DEF KiroTypeOK, Calls
  <2> QED
    BY <2>1, <2>2
<1>5. kcall'[c].pc = "idle"
  BY <1>0, <1>2 DEF Discovered, EndCall, NewCall
<1> QED
  BY <1>2, <1>4, <1>5 DEF Discovered

-----------------------------------------------------------------------------
\* The row and the calls keep their types.
THEOREM KiroTyped == KiroSpec => []KiroTypeOK
<1> QED
  BY KiroTypedInitially, KiroTypedStep, PTL DEF KiroSpec

\* However many calls refresh on old copies and whatever the admin enters, only
\* a lost answer can lock an account out (auth.ts:56-72).
THEOREM TokenAlwaysAccepted == KiroSpec => []StoredTokenAccepted
<1>1. Rotation => StoredTokenAccepted
  BY DEF Rotation, WillBeStored, Holds, StoredTokenAccepted
<1> QED
  BY <1>1, KiroTypedInitially, KiroTypedStep, RotationInitially, RotationStep, PTL DEF KiroSpec

\* A persona the admin has chosen is undone only by a request with an older
\* copy of the row (profile.ts:92-94).
THEOREM EditsUndoneByOlderCopies == KiroSpec => EditUndoneOnlyByOlderCopy
<1>1. KiroTypeOK /\ Personal /\ [KiroNext]_kiroVars =>
        [kiro'.persona # kiro.persona =>
           \/ kiroEdits' = kiroEdits + 1
           \/ \E c \in KiroCall :
                kcall[c].pc = "discovering" /\ kcall'[c].pc = "idle" /\ kcall[c].seen < kiroEdits]_kiroVars
  BY OlderCopies
<1> QED
  BY <1>1, KiroTypedInitially, KiroTypedStep, PersonalInitially, PersonalStep, PTL
  DEF KiroSpec, EditUndoneOnlyByOlderCopy

-----------------------------------------------------------------------------
(* The quota puller.                                                       *)

SnapshotRow(t) == [account : Listed, at : 0 .. t]
Ticks == [pc : {"idle", "sent"}, todo : Seq(Listed), plan : Plans]

\* The snapshots are rows of accounts that exist, and a tick that has sent a
\* request has sent it for somebody.
QuotaInv ==
  /\ qnow \in 0 .. MaxTime /\ qacct \in [Listed -> {"on", "off", "gone"}]
  /\ snapshots \in Seq(SnapshotRow(qnow))
  /\ \A i \in 1 .. Len(snapshots) : qacct[snapshots[i].account] # "gone"
  /\ inserted \in 0 .. MaxRows
  /\ tick \in [Puller -> Ticks]
  /\ \A k \in Puller : tick[k].pc = "sent" => tick[k].todo # <<>>

LEMMA NoTickTyped == NoTick \in Ticks
BY EmptySeq DEF NoTick, Ticks, Plans

LEMMA QuotaInitially == QuotaInit => QuotaInv
<1> SUFFICES ASSUME QuotaInit PROVE QuotaInv
  OBVIOUS
<1>1. tick \in [Puller -> Ticks] /\ \A k \in Puller : tick[k].pc = "idle"
  BY NoTickTyped DEF QuotaInit, NoTick
<1>2. snapshots \in Seq(SnapshotRow(qnow)) /\ Len(snapshots) = 0
  BY EmptySeq DEF QuotaInit
<1> QED
  BY <1>1, <1>2, QuotaAssumption DEF QuotaInit, QuotaInv

\* Rows that may be stored: of accounts that exist, and not of the future.
Storable(rows) ==
  /\ rows \in Seq(SnapshotRow(qnow))
  /\ \A i \in 1 .. Len(rows) : qacct[rows[i].account] # "gone"

LEMMA FilteredStorable ==
  ASSUME NEW rows, Storable(rows), NEW S PROVE Storable(Filtered(rows, S))
<1> DEFINE kept == Filtered(rows, S)
<1>1. kept \in Seq(SnapshotRow(qnow))
  BY FilteredTyped DEF Storable
<1>2. \A i \in 1 .. Len(kept) : \E k \in 1 .. Len(rows) : rows[k] = kept[i]
  BY FilteredMembers DEF Storable
<1> HIDE DEF kept
<1> QED
  BY <1>1, <1>2 DEF Storable, kept

LEMMA ContinueTyped ==
  ASSUME QuotaInv, NEW k \in Puller, NEW rest \in Seq(Listed), NEW rows, Storable(rows),
         Continue(k, rest, rows)
  PROVE  /\ tick' \in [Puller -> Ticks]
         /\ \A p \in Puller : tick'[p].pc = "sent" => tick'[p].todo # <<>>
         /\ Storable(snapshots')
<1> DEFINE new == IF rest = <<>> THEN NoTick ELSE [NoTick EXCEPT !.pc = "sent", !.todo = rest]
<1>1. new \in Ticks /\ (new.pc = "sent" => new.todo # <<>>)
  BY NoTickTyped DEF NoTick, Ticks
<1>2. tick' = [tick EXCEPT ![k] = new]
  BY DEF Continue
<1> HIDE DEF new
<1>3. /\ tick' \in [Puller -> Ticks]
      /\ \A p \in Puller : tick'[p].pc = "sent" => tick'[p].todo # <<>>
  BY <1>1, <1>2 DEF QuotaInv
<1>4. snapshots' = Kept(rows) \/ snapshots' = rows
  BY DEF Continue
<1>5. Storable(snapshots')
  BY <1>4, FilteredStorable DEF Kept
<1> QED
  BY <1>3, <1>5

LEMMA InvMeansStorable == QuotaInv => Storable(snapshots)
BY DEF QuotaInv, Storable

LEMMA StoredRows ==
  ASSUME QuotaInv
  PROVE  \A i \in 1 .. Len(snapshots) :
           snapshots[i].account \in Listed /\ snapshots[i].at <= qnow
<1>1. \A i \in 1 .. Len(snapshots) : snapshots[i] \in SnapshotRow(qnow)
  BY ElementOfSeq DEF QuotaInv
<1>2. qnow \in Nat
  BY QuotaAssumption DEF QuotaInv
<1> QED
  BY <1>1, <1>2 DEF SnapshotRow

LEMMA QuotaStep == QuotaInv /\ [QuotaNext]_quotaVars => QuotaInv'
<1> SUFFICES ASSUME QuotaInv, [QuotaNext]_quotaVars PROVE QuotaInv'
  OBVIOUS
<1>1. ASSUME NEW k \in Puller, StartTick(k) PROVE QuotaInv'
  <2> DEFINE todo == Filtered(QuotaAccount, {a \in Listed : qacct[a] = "on"})
  <2>1. todo \in Seq(Listed)
    BY QuotaAssumption, FilteredTyped DEF Listed
  <2>2. Continue(k, todo, snapshots) /\ UNCHANGED <<qnow, qacct, inserted>>
    BY <1>1 DEF StartTick
  <2> HIDE DEF todo
  <2>3. /\ tick' \in [Puller -> Ticks]
        /\ \A p \in Puller : tick'[p].pc = "sent" => tick'[p].todo # <<>>
        /\ Storable(snapshots')
    BY <2>1, <2>2, ContinueTyped, InvMeansStorable
  <2> QED
    BY <2>2, <2>3 DEF QuotaInv, Storable
<1>2. ASSUME NEW k \in Puller, AnswerPulled(k) PROVE QuotaInv'
  <2> DEFINE a == Head(tick[k].todo)
             row == [account |-> a, at |-> qnow]
  <2>1. tick[k] \in Ticks /\ tick[k].todo # <<>> /\ tick[k].pc = "sent" /\ UNCHANGED <<qnow, qacct>>
    BY <1>2 DEF AnswerPulled, QuotaInv
  <2>2. tick[k].todo \in Seq(Listed)
    BY <2>1 DEF Ticks
  <2>3. a \in Listed /\ Tail(tick[k].todo) \in Seq(Listed)
    BY <2>1, <2>2, HeadTailProperties
  <2>4. CASE /\ Accepts(a) /\ inserted < MaxRows /\ inserted' = inserted + 1
             /\ Continue(k, Tail(tick[k].todo), Append(snapshots, row))
    <3>1. row \in SnapshotRow(qnow)
      BY <2>3, QuotaAssumption DEF QuotaInv, SnapshotRow
    <3>2. Storable(Append(snapshots, row))
      <4>1. /\ Append(snapshots, row) \in Seq(SnapshotRow(qnow))
            /\ Len(Append(snapshots, row)) = Len(snapshots) + 1 /\ Len(snapshots) \in Nat
            /\ \A i \in 1 .. Len(snapshots) + 1 :
                 Append(snapshots, row)[i] = IF i <= Len(snapshots) THEN snapshots[i] ELSE row
        BY <3>1, AppendProperties DEF QuotaInv
      <4>2. qacct[row.account] # "gone"
        BY <2>4 DEF Accepts
      <4> HIDE DEF row
      <4> QED
        BY <4>1, <4>2 DEF Storable, QuotaInv
    <3>3. /\ tick' \in [Puller -> Ticks]
          /\ \A p \in Puller : tick'[p].pc = "sent" => tick'[p].todo # <<>>
          /\ Storable(snapshots')
      BY <2>3, <2>4, <3>2, ContinueTyped
    <3>4. inserted' \in 0 .. MaxRows
      BY <2>4, QuotaAssumption DEF QuotaInv
    <3> QED
      BY <2>1, <3>3, <3>4 DEF QuotaInv, Storable
  <2>5. CASE tick' = [tick EXCEPT ![k].plan = 2] /\ UNCHANGED <<snapshots, inserted>>
    <3>1. [tick[k] EXCEPT !.plan = 2] \in Ticks
      BY <2>1 DEF Ticks, Plans
    <3> QED
      BY <2>1, <2>5, <3>1 DEF QuotaInv, Ticks
  <2>6. CASE Continue(k, Tail(tick[k].todo), snapshots) /\ UNCHANGED inserted
    <3>1. /\ tick' \in [Puller -> Ticks]
          /\ \A p \in Puller : tick'[p].pc = "sent" => tick'[p].todo # <<>>
          /\ Storable(snapshots')
      BY <2>3, <2>6, ContinueTyped, InvMeansStorable
    <3> QED
      BY <2>1, <2>6, <3>1 DEF QuotaInv, Storable
  <2> QED
    BY <1>2, <2>4, <2>5, <2>6 DEF AnswerPulled
<1>3. ASSUME NEW a \in Listed, ChangeAccount(a) PROVE QuotaInv'
  <2>1. PICK s \in {"on", "off", "gone"} : qacct' = [qacct EXCEPT ![a] = s]
    BY <1>3 DEF ChangeAccount
  <2>2. qacct' \in [Listed -> {"on", "off", "gone"}] /\ qacct'[a] = s
        /\ \A b \in Listed \ {a} : qacct'[b] = qacct[b]
    BY <2>1 DEF QuotaInv
  <2>3. \A i \in 1 .. Len(snapshots) : snapshots[i].account \in Listed
    BY StoredRows
  <2>4. CASE s = "gone"
    <3> DEFINE S == {row \in ToSet(snapshots) : row.account # a}
               kept == Filtered(snapshots, S)
    <3>1. snapshots' = kept
      BY <1>3, <2>2, <2>4 DEF ChangeAccount
    <3>2. \A row \in S : row.account # a
      OBVIOUS
    <3> HIDE DEF S
    <3>3. kept \in Seq(SnapshotRow(qnow))
      BY FilteredTyped DEF QuotaInv
    <3>4. \A i \in 1 .. Len(kept) : kept[i].account # a /\ \E n \in 1 .. Len(snapshots) : snapshots[n] = kept[i]
      BY <3>2, FilteredMembers DEF QuotaInv
    <3> HIDE DEF kept
    <3>5. \A i \in 1 .. Len(kept) : qacct'[kept[i].account] # "gone"
      BY <2>2, <2>3, <3>4 DEF QuotaInv
    <3> QED
      BY <1>3, <2>2, <3>1, <3>3, <3>5 DEF ChangeAccount, QuotaInv
  <2>5. CASE s # "gone"
    BY <1>3, <2>2, <2>3, <2>5 DEF ChangeAccount, QuotaInv
  <2> QED
    BY <2>4, <2>5
<1>4. CASE QuotaTick
  <2>1. qnow' = qnow + 1 /\ qnow' \in 0 .. MaxTime /\ UNCHANGED <<qacct, snapshots, inserted, tick>>
    BY <1>4, QuotaAssumption DEF QuotaTick, QuotaInv
  <2>2. SnapshotRow(qnow) \subseteq SnapshotRow(qnow')
    BY <2>1, QuotaAssumption DEF SnapshotRow, QuotaInv
  <2>3. snapshots' \in Seq(SnapshotRow(qnow'))
    BY <2>1, <2>2, SeqMonotonic DEF QuotaInv
  <2> QED
    BY <2>1, <2>3 DEF QuotaInv
<1>5. CASE UNCHANGED quotaVars
  BY <1>5 DEF quotaVars, QuotaInv
<1> QED
  BY <1>1, <1>2, <1>3, <1>4, <1>5 DEF QuotaNext

LEMMA QuotaTypes == QuotaInv => QuotaTypeOK
<1> SUFFICES ASSUME QuotaInv PROVE QuotaTypeOK
  OBVIOUS
<1>1. DOMAIN snapshots = 1 .. Len(snapshots)
  BY DEF QuotaInv
<1>2. \A i \in 1 .. Len(snapshots) : snapshots[i].account \in Listed /\ snapshots[i].at <= qnow
  BY StoredRows
<1> QED
  BY <1>1, <1>2 DEF QuotaInv, QuotaTypeOK, Ticks

\* The cutoff is a day of the calendar.
LEMMA DayOrder ==
  ASSUME NEW s \in Int, NEW t \in Int
  PROVE  /\ Day(s) > Day(t) => s >= t
         /\ Day(s) <= Day(t) => s < t + DayLength
<1> DEFINE L == DayLength
           p == s \div L
           q == t \div L
<1>0. L \in Nat \ {0}
  BY QuotaAssumption
<1> HIDE DEF L
<1>1. p \in Int /\ q \in Int
  BY <1>0
<1>2. L * p <= s /\ s < L * p + L
  BY <1>0
<1>3. L * q <= t /\ t < L * q + L
  BY <1>0
<1> HIDE DEF p, q
<1>4. p > q => L * q + L <= L * p
  BY <1>0, <1>1
<1>5. p <= q => L * p <= L * q
  BY <1>0, <1>1
<1>6. L * p \in Int /\ L * q \in Int
  BY <1>0, <1>1
<1>7. (p > q => s >= t) /\ (p <= q => s < t + L)
  BY <1>0, <1>1, <1>2, <1>3, <1>4, <1>5, <1>6
<1> QED
  BY <1>7 DEF Day, L, p, q

LEMMA RetentionStep ==
  ASSUME QuotaInv, [QuotaNext]_quotaVars, TickEnds
  PROVE  /\ \A i \in DOMAIN snapshots' : snapshots'[i].at >= qnow - Keep
         /\ \A row \in ToSet(snapshots) \ ToSet(snapshots') : row.at < qnow - Keep + DayLength
<1>0. qnow \in Nat /\ Keep \in Int /\ qnow - Keep \in Int
  BY QuotaAssumption DEF QuotaInv, Keep
<1>1. PICK k \in Puller : tick[k].pc # "idle" /\ tick'[k].pc = "idle"
  BY DEF TickEnds
\* A tick ends after its last account, or does nothing.
<1>2. PICK rows : snapshots' = Kept(rows) /\ Storable(rows) /\ ToSet(snapshots) \subseteq ToSet(rows)
  <2>1. ASSUME NEW p \in Puller, NEW rest, NEW rows, Continue(p, rest, rows), tick[k].pc # "idle"
        PROVE  snapshots' = Kept(rows)
    <3>1. CASE rest = <<>>
      BY <3>1, <2>1 DEF Continue
    <3>2. CASE rest # <<>>
      BY <1>1, <2>1, <3>2 DEF Continue, NoTick, QuotaInv
    <3> QED
      BY <3>1, <3>2
  <2>2. Storable(snapshots)
    BY InvMeansStorable
  <2>3. ASSUME NEW p \in Puller, StartTick(p) PROVE snapshots' = Kept(snapshots)
    BY <1>1, <2>1, <2>3 DEF StartTick
  <2>4. ASSUME NEW p \in Puller, AnswerPulled(p)
        PROVE  \E rows : snapshots' = Kept(rows) /\ Storable(rows) /\ ToSet(snapshots) \subseteq ToSet(rows)
    <3> DEFINE a == Head(tick[p].todo)
               row == [account |-> a, at |-> qnow]
    <3>1. tick[p] \in Ticks /\ tick[p].todo # <<>>
      BY <2>4 DEF AnswerPulled, QuotaInv
    <3>2. tick[p].todo \in Seq(Listed)
      BY <3>1 DEF Ticks
    <3>3. a \in Listed
      BY <3>1, <3>2, HeadTailProperties
    <3>4. CASE Accepts(a) /\ Continue(p, Tail(tick[p].todo), Append(snapshots, row))
      <4>1. row \in SnapshotRow(qnow)
        BY <3>3, <1>0 DEF SnapshotRow
      <4>2. /\ Append(snapshots, row) \in Seq(SnapshotRow(qnow))
            /\ Len(Append(snapshots, row)) = Len(snapshots) + 1 /\ Len(snapshots) \in Nat
            /\ \A i \in 1 .. Len(snapshots) + 1 :
                 Append(snapshots, row)[i] = IF i <= Len(snapshots) THEN snapshots[i] ELSE row
        BY <4>1, AppendProperties DEF QuotaInv
      <4>3. qacct[row.account] # "gone"
        BY <3>4 DEF Accepts
      <4>4. snapshots' = Kept(Append(snapshots, row))
        BY <1>1, <2>1, <3>4
      <4> HIDE DEF row
      <4>5. Storable(Append(snapshots, row))
        BY <4>2, <4>3 DEF Storable, QuotaInv
      <4>6. ToSet(snapshots) \subseteq ToSet(Append(snapshots, row))
        <5>1. DOMAIN snapshots = 1 .. Len(snapshots) /\ DOMAIN Append(snapshots, row) = 1 .. Len(snapshots) + 1
          BY <4>2 DEF QuotaInv
        <5>2. \A i \in 1 .. Len(snapshots) : i \in 1 .. Len(snapshots) + 1 /\ Append(snapshots, row)[i] = snapshots[i]
          BY <4>2
        <5> QED
          BY <5>1, <5>2 DEF ToSet
      <4> QED
        BY <4>4, <4>5, <4>6
    <3>5. CASE tick' = [tick EXCEPT ![p].plan = 2]
      BY <1>1, <3>5 DEF QuotaInv, Ticks
    <3>6. CASE Continue(p, Tail(tick[p].todo), snapshots)
      BY <1>1, <2>1, <2>2, <3>6
    <3> QED
      BY <2>4, <3>4, <3>5, <3>6 DEF AnswerPulled
  <2>5. tick' # tick
    BY <1>1
  <2> QED
    BY <2>2, <2>3, <2>4, <2>5 DEF QuotaNext, quotaVars, ChangeAccount, QuotaTick
<1> DEFINE S == {row \in ToSet(rows) : ~Pruned(row)}
           kept == Filtered(rows, S)
<1>3. snapshots' = kept /\ rows \in Seq(SnapshotRow(qnow)) /\ DOMAIN rows = 1 .. Len(rows)
  BY <1>2 DEF Kept, Storable
<1>4. \A row \in ToSet(rows) : row.at \in Int /\ (row \in S <=> Day(row.at) > Day(qnow - Keep))
  <2> SUFFICES ASSUME NEW row \in ToSet(rows)
               PROVE  row.at \in Int /\ (row \in S <=> Day(row.at) > Day(qnow - Keep))
    OBVIOUS
  <2>1. row.at \in Int
    <3>1. PICK n \in 1 .. Len(rows) : row = rows[n]
      BY <1>3 DEF ToSet
    <3>2. row \in SnapshotRow(qnow)
      BY <1>3, <3>1, ElementOfSeq
    <3> QED
      BY <1>0, <3>2 DEF SnapshotRow
  <2>2. Day(row.at) \in Int /\ Day(qnow - Keep) \in Int
    BY <1>0, <2>1, QuotaAssumption DEF Day
  <2> QED
    BY <2>1, <2>2 DEF Pruned
<1>5. S \subseteq ToSet(rows)
  OBVIOUS
<1> HIDE DEF S
<1>6. /\ kept \in Seq(SnapshotRow(qnow))
      /\ \A i \in 1 .. Len(kept) : kept[i] \in S
      /\ \A n \in 1 .. Len(rows) : rows[n] \in S => \E i \in 1 .. Len(kept) : kept[i] = rows[n]
  BY <1>3, FilteredTyped, FilteredMembers
<1> HIDE DEF kept
<1>7. DOMAIN kept = 1 .. Len(kept)
  BY <1>6
<1>8. ASSUME NEW i \in DOMAIN kept PROVE kept[i].at >= qnow - Keep
  BY <1>0, <1>4, <1>5, <1>6, <1>7, <1>8, DayOrder
<1>9. ASSUME NEW row \in ToSet(rows), row \notin ToSet(kept) PROVE row.at < qnow - Keep + DayLength
  <2>1. row \notin S
    BY <1>3, <1>6, <1>7, <1>9 DEF ToSet
  <2>2. Day(row.at) \in Int /\ Day(qnow - Keep) \in Int /\ row.at \in Int
    BY <1>0, <1>4, QuotaAssumption DEF Day
  <2>3. Day(row.at) <= Day(qnow - Keep)
    BY <1>4, <2>1, <2>2
  <2> QED
    BY <1>0, <2>2, <2>3, DayOrder
<1> QED
  BY <1>2, <1>3, <1>8, <1>9

\* What a tick leaves and what it takes, whatever ticks run at once and
\* wherever the clock stands in its day (quota-snapshots.ts:58-62).
THEOREM RetentionKept == QuotaSpec => RetentionWithinADay
<1>1. QuotaInv /\ [QuotaNext]_quotaVars =>
        [TickEnds =>
           /\ \A i \in DOMAIN snapshots' : snapshots'[i].at >= qnow - Keep
           /\ \A row \in ToSet(snapshots) \ ToSet(snapshots') :
                row.at < qnow - Keep + DayLength]_quotaVars
  BY RetentionStep
<1> QED
  BY <1>1, QuotaInitially, QuotaStep, PTL DEF QuotaSpec, RetentionWithinADay

-----------------------------------------------------------------------------
(* The Kiro login, and all parts together.                                 *)

LEMMA LoginTypesInitially == LoginInit => LoginTypeOK
BY LoginAssumption DEF LoginInit, LoginTypeOK, Steps, Code, OFF

LEMMA ClearedTyped ==
  ASSUME interval \in [Code -> OFF .. Lifetime]
  PROVE  ClearInterval \in [Code -> OFF .. Lifetime]
<1>1. OFF \in OFF .. Lifetime
  BY LoginAssumption DEF OFF
<1> QED
  BY <1>1 DEF ClearInterval

LEMMA LoginStep == LoginTypeOK /\ [LoginNext]_loginVars => LoginTypeOK'
<1> SUFFICES ASSUME LoginTypeOK, [LoginNext]_loginVars PROVE LoginTypeOK'
  OBVIOUS
<1> DEFINE Answers == {"sent", "pending", "success", "error", "failed"}
           Polls == [n : 1 .. MaxPolls, code : Code, at : Answers]
           Logins == [step : Steps, data : 0 .. MaxCodes, abort : BOOLEAN, poll : 0 .. MaxCodes]
<1>1. /\ Lifetime \in Nat /\ Lifetime \in OFF .. Lifetime /\ MaxCodes \in Nat /\ MaxPolls \in Nat
      /\ ClearInterval \in [Code -> OFF .. Lifetime]
  BY LoginAssumption, ClearedTyped DEF OFF, LoginTypeOK
<1>2. starting \subseteq Code
  BY <1>1 DEF LoginTypeOK, Code
<1>3. CASE StartDeviceCode
  <2>1. login' \in Logins
    BY <1>3 DEF StartDeviceCode, LoginTypeOK, Steps
  <2>2. asked' \in 0 .. MaxCodes /\ starting' \subseteq 1 .. asked'
    BY <1>1, <1>3 DEF StartDeviceCode, LoginTypeOK
  <2> QED
    BY <1>3, <2>1, <2>2 DEF StartDeviceCode, LoginTypeOK
<1>4. CASE StartPolling
  BY <1>1, <1>4 DEF StartPolling, LoginTypeOK, Steps
<1>5. CASE ResetLogin
  <2>1. login' \in Logins
    <3>1. login' = [login EXCEPT !.step = "idle", !.data = 0, !.abort = TRUE]
      BY <1>5 DEF ResetLogin
    <3>2. login \in Logins /\ 0 \in 0 .. MaxCodes
      BY <1>1 DEF LoginTypeOK
    <3> QED
      BY <3>1, <3>2 DEF Steps
  <2> QED
    BY <1>1, <1>5, <2>1 DEF ResetLogin, LoginTypeOK
<1>6. ASSUME NEW c \in Code, DeviceCode(c) PROVE LoginTypeOK'
  <2>1. login' \in Logins
    <3>1. c \in 0 .. MaxCodes
      BY <1>1 DEF Code
    <3>2. login \in Logins
      BY DEF LoginTypeOK
    <3>3. \/ login' = [login EXCEPT !.step = "code", !.data = c]
          \/ login' = [login EXCEPT !.step = "error"]
      BY <1>6 DEF DeviceCode
    <3> QED
      BY <3>1, <3>2, <3>3 DEF Steps
  <2>2. starting' \subseteq 1 .. asked'
    BY <1>6 DEF DeviceCode, LoginTypeOK
  <2>3. grant' \in [Code -> {"none", "pending", "approved", "consumed", "dead"}]
    BY <1>6 DEF DeviceCode, LoginTypeOK
  <2> QED
    BY <1>6, <2>1, <2>2, <2>3 DEF DeviceCode, LoginTypeOK
<1>7. ASSUME NEW c \in Code, IntervalFires(c) PROVE LoginTypeOK'
  <2>1. CASE Expired(c)
    BY <1>1, <1>7, <2>1 DEF IntervalFires, LoginTypeOK, Steps
  <2>2. CASE ~Expired(c)
    <3>1. interval' \in [Code -> OFF .. Lifetime]
      <4>1. interval[c] \in 0 .. Lifetime /\ interval[c] # 0
        BY <1>1, <1>7, <2>2 DEF IntervalFires, LoginTypeOK, OFF, Expired
      <4>2. interval[c] - 1 \in OFF .. Lifetime
        BY <1>1, <4>1 DEF OFF
      <4> QED
        BY <1>7, <2>2, <4>1, <4>2 DEF IntervalFires, LoginTypeOK
    <3>2. poll' \subseteq Polls
      BY <1>7, <2>2 DEF IntervalFires, LoginTypeOK
    <3> QED
      BY <1>7, <2>2, <3>1, <3>2 DEF IntervalFires, LoginTypeOK
  <2> QED
    BY <2>1, <2>2
<1>8. ASSUME NEW p \in poll, ServePoll(p) PROVE LoginTypeOK'
  <2>1. PICK at \in {"pending", "success", "error", "failed"} :
          /\ poll' = (poll \ {p}) \cup {[p EXCEPT !.at = at]}
          /\ saved' = IF at = "success" THEN saved \cup {p.code} ELSE saved
          /\ \/ grant' = [grant EXCEPT ![p.code] = "consumed"]
             \/ UNCHANGED grant
    BY <1>8 DEF ServePoll
  <2>2. p \in Polls
    BY DEF LoginTypeOK
  <2>3. [p EXCEPT !.at = at] \in Polls /\ p.code \in Code
    BY <2>2
  <2>4. poll' \subseteq Polls
    BY <2>1, <2>3 DEF LoginTypeOK
  <2> QED
    BY <1>8, <2>1, <2>3, <2>4 DEF ServePoll, LoginTypeOK
<1>9. ASSUME NEW p \in poll, PollAnswered(p) PROVE LoginTypeOK'
  BY <1>1, <1>9 DEF PollAnswered, LoginTypeOK, Steps
<1>10. ASSUME NEW c \in Code, UserDecides(c) PROVE LoginTypeOK'
  BY <1>10 DEF UserDecides, LoginTypeOK
<1>11. CASE UNCHANGED loginVars
  BY <1>11 DEF loginVars, LoginTypeOK
<1> QED
  BY <1>3, <1>4, <1>5, <1>6, <1>7, <1>8, <1>9, <1>10, <1>11 DEF LoginNext

UpstreamInv == TransportInv /\ KiroTypeOK /\ LoginTypeOK /\ QuotaInv

LEMMA UpstreamInitially == UpstreamInit => UpstreamInv
BY TransportInitially, KiroTypedInitially, LoginTypesInitially, QuotaInitially
DEF UpstreamInit, UpstreamInv

LEMMA UpstreamStep == UpstreamInv /\ [UpstreamNext]_upstreamVars => UpstreamInv'
<1> SUFFICES ASSUME UpstreamInv, [UpstreamNext]_upstreamVars PROVE UpstreamInv'
  OBVIOUS
<1>1. /\ [TransportNext]_transportVars /\ [KiroNext]_kiroVars
      /\ [LoginNext]_loginVars /\ [QuotaNext]_quotaVars
  BY DEF UpstreamNext, upstreamVars
<1> QED
  BY <1>1, TransportStep, KiroTypedStep, LoginStep, QuotaStep DEF UpstreamInv

\* Every part keeps to its types whatever the others do, for any number of
\* accounts, transports, calls, tokens, device codes and ticks of the puller.
THEOREM UpstreamTyped == UpstreamSpec => []UpstreamTypeOK
<1>1. UpstreamInv => UpstreamTypeOK
  BY TransportTypes, QuotaTypes DEF UpstreamInv, UpstreamTypeOK
<1> QED
  BY <1>1, UpstreamInitially, UpstreamStep, PTL DEF UpstreamSpec

-----------------------------------------------------------------------------
(* The ladder of one account.                                              *)

\* A verdict has no level, or is the next rung.
Climbs(d, l) == d.level = NoLevel \/ d = Backoff(l)

LEMMA FixedVerdicts ==
  /\ BalanceExhausted.level = NoLevel
  /\ \A ms, source : Cool(ms, source).level = NoLevel
BY DEF BalanceExhausted, Cool

\* There is no way onto a rung but by the ladder.
LEMMA AnyVerdict ==
  ASSUME NEW resp, NEW l
  PROVE  Climbs(CheckFallbackError(resp, l), l)
<1>1. ASSUME resp.errorCode \in DOMAIN ErrorCodeDecision
      PROVE  Climbs(ErrorCodeDecision[resp.errorCode], l)
  BY <1>1, FixedVerdicts DEF ErrorCodeDecision, Climbs
<1>2. ASSUME resp.baseResp \in BaseRespCodes
      PROVE  Climbs(BaseRespDecision(resp.baseResp, l), l)
  <2>1. \/ resp.baseResp \in {1002, 1027} \/ resp.baseResp = 1008 \/ resp.baseResp = 1039
        \/ resp.baseResp = 2013 \/ resp.baseResp = 1004 \/ resp.baseResp = 1001
        \/ resp.baseResp = 1013
    BY <1>2 DEF BaseRespCodes
  <2> QED
    BY <2>1, FixedVerdicts DEF BaseRespDecision, Climbs
<1>3. Climbs(TableDecision(resp, l), l)
  BY FixedVerdicts DEF TableDecision, Climbs
<1>4. CASE resp.status = 429 /\ resp.retryAfter > 0
  BY <1>4, FixedVerdicts DEF CheckFallbackError, Climbs
<1>5. CASE resp.baseResp \in {2056, 2061} /\ resp.windowReset > 0
  BY <1>4, <1>5, FixedVerdicts DEF CheckFallbackError, Climbs
<1> QED
  BY <1>1, <1>2, <1>3, <1>4, <1>5 DEF CheckFallbackError

-----------------------------------------------------------------------------
(* The rungs.                                                              *)

LEMMA RungCost ==
  ASSUME NEW n \in 1 .. BACKOFF_MAX_LEVEL
  PROVE  GetQuotaCooldown(n) = LadderCost(n)
<1>1. CASE n = BACKOFF_MAX_LEVEL
  BY <1>1, LadderAssumption DEF GetQuotaCooldown, LadderCost
<1>2. CASE n < BACKOFF_MAX_LEVEL
  <2>1. n \in 1 .. 7 /\ GetQuotaCooldown(n) = BASE_MS * Doublings[n]
    BY <1>2, LadderAssumption DEF GetQuotaCooldown, Doublings
  <2>2. /\ Doublings[1] = 2^0 /\ Doublings[2] = 2^1 /\ Doublings[3] = 2^2 /\ Doublings[4] = 2^3
        /\ Doublings[5] = 2^4 /\ Doublings[6] = 2^5 /\ Doublings[7] = 2^6
    BY DEF Doublings
  <2>3. Doublings[n] = 2 ^ (n - 1)
    <3>1. CASE n = 1  BY <3>1, <2>2
    <3>2. CASE n = 2  BY <3>2, <2>2
    <3>3. CASE n = 3  BY <3>3, <2>2
    <3>4. CASE n = 4  BY <3>4, <2>2
    <3>5. CASE n = 5  BY <3>5, <2>2
    <3>6. CASE n = 6  BY <3>6, <2>2
    <3>7. CASE n = 7  BY <3>7, <2>2
    <3> QED
      BY <2>1, <3>1, <3>2, <3>3, <3>4, <3>5, <3>6, <3>7
  <2> QED
    BY <1>2, <2>1, <2>3 DEF LadderCost
<1> QED
  BY <1>1, <1>2, LadderAssumption

Rung(n) == IF n < BACKOFF_MAX_LEVEL THEN n ELSE BACKOFF_MAX_LEVEL
LadderInv == streak \in 0 .. StreakBound /\ LadderCountsFailures

LEMMA LadderInitially == Init => LadderInv
BY StreakAssumption, LadderAssumption DEF Init, LadderInv, LadderCountsFailures

\* One step up the ladder.
LEMMA NextRung ==
  ASSUME NEW n \in 0 .. StreakBound
  PROVE  LET d == Backoff(Rung(n))
             m == IF n < StreakBound THEN n + 1 ELSE n
         IN  /\ m \in 0 .. StreakBound /\ m > 0
             /\ d.level = Rung(m) /\ d.level # NoLevel
             /\ d.cooldown = LadderCost(Rung(m))
<1> DEFINE d == Backoff(Rung(n))
           m == IF n < StreakBound THEN n + 1 ELSE n
<1>1. m \in 0 .. StreakBound /\ m > 0
  BY StreakAssumption, LadderAssumption
<1>2. NextLevel(Rung(n)) = Rung(m) /\ Rung(m) \in 1 .. BACKOFF_MAX_LEVEL
  BY StreakAssumption, LadderAssumption DEF NextLevel, Rung
<1>3. d.level = Rung(m) /\ d.cooldown = GetQuotaCooldown(Rung(m))
  BY <1>2 DEF Backoff
<1> QED
  BY <1>1, <1>2, <1>3, RungCost, LadderAssumption DEF NoLevel

LEMMA FailureCounted ==
  ASSUME LadderInv, NEW site \in CallSites, NEW resp \in Responses, Fail(site, resp)
  PROVE  LadderInv'
<1> DEFINE d == Judge(site, resp)
           m == IF streak < StreakBound THEN streak + 1 ELSE streak
<1>1. streak \in 0 .. StreakBound /\ level = Rung(streak)
  BY DEF LadderInv, LadderCountsFailures, Rung
<1>2. Climbs(d, level)
  BY AnyVerdict DEF Judge, SharedHandlerDecision, MinimaxDecision
<1>3. last'.decision = d
  BY DEF Fail, Verdict
<1>4. CASE d.level = NoLevel
  BY <1>1, <1>3, <1>4 DEF Fail, LadderInv, LadderCountsFailures
<1>5. CASE d.level # NoLevel
  <2>1. d = Backoff(Rung(streak))
    BY <1>1, <1>2, <1>5 DEF Climbs
  <2>2. /\ m \in 0 .. StreakBound /\ d.level = Rung(m) /\ d.cooldown = LadderCost(Rung(m))
    BY <1>1, <2>1, NextRung
  <2>3. level' = d.level /\ streak' = m
    BY <1>5 DEF Fail
  <2>4. Rung(m) <= Rung(m)
    BY <2>2, LadderAssumption DEF Rung
  <2> QED
    BY <1>3, <2>2, <2>3, <2>4 DEF LadderInv, LadderCountsFailures, Rung
<1> QED
  BY <1>4, <1>5

LEMMA LadderStep == LadderInv /\ [Next]_vars => LadderInv'
<1> SUFFICES ASSUME LadderInv, [Next]_vars PROVE LadderInv'
  OBVIOUS
<1>1. CASE Succeed
  BY <1>1, StreakAssumption, LadderAssumption DEF Succeed, LadderInv, LadderCountsFailures
<1>2. CASE UNCHANGED vars
  BY <1>2 DEF vars, LadderInv, LadderCountsFailures
<1> QED
  BY <1>1, <1>2, FailureCounted DEF Next

\* The n-th rate-limit failure in a row costs BASE_MS * 2^(n-1), and MAX_MS from
\* the last rung on (getQuotaCooldown), whatever other failures lie between.
THEOREM LadderAlwaysCounts == Spec => []LadderCountsFailures
<1>1. LadderInv => LadderCountsFailures
  BY DEF LadderInv
<1> QED
  BY <1>1, LadderInitially, LadderStep, PTL DEF Spec

-----------------------------------------------------------------------------
(* The codes.                                                              *)

LEMMA CodesDecide == SemanticCodesDecide
<1>1. ASSUME NEW resp, NoOwnWait(resp), resp.errorCode \in DOMAIN ErrorCodeDecision
      PROVE  CheckFallbackError(resp, level) = ErrorCodeDecision[resp.errorCode]
  BY <1>1 DEF NoOwnWait, CheckFallbackError
<1>2. ASSUME NEW resp, NoOwnWait(resp), resp.errorCode \notin DOMAIN ErrorCodeDecision,
             resp.baseResp \in BaseRespCodes
      PROVE  CheckFallbackError(resp, level) = BaseRespDecision(resp.baseResp, level)
  BY <1>2 DEF NoOwnWait, CheckFallbackError
<1> QED
  BY <1>1, <1>2 DEF SemanticCodesDecide, VerdictsOf

\* A semantic code settles the verdict of an answer with no wait of its own,
\* whatever its wording and status (checkFallbackError's order of tests).
THEOREM CodesAlwaysDecide == Spec => []SemanticCodesDecide
BY CodesDecide, PTL
=============================================================================
