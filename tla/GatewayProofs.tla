---------------------------- MODULE GatewayProofs ----------------------------
(***************************************************************************)
(* What a client's request is looked up in, what handles it, and who       *)
(* watches: the names of Registry, the caches of LookupCaches, the         *)
(* handlers of ProviderHandlers, the pages of Dashboard and the console of *)
(* ConsoleStream, for any names, keys, values, limits and requests.        *)
(*                                                                         *)
(* Names: the copy of the aliases is never out of date (Copied), since     *)
(* what writes an alias drops it and DeleteModel, which could take aliases *)
(* along, is refused while there are any; and the target of an alias is a  *)
(* model for the same reason (Leads), and because upsertAlias looks once   *)
(* more, when a PUT comes back from its await.                             *)
(*                                                                         *)
(* Caches: CachesCurrent looks at live entries only.  What it lacks to be  *)
(* inductive is the shape of the entries (one that expires keeps nothing   *)
(* but its value) and that no report is of a version yet to come, which a  *)
(* flush would make current.                                               *)
(*                                                                         *)
(* Handlers: a ban is never longer than the lock of the bare name          *)
(* (LocksHeld), the one name that every handler tests and sets; and what a *)
(* handler delivers is a function of the provider and of what the client   *)
(* wants (HandlersDeliver), which no step of the request changes.          *)
(*                                                                         *)
(* Dashboard: "a page at rest" needs the moments before it (Shown): an     *)
(* answer under way was read late enough or is known to be overtaken, and  *)
(* data that nobody observes is new enough or stale.                       *)
(*                                                                         *)
(* Console: as long as there was one connection, the page, the batch that  *)
(* waits for its frame, the wire and what is still to be replayed are four *)
(* ascending sequences, each of events before those of the next (InOrder); *)
(* and every event is in one of them or known to be missed (ArrivalsInv).  *)
(* The ring holds the last events at places that follow from their number. *)
(*                                                                         *)
(* Types: what these invariants lack of the parts' types is stated beside  *)
(* them (CombosInv, CountsInv, HandlersInv, PagesInv), and with those of   *)
(* the streams and of the bodies they are one invariant of the gateway.    *)
(***************************************************************************)
EXTENDS MCGateway, StreamProofs, RequestBodyProofs, SequenceLemmas, FiniteSetTheorems, TLAPS

-----------------------------------------------------------------------------
(* The names.                                                              *)

\* The target of every alias is a model.
Leads == \A a \in BareName : aliases[a] # NONE => Listed(aliases[a])

\* A copy of the aliases is theirs, however old it is.
Copied ==
  aliasCache \in [map : {aliases}, age : Int] \cup {NONE}

NamesInv ==
  /\ aliases \in [BareName -> RegistryName \cup {NONE}]
  /\ models \in [RegistryName -> Row \cup {NONE}] /\ DOMAIN combos = ComboId
  /\ puts \in [AliasPut -> BareName \cup {NONE}]
  /\ NamesUnambiguous /\ Leads /\ Copied

LEMMA NamesInitially == RegistryInit => NamesInv
BY DEF RegistryInit, NamesInv, NamesUnambiguous, ComboNames, AliasNames, Leads, Copied

\* A combo takes a name that no alias and no other combo has.
LEMMA ComboStep ==
  ASSUME NamesInv, NEW c \in ComboId, NEW name \in BareName, NEW parts,
         combos' = [combos EXCEPT ![c] = [name |-> name, members |-> parts]],
         Free(name, c), name \notin AliasNames \/ (combos[c] # NONE /\ combos[c].name = name),
         UNCHANGED <<models, aliases, aliasCache, puts>>
  PROVE  NamesInv'
<1> DEFINE new == [name |-> name, members |-> parts]
<1>1. /\ DOMAIN combos' = ComboId /\ combos'[c] = new /\ new.name = name
      /\ \A d \in ComboId \ {c} : combos'[d] = combos[d]
  BY DEF NamesInv
<1>2. name \notin AliasNames
  BY DEF NamesInv, NamesUnambiguous, ComboNames
<1>3. AliasNames' = AliasNames /\ ComboNames' \subseteq ComboNames \cup {name}
  BY <1>1 DEF AliasNames, ComboNames
<1> HIDE DEF new
<1>4. ASSUME NEW d \in ComboId, NEW e \in ComboId, combos'[d] # NONE, combos'[e] # NONE,
             combos'[d].name = combos'[e].name
      PROVE  d = e
  BY <1>1, <1>4 DEF NamesInv, NamesUnambiguous, Free
<1>5. NamesUnambiguous'
  BY <1>2, <1>3, <1>4 DEF NamesInv, NamesUnambiguous
<1> QED
  BY <1>1, <1>5 DEF NamesInv, Leads, Listed, Copied

\* Nothing a name could mean is lost.
LEMMA ModelsStep ==
  ASSUME NamesInv, models' \in [RegistryName -> Row \cup {NONE}],
         \A n \in RegistryName : Listed(n) => models'[n] # NONE,
         UNCHANGED <<aliases, combos, aliasCache, puts>>
  PROVE  NamesInv'
BY DEF NamesInv, NamesUnambiguous, ComboNames, AliasNames, Leads, Listed, Copied

\* An alias is written that is no combo's name, with a target that is a model.
LEMMA AliasStep ==
  ASSUME NamesInv, NEW a \in BareName, NEW n \in RegistryName, UpsertAlias(a, n),
         UNCHANGED <<models, combos>>, puts' \in [AliasPut -> BareName \cup {NONE}]
  PROVE  NamesInv'
BY DEF UpsertAlias, NamesInv, NamesUnambiguous, ComboNames, AliasNames, Leads, Listed, Copied

LEMMA NamesStep == NamesInv /\ [RegistryNext]_registryVars => NamesInv'
<1> SUFFICES ASSUME NamesInv, [RegistryNext]_registryVars PROVE NamesInv'
  OBVIOUS
<1>1. ASSUME NEW n \in RegistryName, DeleteModel(n) PROVE NamesInv'
  <2>1. \A a \in BareName : aliases[a] # n
    BY <1>1 DEF DeleteModel, Referenced
  <2>2. aliases' = aliases
    BY <1>1, <2>1 DEF DeleteModel, NamesInv
  <2>3. Leads'
    BY <1>1, <2>1, <2>2 DEF DeleteModel, NamesInv, Leads, Listed
  <2> QED
    BY <1>1, <2>2, <2>3
    DEF DeleteModel, NamesInv, NamesUnambiguous, ComboNames, AliasNames, Copied
<1>2. ASSUME NEW n \in RegistryName, NEW p \in RegistryProvider, PostModel(n, p) PROVE NamesInv'
  BY <1>2, ModelsStep DEF PostModel, NamesInv, Listed, Row
<1>3. ASSUME NEW S \in SUBSET RegistryName, NEW on \in BOOLEAN, ToggleModels(S, on) PROVE NamesInv'
  <2>1. \A n \in RegistryName : Listed(n) => [models[n] EXCEPT !.on = on] \in Row
    BY DEF NamesInv, Listed, Row
  <2> QED
    BY <1>3, <2>1, ModelsStep, NoneAssumption DEF ToggleModels, NamesInv, Listed
<1>4. ASSUME NEW p \in DOMAIN Catalogue, Seed(p) PROVE NamesInv'
  <2>1. ASSUME NEW n \in RegistryName PROVE Upserted(n, p) \in Row
    <3>1. p \in RegistryProvider
      BY RegistryAssumption
    <3> DEFINE on == <<p, n>> \notin SeededOff
    <3>a. on \in BOOLEAN
      OBVIOUS
    <3>b. /\ ~Listed(n) => Upserted(n, p) = [by |-> p, on |-> on]
          /\ Listed(n) => Upserted(n, p) \in {models[n], [models[n] EXCEPT !.on = on]}
      BY Zenon DEF Upserted
    <3> HIDE DEF on
    <3>2. CASE ~Listed(n)
      <4>1. [by |-> p, on |-> on] \in Row
        BY <3>1, <3>a, Zenon DEF Row
      <4> QED
        BY <3>2, <3>b, <4>1, Zenon
    <3>3. CASE Listed(n)
      <4>1. models[n] \in Row
        BY <3>3 DEF NamesInv, Listed
      <4>2. [models[n] EXCEPT !.on = on] \in Row
        BY <3>a, <4>1 DEF Row
      <4> QED
        BY <3>3, <3>b, <4>1, <4>2
    <3> QED
      BY <3>2, <3>3
  <2> QED
    BY <1>4, <2>1, ModelsStep, NoneAssumption DEF Seed, NamesInv, Listed
<1>5. ASSUME NEW a \in BareName, AskAlias(a) PROVE NamesInv'
  BY <1>5 DEF AskAlias, NamesInv, NamesUnambiguous, ComboNames, AliasNames, Leads, Listed, Copied
<1>6. ASSUME NEW a \in BareName, DeleteAlias(a) PROVE NamesInv'
  BY <1>6 DEF DeleteAlias, NamesInv, NamesUnambiguous, ComboNames, AliasNames, Leads, Listed, Copied
<1>7. ASSUME NEW a \in BareName, NEW n \in RegistryName, SetAlias(a, n) PROVE NamesInv'
  BY <1>7, AliasStep DEF SetAlias, NamesInv
<1>8. ASSUME NEW c \in ComboId, DeleteCombo(c) PROVE NamesInv'
  BY <1>8 DEF DeleteCombo, NamesInv, NamesUnambiguous, ComboNames, AliasNames, Leads, Listed, Copied
<1>9. ASSUME NEW c \in ComboId, NEW name \in BareName, NEW parts,
             CreateCombo(c, name, parts) \/ UpdateCombo(c, name, parts)
      PROVE  NamesInv'
  <2>1. /\ combos' = [combos EXCEPT ![c] = [name |-> name, members |-> parts]]
        /\ Free(name, c) /\ UNCHANGED <<models, aliases, aliasCache, puts>>
    BY <1>9 DEF CreateCombo, UpdateCombo
  <2>2. name \notin AliasNames \/ (combos[c] # NONE /\ combos[c].name = name)
    BY <1>9 DEF CreateCombo, UpdateCombo
  <2> QED
    BY <2>1, <2>2, ComboStep
<1>10. CASE RegistryTick
  BY <1>10 DEF RegistryTick, NamesInv, NamesUnambiguous, ComboNames, AliasNames, Leads, Listed, Copied
<1>11. ASSUME UNCHANGED <<models, aliases, combos, aliasCache>>,
              puts' \in [AliasPut -> BareName \cup {NONE}]
       PROVE  NamesInv'
  BY <1>11 DEF NamesInv, NamesUnambiguous, ComboNames, AliasNames, Leads, Listed, Copied
<1>12. ASSUME NEW p \in AliasPut, NEW a \in BareName, PutReads(p, a) PROVE NamesInv'
  BY <1>11, <1>12 DEF PutReads, NamesInv
<1>13. ASSUME NEW p \in AliasPut, PutWrites(p) PROVE NamesInv'
  <2>1. PICK n \in RegistryName : UpsertAlias(puts[p], n)
    BY <1>13 DEF PutWrites
  <2>2. puts[p] \in BareName
    BY <1>13 DEF PutWrites, NamesInv
  <2>3. UNCHANGED <<models, combos>> /\ puts' = [puts EXCEPT ![p] = NONE]
    BY <1>13 DEF PutWrites
  <2>4. puts' \in [AliasPut -> BareName \cup {NONE}]
    BY <2>3 DEF NamesInv
  <2> QED
    BY <2>1, <2>2, <2>3, <2>4, AliasStep
<1>14. ASSUME NEW p \in AliasPut, PutRefused(p) PROVE NamesInv'
  BY <1>11, <1>14 DEF PutRefused, NamesInv
<1>15. CASE UNCHANGED registryVars
  BY <1>11, <1>15 DEF registryVars, NamesInv
<1> QED
  BY <1>1, <1>2, <1>3, <1>4, <1>5, <1>6, <1>7, <1>8, <1>9, <1>10, <1>12, <1>13, <1>14, <1>15
  DEF RegistryNext

\* What the aliases say is what the copy says, and a name leads to a model
\* unless it is an alias of the model of its name.
LEMMA NamesResolve == NamesInv => NamesResolveAsListed
<1> SUFFICES ASSUME NamesInv PROVE NamesResolveAsListed
  OBVIOUS
<1>1. AliasTable = aliases
  BY DEF NamesInv, Copied, AliasTable, Outdated
<1>2. ASSUME NEW a \in BareName, aliases[a] \notin {NONE, OwnName(a)}
      PROVE  ResolveBare(a, aliases) # Unknown
  <2>1. ResolveBare(a, aliases) = Found(aliases[a])
    <3>1. aliases[a] # NONE /\ aliases[a] # OwnName(a) /\ Listed(aliases[a])
      BY <1>2 DEF NamesInv, Leads
    <3>2. AliasTarget(a, aliases) = aliases[a]
      BY <3>1, Zenon DEF AliasTarget
    <3> QED
      BY <3>1, <3>2 DEF ResolveBare
  <2>2. Found(aliases[a]).outcome \in {"served", "disabled"} /\ Unknown.outcome = "unknown"
    BY DEF Found, Unknown
  <2> QED
    BY <2>1, <2>2
<1> QED
  BY <1>1, <1>2 DEF NamesInv, NamesResolveAsListed

-----------------------------------------------------------------------------
(* The caches.                                                             *)

EntryOf(S) == [value : S, expired : BOOLEAN]
Entries ==
  /\ keys \in [ClientKey -> {"none", "on", "off"}]
  /\ keyCache \in [ClientKey -> EntryOf(BOOLEAN) \cup {EMPTY}]
  /\ setting \in SettingValue \cup {EMPTY}
  /\ settingCache \in EntryOf(SettingValue) \cup {EMPTY}
  /\ rows \in Nat /\ cacheVersion \in Nat
  /\ report \in [value : Nat, expired : BOOLEAN, version : 0 .. cacheVersion] \cup {EMPTY}

CachesInv == Entries /\ CachesCurrent

-----------------------------------------------------------------------------
\* What has expired is not asked.
LEMMA ExpiredNotLive ==
  ASSUME NEW S, NEW entry \in EntryOf(S) \cup {EMPTY}
  PROVE  ~Live(Expire(entry)) /\ Expire(entry) \in EntryOf(S) \cup {EMPTY}
BY DEF Live, Expire, EntryOf

LEMMA CachesInitially == CachesInit => CachesInv
<1> SUFFICES ASSUME CachesInit PROVE CachesInv
  OBVIOUS
<1>1. Entries
  BY DEF CachesInit, Entries
<1>2. CachesCurrent
  BY DEF CachesInit, CachesCurrent, KeyAnswer, SettingAnswer, ReportAnswer, ReportLive, Live
<1> QED
  BY <1>1, <1>2 DEF CachesInv

LEMMA CachesStep == CachesInv /\ [CachesNext]_cacheVars => CachesInv'
<1> SUFFICES ASSUME CachesInv, [CachesNext]_cacheVars PROVE CachesInv'
  OBVIOUS
<1> USE DEF CachesInv
<1>1. ASSUME NEW k \in ClientKey, UseKey(k) PROVE CachesInv'
  <2>1. Entry(keys[k] = "on") \in EntryOf(BOOLEAN)
    BY DEF Entry, EntryOf
  <2>2. Entries'
    BY <1>1, <2>1 DEF UseKey, Entries
  <2>3. ASSUME NEW j \in ClientKey PROVE KeyAnswer(j)' <=> keys'[j] = "on"
    BY <1>1 DEF UseKey, Entries, CachesCurrent, KeyAnswer, Live, Entry
  <2> QED
    BY <1>1, <2>2, <2>3
    DEF UseKey, CachesCurrent, SettingAnswer, ReportAnswer, ReportLive, Live
<1>2. ASSUME NEW k \in ClientKey, ChangeKey(k) PROVE CachesInv'
  <2>1. Entries'
    BY <1>2 DEF ChangeKey, ClearKeys, Entries
  <2>2. ASSUME NEW j \in ClientKey PROVE KeyAnswer(j)' <=> keys'[j] = "on"
    BY <1>2 DEF ChangeKey, ClearKeys, KeyAnswer, Live
  <2> QED
    BY <1>2, <2>1, <2>2
    DEF ChangeKey, CachesCurrent, SettingAnswer, ReportAnswer, ReportLive, Live
<1>3. CASE ReadSetting
  <2>1. setting \in SettingValue /\ Entry(setting) \in EntryOf(SettingValue)
    BY <1>3 DEF ReadSetting, Entries, Entry, EntryOf
  <2>2. Entries'
    BY <1>3, <2>1 DEF ReadSetting, Entries
  <2> QED
    BY <1>3, <2>2
    DEF ReadSetting, CachesCurrent, KeyAnswer, SettingAnswer, ReportAnswer, ReportLive, Live, Entry
<1>4. CASE SetSetting
  <2>1. Entries'
    BY <1>4 DEF SetSetting, Entries
  <2> QED
    BY <1>4, <2>1
    DEF SetSetting, CachesCurrent, KeyAnswer, SettingAnswer, ReportAnswer, ReportLive, Live
<1>5. CASE ReadReport
  <2>1. Entries'
    BY <1>5 DEF ReadReport, Entries
  <2> QED
    BY <1>5, <2>1
    DEF ReadReport, CachesCurrent, KeyAnswer, SettingAnswer, ReportAnswer, ReportLive, Live
<1>6. CASE FlushRows
  <2>1. Entries'
    BY <1>6 DEF FlushRows, Entries
  <2>2. ~ReportLive'
    BY <1>6 DEF FlushRows, Entries, ReportLive, Live
  <2> QED
    BY <1>6, <2>1, <2>2
    DEF FlushRows, CachesCurrent, KeyAnswer, SettingAnswer, ReportAnswer, Live
<1>7. CASE CachesTick
  <2>1. Entries'
    <3>1. keyCache' \in [ClientKey -> EntryOf(BOOLEAN) \cup {EMPTY}]
      BY <1>7, ExpiredNotLive DEF CachesTick, Entries
    <3>2. report' \in [value : Nat, expired : BOOLEAN, version : 0 .. cacheVersion] \cup {EMPTY}
      BY <1>7 DEF CachesTick, Entries, Expire
    <3> QED
      BY <1>7, <3>1, <3>2, ExpiredNotLive DEF CachesTick, Entries
  <2>2. ASSUME NEW j \in ClientKey PROVE KeyAnswer(j)' <=> keys'[j] = "on"
    <3>1. ~Live(keyCache'[j])
      BY <1>7, ExpiredNotLive DEF CachesTick, Entries
    <3> QED
      BY <1>7, <3>1 DEF CachesTick, KeyAnswer
  <2>3. ~Live(settingCache')
    BY <1>7, ExpiredNotLive DEF CachesTick, Entries
  <2>4. ~Live(report')
    BY <1>7 DEF CachesTick, Entries, Expire, Live
  <2> QED
    BY <1>7, <2>1, <2>2, <2>3, <2>4
    DEF CachesTick, CachesCurrent, SettingAnswer, ReportAnswer, ReportLive
<1>8. CASE UNCHANGED cacheVars
  BY <1>8 DEF cacheVars, Entries, CachesCurrent, KeyAnswer, SettingAnswer, ReportAnswer, ReportLive, Live
<1> QED
  BY <1>1, <1>2, <1>3, <1>4, <1>5, <1>6, <1>7, <1>8 DEF CachesNext

-----------------------------------------------------------------------------
\* No cache is asked for what a write has made untrue: keys (client-keys.ts),
\* settings (settings.ts) and reports (api/admin/cache.ts) are answered as
\* their tables stand, whatever was read, written, flushed or forgotten before.
THEOREM CachesNeverStale == CachesSpec => []CachesCurrent
<1>1. CachesInit => CachesInv
  BY CachesInitially
<1>2. CachesInv /\ [CachesNext]_cacheVars => CachesInv'
  BY CachesStep
<1>3. CachesInv => CachesCurrent
  BY DEF CachesInv
<1> QED
  BY <1>1, <1>2, <1>3, PTL DEF CachesSpec

\* A bare name is an alias or a combo and never both, and is resolved as the
\* tables stand although the aliases are read from a copy and a PUT writes after
\* an await; an alias leads to a model unless it is the name of its own target,
\* which alias.ts:66 takes for unknown (alias-cache.ts, repos/models.ts,
\* aliases.ts and combos.ts).
THEOREM NamesAlwaysResolve == RegistrySpec => []NamesResolveAsListed
<1>1. RegistryInit => NamesInv
  BY NamesInitially
<1>2. NamesInv /\ [RegistryNext]_registryVars => NamesInv'
  BY NamesStep
<1>3. NamesInv => NamesResolveAsListed
  BY NamesResolve
<1> QED
  BY <1>1, <1>2, <1>3, PTL DEF RegistrySpec

-----------------------------------------------------------------------------
(* The handlers.                                                           *)

\* Every handler locks a model by the bare name.
LocksHeld ==
  /\ plock \in [ModelName -> Nat] /\ banned \in Nat
  /\ banned <= plock["bare"]

RequestFields ==
  {"pc", "format", "stream", "combo", "dirty", "status", "body", "rows", "metered"}
Answered(q) == q.pc \in {"reading", "streaming"}
Supported(q) == provider = "qwencloud" => ~(q.format = "openai" /\ q.stream)
AsWanted(q) ==
  /\ q.body = <<q.format, IF q.stream THEN "sse" ELSE "json">>
  /\ q.metered

\* What is asked for, and what is delivered of the answer.
Served(q) ==
  /\ DOMAIN q = RequestFields /\ q.format \in Format /\ q.stream \in BOOLEAN
  /\ q.pc = "called" \/ Answered(q) => Supported(q)
  /\ Answered(q) /\ ~(provider = "zai" /\ q.format = "anthropic" /\ ~q.stream) => AsWanted(q)
RequestsInv ==
  /\ provider \in Provider /\ DOMAIN preq = HandlerRequest
  /\ \A r \in HandlerRequest : Served(preq[r])

\* A step of one request, that of any handler.
StepOf(r) ==
  \/ AugmentRequest(r) \/ BodyDone(r) \/ StreamDone(r) \/ QwenCloudRefuses(r)
  \/ \E p \in Provider : Reaches(r, p) \/ Succeeds(r, p) \/ Throws(r, p)
  \/ \E p \in Provider : Selects(r, p, "bare") /\ (p = "qwencloud" => ~Unsupported(r))
  \/ \E p \in Provider : Fails(r, p, "bare")
  \/ KiroThrows(r)

\* Outside the namespaced providers the row has the bare name.
LEMMA StepsNamed ==
  HandlersNext => (\E r \in HandlerRequest : StepOf(r)) \/ HandlerAdmin \/ HandlerTick
<1>1. provider \notin Namespaced => RowName = "bare"
  BY DEF RowName
<1>2. \A r, p, name : Selects(r, p, name) \/ Fails(r, p, name) => provider = p
  BY DEF Selects, Fails
<1>3. \A r : CodeBuddyReached(r) \/ CodeBuddySelects(r) \/ CodeBuddyFails(r)
           \/ CodeBuddySucceeds(r) \/ CodeBuddyThrows(r) => StepOf(r)
  BY <1>1, <1>2 DEF StepOf, Namespaced, Provider, Delegated, CodeBuddyReached, CodeBuddySelects,
     CodeBuddyFails, CodeBuddySucceeds, CodeBuddyThrows
<1>4. \A r : PioneerReached(r) \/ PioneerSelects(r) \/ PioneerFails(r)
           \/ PioneerSucceeds(r) \/ PioneerThrows(r) => StepOf(r)
  BY DEF StepOf, Provider, Delegated, PioneerReached, PioneerSelects, PioneerFails,
     PioneerSucceeds, PioneerThrows
<1>5. \A r : TabiReached(r) \/ TabiSelects(r) \/ TabiFails(r)
           \/ TabiSucceeds(r) \/ TabiThrows(r) => StepOf(r)
  BY DEF StepOf, Provider, Delegated, TabiReached, TabiSelects, TabiFails, TabiSucceeds, TabiThrows
<1>6. \A r : ZaiReached(r) \/ ZaiSelects(r) \/ ZaiFails(r)
           \/ ZaiSucceeds(r) \/ ZaiThrows(r) => StepOf(r)
  BY DEF StepOf, Provider, Delegated, ZaiReached, ZaiSelects, ZaiFails, ZaiSucceeds, ZaiThrows
<1>7. \A r : QwenCloudReached(r) \/ QwenCloudRefuses(r) \/ QwenCloudSelects(r)
           \/ QwenCloudFails(r) \/ QwenCloudSucceeds(r) \/ QwenCloudThrows(r) => StepOf(r)
  BY <1>1, <1>2 DEF StepOf, Namespaced, Provider, Delegated, QwenCloudReached, QwenCloudSelects,
     QwenCloudFails, QwenCloudSucceeds, QwenCloudThrows
<1>8. \A r : KiroReached(r) \/ KiroSelects(r) \/ KiroFails(r)
           \/ KiroSucceeds(r) \/ KiroThrows(r) => StepOf(r)
  BY <1>1, <1>2 DEF StepOf, Namespaced, Provider, Delegated, KiroReached, KiroSelects, KiroFails,
     KiroSucceeds
<1>9. \A r : AugmentRequest(r) \/ BodyDone(r) \/ StreamDone(r) => StepOf(r)
  BY DEF StepOf
<1> QED
  BY <1>3, <1>4, <1>5, <1>6, <1>7, <1>8, <1>9 DEF HandlersNext

-----------------------------------------------------------------------------
(* The locks.                                                              *)

LEMMA LocksInitially == HandlersInit => LocksHeld
BY DEF HandlersInit, LocksHeld, ModelName

\* A penalty locks the name that every handler tests.
LEMMA PenaltyKeepsLocks ==
  ASSUME LocksHeld, NEW verdict \in Verdict, Penalises("bare", verdict)
  PROVE  LocksHeld'
<1>1. Cooldown \subseteq Nat
  BY HandlerAssumption DEF Cooldown
<1>2. verdict.cooldown \in Cooldown
  <2>1. 0 \in Cooldown
    BY HandlerAssumption DEF Cooldown
  <2>2. CASE verdict \in [cooldown : Cooldown, balance : {FALSE}]
    BY <2>2
  <2>3. CASE verdict \in [cooldown : {0}, balance : {TRUE}]
    <3>1. verdict.cooldown \in {0}
      BY <2>3
    <3> QED
      BY <2>1, <3>1
  <2> QED
    BY <2>2, <2>3 DEF Verdict
<1>3. verdict.cooldown \in Nat
  BY <1>1, <1>2
<1> QED
  BY <1>3 DEF LocksHeld, Penalises, ModelName

LEMMA LocksKept ==
  ASSUME NEW r \in HandlerRequest, LocksHeld, StepOf(r)
  PROVE  LocksHeld'
<1>1. CASE \E p \in Provider : Fails(r, p, "bare")
  BY <1>1, PenaltyKeepsLocks DEF Fails
<1>2. CASE KiroThrows(r)
  <2>1. RowName = "bare"
    BY <1>2 DEF KiroThrows, RowName, Namespaced
  <2>2. [cooldown |-> 1, balance |-> FALSE] \in Verdict
    BY HandlerAssumption DEF Verdict, Cooldown
  <2> QED
    BY <1>2, <2>1, <2>2, PenaltyKeepsLocks DEF KiroThrows
<1>3. CASE UNCHANGED <<plock, banned>>
  BY <1>3 DEF LocksHeld
<1>4. CASE \E p \in Provider : Selects(r, p, "bare")
  BY <1>4, <1>3 DEF Selects, Refuses
<1>5. CASE \E p \in Provider : Reaches(r, p) \/ Succeeds(r, p) \/ Throws(r, p)
  BY <1>5, <1>3 DEF Reaches, Succeeds, Throws
<1>6. CASE AugmentRequest(r) \/ BodyDone(r) \/ StreamDone(r) \/ QwenCloudRefuses(r)
  BY <1>6, <1>3 DEF AugmentRequest, BodyDone, StreamDone, QwenCloudRefuses
<1> QED
  BY <1>1, <1>2, <1>4, <1>5, <1>6 DEF StepOf

LEMMA LocksStep == LocksHeld /\ [HandlersNext]_handlerVars => LocksHeld'
<1> SUFFICES ASSUME LocksHeld, [HandlersNext]_handlerVars PROVE LocksHeld'
  OBVIOUS
<1>1. CASE HandlerAdmin
  BY <1>1 DEF HandlerAdmin, LocksHeld, ModelName
<1>2. CASE HandlerTick
  BY <1>2 DEF HandlerTick, Less, LocksHeld, ModelName
<1>3. CASE UNCHANGED handlerVars
  BY <1>3 DEF handlerVars, LocksHeld
<1> QED
  BY <1>1, <1>2, <1>3, StepsNamed, LocksKept

\* A call is made only past the lock test.
LEMMA CalledUnlocked ==
  ASSUME LocksHeld, RequestsInv, NEW r \in HandlerRequest, StepOf(r),
         NEW q \in HandlerRequest, preq[q].pc # "called", preq'[q].pc = "called"
  PROVE  banned = 0
<1>1. DOMAIN preq = HandlerRequest /\ DOMAIN preq[q] = RequestFields
  BY DEF RequestsInv, Served
<1>2. ASSUME NEW status, NEW n, Ends(r, status, n) PROVE FALSE
  BY <1>1, <1>2 DEF Ends, NoRequest
<1>3. ~(AugmentRequest(r) \/ BodyDone(r) \/ StreamDone(r) \/ QwenCloudRefuses(r))
  BY <1>1, <1>2 DEF AugmentRequest, BodyDone, StreamDone, QwenCloudRefuses, RequestFields
<1>4. ~KiroThrows(r) /\ \A p \in Provider : ~(Fails(r, p, "bare") \/ Throws(r, p))
  BY <1>2 DEF Fails, Throws, KiroThrows
<1>5. \A p \in Provider : ~Reaches(r, p)
  BY <1>1, ZenonT(40) DEF Reaches, NoRequest
<1>6. \A p \in Provider : ~Succeeds(r, p)
  BY <1>1 DEF Succeeds, RequestFields
<1>7. PICK p \in Provider : Selects(r, p, "bare")
  BY <1>3, <1>4, <1>5, <1>6 DEF StepOf
<1>8. plock["bare"] = 0
  BY <1>2, <1>7 DEF Selects, Refuses
<1> QED
  BY <1>8 DEF LocksHeld

-----------------------------------------------------------------------------
(* The answers.                                                            *)

\* What a healthy upstream answers to a call.
LEMMA HealthyAnswer ==
  ASSUME NEW asked
  PROVE  /\ HealthyBody(asked).wire = asked.wire
         /\ asked.stream => HealthyBody(asked).framing = "sse"
         /\ ~asked.stream => HealthyBody(asked).framing = "json"
         /\ asked.wire # "openai" \/ asked.usage => HealthyBody(asked).usage
<1>1. HealthyBody(asked).usage = (asked.wire # "openai" \/ ~asked.stream \/ asked.usage)
  BY Zenon DEF HealthyBody
<1>2. /\ HealthyBody(asked).wire = asked.wire
      /\ HealthyBody(asked).framing = IF asked.stream THEN "sse" ELSE "json"
  BY DEF HealthyBody
<1> QED
  BY <1>1, <1>2

\* What a handler makes of the answer to its own call.
LEMMA HandlersDeliver ==
  ASSUME provider \in Provider, NEW format \in Format, NEW streams \in BOOLEAN,
         provider = "qwencloud" => ~(format = "openai" /\ streams),
         ~(provider = "zai" /\ format = "anthropic" /\ ~streams)
  PROVE  /\ Delivers(format, streams).body = <<format, IF streams THEN "sse" ELSE "json">>
         /\ Delivers(format, streams).metered
<1> DEFINE asked == Asks(format, streams)
           u == HealthyBody(asked)
<1>1. CASE provider = "pioneer"
  <2>1. asked.wire = "openai" /\ asked.stream /\ asked.usage
    BY <1>1 DEF Asks, PioneerAsks, Asked
  <2>2. u.wire = "openai" /\ u.framing = "sse" /\ u.usage
    BY <2>1, HealthyAnswer
  <2>3. Delivers(format, streams) = PioneerDelivers(u, format, streams)
    BY <1>1 DEF Delivers
  <2> QED
    BY <2>2, <2>3 DEF PioneerDelivers, Aggregated, Bridged, Piped, Delivered, Format
<1>2. CASE provider = "tabi"
  <2>1. asked.wire = "openai" /\ asked.stream /\ asked.usage
    BY <1>2 DEF Asks, TabiAsks, Asked
  <2>2. u.wire = "openai" /\ u.framing = "sse" /\ u.usage
    BY <2>1, HealthyAnswer
  <2>3. Delivers(format, streams) = TabiDelivers(u, format, streams)
    BY <1>2 DEF Delivers
  <2> QED
    BY <2>2, <2>3 DEF TabiDelivers, Aggregated, Bridged, Piped, Delivered, Format
<1>3. CASE provider = "codebuddy"
  <2>1. asked.wire = "openai" /\ asked.stream /\ asked.usage
    BY <1>3 DEF Asks, CodeBuddyAsks, Asked
  <2>2. u.wire = "openai" /\ u.framing = "sse" /\ u.usage
    BY <2>1, HealthyAnswer
  <2>3. Delivers(format, streams) = CodeBuddyDelivers(u, format, streams)
    BY <1>3 DEF Delivers
  <2> QED
    BY <2>2, <2>3 DEF CodeBuddyDelivers, Aggregated, Bridged, Piped, Delivered, Format
<1>4. CASE provider = "zai"
  <2>1. asked.wire = format /\ asked.stream /\ (format = "openai" => asked.usage)
    BY <1>4 DEF Asks, ZaiAsks, Asked
  <2>2. u.wire = format /\ u.framing = "sse" /\ u.usage
    BY <2>1, HealthyAnswer
  <2>3. Delivers(format, streams) = ZaiDelivers(u, format, streams)
    BY <1>4 DEF Delivers
  <2> QED
    BY <1>4, <2>2, <2>3 DEF ZaiDelivers, Aggregated, Piped, Delivered, Format
<1>5. CASE provider = "qwencloud"
  <2>1. asked.wire = "anthropic" /\ asked.stream
    BY <1>5 DEF Asks, QwenCloudAsks, Asked
  <2>2. u.wire = "anthropic" /\ u.framing = "sse" /\ u.usage
    BY <2>1, HealthyAnswer
  <2>3. Delivers(format, streams) = QwenCloudDelivers(u, format, streams)
    BY <1>5 DEF Delivers
  <2> QED
    BY <1>5, <2>2, <2>3 DEF QwenCloudDelivers, Aggregated, Piped, Delivered, Format
<1>6. CASE provider = "kiro"
  <2>1. asked.wire = "events" /\ asked.stream = streams /\ asked.usage
    BY <1>6 DEF Asks, KiroAsks, Asked
  <2>2. u.wire = "events" /\ (streams => u.framing = "sse") /\ (~streams => u.framing = "json") /\ u.usage
    BY <2>1, HealthyAnswer
  <2>3. Delivers(format, streams) = KiroDelivers(u, format, streams)
    BY <1>6 DEF Delivers
  <2> QED
    BY <2>2, <2>3 DEF KiroDelivers, Bridged, ReadJson, Delivered
<1> QED
  BY <1>1, <1>2, <1>3, <1>4, <1>5, <1>6 DEF Provider, Delegated

LEMMA RequestsInitially == HandlersInit => RequestsInv
<1>1. Served(NoRequest)
  BY DEF Served, NoRequest, RequestFields, Format, Answered
<1> QED
  BY <1>1 DEF HandlersInit, RequestsInv

\* A request that starts or ends is in no call.
LEMMA AnotherRequest ==
  ASSUME RequestsInv, provider' = provider, NEW r \in HandlerRequest, NEW q,
         preq' = [preq EXCEPT ![r] = q], Served(q)
  PROVE  RequestsInv'
<1>1. \A s \in HandlerRequest : preq'[s] = IF s = r THEN q ELSE preq[s]
  BY DEF RequestsInv
<1>2. ASSUME NEW s, Served(s) PROVE Served(s)'
  BY <1>2 DEF Served, Supported
<1> QED
  BY <1>1, <1>2 DEF RequestsInv

LEMMA RequestsKept ==
  ASSUME RequestsInv, NEW r \in HandlerRequest, StepOf(r)
  PROVE  RequestsInv'
<1>1. Served(preq[r]) /\ provider \in Provider
  BY DEF RequestsInv
<1>2. ASSUME NEW status, NEW n, Ends(r, status, n), provider' = provider PROVE RequestsInv'
  <2> DEFINE q == [NoRequest EXCEPT !.pc = "done", !.status = status, !.rows = n]
  <2>1. Served(q)
    BY DEF Served, NoRequest, RequestFields, Format, Answered
  <2> QED
    BY <1>2, <2>1, AnotherRequest DEF Ends
<1>3. ASSUME AugmentRequest(r) PROVE RequestsInv'
  <2> DEFINE q == [preq[r] EXCEPT !.pc = "selecting"]
  <2>1. Served(q)
    BY <1>1 DEF Served, RequestFields, Answered
  <2>2. preq' = [preq EXCEPT ![r] = q] /\ provider' = provider
    BY <1>3 DEF AugmentRequest
  <2> QED
    BY <2>1, <2>2, AnotherRequest
<1>4. ASSUME NEW p \in Provider, Reaches(r, p) PROVE RequestsInv'
  <2>1. PICK format \in Format, streams \in BOOLEAN, combo \in BOOLEAN :
          preq' = [preq EXCEPT ![r] =
            [NoRequest EXCEPT !.pc = IF Augments THEN "augmenting" ELSE "selecting",
                              !.format = format, !.stream = streams, !.combo = combo]]
    BY <1>4 DEF Reaches
  <2> DEFINE q == [NoRequest EXCEPT !.pc = IF Augments THEN "augmenting" ELSE "selecting",
                                    !.format = format, !.stream = streams, !.combo = combo]
  <2>2. Served(q)
    BY DEF Served, NoRequest, RequestFields, Answered
  <2>3. provider' = provider
    BY <1>4 DEF Reaches
  <2> QED
    BY <2>1, <2>2, <2>3, AnotherRequest
<1>5. ASSUME NEW p \in Provider, Selects(r, p, "bare"), p = "qwencloud" => ~Unsupported(r)
      PROVE  RequestsInv'
  <2> DEFINE q == [preq[r] EXCEPT !.pc = "called", !.dirty = pacct.dirty]
  <2>1. CASE \E status : Refuses(r, status)
    BY <2>1, <1>2 DEF Refuses
  <2>2. CASE preq' = [preq EXCEPT ![r].pc = "called", ![r].dirty = pacct.dirty] /\ provider' = provider
    <3>1. Supported(preq[r])
      BY <1>5 DEF Supported, Unsupported, Selects
    <3>2. Served(q)
      BY <1>1, <3>1 DEF Served, Supported, RequestFields, Answered
    <3>3. preq' = [preq EXCEPT ![r] = q]
      BY <1>1, <2>2 DEF RequestsInv, Served, RequestFields
    <3> QED
      BY <2>2, <3>2, <3>3, AnotherRequest
  <2> QED
    BY <1>5, <2>1, <2>2 DEF Selects
<1>6. ASSUME NEW p \in Provider, Succeeds(r, p) PROVE RequestsInv'
  <2> DEFINE d == Delivers(preq[r].format, preq[r].stream)
             q == [preq[r] EXCEPT !.pc = IF preq[r].stream THEN "streaming" ELSE "reading",
                                  !.status = IF preq[r].stream THEN 200 ELSE 0,
                                  !.body = d.body, !.metered = d.metered]
  <2>1. preq[r].pc = "called" /\ preq' = [preq EXCEPT ![r] = q] /\ provider' = provider
    BY <1>6, ZenonT(40) DEF Succeeds
  <2>2. Supported(preq[r])
    BY <1>1, <2>1 DEF Served
  <2>3. ~(provider = "zai" /\ preq[r].format = "anthropic" /\ ~preq[r].stream)
        => /\ d.body = <<preq[r].format, IF preq[r].stream THEN "sse" ELSE "json">>
           /\ d.metered
    BY <1>1, <2>2, HandlersDeliver DEF Served, Supported
  <2>4. /\ DOMAIN q = RequestFields /\ q.format = preq[r].format /\ q.stream = preq[r].stream
        /\ q.body = d.body /\ q.metered = d.metered
    BY <1>1 DEF Served, RequestFields
  <2> HIDE DEF q, d
  <2>5. Served(q)
    BY <1>1, <2>2, <2>3, <2>4 DEF Served, Supported, AsWanted
  <2> QED
    BY <2>1, <2>5, AnotherRequest
<1>7. ASSUME NEW p \in Provider, Fails(r, p, "bare") \/ Throws(r, p) PROVE RequestsInv'
  BY <1>2, <1>7 DEF Fails, Throws
<1>8. CASE KiroThrows(r)
  BY <1>2, <1>8 DEF KiroThrows
<1>9. CASE BodyDone(r) \/ StreamDone(r) \/ QwenCloudRefuses(r)
  BY <1>2, <1>9 DEF BodyDone, StreamDone, QwenCloudRefuses
<1> QED
  BY <1>3, <1>4, <1>5, <1>6, <1>7, <1>8, <1>9 DEF StepOf

LEMMA RequestsStep == RequestsInv /\ [HandlersNext]_handlerVars => RequestsInv'
<1> SUFFICES ASSUME RequestsInv, [HandlersNext]_handlerVars PROVE RequestsInv'
  OBVIOUS
<1>1. CASE UNCHANGED <<provider, preq>>
  BY <1>1 DEF RequestsInv, Served, Supported, Answered, AsWanted
<1> QED
  BY <1>1, StepsNamed, RequestsKept DEF HandlerAdmin, HandlerTick, handlerVars

-----------------------------------------------------------------------------
\* No handler calls a model that another call's failure has locked for the
\* account (isModelLocked before the call, handleUpstreamError after it), under
\* whichever name the request, or the combo, knows the model.
THEOREM LocksAlwaysBind == HandlersSpec => LocksBindEveryRoute
<1>1. /\ LocksHeld /\ RequestsInv /\ [HandlersNext]_handlerVars
      => [\A r \in HandlerRequest :
            preq[r].pc # "called" /\ preq'[r].pc = "called" => banned = 0]_handlerVars
  <2> SUFFICES ASSUME LocksHeld, RequestsInv, [HandlersNext]_handlerVars,
                      NEW r \in HandlerRequest, preq[r].pc # "called", preq'[r].pc = "called"
               PROVE  banned = 0
    OBVIOUS
  <2>1. preq' # preq
    OBVIOUS
  <2>2. \E s \in HandlerRequest : StepOf(s)
    BY <2>1, StepsNamed DEF HandlerAdmin, HandlerTick, handlerVars
  <2> QED
    BY <2>2, CalledUnlocked
<1> QED
  BY <1>1, LocksInitially, LocksStep, RequestsInitially, RequestsStep, PTL
  DEF HandlersSpec, LocksBindEveryRoute

\* Each of the six handlers reads what its executor has asked for: a healthy
\* answer reaches the client in its format and framing, and is metered.
THEOREM AnswersDelivered == HandlersSpec => []HealthyAnswersDelivered
<1>1. RequestsInv => HealthyAnswersDelivered
  BY DEF RequestsInv, Served, Answered, AsWanted, KnownMismatch, HealthyAnswersDelivered
<1> QED
  BY <1>1, RequestsInitially, RequestsStep, PTL DEF HandlersSpec

-----------------------------------------------------------------------------
(* The dashboard.                                                          *)


Mutations == UNION {Pages[p].mutates : p \in Page}

Flags == {stale, failed, overtaken} \subseteq BOOLEAN
UnderWay(t) == [on : {TRUE}, read : Nothing .. t]
Saves(t) == [mutation : Mutations, at : Nothing .. t, observer : {"page", "kept", "lost"}]
Typed ==
  /\ Flags
  /\ query \in Query /\ now \in Nat /\ due \in 0 .. now
  /\ cache \in Nothing .. now
  /\ fetch = Idle \/ fetch \in UnderWay(now)
  /\ saving \subseteq Saves(now)

AnswerWillDo == fetch.read = Nothing \/ fetch.read >= due \/ overtaken
VisitWillFetch == fetch.on \/ cache = Nothing \/ stale

Shown ==
  /\ AnswerWillDo
  /\ fetch.on \/ failed \/ overtaken \/ cache >= due \/ (~Observed /\ VisitWillFetch)

DashboardInv == Typed /\ Shown

-----------------------------------------------------------------------------
(* The mutations and the queries that show what they write                 *)

LEMMA Queries ==
  Query = {"accounts", "locks", "transports", "selection", "models", "aliases", "combos", "keys",
           "quota", "failureMode", "settings", "me", "security", "overview", "usage"}
BY DEF Query, Shows

LEMMA PagesAre ==
  Page = {"accounts", "editAccount", "transports", "models", "aliases", "combos", "clientKeys",
          "quota", "settings", "usage", "overview", "login"}
BY DEF Page, Pages

LEMMA MutationsAre ==
  ASSUME NEW m \in Mutations
  PROVE  m \in {CreateAccount, DeviceLogin, AutoImport, NotionLogin, ToggleAccount, EditAccount,
                DeleteAccount, Unlock, Select, DeleteTransports, SaveTransport, SetFailureMode,
                SaveModel, ModelsOfProvider, SaveAlias, SaveCombo, SaveClientKey, PullQuota,
                SaveSettings, ChangePassword, LogIn}
<1>1. PICK p \in Page : m \in Pages[p].mutates
  BY DEF Mutations
<1> QED
  BY <1>1, PagesAre
  DEF Pages, PageOf, AccountsPage, EditAccountPage, TransportsPage, ModelsPage, AliasesPage,
      CombosPage, ClientKeysPage, QuotaPage, SettingsPage, UsagePage, OverviewPage

\* A query that a mutation concerns is invalidated by it, or fetched again.
LEMMA Told ==
  ASSUME NEW s, s.mutation \in Mutations, query \in Query, Concerned(s)
  PROVE  query \in s.mutation.invalidates \/ Refetched(s)
<1> DEFINE m == s.mutation
<1>0. m \in Mutations
  OBVIOUS
<1> USE DEF Concerned, Refetched, Shows, Forgotten, OfAccounts, Seeding, Mutation,
        AccountsRoute, TransportsRoute, ModelsRoute, AliasesRoute, QuotaRoute, MeRoute,
        OverviewRoute, UsageRoute
<1>1. CASE m \in {CreateAccount, DeviceLogin, AutoImport, NotionLogin}
  BY <1>1, Queries DEF CreateAccount, DeviceLogin, AutoImport, NotionLogin
<1>2. CASE m \in {ToggleAccount, EditAccount, DeleteAccount, Select}
  BY <1>2, Queries DEF ToggleAccount, EditAccount, DeleteAccount, Select
<1>6. CASE m = Unlock
  <2>1. query \in {"accounts", "locks"} /\ "accounts" \in m.invalidates
    BY <1>6, Queries DEF Unlock
  <2> QED
    BY <1>6, <2>1
<1>3. CASE m \in {DeleteTransports, SaveTransport, SetFailureMode}
  BY <1>3, Queries DEF DeleteTransports, SaveTransport, SetFailureMode
<1>4. CASE m \in {SaveModel, ModelsOfProvider, SaveAlias, SaveCombo}
  BY <1>4, Queries DEF SaveModel, ModelsOfProvider, SaveAlias, SaveCombo
<1>5. CASE m \in {SaveClientKey, PullQuota, SaveSettings, ChangePassword, LogIn}
  BY <1>5, Queries DEF SaveClientKey, PullQuota, SaveSettings, ChangePassword, LogIn
<1> QED
  BY <1>0, <1>1, <1>2, <1>3, <1>4, <1>5, <1>6, MutationsAre

-----------------------------------------------------------------------------
LEMMA RequestedTyped == now \in Nat => Requested \in UnderWay(now)
BY DEF Requested, Nothing, UnderWay

LEMMA ReadTyped ==
  ASSUME Typed
  PROVE  fetch.read \in Nothing .. now
<1>1. CASE fetch = Idle
  BY <1>1 DEF Typed, Idle, Nothing
<1>2. CASE fetch \in UnderWay(now)
  BY <1>2 DEF UnderWay
<1> QED
  BY <1>1, <1>2 DEF Typed

LEMMA ShownInitially == DashboardInit => DashboardInv
<1> SUFFICES ASSUME DashboardInit PROVE DashboardInv
  OBVIOUS
<1>1. fetch = IF Observed \/ query \in Primed THEN Requested ELSE Idle
  BY DEF DashboardInit
<1>2. Typed
  <2>1. fetch = Idle \/ fetch \in UnderWay(now)
    BY <1>1, RequestedTyped DEF DashboardInit
  <2>2. Flags
    BY Zenon DEF DashboardInit, Flags
  <2>3. query \in Query /\ now = 0 /\ due = 0 /\ cache = -1 /\ saving = {}
    BY DEF DashboardInit, Nothing
  <2> QED
    BY <2>1, <2>2, <2>3 DEF Typed, Nothing
<1>3. Shown
  BY <1>1 DEF DashboardInit, Shown, AnswerWillDo, VisitWillFetch, Requested, Idle, Nothing
<1> QED
  BY <1>2, <1>3 DEF DashboardInv

LEMMA ShownStep == DashboardInv /\ [DashboardNext]_dashboardVars => DashboardInv'
<1> SUFFICES ASSUME DashboardInv, [DashboardNext]_dashboardVars PROVE DashboardInv'
  OBVIOUS
<1> USE DEF DashboardInv, Nothing
<1>a. ASSUME route' = route, query' = query PROVE Observed' <=> Observed
  BY <1>a DEF Observed, ObservedOn
<1>b. ASSUME Fetches, UNCHANGED <<query, cache, now>>, due' \in 0 .. now,
             stale' \in BOOLEAN, saving' \subseteq Saves(now)
      PROVE  DashboardInv'
  <2>1. fetch' = Requested /\ failed' = FALSE /\ overtaken' = FALSE
    BY <1>b DEF Fetches
  <2>2. Flags'
    BY <1>b, <2>1, Zenon DEF Flags
  <2>3. Requested \in UnderWay(now)
    BY RequestedTyped DEF Typed
  <2>4. Typed'
    BY <1>b, <2>1, <2>2, <2>3 DEF Typed
  <2>5. fetch'.on /\ fetch'.read = -1
    BY <2>1 DEF Requested
  <2> QED
    BY <2>4, <2>5 DEF Shown, AnswerWillDo
<1>1. ASSUME NEW p \in Page, Visit(p) PROVE DashboardInv'
  <2>1. UNCHANGED <<query, cache, stale, now, due>> /\ route' = p
    BY <1>1 DEF Visit
  <2>a. saving' \subseteq Saves(now)
    <3>1. saving' \in {saving, LeavesAccounts}
      BY <1>1 DEF Visit
    <3>2. LeavesAccounts \subseteq Saves(now)
      BY DEF LeavesAccounts, Typed, Saves
    <3> QED
      BY <3>1, <3>2 DEF Typed
  <2>2. CASE Fetches
    BY <1>b, <2>1, <2>a, <2>2 DEF Typed, Flags
  <2>3. CASE UNCHANGED <<fetch, failed, overtaken>> /\ ~(ObservedOn(p) /\ ~Observed /\ VisitWillFetch /\ ~fetch.on)
    <3>1. Typed'
      BY <2>1, <2>a, <2>3 DEF Typed, Flags
    <3>2. ObservedOn(p)' <=> ObservedOn(p)
      BY <2>1 DEF ObservedOn
    <3>3. Observed' <=> ObservedOn(p)
      BY <2>1, <3>2 DEF Observed, ObservedOn
    <3>4. Shown'
      BY <2>1, <2>3, <3>3 DEF Shown, AnswerWillDo, VisitWillFetch, Typed
    <3> QED
      BY <3>1, <3>4
  <2> QED
    BY <1>1, <2>2, <2>3 DEF Visit, VisitWillFetch
<1>2. CASE ServerReads
  <2>1. UNCHANGED <<query, cache, stale, failed, now, saving, due, overtaken>>
    BY <1>2 DEF ServerReads
  <2>2. fetch' = [on |-> TRUE, read |-> now]
    BY <1>2 DEF ServerReads, Requested
  <2>3. Typed'
    BY <2>1, <2>2 DEF Typed, Flags, UnderWay
  <2> QED
    BY <2>1, <2>2, <2>3 DEF Typed, Shown, AnswerWillDo
<1>3. CASE AnswerArrives
  <2>1. Typed'
    <3>1. fetch.read \in 0 .. now
      BY <1>3, ReadTyped DEF AnswerArrives, Typed
    <3>2. fetch' = Idle /\ Flags'
      BY <1>3, Zenon DEF AnswerArrives, Typed, Flags
    <3> QED
      BY <1>3, <3>1, <3>2 DEF AnswerArrives, Typed
  <2>2. fetch'.read = -1 /\ cache' = fetch.read /\ due' = due /\ overtaken' = overtaken /\ fetch.read # -1
    BY <1>3 DEF AnswerArrives, Idle
  <2> QED
    BY <2>1, <2>2 DEF Shown, AnswerWillDo
<1>4. CASE FetchFails
  <2>1. Typed'
    <3>1. Flags'
      BY <1>4, Zenon DEF FetchFails, Typed, Flags
    <3> QED
      BY <1>4, <3>1 DEF FetchFails, Typed
  <2>2. fetch'.read = -1 /\ failed'
    BY <1>4 DEF FetchFails, Idle
  <2> QED
    BY <2>1, <2>2 DEF Shown, AnswerWillDo
<1>5. CASE TimePasses
  <2>1. Typed'
    <3>1. Flags' /\ cache' \in {cache, -1}
      BY <1>5, Zenon DEF TimePasses, Typed, Flags
    <3>2. UNCHANGED <<query, fetch, now, saving, due>>
      BY <1>5 DEF TimePasses
    <3> QED
      BY <3>1, <3>2 DEF Typed
  <2>2. UNCHANGED <<fetch, failed, overtaken, due>> /\ (Observed' <=> Observed)
    BY <1>5, <1>a DEF TimePasses
  <2>3. (cache' = cache /\ stale') \/ (~Observed /\ cache' = -1)
    BY <1>5, Zenon DEF TimePasses
  <2> QED
    BY <2>1, <2>2, <2>3 DEF Shown, AnswerWillDo, VisitWillFetch
<1>6. CASE FetchesAgain
  <2>1. Fetches /\ UNCHANGED <<query, cache, now, due, stale, saving>>
    BY <1>6 DEF FetchesAgain
  <2> QED
    BY <1>b, <2>1 DEF Typed, Flags
<1>7. ASSUME NEW m \in Mutations, MutationSent(m) PROVE DashboardInv'
  <2>1. Typed'
    <3>1. [mutation |-> m, at |-> -1, observer |-> "page"] \in Saves(now)
      BY DEF Typed, Saves
    <3>2. UNCHANGED <<query, cache, fetch, stale, failed, now, due, overtaken>>
      BY <1>7 DEF MutationSent
    <3>3. saving' = saving \cup {[mutation |-> m, at |-> -1, observer |-> "page"]}
      BY <1>7 DEF MutationSent
    <3> QED
      BY <3>1, <3>2, <3>3 DEF Typed, Flags
  <2>2. Observed' <=> Observed
    BY <1>7, <1>a DEF MutationSent
  <2> QED
    BY <1>7, <2>1, <2>2 DEF MutationSent, Shown, AnswerWillDo, VisitWillFetch
<1>8. CASE ServerWrites
  <2>1. PICK s \in saving : /\ now' = now + 1
                            /\ saving' = (saving \ {s}) \cup {[s EXCEPT !.at = now']}
    BY <1>8 DEF ServerWrites
  <2>2. [s EXCEPT !.at = now'] \in Saves(now')
    BY <2>1 DEF Typed, Saves
  <2>3. Typed'
    <3>1. UNCHANGED <<query, cache, fetch, stale, failed, due, overtaken>>
      BY <1>8 DEF ServerWrites
    <3>2. now' \in Nat /\ 0 .. now \subseteq 0 .. now' /\ -1 .. now \subseteq -1 .. now'
      BY <2>1 DEF Typed
    <3>3. Saves(now) \subseteq Saves(now') /\ UnderWay(now) \subseteq UnderWay(now')
      BY <3>2 DEF Saves, UnderWay
    <3> QED
      BY <2>1, <2>2, <3>1, <3>2, <3>3 DEF Typed, Flags
  <2>4. Observed' <=> Observed
    BY <1>8, <1>a DEF ServerWrites
  <2> QED
    BY <1>8, <2>3, <2>4 DEF ServerWrites, Shown, AnswerWillDo, VisitWillFetch
<1>9. CASE Acknowledged
  <2>1. PICK s \in saving :
          /\ s.at # -1 /\ saving' = saving \ {s}
          /\ due' = IF Concerned(s) /\ due < s.at THEN s.at ELSE due
          /\ stale' = (stale \/ query \in s.mutation.invalidates)
          /\ IF Replaces(s) THEN Fetches
             ELSE /\ overtaken' = (overtaken \/ (Concerned(s) /\ fetch.read \in 0 .. s.at - 1))
                  /\ UNCHANGED <<fetch, failed>>
          /\ UNCHANGED <<query, route, visits, cache, now>>
    BY <1>9 DEF Acknowledged
  <2>2. s.at \in 0 .. now /\ s.mutation \in Mutations
    BY <2>1 DEF Typed, Saves
  <2>3. Concerned(s) => query \in s.mutation.invalidates \/ Refetched(s)
    BY <2>2, Told DEF Typed
  <2>4. due' \in 0 .. now
    BY <2>1, <2>2 DEF Typed
  <2>5. stale' \in BOOLEAN /\ (query \in s.mutation.invalidates => stale')
    BY <2>1
  <2>6. Observed' <=> Observed
    BY <2>1, <1>a
  <2>7. CASE Replaces(s)
    BY <1>b, <2>1, <2>4, <2>5, <2>7 DEF Typed
  <2>8. CASE ~Replaces(s)
    <3>1. overtaken' \in BOOLEAN /\ UNCHANGED <<fetch, failed>>
      BY <2>1, <2>8
    <3>2. Typed'
      BY <2>1, <2>4, <2>5, <3>1 DEF Typed, Flags
    <3>3. CASE ~Concerned(s)
      BY <2>1, <2>6, <2>8, <3>1, <3>2, <3>3 DEF Shown, AnswerWillDo, VisitWillFetch, Typed
    \* An observed query without a fetch would have been fetched.
    <3>4. CASE Concerned(s)
      <4>1. AnswerWillDo'
        <5>1. s.at \in Nat /\ due \in Nat /\ fetch.read \in Nothing .. now
          BY <2>2, ReadTyped DEF Typed, Nothing
        <5>2. CASE fetch.read \in 0 .. s.at - 1
          <6>1. overtaken'
            BY <2>1, <2>8, <3>4, <5>2
          <6> QED
            BY <6>1 DEF AnswerWillDo
        <5>3. CASE fetch.read \notin 0 .. s.at - 1
          <6>1. fetch.read = Nothing \/ fetch.read >= s.at
            BY <5>1, <5>3 DEF Nothing
          <6>2. due' = IF due < s.at THEN s.at ELSE due
            BY <2>1, <3>4
          <6>3. overtaken => overtaken'
            BY <2>1, <2>8
          <6>4. fetch.read = Nothing \/ fetch.read >= due' \/ overtaken
            BY <5>1, <6>1, <6>2 DEF Shown, AnswerWillDo
          <6> QED
            BY <3>1, <6>3, <6>4 DEF AnswerWillDo
        <5> QED
          BY <5>2, <5>3
      <4>2. fetch.on \/ (~Observed /\ query \in s.mutation.invalidates)
        BY <2>3, <2>8, <3>4 DEF Replaces
      <4> QED
        BY <2>5, <2>6, <3>1, <3>2, <3>4, <4>1, <4>2 DEF Shown, VisitWillFetch
    <3> QED
      BY <3>3, <3>4
  <2> QED
    BY <2>7, <2>8
<1>10. CASE MutationFails
  <2>1. Typed'
    BY <1>10 DEF MutationFails, Typed, Flags
  <2>2. Observed' <=> Observed
    BY <1>10, <1>a DEF MutationFails
  <2> QED
    BY <1>10, <2>1, <2>2 DEF MutationFails, Shown, AnswerWillDo, VisitWillFetch
<1>11. CASE UNCHANGED dashboardVars
  BY <1>11 DEF dashboardVars, Typed, Flags, Shown, AnswerWillDo, VisitWillFetch, Observed, ObservedOn
<1> QED
  BY <1>1, <1>2, <1>3, <1>4, <1>5, <1>6, <1>7, <1>8, <1>9, <1>10, <1>11 DEF DashboardNext, Mutations

-----------------------------------------------------------------------------
\* Whatever the pages write, fetch, leave and are told, in any order, a page at
\* rest shows every write that it was told of and that its queries are brought
\* up to date for (the useQuery and useMutation calls of the pages, and the cache
\* of query-client.ts between them).  What it is told of and does not show is
\* named: the mutations in Forgotten, an unlock acknowledged when the observer
\* of the locks is on another account, an overtaken fetch.
THEOREM PagesShowWhatWasSaved == DashboardSpec => []PageShowsWhatWasSaved
<1>1. DashboardInv => PageShowsWhatWasSaved
  BY DEF DashboardInv, Shown, PageShowsWhatWasSaved
<1> QED
  BY <1>1, ShownInitially, ShownStep, PTL DEF DashboardSpec

-----------------------------------------------------------------------------
(* The console.                                                            *)

Emitted == 1 .. Len(log)
PhaseNames == {"start", "account", "done", "error"}
LogInv ==
  /\ log \in Seq([req : ConsoleRequest, phase : PhaseNames])
  /\ \A i, j \in Emitted :
       log[i].phase = "start" /\ log[j].phase = "start" /\ log[i].req = log[j].req => i = j

\* The slot before the head has the last event, the slots before that the
\* events before it.
RingInv ==
  LET n == Len(log) IN
  /\ ring.head \in 0 .. RingCap - 1 /\ (n < RingCap => ring.head = n)
  /\ ring.size = IF n < RingCap THEN n ELSE RingCap
  /\ DOMAIN ring.buf = 0 .. RingCap - 1
  /\ \A p \in 0 .. RingCap - 1 :
       /\ p < ring.head => ring.buf[p] = n - ring.head + p + 1
       /\ p >= ring.head /\ n >= RingCap => ring.buf[p] = n - ring.head + p + 1 - RingCap

\* Nothing printed is newer than what is buffered, and nothing is newer than it.
StdoutInv ==
  /\ stdout \in [buf : Seq(Emitted), printed : 0 .. Len(log)]
  /\ Len(stdout.buf) <= HighWater
  /\ Ascending(stdout.buf) /\ Below({stdout.printed}, ToSet(stdout.buf))
  /\ IF stdout.buf = <<>> THEN stdout.printed = Len(log) ELSE Last(stdout.buf) = Len(log)

\* An event is on its way to the page, on the page, or missed.
ArrivalsInv ==
  /\ stream \in [Connection -> {"new", "replaying", "subscribed", "abandoned", "closed"}]
  /\ page \in [pending : Seq(Emitted), shown : Seq(Emitted), paused : BOOLEAN, frame : BOOLEAN]
  /\ Len(page.shown) <= MaxEvents
  /\ wire \in Seq(Emitted) /\ replay \in Seq(Emitted) /\ missed \subseteq Emitted
  /\ Emitted \subseteq missed \cup ToSet(page.shown) \cup ToSet(page.pending) \cup ToSet(wire) \cup ToSet(replay)
  /\ page.pending # <<>> => page.frame
  /\ replay # <<>> => Connected

\* Only the first connection has been made, and it replays before it subscribes.
FirstConnection ==
  /\ \A c \in Connection \ {1} : stream[c] = "new"
  /\ stream[1] = "new" =>
       page.shown = <<>> /\ page.pending = <<>> /\ wire = <<>> /\ replay = <<>>
  /\ stream[1] = "subscribed" => replay = <<>>
InOrder ==
  /\ Ascending(page.shown) /\ Ascending(page.pending) /\ Ascending(wire) /\ Ascending(replay)
  /\ Below(ToSet(page.shown), ToSet(page.pending)) /\ Below(ToSet(page.shown), ToSet(wire))
  /\ Below(ToSet(page.shown), ToSet(replay)) /\ Below(ToSet(page.pending), ToSet(wire))
  /\ Below(ToSet(page.pending), ToSet(replay)) /\ Below(ToSet(wire), ToSet(replay))
OrderInv == ~Reconnected => FirstConnection /\ InOrder

ConsoleInv == LogInv /\ RingInv /\ StdoutInv /\ ArrivalsInv /\ OrderInv

-----------------------------------------------------------------------------
LEMMA NewestSuffix ==
  ASSUME NEW D, NEW s \in Seq(D), NEW n \in Nat
  PROVE  /\ Newest(s, n) \in Seq(D)
         /\ Len(Newest(s, n)) = IF Len(s) <= n THEN Len(s) ELSE n
         /\ \A i \in 1 .. Len(Newest(s, n)) :
              /\ Len(s) - Len(Newest(s, n)) + i \in 1 .. Len(s)
              /\ Newest(s, n)[i] = s[Len(s) - Len(Newest(s, n)) + i]
<1>1. CASE Len(s) <= n
  BY <1>1 DEF Newest
<1>2. CASE ~(Len(s) <= n)
  <2> DEFINE m == Len(s) - n + 1
             t == SubSeq(s, m, Len(s))
  <2>1. Newest(s, n) = t
    BY <1>2 DEF Newest
  <2>2. Len(s) \in Nat /\ m \in 1 .. Len(s) + 1 /\ Len(s) \in m - 1 .. Len(s)
    BY <1>2
  <2>3. /\ t \in Seq(D) /\ Len(t) = IF m <= Len(s) THEN Len(s) - m + 1 ELSE 0
        /\ \A i \in 1 .. Len(s) - m + 1 : t[i] = s[m + i - 1]
    BY <2>2, SubSeqProperties
  <2>4. Len(t) = n /\ Len(s) - m + 1 = n
    BY <2>2, <2>3
  <2> HIDE DEF t
  <2>5. \A i \in 1 .. n : m + i - 1 = Len(s) - n + i /\ Len(s) - n + i \in 1 .. Len(s)
    BY <1>2, <2>2
  <2> QED
    BY <1>2, <2>1, <2>3, <2>4, <2>5
<1> QED
  BY <1>1, <1>2

LEMMA MembersNewest ==
  ASSUME NEW D, NEW s \in Seq(D), NEW n \in Nat PROVE ToSet(Newest(s, n)) \subseteq ToSet(s)
<1> DEFINE t == Newest(s, n)
<1>1. /\ t \in Seq(D)
      /\ \A i \in 1 .. Len(t) : Len(s) - Len(t) + i \in 1 .. Len(s) /\ t[i] = s[Len(s) - Len(t) + i]
  BY NewestSuffix, Zenon
<1> HIDE DEF t
<1>2. ToSet(t) = {t[i] : i \in 1 .. Len(t)} /\ ToSet(s) = {s[i] : i \in 1 .. Len(s)}
  BY <1>1, MembersOf
<1>3. ToSet(t) \subseteq ToSet(s)
  BY <1>1, <1>2
<1> QED
  BY <1>3 DEF t

LEMMA AscendingNewest ==
  ASSUME NEW s \in Seq(Int), NEW n \in Nat, Ascending(s) PROVE Ascending(Newest(s, n))
<1> DEFINE t == Newest(s, n)
<1>1. /\ t \in Seq(Int) /\ Len(s) \in Nat
      /\ \A i \in 1 .. Len(t) : Len(s) - Len(t) + i \in 1 .. Len(s) /\ t[i] = s[Len(s) - Len(t) + i]
  BY NewestSuffix
<1> HIDE DEF t
<1>2. ASSUME NEW i \in 1 .. Len(t), NEW j \in 1 .. Len(t), i < j PROVE t[i] < t[j]
  <2>1. Len(s) - Len(t) + i < Len(s) - Len(t) + j
    BY <1>1, <1>2
  <2> QED
    BY <1>1, <2>1 DEF Ascending
<1>3. Ascending(t)
  BY <1>2 DEF Ascending
<1> QED
  BY <1>3 DEF t

LEMMA LastOfNewest ==
  ASSUME NEW D, NEW s \in Seq(D), NEW e \in D, NEW n \in Nat \ {0}
  PROVE  Newest(Append(s, e), n) # <<>> /\ Last(Newest(Append(s, e), n)) = e
<1> DEFINE u == Append(s, e)
           t == Newest(u, n)
<1>1. u \in Seq(D) /\ Len(s) \in Nat /\ Len(u) = Len(s) + 1 /\ u[Len(u)] = e
  BY AppendProperties
<1> HIDE DEF u
<1>2. /\ t \in Seq(D) /\ Len(t) = IF Len(u) <= n THEN Len(u) ELSE n
      /\ \A i \in 1 .. Len(t) : t[i] = u[Len(u) - Len(t) + i]
  <2>1. n \in Nat
    OBVIOUS
  <2> HIDE DEF t
  <2>2. \A k \in Nat : \A v \in Seq(D) :
          /\ Newest(v, k) \in Seq(D) /\ Len(Newest(v, k)) = IF Len(v) <= k THEN Len(v) ELSE k
          /\ \A i \in 1 .. Len(Newest(v, k)) : Newest(v, k)[i] = v[Len(v) - Len(Newest(v, k)) + i]
    BY NewestSuffix, ZenonT(30)
  <2> QED
    BY <1>1, <2>1, <2>2, Zenon DEF t
<1> HIDE DEF t
<1>3. Len(t) \in Nat \ {0} /\ Len(t) \in 1 .. Len(t) /\ Len(u) - Len(t) + Len(t) = Len(u)
  BY <1>1, <1>2
<1>4. t[Len(t)] = e /\ t # <<>>
  BY <1>1, <1>2, <1>3
<1> QED
  BY <1>4 DEF t, u, Last

-----------------------------------------------------------------------------
\* What a step of the bus, the stream or the page leaves of the log.
LEMMA LogStep ==
  ASSUME LogInv, [ConsoleNext]_consoleVars
  PROVE  /\ LogInv'
         /\ \/ UNCHANGED <<log, ring>> /\ \A r, phase : ~Emit(r, phase)
            \/ \E r \in ConsoleRequest, phase \in PhaseNames : Emit(r, phase)
<1>0. CASE UNCHANGED <<log, ring>>
  <2>1. LogInv'
    BY <1>0 DEF LogInv, Emitted
  <2>2. ASSUME NEW r, NEW phase, Emit(r, phase) PROVE FALSE
    <3>1. log' = Append(log, [req |-> r, phase |-> phase]) /\ Len(log) \in Nat
      BY <2>2 DEF Emit, LogInv
    <3>2. Len(log') = Len(log) + 1
      BY <3>1, AppendProperties DEF LogInv
    <3> QED
      BY <1>0, <3>1, <3>2
  <2> QED
    BY <1>0, <2>1, <2>2
<1>1. ASSUME NEW r \in ConsoleRequest, NEW phase \in PhaseNames, Emit(r, phase) PROVE LogInv'
  <2> DEFINE e == [req |-> r, phase |-> phase]
  <2>1. log' = Append(log, e) /\ MayEmit(r, phase)
    BY <1>1 DEF Emit
  <2>2. /\ e \in [req : ConsoleRequest, phase : PhaseNames] /\ e.req = r /\ e.phase = phase
    OBVIOUS
  <2> HIDE DEF e
  <2>3. /\ log' \in Seq([req : ConsoleRequest, phase : PhaseNames])
        /\ Len(log) \in Nat /\ Len(log') = Len(log) + 1 /\ log'[Len(log) + 1] = e
        /\ \A i \in 1 .. Len(log) : log'[i] = log[i]
    BY <2>1, <2>2, AppendProperties DEF LogInv
  <2>4. DOMAIN log = 1 .. Len(log)
    BY DEF LogInv
  <2>5. phase = "start" => \A i \in 1 .. Len(log) : log[i].req # r
    BY <2>1, <2>4 DEF MayEmit, Phases
  <2>6. ASSUME NEW i \in 1 .. Len(log) + 1, NEW j \in 1 .. Len(log) + 1,
               log'[i].phase = "start", log'[j].phase = "start", log'[i].req = log'[j].req
        PROVE  i = j
    <3>1. (i \in 1 .. Len(log) \/ i = Len(log) + 1) /\ (j \in 1 .. Len(log) \/ j = Len(log) + 1)
      BY <2>3
    <3> QED
      BY <2>2, <2>3, <2>5, <2>6, <3>1 DEF LogInv, Emitted
  <2> QED
    BY <2>3, <2>6 DEF LogInv, Emitted
<1> QED
  BY <1>0, <1>1
  DEF ConsoleNext, consoleVars, Prints, StreamOpens, Opens, ReplayWrites, Subscribe, ConnectionBreaks,
      MessageArrives, FrameFlushes, PauseOrClear, PhaseNames

LEMMA LogGrows ==
  ASSUME LogInv, NEW r, NEW phase, Emit(r, phase)
  PROVE  Len(log) \in Nat /\ Len(log') = Len(log) + 1 /\ Emitted' = Emitted \cup {Len(log) + 1}
<1>1. log' = Append(log, [req |-> r, phase |-> phase])
  BY DEF Emit
<1>2. Len(log) \in Nat /\ Len(log') = Len(log) + 1
  <2>1. log \in Seq(ToSet(log) \cup {[req |-> r, phase |-> phase]})
    <3>1. log \in Seq(ToSet(log))
      BY MembersOf DEF LogInv, ToSet
    <3> QED
      BY <3>1, SeqMonotonic
  <2> QED
    BY <1>1, <2>1, AppendProperties
<1> QED
  BY <1>2 DEF Emitted

-----------------------------------------------------------------------------
(* The ring.                                                               *)

LEMMA Wraps ==
  ASSUME NEW x \in Nat, x < 2 * RingCap PROVE x % RingCap = IF x < RingCap THEN x ELSE x - RingCap
<1>1. CASE x < RingCap
  BY <1>1, ConsoleAssumption
<1>2. CASE ~(x < RingCap)
  BY <1>2, ConsoleAssumption
<1> QED
  BY <1>1, <1>2

LEMMA RingStep == LogInv /\ RingInv /\ [ConsoleNext]_consoleVars => RingInv'
<1> SUFFICES ASSUME LogInv, RingInv, [ConsoleNext]_consoleVars PROVE RingInv'
  OBVIOUS
<1>1. CASE UNCHANGED <<log, ring>>
  BY <1>1 DEF RingInv
<1>2. ASSUME NEW r, NEW phase, Emit(r, phase) PROVE RingInv'
  <2> DEFINE n == Len(log)
             h == ring.head
             g == IF h + 1 = RingCap THEN 0 ELSE h + 1
  <2>1. n \in Nat /\ Len(log') = n + 1 /\ RingCap \in Nat \ {0} /\ h \in 0 .. RingCap - 1
    BY <1>2, LogGrows, ConsoleAssumption DEF RingInv
  <2>2. (h + 1) % RingCap = g
    <3> DEFINE x == h + 1
    <3>1. x \in Nat /\ x < 2 * RingCap /\ (x < RingCap <=> x # RingCap) /\ x <= RingCap
      BY <2>1
    <3> HIDE DEF x
    <3>2. x % RingCap = IF x < RingCap THEN x ELSE x - RingCap
      BY <3>1, Wraps
    <3>3. x % RingCap = IF x = RingCap THEN 0 ELSE x
      BY <2>1, <3>1, <3>2
    <3> QED
      BY <3>3 DEF x
  <2>3. /\ ring'.buf = [ring.buf EXCEPT ![h] = n + 1] /\ ring'.head = g
        /\ ring'.size = IF ring.size < RingCap THEN ring.size + 1 ELSE ring.size
    BY <1>2, <2>2 DEF Emit, Stored
  <2>4. /\ DOMAIN ring'.buf = 0 .. RingCap - 1
        /\ \A p \in 0 .. RingCap - 1 : ring'.buf[p] = IF p = h THEN n + 1 ELSE ring.buf[p]
    BY <2>1, <2>3 DEF RingInv
  <2>5. /\ n < RingCap => h = n
        /\ ring.size = IF n < RingCap THEN n ELSE RingCap
        /\ \A p \in 0 .. RingCap - 1 :
             /\ p < h => ring.buf[p] = n - h + p + 1
             /\ p >= h /\ n >= RingCap => ring.buf[p] = n - h + p + 1 - RingCap
    BY DEF RingInv
  <2>6. ring'.head \in 0 .. RingCap - 1 /\ (n + 1 < RingCap => ring'.head = n + 1)
    BY <2>1, <2>3, <2>5
  <2>7. ring'.size = IF n + 1 < RingCap THEN n + 1 ELSE RingCap
    BY <2>1, <2>3, <2>5
  <2>8. ASSUME NEW p \in 0 .. RingCap - 1
        PROVE  /\ p < g => ring'.buf[p] = n + 1 - g + p + 1
               /\ p >= g /\ n + 1 >= RingCap => ring'.buf[p] = n + 1 - g + p + 1 - RingCap
    <3> DEFINE b == ring.buf[p]
               c == ring'.buf[p]
    <3>0. /\ c = IF p = h THEN n + 1 ELSE b
          /\ p < h => b = n - h + p + 1
          /\ p >= h /\ n >= RingCap => b = n - h + p + 1 - RingCap
          /\ n < RingCap => h = n
      BY <2>4, <2>5
    <3> HIDE DEF b, c, n, h
    <3>1. p \in Int /\ p >= 0 /\ p <= RingCap - 1
      BY <2>1
    <3>2. /\ p < g => c = n + 1 - g + p + 1
          /\ p >= g /\ n + 1 >= RingCap => c = n + 1 - g + p + 1 - RingCap
      <4>1. CASE p = h
        BY <2>1, <3>0, <3>1, <4>1
      <4>2. CASE p < h
        BY <2>1, <3>0, <3>1, <4>2
      <4>3. CASE p > h
        <5>1. g = h + 1 /\ p >= g /\ p >= h
          BY <2>1, <3>1, <4>3
        <5>2. n >= RingCap \/ (n < RingCap /\ n + 1 <= RingCap - 1)
          BY <2>1, <3>0, <3>1, <4>3
        <5> HIDE DEF g
        <5>3. CASE n >= RingCap
          <6>1. c = n - h + p + 1 - RingCap
            BY <3>0, <4>3, <5>1, <5>3, <3>1, <2>1
          <6> QED
            BY <2>1, <3>1, <4>3, <5>1, <5>3, <6>1
        <5>4. CASE n < RingCap /\ n + 1 <= RingCap - 1
          BY <2>1, <3>1, <4>3, <5>1, <5>4
        <5> QED
          BY <5>2, <5>3, <5>4
      <4> QED
        BY <2>1, <3>1, <4>1, <4>2, <4>3
    <3> QED
      BY <3>2 DEF c
  <2>9. Len(log') = n + 1 /\ ring'.head = g
    BY <2>1, <2>3
  <2> HIDE DEF n, h, g
  <2> DEFINE k == Len(log')
             f == ring'.head
  <2>10. /\ f \in 0 .. RingCap - 1 /\ (k < RingCap => f = k)
         /\ ring'.size = IF k < RingCap THEN k ELSE RingCap
    BY <2>6, <2>7, <2>9
  <2>11. ASSUME NEW p \in 0 .. RingCap - 1
         PROVE  /\ p < f => ring'.buf[p] = k - f + p + 1
                /\ p >= f /\ k >= RingCap => ring'.buf[p] = k - f + p + 1 - RingCap
    <3>1. k \in Int /\ f \in Int /\ p \in Int /\ n \in Int /\ g \in Int
      BY <2>1, <2>6, <2>9
    <3> QED
      BY <2>1, <2>8, <2>9, <3>1
  <2> QED
    BY <2>4, <2>10, <2>11, Zenon DEF RingInv
<1> QED
  BY <1>1, <1>2, LogStep

LEMMA RecentEvents ==
  ASSUME LogInv, RingInv
  PROVE  /\ Recent = [i \in 1 .. ring.size |-> Len(log) - ring.size + i]
         /\ ring.size \in Nat /\ ring.size <= Len(log)
<1> DEFINE n == Len(log)
           h == ring.head
           start == IF ring.size < RingCap THEN (h - ring.size + RingCap) % RingCap ELSE h
<1>1. n \in Nat /\ RingCap \in Nat \ {0} /\ h \in 0 .. RingCap - 1
  BY ConsoleAssumption DEF LogInv, RingInv
<1>2. /\ n < RingCap => h = n
      /\ ring.size = IF n < RingCap THEN n ELSE RingCap
      /\ \A p \in 0 .. RingCap - 1 :
           /\ p < h => ring.buf[p] = n - h + p + 1
           /\ p >= h /\ n >= RingCap => ring.buf[p] = n - h + p + 1 - RingCap
  BY DEF RingInv
<1>3. Recent = [i \in 1 .. ring.size |-> ring.buf[(start + i - 1) % RingCap]]
  BY DEF Recent
<1>4. start = IF n < RingCap THEN 0 ELSE h
  <2>1. CASE n < RingCap
    <3>1. h - ring.size + RingCap = RingCap /\ ring.size < RingCap
      BY <1>1, <1>2, <2>1
    <3>2. RingCap % RingCap = 0
      BY <1>1
    <3> QED
      BY <2>1, <3>1, <3>2
  <2>2. CASE ~(n < RingCap)
    BY <1>1, <1>2, <2>2
  <2> QED
    BY <2>1, <2>2
<1> HIDE DEF start
<1>5. ASSUME NEW i \in 1 .. ring.size
      PROVE  ring.buf[(start + i - 1) % RingCap] = n - ring.size + i
  <2> DEFINE x == start + i - 1
  <2>1. x \in Nat /\ x < 2 * RingCap /\ i \in Nat /\ i >= 1 /\ i <= RingCap
    BY <1>1, <1>2, <1>4
  <2>2. x % RingCap = IF x < RingCap THEN x ELSE x - RingCap
    BY <2>1, Wraps
  <2>3. CASE n < RingCap
    <3>1. x = i - 1 /\ x < h /\ x \in 0 .. RingCap - 1 /\ h = n /\ ring.size = n /\ x < RingCap
      BY <1>1, <1>2, <1>4, <2>3
    <3>2. ring.buf[x] = n - h + x + 1
      BY <1>2, <3>1
    <3>3. x % RingCap = x
      BY <2>2, <3>1
    <3> HIDE DEF n, h
    <3> QED
      BY <1>1, <2>1, <3>1, <3>2, <3>3
  <2>4. CASE ~(n < RingCap)
    <3>1. x = h + i - 1 /\ ring.size = RingCap
      BY <1>1, <1>2, <1>4, <2>4
    <3>2. CASE x < RingCap
      <4>1. x \in 0 .. RingCap - 1 /\ x >= h /\ n >= RingCap
        BY <1>1, <2>1, <2>4, <3>1, <3>2
      <4> HIDE DEF x
      <4>2. ring.buf[x] = n - h + x + 1 - RingCap
        BY <1>2, <4>1
      <4>3. x % RingCap = x
        BY <2>2, <3>2
      <4> HIDE DEF n, h
      <4>4. n - h + x + 1 - RingCap = n - RingCap + i
        BY <1>1, <2>1, <3>1
      <4> QED
        BY <3>1, <4>2, <4>3, <4>4 DEF x
    <3>3. CASE ~(x < RingCap)
      <4>1. x - RingCap \in 0 .. RingCap - 1 /\ x - RingCap < h
        BY <1>1, <2>1, <3>1, <3>3
      <4> HIDE DEF x
      <4>2. ring.buf[x - RingCap] = n - h + (x - RingCap) + 1
        BY <1>2, <4>1
      <4>3. x % RingCap = x - RingCap
        BY <2>2, <3>3
      <4> HIDE DEF n, h
      <4>4. n - h + (x - RingCap) + 1 = n - RingCap + i
        BY <1>1, <2>1, <3>1
      <4> QED
        BY <3>1, <4>2, <4>3, <4>4 DEF x
    <3> QED
      BY <3>2, <3>3
  <2> QED
    BY <2>3, <2>4
<1>6. ring.size \in Nat /\ ring.size <= n
  BY <1>1, <1>2
<1> QED
  BY <1>3, <1>5, <1>6

LEMMA RecentIsNewest ==
  ASSUME LogInv, RingInv
  PROVE  /\ Recent = Newest([k \in DOMAIN log |-> k], RingCap)
         /\ Recent \in Seq(Emitted) /\ Ascending(Recent)
<1> DEFINE n == Len(log)
           s == [k \in 1 .. n |-> k]
           t == Newest(s, RingCap)
           m == ring.size
<1>1. n \in Nat /\ RingCap \in Nat \ {0} /\ DOMAIN log = 1 .. n
  BY ConsoleAssumption DEF LogInv
<1>2. s \in Seq(Emitted) /\ Len(s) = n
  BY <1>1 DEF Emitted
<1>3. m = IF n < RingCap THEN n ELSE RingCap
  BY DEF RingInv
<1>4. Recent = [i \in 1 .. m |-> n - m + i] /\ m \in Nat /\ m <= n
  BY RecentEvents
<1>5. /\ t \in Seq(Emitted) /\ Len(t) = m
      /\ \A i \in 1 .. m : n - m + i \in 1 .. n /\ t[i] = s[n - m + i]
  <2> HIDE DEF s
  <2>1. /\ t \in Seq(Emitted) /\ Len(t) = IF n <= RingCap THEN n ELSE RingCap
        /\ \A i \in 1 .. Len(t) : n - Len(t) + i \in 1 .. n /\ t[i] = s[n - Len(t) + i]
    BY <1>1, <1>2, NewestSuffix
  <2>2. Len(t) = m
    BY <1>1, <1>3, <2>1
  <2> QED
    BY <2>1, <2>2
<1>6. \A i \in 1 .. m : t[i] = n - m + i
  BY <1>5
<1>7. Recent \in Seq(Emitted) /\ Len(Recent) = m
  <2>1. \A i \in 1 .. m : n - m + i \in Emitted
    BY <1>1, <1>4 DEF Emitted
  <2> QED
    BY <1>4, <2>1
<1> HIDE DEF t
<1>8. Recent = t
  BY <1>4, <1>5, <1>6, <1>7, SeqEqual
<1>9. Ascending(Recent)
  BY <1>1, <1>4, <1>7 DEF Ascending
<1> QED
  BY <1>1, <1>7, <1>8, <1>9 DEF t

-----------------------------------------------------------------------------
(* What is printed, and what reaches the page.                             *)

LEMMA EventsAre ==
  ASSUME NEW s \in Seq(Emitted), LogInv
  PROVE  /\ s \in Seq(Int) /\ ToSet(s) \subseteq Emitted
         /\ (s = <<>> <=> ToSet(s) = {}) /\ Below(ToSet(s), {Len(log) + 1})
<1>1. Emitted \subseteq Int /\ \A e \in Emitted : e < Len(log) + 1
  BY DEF LogInv, Emitted
<1>2. s \in Seq(Int) /\ ToSet(s) \subseteq Emitted /\ (s = <<>> <=> ToSet(s) = {})
  BY <1>1, MembersOf, SeqMonotonic
<1> QED
  BY <1>1, <1>2 DEF Below

LEMMA StdoutStep == LogInv /\ StdoutInv /\ [ConsoleNext]_consoleVars => StdoutInv'
<1> SUFFICES ASSUME LogInv, StdoutInv, [ConsoleNext]_consoleVars PROVE StdoutInv'
  OBVIOUS
<1>0. Len(log) \in Nat
  BY DEF LogInv
<1>1. CASE UNCHANGED <<log, stdout>>
  BY <1>1 DEF StdoutInv, Emitted
<1>2. ASSUME NEW r, NEW phase, Emit(r, phase) PROVE StdoutInv'
  <2> DEFINE e == Len(log) + 1
             b == stdout.buf
             kept == Newest(Append(b, e), HighWater)
  <2>1. Len(log') = e /\ Emitted' = Emitted \cup {e} /\ e \in Emitted' /\ e \in Int /\ HighWater \in Nat \ {0}
    BY <1>2, LogGrows, ConsoleAssumption
  <2>2. stdout' = [buf |-> kept, printed |-> stdout.printed]
    BY <1>2 DEF Emit, StdoutInv
  <2>3. /\ b \in Seq(Emitted) /\ Ascending(b) /\ Below({stdout.printed}, ToSet(b))
        /\ stdout.printed \in 0 .. Len(log)
    BY DEF StdoutInv
  <2>4. b \in Seq(Int) /\ b \in Seq(Emitted') /\ Below(ToSet(b), {e})
    <3> HIDE DEF b
    <3>1. b \in Seq(Int) /\ Below(ToSet(b), {Len(log) + 1})
      BY <2>3, EventsAre
    <3>2. Emitted \subseteq Emitted'
      BY <2>1
    <3>3. b \in Seq(Emitted')
      BY <2>3, <3>2, SeqMonotonic
    <3> QED
      BY <3>1, <3>3
  <2> HIDE DEF b
  <2>5. /\ Append(b, e) \in Seq(Emitted') /\ Append(b, e) \in Seq(Int)
        /\ Ascending(Append(b, e)) /\ ToSet(Append(b, e)) = ToSet(b) \cup {e}
    BY <2>1, <2>3, <2>4, AppendProperties, AscendingAppend, MembersAppend
  <2>6. kept # <<>> /\ Last(kept) = e
    BY <2>1, <2>4, LastOfNewest
  <2>7. HighWater \in Nat
    BY <2>1
  <2>8. kept \in Seq(Emitted') /\ Ascending(kept) /\ ToSet(kept) \subseteq ToSet(b) \cup {e}
    BY <2>5, <2>7, NewestSuffix, AscendingNewest, MembersNewest
  <2>9. Len(kept) <= HighWater
    <3>1. Len(kept) = IF Len(Append(b, e)) <= HighWater THEN Len(Append(b, e)) ELSE HighWater
      BY <2>5, <2>7, NewestSuffix
    <3> QED
      BY <2>7, <3>1
  <2>10. Below({stdout.printed}, ToSet(kept))
    <3>1. stdout.printed < e
      BY <1>0, <2>3
    <3> QED
      BY <2>3, <2>8, <3>1 DEF Below
  <2> HIDE DEF kept
  <2>11. stdout.printed \in 0 .. Len(log')
    BY <1>0, <2>1, <2>3
  <2> QED
    BY <2>1, <2>2, <2>6, <2>8, <2>9, <2>10, <2>11 DEF StdoutInv
<1>3. CASE Prints
  <2>1. stdout' = [buf |-> <<>>, printed |-> Len(log)] /\ UNCHANGED log
    BY <1>3 DEF Prints, StdoutInv
  <2>2. <<>> \in Seq(Emitted) /\ Len(<<>>) = 0 /\ ToSet(<<>>) = {} /\ Len(log) \in 0 .. Len(log)
    BY <1>0, EmptySeq DEF ToSet
  <2>3. Ascending(<<>>) /\ Below({Len(log)}, {})
    BY <2>2 DEF Ascending, Below
  <2> QED
    <3>1. 0 <= HighWater /\ UNCHANGED Emitted
      BY <2>1, ConsoleAssumption DEF Emitted
    <3> QED
      BY <2>1, <2>2, <2>3, <3>1 DEF StdoutInv
<1> QED
  BY <1>1, <1>2, <1>3
  DEF ConsoleNext, consoleVars, StreamOpens, Opens, ReplayWrites, Subscribe, ConnectionBreaks,
      MessageArrives, FrameFlushes, PauseOrClear

LEMMA ArrivalsStep == LogInv /\ RingInv /\ ArrivalsInv /\ [ConsoleNext]_consoleVars => ArrivalsInv'
<1> SUFFICES ASSUME LogInv, RingInv, ArrivalsInv, [ConsoleNext]_consoleVars PROVE ArrivalsInv'
  OBVIOUS
<1> DEFINE PageStates == [pending : Seq(Emitted), shown : Seq(Emitted), paused : BOOLEAN, frame : BOOLEAN]
<1>0. /\ page \in PageStates /\ <<>> \in Seq(Emitted) /\ ToSet(<<>>) = {} /\ Len(<<>>) <= MaxEvents
      /\ MaxEvents \in Nat
  BY ConsoleAssumption, EmptySeq DEF ArrivalsInv, ToSet
<1>1. ASSUME NEW r, NEW phase, Emit(r, phase) PROVE ArrivalsInv'
  <2> DEFINE e == Len(log) + 1
  <2>1. Emitted' = Emitted \cup {e} /\ e \in Emitted'
    BY <1>1, LogGrows
  <2>2. /\ \A s \in Seq(Emitted) : s \in Seq(Emitted')
        /\ page \in [pending : Seq(Emitted'), shown : Seq(Emitted'), paused : BOOLEAN, frame : BOOLEAN]
    <3>1. Seq(Emitted) \subseteq Seq(Emitted')
      BY <2>1, SeqMonotonic
    <3> QED
      BY <1>0, <3>1
  <2>3. wire \in Seq(Emitted') /\ replay \in Seq(Emitted')
    BY <2>2 DEF ArrivalsInv
  <2>4. Append(wire, e) \in Seq(Emitted') /\ ToSet(Append(wire, e)) = ToSet(wire) \cup {e}
    BY <2>1, <2>3, AppendProperties, MembersAppend
  <2>5. \/ wire' = Append(wire, e) /\ missed' = missed
        \/ wire' = wire /\ missed' = missed \cup {e}
    BY <1>1 DEF Emit
  <2>6. UNCHANGED <<stream, replay, page>>
    BY <1>1 DEF Emit
  <2> HIDE DEF e
  <2> QED
    BY <2>1, <2>2, <2>3, <2>4, <2>5, <2>6 DEF ArrivalsInv, Connected
<1>2. ASSUME NEW c \in Connection, StreamOpens(c) PROVE ArrivalsInv'
  <2>1. Recent \in Seq(Emitted) /\ ToSet(Recent) \subseteq Emitted
    BY RecentIsNewest, EventsAre
  <2>2. replay = <<>>
    BY <1>2 DEF StreamOpens, Opens, ArrivalsInv
  <2>3. stream'[c] = "replaying"
    BY <1>2 DEF StreamOpens, Opens, ArrivalsInv
  <2> QED
    BY <1>0, <1>2, <2>1, <2>2, <2>3 DEF StreamOpens, Opens, ArrivalsInv, Emitted, Connected
<1>3. ASSUME NEW c \in Connection, ReplayWrites(c) PROVE ArrivalsInv'
  <2> DEFINE x == Head(replay)
  <2>1. replay # <<>> /\ wire' = Append(wire, x) /\ replay' = Tail(replay)
        /\ UNCHANGED <<log, stream, page, missed>>
    BY <1>3 DEF ReplayWrites
  <2>2. x \in Emitted /\ Tail(replay) \in Seq(Emitted) /\ ToSet(replay) = {x} \cup ToSet(Tail(replay))
    BY <2>1, HeadTailProperties, MembersTail DEF ArrivalsInv
  <2>3. Append(wire, x) \in Seq(Emitted) /\ ToSet(Append(wire, x)) = ToSet(wire) \cup {x}
    BY <2>2, AppendProperties, MembersAppend DEF ArrivalsInv
  <2>4. Connected'
    BY <1>3, <2>1 DEF ReplayWrites, Connected
  <2> HIDE DEF x
  <2> QED
    BY <2>1, <2>2, <2>3, <2>4 DEF ArrivalsInv, Emitted
<1>4. ASSUME NEW c \in Connection, Subscribe(c) PROVE ArrivalsInv'
  BY <1>4 DEF Subscribe, ArrivalsInv, Emitted
<1>5. ASSUME NEW c \in Connection, ConnectionBreaks(c) PROVE ArrivalsInv'
  <2>1. ToSet(wire) \subseteq Emitted /\ ToSet(replay) \subseteq Emitted
    BY EventsAre DEF ArrivalsInv
  <2> QED
    BY <1>0, <1>5, <2>1 DEF ConnectionBreaks, ArrivalsInv, Emitted
<1>6. CASE MessageArrives
  <2> DEFINE x == Head(wire)
  <2>1. wire # <<>> /\ wire' = Tail(wire) /\ UNCHANGED <<log, stream, replay>>
    BY <1>6 DEF MessageArrives
  <2>2. x \in Emitted /\ Tail(wire) \in Seq(Emitted) /\ ToSet(wire) = {x} \cup ToSet(Tail(wire))
    BY <2>1, HeadTailProperties, MembersTail DEF ArrivalsInv
  <2>3. CASE missed' = missed \cup {x} /\ page' = page
    BY <2>1, <2>2, <2>3 DEF ArrivalsInv, Emitted, Connected
  <2>4. CASE missed' = missed /\ page' = [page EXCEPT !.pending = Append(@, x), !.frame = TRUE]
    <3>1. /\ Append(page.pending, x) \in Seq(Emitted)
          /\ ToSet(Append(page.pending, x)) = ToSet(page.pending) \cup {x}
      BY <1>0, <2>2, AppendProperties, MembersAppend
    <3>2. /\ page' \in PageStates /\ page'.pending = Append(page.pending, x) /\ page'.frame
          /\ page'.shown = page.shown
      BY <1>0, <2>4, <3>1
    <3> HIDE DEF x
    <3> QED
      BY <2>1, <2>2, <2>4, <3>1, <3>2 DEF ArrivalsInv, Emitted, Connected
  <2> QED
    BY <1>6, <2>3, <2>4 DEF MessageArrives
<1>7. CASE FrameFlushes
  <2> DEFINE all == page.shown \o page.pending
             kept == Newest(all, MaxEvents)
  <2>1. all \in Seq(Emitted) /\ ToSet(all) = ToSet(page.shown) \cup ToSet(page.pending)
    BY <1>0, ConcatProperties, MembersConcat
  <2>2. /\ page' = [page EXCEPT !.frame = FALSE, !.pending = <<>>, !.shown = kept]
        /\ missed' = missed \cup (ToSet(all) \ ToSet(kept))
        /\ UNCHANGED <<log, stream, replay, wire>>
    BY <1>7 DEF FrameFlushes
  <2> HIDE DEF all
  <2>3. kept \in Seq(Emitted) /\ ToSet(kept) \subseteq ToSet(all) /\ ToSet(all) \subseteq Emitted
    BY <1>0, <2>1, NewestSuffix, MembersNewest, EventsAre
  <2>4. Len(kept) <= MaxEvents
    <3>1. Len(kept) = IF Len(all) <= MaxEvents THEN Len(all) ELSE MaxEvents
      BY <1>0, <2>1, NewestSuffix
    <3> QED
      BY <1>0, <3>1
  <2> HIDE DEF kept
  <2>5. page' \in PageStates /\ page'.pending = <<>> /\ page'.shown = kept
    BY <1>0, <2>2, <2>3
  <2> QED
    BY <1>0, <2>1, <2>2, <2>3, <2>4, <2>5 DEF ArrivalsInv, Emitted, Connected
<1>8. CASE PauseOrClear
  <2>1. UNCHANGED <<log, stream, replay, wire>>
    BY <1>8 DEF PauseOrClear
  <2>2. CASE page' = [page EXCEPT !.paused = ~@] /\ missed' = missed
    <3>1. /\ page' \in PageStates /\ page'.pending = page.pending /\ page'.shown = page.shown
          /\ page'.frame = page.frame
      BY <1>0, <2>2
    <3> QED
      BY <2>1, <2>2, <3>1 DEF ArrivalsInv, Emitted, Connected
  <2>3. CASE page' = [page EXCEPT !.shown = <<>>] /\ missed' = missed \cup ToSet(page.shown)
    <3>1. /\ page' \in PageStates /\ page'.pending = page.pending /\ page'.shown = <<>>
          /\ page'.frame = page.frame
      BY <1>0, <2>3
    <3>2. ToSet(page.shown) \subseteq Emitted
      BY <1>0, EventsAre
    <3> QED
      BY <1>0, <2>1, <2>3, <3>1, <3>2 DEF ArrivalsInv, Emitted, Connected
  <2> QED
    BY <1>8, <2>2, <2>3 DEF PauseOrClear
<1>9. CASE Prints \/ UNCHANGED consoleVars
  BY <1>9 DEF Prints, consoleVars, ArrivalsInv, Emitted, Connected
<1> QED
  BY <1>1, <1>2, <1>3, <1>4, <1>5, <1>6, <1>7, <1>8, <1>9 DEF ConsoleNext

LEMMA BelowParts ==
  ASSUME NEW S, NEW T, Below(S, T)
  PROVE  \A U, V : U \subseteq S /\ V \subseteq T => Below(U, V)
BY DEF Below

LEMMA BelowUnions ==
  /\ \A S, T, U : Below(S, T) /\ Below(S, U) => Below(S, T \cup U)
  /\ \A S, T, U : Below(S, U) /\ Below(T, U) => Below(S \cup T, U)
  /\ \A S : Below({}, S) /\ Below(S, {})
BY DEF Below

LEMMA OrderStep == ConsoleInv /\ [ConsoleNext]_consoleVars => OrderInv'
<1> SUFFICES ASSUME ConsoleInv, [ConsoleNext]_consoleVars, ~Reconnected' PROVE (FirstConnection /\ InOrder)'
  BY DEF OrderInv
<1>0. /\ page.shown \in Seq(Emitted) /\ page.pending \in Seq(Emitted)
      /\ wire \in Seq(Emitted) /\ replay \in Seq(Emitted)
      /\ page.shown \in Seq(Int) /\ page.pending \in Seq(Int) /\ wire \in Seq(Int) /\ replay \in Seq(Int)
      /\ Emitted \subseteq Int
  <2>1. /\ page.shown \in Seq(Emitted) /\ page.pending \in Seq(Emitted)
        /\ wire \in Seq(Emitted) /\ replay \in Seq(Emitted)
    BY DEF ConsoleInv, ArrivalsInv
  <2>2. Emitted \subseteq Int
    BY DEF Emitted
  <2> QED
    BY <2>1, <2>2, SeqMonotonic
<1>1. 1 \in Connection /\ MaxEvents \in Nat
  BY ConsoleAssumption DEF Connection
<1>2. ~Reconnected
  BY <1>1
  DEF Reconnected, ConsoleInv, ArrivalsInv, ConsoleNext, consoleVars, Emit, StreamOpens, Opens,
      ReplayWrites, Subscribe, ConnectionBreaks, Prints, MessageArrives, FrameFlushes, PauseOrClear
<1>3. FirstConnection /\ InOrder
  BY <1>2 DEF ConsoleInv, OrderInv
<1>4. \A c \in Connection : stream[c] \in {"replaying", "subscribed"} => c = 1
  BY <1>3 DEF FirstConnection
<1>5. CASE UNCHANGED <<stream, page, wire, replay>>
  BY <1>3, <1>5 DEF FirstConnection, InOrder
<1>6. ASSUME NEW r, NEW phase, Emit(r, phase) PROVE (FirstConnection /\ InOrder)'
  <2> DEFINE e == Len(log) + 1
  <2>1. UNCHANGED <<stream, replay, page>>
    BY <1>6 DEF Emit
  <2>2. CASE Subscribed
    <3>1. stream[1] = "subscribed" /\ wire' = Append(wire, e) /\ replay = <<>>
      BY <1>3, <1>4, <1>6, <2>2 DEF Subscribed, Emit, FirstConnection
    <3>2. e \in Int
      BY <1>6, LogGrows DEF ConsoleInv
    <3>3. /\ Below(ToSet(page.shown), {e}) /\ Below(ToSet(page.pending), {e}) /\ Below(ToSet(wire), {e})
          /\ ToSet(replay) = {}
      BY <1>0, <3>1, EventsAre DEF ConsoleInv
    <3> HIDE DEF e
    <3>4. Ascending(Append(wire, e)) /\ ToSet(Append(wire, e)) = ToSet(wire) \cup {e}
      BY <1>0, <1>3, <3>2, <3>3, AscendingAppend, MembersAppend, SMTT(20) DEF InOrder
    <3>5. InOrder'
      <4>1. /\ Below(ToSet(page.shown), ToSet(wire) \cup {e})
            /\ Below(ToSet(page.pending), ToSet(wire) \cup {e})
            /\ Below(ToSet(wire) \cup {e}, {})
        BY <1>3, <3>3, BelowUnions, Zenon DEF InOrder
      <4> QED
        BY <1>3, <2>1, <3>1, <3>3, <3>4, <4>1 DEF InOrder
    <3>6. FirstConnection'
      BY <1>3, <2>1, <3>1 DEF FirstConnection
    <3> QED
      BY <3>5, <3>6
  <2>3. CASE ~Subscribed
    BY <1>5, <1>6, <2>1, <2>3 DEF Emit
  <2> QED
    BY <2>2, <2>3
<1>7. ASSUME NEW c \in Connection, StreamOpens(c) PROVE (FirstConnection /\ InOrder)'
  <2>1. c = 1 /\ stream[1] = "new"
    <3>1. ~Connected /\ stream[c] = "new" /\ \A d \in 1 .. c - 1 : stream[d] # "new"
      BY <1>7 DEF StreamOpens, Opens
    <3>2. stream[1] = "new"
      BY <1>1, <1>2, <3>1 DEF Connected, Reconnected, ConsoleInv, ArrivalsInv
    <3>3. c = 1 \/ 1 \in 1 .. c - 1
      BY DEF Connection
    <3> QED
      BY <3>1, <3>2, <3>3
  <2>2. page.shown = <<>> /\ page.pending = <<>> /\ wire = <<>>
    BY <1>3, <2>1 DEF FirstConnection
  <2>3. ToSet(<<>>) = {} /\ Ascending(Recent)
    BY RecentIsNewest DEF ToSet, ConsoleInv
  <2>4. UNCHANGED <<page, wire>> /\ replay' = Recent /\ stream' = [stream EXCEPT ![1] = "replaying"]
    BY <1>7, <2>1 DEF StreamOpens, Opens
  <2>5. InOrder'
    <3>1. \A S : Below({}, S)
      BY DEF Below
    <3> QED
      BY <1>3, <2>2, <2>3, <2>4, <3>1 DEF InOrder
  <2>6. stream'[1] = "replaying" /\ \A d \in Connection \ {1} : stream'[d] = stream[d]
    BY <1>1, <2>4 DEF ConsoleInv, ArrivalsInv
  <2>7. FirstConnection'
    BY <1>3, <2>6 DEF FirstConnection
  <2> QED
    BY <2>5, <2>7
<1>8. ASSUME NEW c \in Connection, ReplayWrites(c) PROVE (FirstConnection /\ InOrder)'
  <2> DEFINE x == Head(replay)
  <2>1. replay # <<>> /\ wire' = Append(wire, x) /\ replay' = Tail(replay) /\ UNCHANGED <<stream, page>>
    BY <1>8 DEF ReplayWrites
  <2>2. x \in Int /\ ToSet(replay) = {x} \cup ToSet(Tail(replay))
        /\ Ascending(Tail(replay)) /\ Below({x}, ToSet(Tail(replay)))
    BY <1>0, <1>3, <2>1, HeadTailProperties, MembersTail, AscendingTail DEF InOrder
  <2>3. /\ \A S : Below(S, ToSet(replay)) => Below(S, {x}) /\ Below(S, ToSet(Tail(replay)))
    BY <2>2 DEF Below
  <2> HIDE DEF x
  <2>4. Ascending(Append(wire, x)) /\ ToSet(Append(wire, x)) = ToSet(wire) \cup {x}
    <3>1. Ascending(wire) /\ Below(ToSet(wire), {x})
      BY <1>3, <2>3, Zenon DEF InOrder
    <3> QED
      <4>1. wire \in Seq(Int) /\ x \in Int
        BY <1>0, <2>2
      <4>2. Ascending(Append(wire, x))
        BY <3>1, <4>1, AscendingAppend
      <4>3. ToSet(Append(wire, x)) = ToSet(wire) \cup {x}
        BY <4>1, MembersAppend
      <4> QED
        BY <4>2, <4>3
  <2>5. InOrder'
    <3>1. /\ Below(ToSet(page.shown), ToSet(wire) \cup {x}) /\ Below(ToSet(page.shown), ToSet(Tail(replay)))
          /\ Below(ToSet(page.pending), ToSet(wire) \cup {x})
          /\ Below(ToSet(page.pending), ToSet(Tail(replay)))
          /\ Below(ToSet(wire) \cup {x}, ToSet(Tail(replay)))
      BY <1>3, <2>2, <2>3, BelowUnions, Zenon DEF InOrder
    <3> QED
      BY <1>3, <2>1, <2>2, <2>4, <3>1 DEF InOrder
  <2>6. FirstConnection'
    <3>1. stream[1] = "replaying"
      BY <1>3, <1>4, <1>8, <2>1 DEF ReplayWrites, FirstConnection
    <3> QED
      BY <1>3, <2>1, <3>1 DEF FirstConnection
  <2> QED
    BY <2>5, <2>6
<1>9. ASSUME NEW c \in Connection, Subscribe(c) PROVE (FirstConnection /\ InOrder)'
  <2>1. c = 1 /\ replay = <<>> /\ stream' = [stream EXCEPT ![1] = "subscribed"]
        /\ UNCHANGED <<page, wire, replay>>
    BY <1>4, <1>9 DEF Subscribe
  <2>2. stream'[1] = "subscribed" /\ \A d \in Connection \ {1} : stream'[d] = stream[d]
    BY <1>1, <2>1 DEF ConsoleInv, ArrivalsInv
  <2> QED
    BY <1>3, <2>1, <2>2 DEF FirstConnection, InOrder
<1>10. ASSUME NEW c \in Connection, ConnectionBreaks(c) PROVE FALSE
  <2>1. c = 1 /\ stream'[1] \in {"abandoned", "closed"}
    BY <1>1, <1>4, <1>10 DEF ConnectionBreaks, ConsoleInv, ArrivalsInv
  <2> QED
    BY <2>1 DEF Reconnected
<1>11. CASE MessageArrives
  <2> DEFINE x == Head(wire)
  <2>1. wire # <<>> /\ wire' = Tail(wire) /\ UNCHANGED <<stream, replay>> /\ stream[1] # "new"
    BY <1>3, <1>11 DEF MessageArrives, FirstConnection
  <2>2. x \in Int /\ ToSet(wire) = {x} \cup ToSet(Tail(wire))
        /\ Ascending(Tail(wire)) /\ Below({x}, ToSet(Tail(wire)))
    BY <1>0, <1>3, <2>1, HeadTailProperties, MembersTail, AscendingTail DEF InOrder
  <2>3. /\ \A S : Below(S, ToSet(wire)) => Below(S, {x}) /\ Below(S, ToSet(Tail(wire)))
        /\ \A S : Below(ToSet(wire), S) => Below({x}, S) /\ Below(ToSet(Tail(wire)), S)
    BY <2>2 DEF Below
  <2>4. FirstConnection'
    BY <1>3, <2>1 DEF FirstConnection
  <2>5. CASE page' = page
    BY <1>3, <2>1, <2>2, <2>3, <2>4, <2>5 DEF InOrder
  <2>6. CASE page' = [page EXCEPT !.pending = Append(@, x), !.frame = TRUE]
    <3>1. page'.shown = page.shown /\ page'.pending = Append(page.pending, x)
      BY <2>6 DEF ConsoleInv, ArrivalsInv
    <3> HIDE DEF x
    <3>2. /\ Ascending(Append(page.pending, x))
          /\ ToSet(Append(page.pending, x)) = ToSet(page.pending) \cup {x}
      <4>1. Ascending(page.pending) /\ Below(ToSet(page.pending), {x})
        BY <1>3, <2>3, Zenon DEF InOrder
      <4> QED
        <5>1. page.pending \in Seq(Int) /\ x \in Int
          BY <1>0, <2>2
        <5>2. Ascending(Append(page.pending, x))
          BY <4>1, <5>1, AscendingAppend
        <5>3. ToSet(Append(page.pending, x)) = ToSet(page.pending) \cup {x}
          BY <5>1, MembersAppend
        <5> QED
          BY <5>2, <5>3
    <3>3. InOrder'
      <4>1. /\ Below(ToSet(page.shown), ToSet(page.pending) \cup {x})
            /\ Below(ToSet(page.shown), ToSet(Tail(wire)))
            /\ Below(ToSet(page.pending) \cup {x}, ToSet(Tail(wire)))
            /\ Below(ToSet(page.pending) \cup {x}, ToSet(replay))
            /\ Below(ToSet(Tail(wire)), ToSet(replay))
        BY <1>3, <2>2, <2>3, BelowUnions, Zenon DEF InOrder
      <4> QED
        BY <1>3, <2>1, <2>2, <3>1, <3>2, <4>1 DEF InOrder
    <3> QED
      BY <2>4, <3>3
  <2> QED
    BY <1>11, <2>5, <2>6 DEF MessageArrives
<1>12. CASE FrameFlushes
  <2> DEFINE all == page.shown \o page.pending
             kept == Newest(all, MaxEvents)
  <2>1. /\ all \in Seq(Int) /\ ToSet(all) = ToSet(page.shown) \cup ToSet(page.pending)
        /\ Ascending(all)
    BY <1>0, <1>3, ConcatProperties, MembersConcat, AscendingConcat DEF InOrder
  <2>2. /\ page'.shown = kept /\ page'.pending = <<>> /\ UNCHANGED <<stream, replay, wire>>
    BY <1>12 DEF FrameFlushes, ConsoleInv, ArrivalsInv
  <2> HIDE DEF all
  <2>3. kept \in Seq(Int) /\ ToSet(kept) \subseteq ToSet(all) /\ Ascending(kept)
    BY <1>1, <2>1, NewestSuffix, MembersNewest, AscendingNewest
  <2> HIDE DEF kept
  <2>4. ToSet(<<>>) = {} /\ Ascending(<<>>)
    BY DEF ToSet, Ascending
  <2>5. Below(ToSet(all), ToSet(wire)) /\ Below(ToSet(all), ToSet(replay))
    BY <1>3, <2>1, BelowUnions DEF InOrder
  <2>6. Below(ToSet(kept), ToSet(wire)) /\ Below(ToSet(kept), ToSet(replay))
    BY <2>3, <2>5, BelowParts
  <2>7. InOrder'
    BY <1>3, <2>2, <2>3, <2>4, <2>6, BelowUnions, ZenonT(40) DEF InOrder
  <2>8. FirstConnection'
    <3>1. stream[1] = "new" => kept = <<>>
      <4>1. stream[1] = "new" => ToSet(page.shown) = {} /\ ToSet(page.pending) = {}
        BY <1>3, <2>4 DEF FirstConnection
      <4>2. kept = <<>> <=> ToSet(kept) = {}
        BY <2>3, MembersOf
      <4> QED
        BY <2>1, <2>3, <4>1, <4>2
    <3> QED
      BY <1>3, <2>2, <3>1 DEF FirstConnection
  <2> QED
    BY <2>7, <2>8
<1>13. CASE PauseOrClear
  <2>1. /\ UNCHANGED <<stream, replay, wire>>
        /\ page'.pending = page.pending /\ page'.shown \in {page.shown, <<>>}
    BY <1>13 DEF PauseOrClear, ConsoleInv, ArrivalsInv
  <2>2. ToSet(<<>>) = {} /\ Ascending(<<>>)
    BY DEF ToSet, Ascending
  <2>3. FirstConnection'
    BY <1>3, <2>1 DEF FirstConnection
  <2>4. InOrder'
    BY <1>3, <2>1, <2>2, BelowUnions, SMTT(20) DEF InOrder
  <2> QED
    BY <2>3, <2>4
<1> QED
  BY <1>5, <1>6, <1>7, <1>8, <1>9, <1>10, <1>11, <1>12, <1>13 DEF ConsoleNext, consoleVars, Prints

-----------------------------------------------------------------------------
LEMMA ConsoleInitially == ConsoleInit => ConsoleInv
<1> SUFFICES ASSUME ConsoleInit PROVE ConsoleInv
  OBVIOUS
<1>0. /\ log = <<>> /\ Len(log) = 0 /\ Emitted = {} /\ RingCap \in Nat \ {0}
      /\ HighWater \in Nat /\ MaxEvents \in Nat /\ 1 \in Connection
  BY ConsoleAssumption DEF ConsoleInit, Emitted, Connection
<1>1. <<>> \in Seq(Emitted) /\ Len(<<>>) = 0 /\ ToSet(<<>>) = {} /\ Ascending(<<>>)
  BY EmptySeq DEF ToSet, Ascending
<1>2. LogInv
  BY <1>0, EmptySeq DEF LogInv
<1>3. RingInv
  BY <1>0 DEF ConsoleInit, RingInv
<1>4. StdoutInv
  BY <1>0, <1>1 DEF ConsoleInit, StdoutInv, Below
<1>5. ArrivalsInv
  BY <1>0, <1>1 DEF ConsoleInit, ArrivalsInv
<1>6. FirstConnection /\ InOrder
  BY <1>0, <1>1, BelowUnions DEF ConsoleInit, FirstConnection, InOrder
<1> QED
  BY <1>2, <1>3, <1>4, <1>5, <1>6 DEF ConsoleInv, OrderInv

LEMMA ConsoleStep == ConsoleInv /\ [ConsoleNext]_consoleVars => ConsoleInv'
BY LogStep, RingStep, StdoutStep, ArrivalsStep, OrderStep DEF ConsoleInv

\* Nothing on its way and nothing missed: the page has the whole log.
LEMMA PageTruthful == ConsoleInv => BlocksTruthful
<1> SUFFICES ASSUME ConsoleInv, wire = <<>>, page.pending = <<>>, replay = <<>>, missed = {}
             PROVE  LET running == {r \in ConsoleRequest : "start" \in Phases(r) /\ ~Settled(Phases(r))} IN
                    /\ {r \in ConsoleRequest : InFlight(r)} = running
                    /\ ~Reconnected => ActiveCount = Cardinality(running)
  BY DEF BlocksTruthful
<1> DEFINE running == {r \in ConsoleRequest : "start" \in Phases(r) /\ ~Settled(Phases(r))}
           sh == page.shown
<1>1. /\ sh \in Seq(Emitted) /\ DOMAIN sh = 1 .. Len(sh) /\ DOMAIN log = Emitted /\ Len(sh) \in Nat
      /\ \A k \in Emitted : log[k].req \in ConsoleRequest
  <2>1. sh \in Seq(Emitted) /\ DOMAIN log = Emitted
    BY DEF ConsoleInv, ArrivalsInv, LogInv, Emitted
  <2>2. \A k \in Emitted : log[k] \in [req : ConsoleRequest, phase : PhaseNames]
    BY ElementOfSeq DEF ConsoleInv, LogInv, Emitted
  <2> QED
    BY <2>1, <2>2
<1>2. ToSet(<<>>) = {}
  BY DEF ToSet
<1>3. \A k \in Emitted : \E i \in 1 .. Len(sh) : sh[i] = k
  <2>1. Emitted \subseteq ToSet(sh)
    BY <1>2 DEF ConsoleInv, ArrivalsInv
  <2> QED
    BY <1>1, <2>1 DEF ToSet
<1>4. \A i \in 1 .. Len(sh) : sh[i] \in Emitted
  BY <1>1, ElementOfSeq
<1>5. ASSUME NEW r \in ConsoleRequest PROVE BlockPhases(r) = Phases(r)
  BY <1>1, <1>3, <1>4 DEF BlockPhases, Phases
<1>6. {r \in ConsoleRequest : InFlight(r)} = running
  BY <1>5 DEF InFlight
<1>7. ASSUME ~Reconnected PROVE ActiveCount = Cardinality(running)
  <2> DEFINE S == {i \in DOMAIN sh : log[sh[i]].phase = "start" /\ InFlight(log[sh[i]].req)}
             f == [i \in S |-> log[sh[i]].req]
  <2>1. \A i, j \in 1 .. Len(sh) : sh[i] = sh[j] => i = j
    <3>1. Ascending(sh)
      BY <1>7 DEF ConsoleInv, OrderInv, InOrder
    <3>2. ASSUME NEW i \in 1 .. Len(sh), NEW j \in 1 .. Len(sh), i < j PROVE sh[i] # sh[j]
      <4>1. sh[i] < sh[j]
        BY <3>1, <3>2 DEF Ascending
      <4>2. sh[i] \in Int
        BY <1>4 DEF Emitted
      <4> QED
        BY <4>1, <4>2
    <3> QED
      BY <3>2
  <2>2. ASSUME NEW i \in S PROVE i \in 1 .. Len(sh) /\ sh[i] \in Emitted /\ f[i] \in running /\ f[i] = log[sh[i]].req
    <3>1. i \in 1 .. Len(sh) /\ sh[i] \in Emitted /\ InFlight(log[sh[i]].req)
      BY <1>1, <1>4
    <3>2. log[sh[i]].req \in {r \in ConsoleRequest : InFlight(r)}
      BY <1>1, <3>1
    <3> QED
      BY <1>6, <3>1, <3>2
  <2>3. ASSUME NEW i \in S, NEW j \in S, f[i] = f[j] PROVE i = j
    <3>1. sh[i] = sh[j]
      BY <2>2, <2>3 DEF ConsoleInv, LogInv
    <3> QED
      BY <2>1, <2>2, <3>1
  <2>4. ASSUME NEW r \in running PROVE \E i \in S : f[i] = r
    <3>1. "start" \in Phases(r) /\ InFlight(r)
      BY <1>6
    <3>2. PICK k \in Emitted : log[k].req = r /\ log[k].phase = "start"
      BY <1>1, <3>1 DEF Phases
    <3>3. PICK i \in 1 .. Len(sh) : sh[i] = k
      BY <1>3
    <3>4. i \in S
      BY <1>1, <3>1, <3>2, <3>3
    <3> QED
      BY <3>2, <3>3, <3>4
  <2>5. f \in [S -> running]
    BY <2>2
  <2>6. S \subseteq 1 .. Len(sh) /\ ActiveCount = Cardinality(S)
    BY <1>1 DEF ActiveCount
  <2> HIDE DEF S, f, running
  <2>7. f \in Bijection(S, running)
    <3>1. f \in Injection(S, running)
      BY <2>3, <2>5 DEF Injection, IsInjective
    <3>2. f \in Surjection(S, running)
      BY <2>4, <2>5 DEF Surjection
    <3> QED
      BY <3>1, <3>2 DEF Bijection
  <2>8. IsFiniteSet(S)
    <3>1. IsFiniteSet(1 .. Len(sh))
      BY <1>1, FS_Interval
    <3> QED
      BY <2>6, <3>1, FS_Subset
  <2> QED
    BY <2>6, <2>7, <2>8, FS_Bijection DEF ExistsBijection
<1> QED
  BY <1>6, <1>7

LEMMA AscendingIncreases == ASSUME NEW s \in Seq(Int), Ascending(s) PROVE Increasing(s)
<1>1. ASSUME NEW i \in 1 .. Len(s) - 1 PROVE s[i] < s[i + 1]
  <2>1. i \in 1 .. Len(s) /\ i + 1 \in 1 .. Len(s) /\ i < i + 1
    OBVIOUS
  <2> QED
    BY <2>1 DEF Ascending
<1> QED
  BY <1>1 DEF Increasing

LEMMA PageInOrder ==
  ASSUME ConsoleInv
  PROVE  LET received == page.shown \o page.pending \o wire IN
         /\ DOMAIN log \ missed \subseteq ToSet(received \o replay)
         /\ ~Reconnected => Increasing(received \o replay)
<1> DEFINE one == page.shown
           two == one \o page.pending
           three == two \o wire
           four == three \o replay
<1>1. /\ one \in Seq(Int) /\ page.pending \in Seq(Int) /\ wire \in Seq(Int) /\ replay \in Seq(Int)
  <2>1. /\ one \in Seq(Emitted) /\ page.pending \in Seq(Emitted)
        /\ wire \in Seq(Emitted) /\ replay \in Seq(Emitted)
    BY DEF ConsoleInv, ArrivalsInv
  <2> QED
    BY <2>1, EventsAre DEF ConsoleInv
<1>2. two \in Seq(Int) /\ ToSet(two) = ToSet(one) \cup ToSet(page.pending)
  BY <1>1, ConcatProperties, MembersConcat
<1>3. three \in Seq(Int) /\ ToSet(three) = ToSet(two) \cup ToSet(wire)
  <2> HIDE DEF two
  <2> QED
    BY <1>1, <1>2, ConcatProperties, MembersConcat
<1>4. four \in Seq(Int) /\ ToSet(four) = ToSet(three) \cup ToSet(replay)
  <2> HIDE DEF three
  <2> QED
    BY <1>1, <1>3, ConcatProperties, MembersConcat
<1>5. DOMAIN log \ missed \subseteq ToSet(four)
  <2>1. DOMAIN log = Emitted
    BY DEF ConsoleInv, LogInv, Emitted
  <2> HIDE DEF two, three, four
  <2> QED
    BY <1>2, <1>3, <1>4, <2>1 DEF ConsoleInv, ArrivalsInv
<1>6. ASSUME ~Reconnected PROVE Increasing(four)
  <2>1. InOrder
    BY <1>6 DEF ConsoleInv, OrderInv
  <2>2. Ascending(two)
    BY <1>1, <2>1, AscendingConcat DEF InOrder
  <2>3. Ascending(three)
    <3> HIDE DEF two
    <3>1. Below(ToSet(two), ToSet(wire))
      BY <1>2, <2>1, BelowUnions DEF InOrder
    <3> QED
      BY <1>1, <1>2, <2>1, <2>2, <3>1, AscendingConcat DEF InOrder
  <2>4. Ascending(four)
    <3> HIDE DEF two, three
    <3>1. Below(ToSet(three), ToSet(replay))
      <4>1. Below(ToSet(two), ToSet(replay))
        BY <1>2, <2>1, BelowUnions DEF InOrder
      <4> QED
        BY <1>3, <2>1, <4>1, BelowUnions DEF InOrder
    <3> QED
      BY <1>1, <1>3, <2>1, <2>3, <3>1, AscendingConcat DEF InOrder
  <2> HIDE DEF four
  <2> QED
    BY <1>4, <2>4, AscendingIncreases
<1> QED
  BY <1>5, <1>6

LEMMA PrintedInOrder ==
  ASSUME ConsoleInv
  PROVE  /\ Increasing(<<stdout.printed>> \o stdout.buf)
         /\ Last(<<stdout.printed>> \o stdout.buf) = Len(log)
<1> DEFINE b == stdout.buf
           s == <<stdout.printed>>
           t == s \o b
<1>1. b \in Seq(Int) /\ stdout.printed \in Int /\ Ascending(b)
  <2>1. b \in Seq(Emitted) /\ stdout.printed \in 0 .. Len(log) /\ Ascending(b)
    BY DEF ConsoleInv, StdoutInv
  <2> QED
    BY <2>1, EventsAre DEF ConsoleInv
<1>2. s \in Seq(Int) /\ Len(s) = 1 /\ s[1] = stdout.printed
  BY <1>1
<1>3. Ascending(s) /\ ToSet(s) = {stdout.printed}
  BY <1>2 DEF Ascending, ToSet
<1> HIDE DEF s
<1>4. Ascending(t)
  BY <1>1, <1>2, <1>3, AscendingConcat DEF ConsoleInv, StdoutInv
<1>5. /\ t \in Seq(Int) /\ Len(t) = 1 + Len(b) /\ Len(b) \in Nat
      /\ \A i \in 1 .. Len(t) : t[i] = IF i <= 1 THEN s[i] ELSE b[i - 1]
  <2>1. /\ t \in Seq(Int) /\ Len(t) = Len(s) + Len(b)
        /\ \A i \in 1 .. Len(t) : t[i] = IF i <= Len(s) THEN s[i] ELSE b[i - Len(s)]
    <3>1. s \in Seq(Int) /\ b \in Seq(Int)
      BY <1>1, <1>2
    <3> HIDE DEF b
    <3> QED
      BY <3>1, ConcatProperties
  <2> HIDE DEF t
  <2> QED
    BY <1>1, <1>2, <2>1
<1> HIDE DEF t
<1>6. t[Len(t)] = Len(log)
  <2>1. CASE b = <<>>
    <3>1. Len(t) = 1 /\ stdout.printed = Len(log)
      BY <1>5, <2>1 DEF ConsoleInv, StdoutInv
    <3>2. t[1] = s[1]
      BY <1>5, <3>1
    <3> QED
      BY <1>2, <3>1, <3>2
  <2>2. CASE b # <<>>
    <3>1. b[Len(b)] = Len(log)
      BY <2>2 DEF ConsoleInv, StdoutInv, Last
    <3>2. Len(b) # 0
      BY <1>1, <2>2, EmptySeq
    <3>3. Len(t) \in 1 .. Len(t) /\ ~(Len(t) <= 1) /\ Len(t) - 1 = Len(b)
      BY <1>5, <3>2
    <3> QED
      BY <1>5, <3>1, <3>3
  <2> QED
    BY <2>1, <2>2
<1> QED
  BY <1>4, <1>5, <1>6, AscendingIncreases DEF Last, s, t

\* The page gets what was emitted, once and in order while its connection
\* holds, and is right about what runs when all has arrived, for any sizes of
\* the ring, the page and the coalescer (console-bus.ts, Console.tsx).
THEOREM ConsoleReplayed == ConsoleSpec => []ConsoleReplay
<1>1. ConsoleInv => ConsoleReplay
  BY RecentIsNewest, PageTruthful, PageInOrder, PrintedInOrder
  DEF ConsoleInv, ArrivalsInv, ConsoleReplay
<1> QED
  BY <1>1, ConsoleInitially, ConsoleStep, PTL DEF ConsoleSpec

LEMMA ConsoleTypes == ConsoleInv => ConsoleTypeOK
<1> SUFFICES ASSUME ConsoleInv PROVE ConsoleTypeOK
  OBVIOUS
<1>1. \A i \in DOMAIN log : log[i].req \in ConsoleRequest
  <2>1. \A i \in 1 .. Len(log) : log[i] \in [req : ConsoleRequest, phase : PhaseNames]
    BY ElementOfSeq DEF ConsoleInv, LogInv
  <2>2. DOMAIN log = 1 .. Len(log)
    BY DEF ConsoleInv, LogInv
  <2> QED
    BY <2>1, <2>2
<1>2. ring.size \in 0 .. RingCap /\ ring.head \in 0 .. RingCap - 1
  BY ConsoleAssumption DEF ConsoleInv, RingInv, LogInv
<1>3. DOMAIN log = Emitted
  BY DEF ConsoleInv, LogInv, Emitted
<1> QED
  BY <1>1, <1>2, <1>3 DEF ConsoleInv, StdoutInv, ArrivalsInv, ConsoleTypeOK

-----------------------------------------------------------------------------
(* The types.                                                              *)

(* The names. *)

Combo == [name : BareName, members : SUBSET Member \ {{}}]
CombosInv ==
  /\ combos \in [ComboId -> Combo \cup {NONE}]
  /\ aliasCache # NONE => aliasCache.age \in 0 .. AliasTtl + 1

LEMMA CombosInitially == RegistryInit => CombosInv
BY DEF RegistryInit, CombosInv

LEMMA CombosStep == NamesInv /\ CombosInv /\ [RegistryNext]_registryVars => CombosInv'
<1> SUFFICES ASSUME NamesInv, CombosInv, [RegistryNext]_registryVars PROVE CombosInv'
  OBVIOUS
<1>1. CASE UNCHANGED <<combos, aliasCache>>
  BY <1>1 DEF CombosInv
<1>2. CASE \/ \E a \in BareName : \/ AskAlias(a) \/ DeleteAlias(a)
                                   \/ \E n \in RegistryName : SetAlias(a, n)
           \/ \E p \in AliasPut : PutWrites(p)
  <2>1. combos' = combos /\ (aliasCache' = NONE \/ aliasCache' = [map |-> aliases, age |-> 0])
    BY <1>2 DEF AskAlias, DeleteAlias, SetAlias, PutWrites, UpsertAlias
  <2>2. 0 \in 0 .. AliasTtl + 1
    BY RegistryAssumption
  <2> QED
    BY <2>1, <2>2 DEF CombosInv
<1>3. ASSUME NEW c \in ComboId, NEW name \in BareName, NEW parts \in SUBSET Member \ {{}},
             CreateCombo(c, name, parts) \/ UpdateCombo(c, name, parts)
      PROVE  CombosInv'
  <2> DEFINE new == [name |-> name, members |-> parts]
  <2>1. combos' = [combos EXCEPT ![c] = new] /\ aliasCache' = aliasCache
    BY <1>3 DEF CreateCombo, UpdateCombo
  <2>2. new \in Combo
    BY DEF Combo
  <2> HIDE DEF new
  <2> QED
    BY <2>1, <2>2 DEF CombosInv
<1>4. ASSUME NEW c \in ComboId, DeleteCombo(c) PROVE CombosInv'
  BY <1>4 DEF DeleteCombo, CombosInv
<1>5. CASE RegistryTick
  <2>1. aliasCache \in [map : {aliases}, age : Int] /\ aliasCache.age \in 0 .. AliasTtl
    BY <1>5, RegistryAssumption DEF RegistryTick, NamesInv, Copied, CombosInv
  <2>2. aliasCache'.age = aliasCache.age + 1 /\ combos' = combos
    BY <1>5, <2>1 DEF RegistryTick
  <2> QED
    BY <2>1, <2>2, RegistryAssumption DEF CombosInv
<1> QED
  BY <1>1, <1>2, <1>3, <1>4, <1>5
  DEF RegistryNext, registryVars, DeleteModel, PostModel, ToggleModels, Seed, PutReads, PutRefused

LEMMA NamesTyped == NamesInv /\ CombosInv => RegistryTypeOK
<1> SUFFICES ASSUME NamesInv, CombosInv PROVE RegistryTypeOK
  OBVIOUS
<1>1. ASSUME NEW c \in ComboId, combos[c] # NONE
      PROVE  combos[c].name \in BareName /\ combos[c].members \in SUBSET Member \ {{}}
  BY <1>1 DEF CombosInv, Combo
<1>2. ASSUME aliasCache # NONE
      PROVE  aliasCache.age \in 0 .. AliasTtl + 1 /\ DOMAIN aliasCache.map = BareName
  BY <1>2 DEF NamesInv, CombosInv, Copied
<1> QED
  BY <1>1, <1>2 DEF NamesInv, RegistryTypeOK

-----------------------------------------------------------------------------
(* The caches. *)

CountsInv ==
  rows \in 0 .. MaxFlushes /\ (report # EMPTY => report.value \in 0 .. rows)

LEMMA CountsInitially == CachesInit => CountsInv
BY CachesAssumption DEF CachesInit, CountsInv

LEMMA CountsStep == CachesInv /\ CountsInv /\ [CachesNext]_cacheVars => CountsInv'
<1> SUFFICES ASSUME CachesInv, CountsInv, [CachesNext]_cacheVars PROVE CountsInv'
  OBVIOUS
<1>1. CASE UNCHANGED <<rows, report>>
  BY <1>1 DEF CountsInv
<1>2. CASE ReadReport
  BY <1>2 DEF ReadReport, CountsInv
<1>3. CASE FlushRows
  BY <1>3, CachesAssumption DEF FlushRows, CountsInv
<1>4. CASE CachesTick
  <2>1. report # EMPTY => report \in [value : Nat, expired : BOOLEAN, version : 0 .. cacheVersion]
    BY DEF CachesInv, Entries
  <2>2. report' # EMPTY => report # EMPTY /\ report'.value = report.value
    BY <1>4, <2>1 DEF CachesTick, Expire
  <2> QED
    BY <1>4, <2>2 DEF CachesTick, CountsInv
<1> QED
  BY <1>1, <1>2, <1>3, <1>4
  DEF CachesNext, cacheVars, UseKey, ChangeKey, ReadSetting, SetSetting

LEMMA CachesTyped == CachesInv /\ CountsInv => CachesTypeOK
<1> SUFFICES ASSUME CachesInv, CountsInv PROVE CachesTypeOK
  OBVIOUS
<1>1. ASSUME NEW k \in ClientKey, keyCache[k] # EMPTY
      PROVE  {keyCache[k].value, keyCache[k].expired} \subseteq BOOLEAN
  <2>1. keyCache[k] \in EntryOf(BOOLEAN)
    BY <1>1 DEF CachesInv, Entries
  <2> QED
    BY <2>1 DEF EntryOf
<1>2. settingCache # EMPTY => settingCache.value \in SettingValue
  BY DEF CachesInv, Entries, EntryOf
<1> QED
  BY <1>1, <1>2 DEF CachesInv, Entries, CountsInv, CachesTypeOK

-----------------------------------------------------------------------------
(* The handlers. *)

Handled(q) ==
  /\ DOMAIN q = RequestFields
  /\ q.pc \in {"idle", "augmenting", "selecting", "called", "streaming", "reading", "done"}
  /\ q.format \in Format /\ q.stream \in BOOLEAN /\ q.combo \in BOOLEAN /\ q.dirty \in BOOLEAN
  /\ q.status \in {0, 200, 429, 500, 501, 502, 503} /\ q.rows \in 0 .. 1 /\ q.metered \in BOOLEAN
AccountTyped == pacct \in [enabled : BOOLEAN, limited : Cooldown, dirty : BOOLEAN]
HandlersInv ==
  /\ provider \in Provider /\ AccountTyped
  /\ plock \in [ModelName -> Cooldown] /\ banned \in Cooldown
  /\ DOMAIN preq = HandlerRequest /\ \A r \in HandlerRequest : Handled(preq[r])

LEMMA NoneHandled == Handled(NoRequest)
BY DEF Handled, NoRequest, RequestFields, Format

LEMMA HandlersInitially == HandlersInit => HandlersInv
<1> SUFFICES ASSUME HandlersInit PROVE HandlersInv
  OBVIOUS
<1>1. 0 \in Cooldown
  BY HandlerAssumption DEF Cooldown
<1>2. AccountTyped
  BY <1>1 DEF HandlersInit, AccountTyped
<1> QED
  BY <1>1, <1>2, NoneHandled DEF HandlersInit, HandlersInv

\* Whatever a handler delivers, it says whether there is a usage.
LEMMA DeliveryMetered ==
  ASSUME provider \in Provider, NEW format, NEW streams
  PROVE  Delivers(format, streams).metered \in BOOLEAN
<1> DEFINE u == HealthyBody(Asks(format, streams))
<1>1. u.usage \in BOOLEAN
  BY Zenon DEF HealthyBody
<1> HIDE DEF u
<1>2. \A w, f : Bridged(u, w, f).metered \in BOOLEAN
  BY <1>1 DEF Bridged, Delivered, Unreadable
<1>3. \A w, f : Aggregated(u, w, f).metered \in BOOLEAN
  BY <1>1 DEF Aggregated, Delivered, Unreadable
<1>4. \A w, f : ReadJson(u, w, f).metered \in BOOLEAN
  BY <1>1 DEF ReadJson, Delivered, Unreadable
<1>5. \A f : Piped(u, f).metered \in BOOLEAN
  BY Zenon DEF Piped, Delivered
<1>6. CASE provider = "pioneer"
  BY <1>2, <1>3, <1>5, <1>6 DEF Delivers, PioneerDelivers, u
<1>7. CASE provider = "tabi"
  BY <1>2, <1>3, <1>5, <1>7 DEF Delivers, TabiDelivers, u
<1>8. CASE provider = "codebuddy"
  BY <1>2, <1>3, <1>5, <1>8 DEF Delivers, CodeBuddyDelivers, u
<1>9. CASE provider = "zai"
  BY <1>3, <1>4, <1>5, <1>9 DEF Delivers, ZaiDelivers, u
<1>10. CASE provider = "qwencloud"
  BY <1>3, <1>5, <1>10 DEF Delivers, QwenCloudDelivers, u
<1>11. CASE provider = "kiro"
  BY <1>2, <1>4, <1>11 DEF Delivers, KiroDelivers, u
<1> QED
  BY <1>6, <1>7, <1>8, <1>9, <1>10, <1>11 DEF Provider, Delegated

LEMMA HandledStep ==
  ASSUME HandlersInv, NEW r \in HandlerRequest, NEW q, preq' = [preq EXCEPT ![r] = q], Handled(q)
  PROVE  DOMAIN preq' = HandlerRequest /\ \A s \in HandlerRequest : Handled(preq'[s])
BY DEF HandlersInv

LEMMA PenaltyTyped ==
  ASSUME HandlersInv, NEW name \in ModelName, NEW verdict \in Verdict, Penalises(name, verdict)
  PROVE  AccountTyped' /\ plock' \in [ModelName -> Cooldown] /\ banned' \in Cooldown
<1>1. verdict.cooldown \in Cooldown
  <2>1. 0 \in Cooldown
    BY HandlerAssumption DEF Cooldown
  <2> QED
    BY <2>1 DEF Verdict
<1> DEFINE enabled == pacct.enabled /\ ~verdict.balance
<1>2. enabled \in BOOLEAN
  BY Zenon
<1>3. pacct' = [enabled |-> enabled, limited |-> verdict.cooldown, dirty |-> TRUE]
  BY DEF Penalises
<1> HIDE DEF enabled
<1>4. AccountTyped'
  BY <1>1, <1>2, <1>3 DEF AccountTyped
<1>5. plock' \in [ModelName -> Cooldown] /\ banned' \in Cooldown
  BY <1>1 DEF Penalises, HandlersInv
<1> QED
  BY <1>4, <1>5

LEMMA HandlersKept ==
  ASSUME HandlersInv, NEW r \in HandlerRequest, StepOf(r)
  PROVE  HandlersInv'
<1>0. Handled(preq[r]) /\ provider \in Provider /\ "bare" \in ModelName
  BY DEF HandlersInv, ModelName
<1>a. ASSUME UNCHANGED <<provider, pacct, plock, banned>>, NEW q, preq' = [preq EXCEPT ![r] = q], Handled(q)
      PROVE  HandlersInv'
  BY <1>a, HandledStep DEF HandlersInv, AccountTyped
<1>b. ASSUME NEW status \in {0, 200, 429, 500, 501, 502, 503}, NEW n \in 0 .. 1, Ends(r, status, n)
      PROVE  DOMAIN preq' = HandlerRequest /\ \A s \in HandlerRequest : Handled(preq'[s])
  <2> DEFINE q == [NoRequest EXCEPT !.pc = "done", !.status = status, !.rows = n]
  <2>1. preq' = [preq EXCEPT ![r] = q]
    BY <1>b DEF Ends
  <2>2. Handled(q)
    BY DEF Handled, NoRequest, RequestFields, Format
  <2> HIDE DEF q
  <2> QED
    BY <2>1, <2>2, HandledStep, ZenonT(30)
<1>c. ASSUME NEW status \in {0, 200, 429, 500, 501, 502, 503}, NEW n \in 0 .. 1, Ends(r, status, n),
             UNCHANGED <<provider, pacct, plock, banned>>
      PROVE  HandlersInv'
  <2>1. DOMAIN preq' = HandlerRequest /\ \A s \in HandlerRequest : Handled(preq'[s])
    BY <1>b, <1>c
  <2>2. /\ provider' \in Provider /\ AccountTyped'
        /\ plock' \in [ModelName -> Cooldown] /\ banned' \in Cooldown
    BY <1>c DEF HandlersInv, AccountTyped
  <2> QED
    BY <2>1, <2>2 DEF HandlersInv
<1>d. ASSUME NEW verdict \in Verdict, Penalises("bare", verdict), provider' = provider,
             NEW status \in {500, 502}, Ends(r, status, 1)
      PROVE  HandlersInv'
  BY <1>0, <1>b, <1>d, PenaltyTyped DEF HandlersInv
<1>1. CASE AugmentRequest(r)
  <2> DEFINE q == [preq[r] EXCEPT !.pc = "selecting"]
  <2>1. preq' = [preq EXCEPT ![r] = q] /\ UNCHANGED <<provider, pacct, plock, banned>>
    BY <1>1 DEF AugmentRequest
  <2>2. Handled(q)
    BY <1>0 DEF Handled, RequestFields
  <2> HIDE DEF q
  <2> QED
    BY <1>a, <2>1, <2>2
<1>2. CASE BodyDone(r)
  BY <1>2, <1>c DEF BodyDone
<1>3. CASE StreamDone(r)
  BY <1>3, <1>c DEF StreamDone
<1>4. CASE QwenCloudRefuses(r)
  BY <1>4, <1>c DEF QwenCloudRefuses
<1>5. ASSUME NEW p \in Provider, Reaches(r, p) PROVE HandlersInv'
  <2>1. PICK format \in Format, streams \in BOOLEAN, combo \in BOOLEAN :
          preq' = [preq EXCEPT ![r] =
            [NoRequest EXCEPT !.pc = IF Augments THEN "augmenting" ELSE "selecting",
                              !.format = format, !.stream = streams, !.combo = combo]]
    BY <1>5 DEF Reaches
  <2> DEFINE q == [NoRequest EXCEPT !.pc = IF Augments THEN "augmenting" ELSE "selecting",
                                    !.format = format, !.stream = streams, !.combo = combo]
  <2>2. Handled(q)
    BY DEF Handled, NoRequest, RequestFields
  <2>3. preq' = [preq EXCEPT ![r] = q] /\ UNCHANGED <<provider, pacct, plock, banned>>
    BY <1>5, <2>1 DEF Reaches
  <2> HIDE DEF q
  <2> QED
    BY <1>a, <2>2, <2>3
<1>6. ASSUME NEW p \in Provider, Selects(r, p, "bare") PROVE HandlersInv'
  <2>1. CASE \E status \in {429, 503} : Refuses(r, status)
    BY <2>1, <1>c DEF Refuses
  <2>2. CASE /\ preq' = [preq EXCEPT ![r].pc = "called", ![r].dirty = pacct.dirty]
             /\ UNCHANGED <<provider, pacct, plock, banned>>
    <3> DEFINE q == [preq[r] EXCEPT !.pc = "called", !.dirty = pacct.dirty]
    <3>1. preq' = [preq EXCEPT ![r] = q]
      BY <1>0, <2>2, ZenonT(40) DEF HandlersInv, Handled, RequestFields
    <3>2. pacct.dirty \in BOOLEAN
      BY DEF HandlersInv, AccountTyped
    <3>3. Handled(q)
      BY <1>0, <3>2 DEF Handled, RequestFields
    <3> HIDE DEF q
    <3> QED
      BY <1>a, <2>2, <3>1, <3>3
  <2> QED
    BY <1>6, <2>1, <2>2 DEF Selects
<1>7. ASSUME NEW p \in Provider, Fails(r, p, "bare") PROVE HandlersInv'
  BY <1>7, <1>d DEF Fails
<1>8. ASSUME NEW p \in Provider, Throws(r, p) PROVE HandlersInv'
  BY <1>8, <1>c DEF Throws
<1>9. ASSUME NEW p \in Provider, Succeeds(r, p) PROVE HandlersInv'
  <2> DEFINE d == Delivers(preq[r].format, preq[r].stream)
             q == [preq[r] EXCEPT !.pc = IF preq[r].stream THEN "streaming" ELSE "reading",
                                  !.status = IF preq[r].stream THEN 200 ELSE 0,
                                  !.body = d.body, !.metered = d.metered]
  <2>1. preq' = [preq EXCEPT ![r] = q] /\ UNCHANGED <<provider, plock, banned>>
    BY <1>9, ZenonT(40) DEF Succeeds
  <2>2. d.metered \in BOOLEAN
    BY <1>0, DeliveryMetered
  <2> HIDE DEF d
  <2>3. Handled(q)
    BY <1>0, <2>2 DEF Handled, RequestFields
  <2> HIDE DEF q
  <2>4. AccountTyped'
    <3>1. pacct' = IF preq[r].dirty THEN [pacct EXCEPT !.limited = 0, !.dirty = FALSE] ELSE pacct
      BY <1>9 DEF Succeeds
    <3>2. 0 \in Cooldown
      BY HandlerAssumption DEF Cooldown
    <3> QED
      BY <3>1, <3>2 DEF HandlersInv, AccountTyped
  <2> QED
    BY <2>1, <2>3, <2>4, HandledStep DEF HandlersInv
<1>10. CASE KiroThrows(r)
  <2>1. RowName = "bare"
    BY <1>10 DEF KiroThrows, RowName, Namespaced
  <2>2. [cooldown |-> 1, balance |-> FALSE] \in Verdict
    BY HandlerAssumption DEF Verdict, Cooldown
  <2>3. Penalises("bare", [cooldown |-> 1, balance |-> FALSE]) /\ Ends(r, 502, 1) /\ provider' = provider
    BY <1>10, <2>1 DEF KiroThrows
  <2> QED
    BY <1>d, <2>2, <2>3
<1> QED
  BY <1>1, <1>2, <1>3, <1>4, <1>5, <1>6, <1>7, <1>8, <1>9, <1>10 DEF StepOf

LEMMA HandlersStep == HandlersInv /\ [HandlersNext]_handlerVars => HandlersInv'
<1> SUFFICES ASSUME HandlersInv, [HandlersNext]_handlerVars PROVE HandlersInv'
  OBVIOUS
<1>1. 0 \in Cooldown /\ \A n \in Cooldown : Less(n) \in Cooldown
  BY HandlerAssumption DEF Cooldown, Less
<1>2. CASE HandlerAdmin
  <2>1. AccountTyped'
    BY <1>2 DEF HandlerAdmin, HandlersInv, AccountTyped
  <2>2. plock' \in [ModelName -> Cooldown] /\ banned' \in Cooldown
    BY <1>1, <1>2 DEF HandlerAdmin, HandlersInv
  <2> QED
    BY <1>2, <2>1, <2>2 DEF HandlerAdmin, HandlersInv
<1>3. CASE HandlerTick
  <2>1. AccountTyped'
    BY <1>1, <1>3 DEF HandlerTick, HandlersInv, AccountTyped
  <2>2. plock' \in [ModelName -> Cooldown] /\ banned' \in Cooldown
    BY <1>1, <1>3 DEF HandlerTick, HandlersInv
  <2> QED
    BY <1>3, <2>1, <2>2 DEF HandlerTick, HandlersInv
<1>4. CASE UNCHANGED handlerVars
  BY <1>4 DEF handlerVars, HandlersInv, AccountTyped
<1> QED
  BY <1>2, <1>3, <1>4, StepsNamed, HandlersKept

LEMMA HandlersTyped == HandlersInv => HandlersTypeOK
BY DEF HandlersInv, AccountTyped, Handled, HandlersTypeOK

-----------------------------------------------------------------------------
(* The dashboard. *)

\* The mutations the server has not seen yet.
Unwritten == {s \in saving : s.at = Nothing}
PagesInv ==
  /\ route \in Page /\ visits \in 0 .. MaxVisits
  /\ IsFiniteSet(saving) /\ now + Cardinality(Unwritten) <= MaxWrites

LEMMA UnwrittenFinite ==
  ASSUME IsFiniteSet(saving)
  PROVE  /\ IsFiniteSet(Unwritten) /\ Cardinality(Unwritten) \in Nat
         /\ Cardinality(saving) \in Nat /\ Cardinality(Unwritten) <= Cardinality(saving)
<1>1. Unwritten \subseteq saving
  BY DEF Unwritten
<1> HIDE DEF Unwritten
<1> QED
  BY <1>1, FS_Subset, FS_CardinalityType

\* Leaving the accounts page turns observers; the mutations, and those that the
\* server has yet to write, are the images of what they were.
LEMMA LeftFinite ==
  ASSUME IsFiniteSet(saving), saving \subseteq Saves(now), saving' = LeavesAccounts
  PROVE  /\ IsFiniteSet(saving') /\ IsFiniteSet(Unwritten') /\ Cardinality(Unwritten') \in Nat
         /\ Cardinality(Unwritten') <= Cardinality(Unwritten)
<1> DEFINE Left(s) ==
             IF s.observer = "page"
             THEN [s EXCEPT !.observer = IF route = "editAccount" THEN "kept" ELSE "lost"] ELSE s
<1>1. saving' = {Left(s) : s \in saving}
  BY DEF LeavesAccounts
<1>2. ASSUME NEW s \in saving PROVE Left(s).at = s.at
  BY DEF Saves
<1> HIDE DEF Left
<1>3. Unwritten' = {Left(s) : s \in Unwritten}
  BY <1>1, <1>2 DEF Unwritten
<1>4. IsFiniteSet(Unwritten)
  BY UnwrittenFinite
<1> HIDE DEF Unwritten
<1>5. ASSUME NEW S, IsFiniteSet(S), NEW T, T = {Left(s) : s \in S}
      PROVE  IsFiniteSet(T) /\ Cardinality(T) <= Cardinality(S)
  <2> DEFINE f == [s \in S |-> Left(s)]
  <2>1. f \in [S -> T] /\ \A t \in T : \E s \in S : f[s] = t
    BY <1>5
  <2> HIDE DEF f
  <2>2. f \in Surjection(S, T)
    BY <2>1 DEF Surjection
  <2> QED
    BY <1>5, <2>2, FS_Surjection
<1>6. IsFiniteSet(saving')
  BY <1>1, <1>5
<1>7. IsFiniteSet(Unwritten') /\ Cardinality(Unwritten') <= Cardinality(Unwritten)
  BY <1>3, <1>4, <1>5
<1> QED
  BY <1>6, <1>7, FS_CardinalityType

LEMMA PagesInitially == DashboardInit => PagesInv
<1> SUFFICES ASSUME DashboardInit PROVE PagesInv
  OBVIOUS
<1>1. saving = {} /\ Unwritten = {}
  BY DEF DashboardInit, Unwritten
<1>2. IsFiniteSet({}) /\ Cardinality({}) = 0
  BY FS_EmptySet
<1> QED
  BY <1>1, <1>2, DashboardAssumption DEF DashboardInit, PagesInv

LEMMA PagesStep == DashboardInv /\ PagesInv /\ [DashboardNext]_dashboardVars => PagesInv'
<1> SUFFICES ASSUME DashboardInv, PagesInv, [DashboardNext]_dashboardVars PROVE PagesInv'
  OBVIOUS
<1>a. /\ now \in Nat /\ saving \subseteq Saves(now) /\ {MaxVisits, MaxWrites} \subseteq Nat
      /\ IsFiniteSet(Unwritten) /\ Cardinality(Unwritten) \in Nat
      /\ Cardinality(saving) \in Nat /\ Cardinality(Unwritten) <= Cardinality(saving)
  BY DashboardAssumption, UnwrittenFinite DEF DashboardInv, Typed, PagesInv
<1>1. CASE UNCHANGED <<route, visits, now, saving>>
  BY <1>1 DEF PagesInv, Unwritten
<1>2. ASSUME NEW p \in Page, Visit(p) PROVE PagesInv'
  <2>1. visits < MaxVisits /\ visits' = visits + 1 /\ route' = p /\ now' = now
    BY <1>2 DEF Visit
  <2>2. CASE saving' = saving
    BY <1>a, <2>1, <2>2 DEF PagesInv, Unwritten
  <2>3. CASE saving' = LeavesAccounts
    <3>1. /\ IsFiniteSet(saving') /\ IsFiniteSet(Unwritten') /\ Cardinality(Unwritten') \in Nat
          /\ Cardinality(Unwritten') <= Cardinality(Unwritten)
      BY <1>a, <2>3, LeftFinite DEF PagesInv
    <3> QED
      BY <1>a, <2>1, <3>1 DEF PagesInv
  <2> QED
    BY <1>2, <2>2, <2>3 DEF Visit
<1>3. ASSUME NEW m \in Mutations, MutationSent(m) PROVE PagesInv'
  <2> DEFINE x == [mutation |-> m, at |-> Nothing, observer |-> "page"]
  <2>1. /\ now + Cardinality(saving) < MaxWrites /\ saving' = saving \cup {x}
        /\ UNCHANGED <<route, visits, now>>
    BY <1>3 DEF MutationSent
  <2>2. x.at = Nothing
    OBVIOUS
  <2> HIDE DEF x
  <2>3. Unwritten' = Unwritten \cup {x}
    BY <2>1, <2>2 DEF Unwritten
  <2> HIDE DEF Unwritten
  <2>4. IsFiniteSet(saving')
    BY <2>1, FS_AddElement DEF PagesInv
  <2>5. Cardinality(Unwritten \cup {x}) = Cardinality(Unwritten) \/ Cardinality(Unwritten \cup {x}) = Cardinality(Unwritten) + 1
    BY <1>a, FS_AddElement
  <2>6. now' + Cardinality(Unwritten') <= MaxWrites
    BY <1>a, <2>1, <2>3, <2>5
  <2> QED
    BY <2>1, <2>4, <2>6 DEF PagesInv
<1>4. CASE ServerWrites
  <2>1. PICK s \in saving : /\ s.at = Nothing /\ now' = now + 1
                            /\ saving' = (saving \ {s}) \cup {[s EXCEPT !.at = now']}
    BY <1>4 DEF ServerWrites
  <2> DEFINE x == [s EXCEPT !.at = now']
  <2>2. x.at # Nothing
    BY <1>a, <2>1 DEF Saves, Nothing
  <2> HIDE DEF x
  <2>3. Unwritten' = Unwritten \ {s} /\ s \in Unwritten
    <3>1. saving' = (saving \ {s}) \cup {x}
      BY <2>1 DEF x
    <3> QED
      BY <2>1, <2>2, <3>1 DEF Unwritten
  <2>4. IsFiniteSet(saving \ {s})
    BY FS_RemoveElement DEF PagesInv
  <2>5. IsFiniteSet(saving')
    BY <2>1, <2>4, FS_AddElement
  <2>6. Cardinality(Unwritten \ {s}) = Cardinality(Unwritten) - 1
    <3> HIDE DEF Unwritten
    <3> QED
      BY <1>a, <2>3, FS_RemoveElement
  <2>7. now' + Cardinality(Unwritten') <= MaxWrites
    BY <1>a, <2>1, <2>3, <2>6 DEF PagesInv
  <2> QED
    BY <1>4, <2>5, <2>7 DEF ServerWrites, PagesInv
<1>5. CASE Acknowledged \/ MutationFails
  <2>1. PICK s \in saving : saving' = saving \ {s}
    BY <1>5 DEF Acknowledged, MutationFails
  <2>2. UNCHANGED <<route, visits, now>>
    BY <1>5 DEF Acknowledged, MutationFails
  <2>3. Unwritten' \subseteq Unwritten
    BY <2>1 DEF Unwritten
  <2>4. IsFiniteSet(saving')
    BY <2>1, FS_RemoveElement DEF PagesInv
  <2>5. Cardinality(Unwritten') \in Nat /\ Cardinality(Unwritten') <= Cardinality(Unwritten)
    <3> HIDE DEF Unwritten
    <3> QED
      BY <1>a, <2>3, FS_Subset, FS_CardinalityType
  <2> QED
    BY <1>a, <2>2, <2>4, <2>5 DEF PagesInv
<1> QED
  BY <1>1, <1>2, <1>3, <1>4, <1>5
  DEF DashboardNext, dashboardVars, Mutations, ServerReads, AnswerArrives, FetchFails, TimePasses,
      FetchesAgain

LEMMA PagesTyped == DashboardInv /\ PagesInv => DashboardTypeOK
<1> SUFFICES ASSUME DashboardInv, PagesInv PROVE DashboardTypeOK
  OBVIOUS
<1>1. /\ Flags /\ query \in Query /\ now \in Nat /\ due \in 0 .. now
      /\ cache \in Nothing .. now /\ \A s \in saving : s.observer \in {"page", "kept", "lost"}
  BY DEF DashboardInv, Typed, Saves
<1>2. fetch \in [on : BOOLEAN, read : Nothing .. now]
  <2>1. CASE fetch = Idle
    BY <1>1, <2>1 DEF Idle, Nothing
  <2>2. CASE fetch \in UnderWay(now)
    BY <2>2 DEF UnderWay
  <2> QED
    BY <2>1, <2>2 DEF DashboardInv, Typed
<1>3. /\ now + Cardinality({s \in saving : s.at = Nothing}) <= MaxWrites
      /\ Cardinality({s \in saving : s.at = Nothing}) \in Nat
  BY UnwrittenFinite DEF PagesInv, Unwritten
<1>4. now \in 0 .. MaxWrites
  <2> DEFINE n == Cardinality({s \in saving : s.at = Nothing})
  <2>1. n \in Nat /\ now + n <= MaxWrites
    BY <1>3
  <2> HIDE DEF n
  <2> QED
    BY <1>1, <2>1, DashboardAssumption
<1> QED
  BY <1>1, <1>2, <1>3, <1>4 DEF PagesInv, Flags, DashboardTypeOK

-----------------------------------------------------------------------------
(* The whole: a step of the gateway is one of the part in its focus, and   *)
(* leaves the others alone.                                                *)

GatewayInv ==
  /\ HandlersInv /\ StreamFit /\ RelayInv /\ BodyInv
  /\ NamesInv /\ CombosInv /\ CachesInv /\ CountsInv
  /\ ConsoleInv /\ DashboardInv /\ PagesInv

LEMMA PartsStep ==
  [GatewayNext]_gatewayVars =>
    /\ [HandlersNext]_handlerVars /\ [StreamNext]_streamVars /\ [RelayNext]_relayVars
    /\ [BodyNext]_bodyVars /\ [RegistryNext]_registryVars /\ [CachesNext]_cacheVars
    /\ [ConsoleNext]_consoleVars /\ [DashboardNext]_dashboardVars
BY Zenon DEF GatewayNext, gatewayVars

LEMMA GatewayInitially == GatewayInit => GatewayInv
BY HandlersInitially, FitInitially, RelayInitially, BodyStarts, NamesInitially, CombosInitially,
   CachesInitially, CountsInitially, ConsoleInitially, ShownInitially, PagesInitially
DEF GatewayInit, GatewayInv

LEMMA GatewayStep == GatewayInv /\ [GatewayNext]_gatewayVars => GatewayInv'
BY PartsStep, HandlersStep, FitStep, RelayStep, BodySteps, NamesStep, CombosStep, CachesStep,
   CountsStep, ConsoleStep, ShownStep, PagesStep
DEF GatewayInv

\* The names, the handlers, the assemblers, the relay, the bodies, the caches,
\* the console and the dashboard keep to their types, whatever is in focus.
THEOREM GatewayTyped == GatewaySpec => []GatewayTypeOK
<1>1. GatewayInv => GatewayTypeOK
  BY HandlersTyped, FitTypes, RelayTypes, BodyImplies, NamesTyped, CachesTyped, ConsoleTypes, PagesTyped
  DEF GatewayInv, GatewayTypeOK
<1> QED
  BY <1>1, GatewayInitially, GatewayStep, PTL DEF GatewaySpec
===============================================================================
