------------------------------- MODULE Registry -------------------------------
(***************************************************************************)
(* The names a client may ask for: models, aliases and combos, the admin   *)
(* API that edits them, the seeds that fill the models table, and the      *)
(* alias cache through which a request resolves its name.                  *)
(*                                                                         *)
(* A model's name is a pair of a namespace ("" for none) and an id, so     *)
(* that a bare name may be the name of a model too (OwnName); a combo's    *)
(* member names it by the prefix of a provider and the id.  The upstream   *)
(* name of a model is its name.                                            *)
(*                                                                         *)
(* Every handler is one step, for what it writes depends on no check that  *)
(* it makes before it awaits the body, except PUT of an alias, which reads *)
(* the alias first and may write back the target it had.                   *)
(***************************************************************************)
EXTENDS Integers, FiniteSets

CONSTANTS
  NONE,
  RegistryName,    \* pairs of a namespace and an id
  PrefixOf,        \* the prefix of each provider, as in model-prefix.ts
  Catalogue,       \* the names each provider's seed brings
  SeedSetsEnabled, \* the providers whose seeds write the column `enabled`
  SeededOff,       \* pairs of a provider and a name that its seed brings disabled
  BareName,        \* names of aliases and combos: they have no slash
  AliasPut,        \* requests that update an alias
  ComboId,
  AliasTtl

RegistryProvider == DOMAIN PrefixOf
ASSUME RegistryAssumption ==
  /\ AliasTtl \in Nat \ {0}
  /\ DOMAIN Catalogue \subseteq RegistryProvider /\ SeedSetsEnabled \subseteq DOMAIN Catalogue

VARIABLES
  models,      \* models: NONE, or the provider and whether it is enabled
  aliases,     \* model_aliases: NONE, or the model
  combos,      \* combos: NONE, or a name and its members
  aliasCache,  \* alias-cache.ts: NONE, or a copy of the aliases and its age
  puts         \* PUT requests that await their body: NONE, or the alias
registryVars == <<models, aliases, combos, aliasCache, puts>>

Row == [by : RegistryProvider, on : BOOLEAN]
ASSUME NoneAssumption == NONE \notin RegistryName \cup Row \cup BareName

ModelIds == {n[2] : n \in RegistryName}
Member == [prefix : {PrefixOf[p] : p \in RegistryProvider}, id : ModelIds]

RegistryInit ==
  /\ models = [n \in RegistryName |-> NONE]
  /\ aliases = [a \in BareName |-> NONE]
  /\ combos = [c \in ComboId |-> NONE]
  /\ aliasCache = NONE
  /\ puts = [p \in AliasPut |-> NONE]

Listed(n) == models[n] # NONE
ComboNames == {combos[c].name : c \in {d \in ComboId : combos[d] # NONE}}
AliasNames == {a \in BareName : aliases[a] # NONE}

-----------------------------------------------------------------------------
(* resolveModel *)

Unknown == [outcome |-> "unknown", by |-> NONE, model |-> NONE]
Found(n) ==
  [outcome |-> IF models[n].on THEN "served" ELSE "disabled", by |-> models[n].by, model |-> n]

\* A bare name as the name of a model.
OwnName(a) == <<"", a>>
\* A bare name is an alias, in what is taken for the table.  resolveAlias gives
\* back a name that is none; a name that is given back is unknown, also if it is
\* an alias, whose target is the model of its name.
AliasTarget(a, table) == IF table[a] = NONE THEN OwnName(a) ELSE table[a]
ResolveBare(a, table) ==
  LET model == AliasTarget(a, table) IN
  IF model = OwnName(a) \/ ~Listed(model) THEN Unknown ELSE Found(model)

\* resolveAlias fills the cache when there is none, or when it is too old.
Outdated == IF aliasCache = NONE THEN TRUE ELSE aliasCache.age > AliasTtl
AliasTable == IF Outdated THEN aliases ELSE aliasCache.map
AskAlias(a) ==
  /\ a \notin ComboNames /\ Outdated
  /\ aliasCache' = [map |-> aliases, age |-> 0]
  /\ UNCHANGED <<models, aliases, combos, puts>>

-----------------------------------------------------------------------------
(* Models.  upsertModel never changes the provider of a row that exists.    *)

PostModel(n, p) ==
  /\ ~Listed(n)
  /\ models' = [models EXCEPT ![n] = [by |-> p, on |-> TRUE]]
  /\ UNCHANGED <<aliases, combos, aliasCache, puts>>

ToggleModels(S, on) ==
  /\ models' = [n \in RegistryName |->
                  IF n \in S /\ Listed(n) THEN [models[n] EXCEPT !.on = on] ELSE models[n]]
  /\ UNCHANGED <<aliases, combos, aliasCache, puts>>

\* A seed that writes `enabled` undoes what the admin has switched.
Upserted(n, p) ==
  LET on == <<p, n>> \notin SeededOff IN
  IF ~Listed(n) THEN [by |-> p, on |-> on]
  ELSE IF p \in SeedSetsEnabled THEN [models[n] EXCEPT !.on = on] ELSE models[n]
Seed(p) ==
  /\ models' = [n \in RegistryName |-> IF n \in Catalogue[p] THEN Upserted(n, p) ELSE models[n]]
  /\ UNCHANGED <<aliases, combos, aliasCache, puts>>

\* The check for references: by alias, and by combo members that are spelled
\* as the model's name is, which prefixed members seldom are.
\* Mutant of Referenced: only combos are looked at.
ReferencedByCombo(n) ==
  \E c \in ComboId : combos[c] # NONE /\ [prefix |-> n[1], id |-> n[2]] \in combos[c].members
Referenced(n) ==
  \/ \E a \in BareName : aliases[a] = n
  \/ ReferencedByCombo(n)

\* The row goes, and with it the aliases that refer to it (ON DELETE CASCADE).
DeleteModel(n) ==
  /\ Listed(n) /\ ~Referenced(n)
  /\ models' = [models EXCEPT ![n] = NONE]
  /\ aliases' = [a \in BareName |-> IF aliases[a] = n THEN NONE ELSE aliases[a]]
  /\ UNCHANGED <<combos, aliasCache, puts>>

-----------------------------------------------------------------------------
(* Aliases: every handler that writes one clears the cache.                 *)

\* upsertAlias: the name must not be a combo's, and the target must be a model's
\* name (by the check of the handler, or by the foreign key).
UpsertAlias(a, n) ==
  /\ Listed(n) /\ a \notin ComboNames
  /\ aliases' = [aliases EXCEPT ![a] = n]
  /\ aliasCache' = NONE

\* POST: a new alias or a new target, which may be the name itself.
SetAlias(a, n) == UpsertAlias(a, n) /\ UNCHANGED <<models, combos, puts>>

\* PUT looks for the alias, awaits the body, and writes the target that the body
\* names or else the one it has found, which any model may have been, whatever
\* has become of the alias: one deleted meanwhile is made again.
PutReads(p, a) ==
  /\ puts[p] = NONE /\ aliases[a] # NONE
  /\ puts' = [puts EXCEPT ![p] = a]
  /\ UNCHANGED <<models, aliases, combos, aliasCache>>
PutWrites(p) ==
  /\ puts[p] # NONE
  /\ \E n \in RegistryName : UpsertAlias(puts[p], n)
  /\ puts' = [puts EXCEPT ![p] = NONE]
  /\ UNCHANGED <<models, combos>>
\* The body is not valid, or upsertAlias refuses.
PutRefused(p) ==
  /\ puts[p] # NONE
  /\ puts' = [puts EXCEPT ![p] = NONE]
  /\ UNCHANGED <<models, aliases, combos, aliasCache>>

DeleteAlias(a) ==
  /\ aliases[a] # NONE
  /\ aliases' = [aliases EXCEPT ![a] = NONE]
  /\ aliasCache' = NONE
  /\ UNCHANGED <<models, combos, puts>>

-----------------------------------------------------------------------------
(* Combos: the name is unique, and an alias's only if the combo had it.     *)

Free(name, c) == \A d \in ComboId \ {c} : combos[d] # NONE => combos[d].name # name

CreateCombo(c, name, members) ==
  /\ combos[c] = NONE /\ name \notin AliasNames /\ Free(name, c)
  /\ combos' = [combos EXCEPT ![c] = [name |-> name, members |-> members]]
  /\ UNCHANGED <<models, aliases, aliasCache, puts>>

UpdateCombo(c, name, members) ==
  /\ combos[c] # NONE /\ Free(name, c)
  /\ name # combos[c].name => name \notin AliasNames
  /\ combos' = [combos EXCEPT ![c] = [name |-> name, members |-> members]]
  /\ UNCHANGED <<models, aliases, aliasCache, puts>>

DeleteCombo(c) ==
  /\ combos[c] # NONE
  /\ combos' = [combos EXCEPT ![c] = NONE]
  /\ UNCHANGED <<models, aliases, aliasCache, puts>>

RegistryTick ==
  /\ aliasCache # NONE /\ aliasCache.age <= AliasTtl
  /\ aliasCache' = [aliasCache EXCEPT !.age = @ + 1]
  /\ UNCHANGED <<models, aliases, combos, puts>>

RegistryNext ==
  \/ \E n \in RegistryName : DeleteModel(n) \/ \E p \in RegistryProvider : PostModel(n, p)
  \/ \E S \in SUBSET RegistryName, on \in BOOLEAN : ToggleModels(S, on)
  \/ \E p \in DOMAIN Catalogue : Seed(p)
  \/ \E a \in BareName :
       \/ AskAlias(a) \/ DeleteAlias(a) \/ \E n \in RegistryName : SetAlias(a, n)
       \/ \E p \in AliasPut : PutReads(p, a)
  \/ \E p \in AliasPut : PutWrites(p) \/ PutRefused(p)
  \/ \E c \in ComboId : \/ DeleteCombo(c)
                        \/ \E name \in BareName, members \in SUBSET Member \ {{}} :
                             CreateCombo(c, name, members) \/ UpdateCombo(c, name, members)
  \/ RegistryTick

RegistrySpec == RegistryInit /\ [][RegistryNext]_registryVars

-----------------------------------------------------------------------------
RegistryTypeOK ==
  /\ models \in [RegistryName -> Row \cup {NONE}]
  /\ aliases \in [BareName -> RegistryName \cup {NONE}]
  /\ \A c \in ComboId : combos[c] # NONE =>
       combos[c].name \in BareName /\ combos[c].members \in SUBSET Member \ {{}}
  /\ aliasCache # NONE => aliasCache.age \in 0 .. AliasTtl + 1 /\ DOMAIN aliasCache.map = BareName
  /\ puts \in [AliasPut -> BareName \cup {NONE}]

(* "Names are unique across the bare namespace" (combos.ts:47): no name is  *)
(* both an alias and a combo, and no two combos have one, whatever the      *)
(* order of creating, renaming and deleting on either side.                 *)
NamesUnambiguous ==
  /\ ComboNames \cap AliasNames = {}
  /\ \A c, d \in ComboId :
       combos[c] # NONE /\ combos[d] # NONE /\ combos[c].name = combos[d].name => c = d

(* A bare name means one thing, and resolves as the tables would have it:   *)
(* the alias cache lives for 30 s, and is right because whatever changes an *)
(* alias clears it, also a PUT that comes late, and because a model that an *)
(* alias refers to is not deleted.  An alias leads to a model, except one   *)
(* of its own name, which POST accepts (aliases.ts:40-52) and resolution    *)
(* takes for no alias (alias.ts:66).                                        *)
NamesResolveAsListed ==
  /\ NamesUnambiguous
  /\ \A a \in BareName \ ComboNames :
       /\ ResolveBare(a, AliasTable) = ResolveBare(a, aliases)
       /\ aliases[a] \notin {NONE, OwnName(a)} => ResolveBare(a, AliasTable) # Unknown
=============================================================================
