-------------------------- MODULE ProviderHandlers --------------------------
(***************************************************************************)
(* The handlers of the providers with a path of their own: CodeBuddy,      *)
(* Pioneer, TabiToken, Z.AI, QwenCloud and Kiro (proxy/<provider>.ts with  *)
(* providers/<provider>/).  They share a skeleton and differ in the names  *)
(* they call a model by, in what they ask of the upstream, in how they     *)
(* turn its answer into the client's, and in what they record.             *)
(*                                                                         *)
(* A behaviour runs one provider with one account and one of its models;   *)
(* which account of several is taken is the subject of RequestPipeline.    *)
(* Steps run from one await to the next.  The rest of a prelude without    *)
(* augmentation touches nothing that others read, so that the step between *)
(* it and the selection is harmless where the code has no await.           *)
(*                                                                         *)
(* A model has the name of its row and the bare name that the upstream     *)
(* knows; they differ in the namespaced providers.  A failed answer is     *)
(* reduced to its verdict (ErrorRules): a cooldown, an exhausted balance,  *)
(* or neither.  Bodies are reduced to their wire format and framing.       *)
(***************************************************************************)
EXTENDS Integers, Sequences

CONSTANTS
  HandlerRequest,
  Augments,       \* settings.caveman or settings.caching are on
  MaxCooldown

ASSUME HandlerAssumption ==
  Augments \in BOOLEAN /\ MaxCooldown \in Nat \ {0}

VARIABLES
  provider,    \* the provider of this behaviour
  pacct,       \* its account
  plock,       \* account_model_locks of the account, by the name they carry
  banned,      \* history: what is left of the last cooldown of the model
  preq         \* the requests
handlerVars == <<provider, pacct, plock, banned, preq>>

Format == {"openai", "anthropic"}
Namespaced == {"pioneer", "tabi"}
Delegated == {"kiro", "codebuddy", "pioneer", "tabi"}   \* combo.ts has a branch for them
Provider == Delegated \cup {"zai", "qwencloud"}
ModelName == {"bare", "namespaced"}
Cooldown == 0 .. MaxCooldown

NoRequest ==
  [pc |-> "idle", format |-> "openai", stream |-> FALSE, combo |-> FALSE, dirty |-> FALSE,
   status |-> 0, body |-> <<>>, rows |-> 0, metered |-> FALSE]

HandlersInit ==
  /\ provider \in Provider
  /\ pacct = [enabled |-> TRUE, limited |-> 0, dirty |-> FALSE]
  /\ plock = [n \in ModelName |-> 0]
  /\ banned = 0
  /\ preq = [r \in HandlerRequest |-> NoRequest]

\* The name of the model's row.
RowName == IF provider \in Namespaced THEN "namespaced" ELSE "bare"

-----------------------------------------------------------------------------
(* What each executor asks of its upstream: the wire format of the call,   *)
(* whether it asks for a stream, and for the usage at its end.             *)

Asked(wire, stream, usage) == [wire |-> wire, stream |-> stream, usage |-> usage]

\* Mutant of PioneerAsks: the client's own choice is forwarded.
PioneerForwards(format, stream) == Asked("openai", stream, TRUE)
PioneerAsks(format, stream) == Asked("openai", TRUE, TRUE)
TabiAsks(format, stream) == Asked("openai", TRUE, TRUE)
CodeBuddyAsks(format, stream) == Asked("openai", TRUE, TRUE)
ZaiAsks(format, stream) == Asked(format, TRUE, format = "openai")
QwenCloudAsks(format, stream) == Asked("anthropic", TRUE, FALSE)
\* Kiro has one wire, and executeKiro assembles a JSON when no stream is wanted.
KiroAsks(format, stream) == Asked("events", stream, TRUE)

Asks(format, stream) ==
  CASE provider = "pioneer"   -> PioneerAsks(format, stream)
    [] provider = "tabi"      -> TabiAsks(format, stream)
    [] provider = "codebuddy" -> CodeBuddyAsks(format, stream)
    [] provider = "zai"       -> ZaiAsks(format, stream)
    [] provider = "qwencloud" -> QwenCloudAsks(format, stream)
    [] provider = "kiro"      -> KiroAsks(format, stream)

\* A healthy upstream answers in the format and framing it is asked for; the
\* Anthropic format always carries its usage, OpenAI's stream only on demand.
HealthyBody(asked) ==
  [wire |-> asked.wire, framing |-> IF asked.stream THEN "sse" ELSE "json",
   usage |-> asked.wire # "openai" \/ ~asked.stream \/ asked.usage]

-----------------------------------------------------------------------------
(* How a body becomes the client's.  The empty sequence as delivered stands *)
(* for an exception: the handler cannot read what it got.                   *)

Delivered(body, metered) == [body |-> body, metered |-> metered]
Unreadable == Delivered(<<>>, FALSE)

\* pipeWithUsage: the bytes as they are, the usage read in the client's format.
Piped(u, format) == Delivered(<<u.wire, u.framing>>, u.wire = format /\ u.usage)
\* openaiSSEToAnthropicSSE and the Kiro assemblers.
Bridged(u, wire, format) ==
  IF <<u.wire, u.framing>> = <<wire, "sse">> THEN Delivered(<<format, "sse">>, u.usage)
  ELSE Unreadable
\* aggregateOpenAISSE and aggregateAnthropicSSE, with the conversion that follows.
Aggregated(u, wire, format) ==
  IF <<u.wire, u.framing>> = <<wire, "sse">> THEN Delivered(<<format, "json">>, u.usage)
  ELSE Unreadable
\* resp.json()
ReadJson(u, wire, format) ==
  IF <<u.wire, u.framing>> = <<wire, "json">> THEN Delivered(<<format, "json">>, u.usage)
  ELSE Unreadable

PioneerDelivers(u, format, stream) ==
  IF ~stream THEN Aggregated(u, "openai", format)
  ELSE IF format = "anthropic" THEN Bridged(u, "openai", format) ELSE Piped(u, "openai")
TabiDelivers(u, format, stream) ==
  IF ~stream THEN Aggregated(u, "openai", format)
  ELSE IF format = "anthropic" THEN Bridged(u, "openai", format) ELSE Piped(u, "openai")
CodeBuddyDelivers(u, format, stream) ==
  IF ~stream THEN Aggregated(u, "openai", format)
  ELSE IF format = "anthropic" THEN Bridged(u, "openai", format) ELSE Piped(u, "openai")
ZaiDelivers(u, format, stream) ==
  IF stream THEN Piped(u, format)
  ELSE IF format = "anthropic" THEN ReadJson(u, "anthropic", format)
  ELSE Aggregated(u, "openai", format)
QwenCloudDelivers(u, format, stream) ==
  IF stream THEN Piped(u, "anthropic") ELSE Aggregated(u, "anthropic", format)
KiroDelivers(u, format, stream) ==
  IF stream THEN Bridged(u, "events", format) ELSE ReadJson(u, "events", format)

Delivers(format, stream) ==
  LET u == HealthyBody(Asks(format, stream)) IN
  CASE provider = "pioneer"   -> PioneerDelivers(u, format, stream)
    [] provider = "tabi"      -> TabiDelivers(u, format, stream)
    [] provider = "codebuddy" -> CodeBuddyDelivers(u, format, stream)
    [] provider = "zai"       -> ZaiDelivers(u, format, stream)
    [] provider = "qwencloud" -> QwenCloudDelivers(u, format, stream)
    [] provider = "kiro"      -> KiroDelivers(u, format, stream)

-----------------------------------------------------------------------------
(* The steps of the skeleton; each handler instantiates them below.        *)

Ends(r, status, rows) ==
  preq' = [preq EXCEPT ![r] = [NoRequest EXCEPT !.pc = "done", !.status = status, !.rows = rows]]
Refuses(r, status) == Ends(r, status, 0) /\ UNCHANGED <<provider, pacct, plock, banned>>

\* A request reaches its handler, from the client or from a combo, whose own
\* lock test knows the row's name.  The augmentation awaits.
Reaches(r, p) ==
  /\ provider = p /\ preq[r].pc \in {"idle", "done"}
  /\ \E format \in Format, stream \in BOOLEAN, combo \in BOOLEAN :
       /\ combo => p \in Delegated /\ plock[RowName] = 0
       /\ preq' = [preq EXCEPT ![r] =
            [NoRequest EXCEPT !.pc = IF Augments THEN "augmenting" ELSE "selecting",
                              !.format = format, !.stream = stream, !.combo = combo]]
  /\ UNCHANGED <<provider, pacct, plock, banned>>

AugmentRequest(r) ==
  /\ preq[r].pc = "augmenting"
  /\ preq' = [preq EXCEPT ![r].pc = "selecting"]
  /\ UNCHANGED <<provider, pacct, plock, banned>>

\* Selection, the lock test under the handler's name of the model, the call.
Selects(r, p, name) ==
  /\ provider = p /\ preq[r].pc = "selecting"
  /\ \/ (~pacct.enabled \/ pacct.limited > 0) /\ Refuses(r, 503)
     \/ pacct.enabled /\ pacct.limited = 0 /\ plock[name] > 0 /\ Refuses(r, 429)
     \/ /\ pacct.enabled /\ pacct.limited = 0 /\ plock[name] = 0
        /\ preq' = [preq EXCEPT ![r].pc = "called", ![r].dirty = pacct.dirty]
        /\ UNCHANGED <<provider, pacct, plock, banned>>

Verdict == [cooldown : Cooldown, balance : {FALSE}] \cup [cooldown : {0}, balance : {TRUE}]

\* handleUpstreamError under the handler's name of the model.
Penalises(name, verdict) ==
  /\ pacct' = [enabled |-> pacct.enabled /\ ~verdict.balance,
               limited |-> verdict.cooldown, dirty |-> TRUE]
  /\ plock' = IF verdict.cooldown > 0 THEN [plock EXCEPT ![name] = verdict.cooldown] ELSE plock
  /\ banned' = IF verdict.cooldown > 0 THEN verdict.cooldown ELSE banned

\* A failed answer is penalised, logged and passed on.
Fails(r, p, name) ==
  /\ provider = p /\ preq[r].pc = "called"
  /\ \E verdict \in Verdict : Penalises(name, verdict)
  /\ Ends(r, 500, 1)
  /\ UNCHANGED provider

\* The catch: one row and a 502.  It also catches what goes wrong after a good
\* answer, while the body of a client that wants no stream is read.
Throws(r, p) ==
  /\ provider = p /\ preq[r].pc \in {"called", "reading"}
  /\ Ends(r, 502, 1)
  /\ UNCHANGED <<provider, pacct, plock, banned>>

\* A good answer clears the account if the copy taken at the selection was not
\* clean; a stream is handed to the client, any other body is read first.
Succeeds(r, p) ==
  /\ provider = p /\ preq[r].pc = "called"
  /\ pacct' = IF preq[r].dirty THEN [pacct EXCEPT !.limited = 0, !.dirty = FALSE] ELSE pacct
  /\ LET d == Delivers(preq[r].format, preq[r].stream) IN
     preq' = [preq EXCEPT ![r].pc = IF preq[r].stream THEN "streaming" ELSE "reading",
                          ![r].status = IF preq[r].stream THEN 200 ELSE 0,
                          ![r].body = d.body, ![r].metered = d.metered]
  /\ UNCHANGED <<provider, plock, banned>>

\* The body read to its end: recordUsage and the answer, or the catch.
BodyDone(r) ==
  /\ preq[r].pc = "reading"
  /\ Ends(r, IF preq[r].body = <<>> THEN 502 ELSE 200, 1)
  /\ UNCHANGED <<provider, pacct, plock, banned>>

\* The relay reports the usage at the end of a stream, and not at all when the
\* stream breaks.
StreamDone(r) ==
  /\ preq[r].pc = "streaming"
  /\ \E rows \in 0 .. 1 : Ends(r, 200, rows)
  /\ UNCHANGED <<provider, pacct, plock, banned>>

-----------------------------------------------------------------------------
(* The handlers.  The names by which they test and set the locks: Pioneer   *)
(* and TabiToken strip their namespace; CodeBuddy, QwenCloud, Z.AI and Kiro *)
(* use the name in the row, which is the bare one.                          *)

CodeBuddyReached(r) == Reaches(r, "codebuddy")
CodeBuddySelects(r) == Selects(r, "codebuddy", RowName)
CodeBuddyFails(r) == Fails(r, "codebuddy", RowName)
CodeBuddySucceeds(r) == Succeeds(r, "codebuddy")
CodeBuddyThrows(r) == Throws(r, "codebuddy")

\* Mutant of PioneerSelects: the lock test uses the row's name.
PioneerSelectsByRow(r) == Selects(r, "pioneer", RowName)
PioneerReached(r) == Reaches(r, "pioneer")
PioneerSelects(r) == Selects(r, "pioneer", "bare")
PioneerFails(r) == Fails(r, "pioneer", "bare")
PioneerSucceeds(r) == Succeeds(r, "pioneer")
PioneerThrows(r) == Throws(r, "pioneer")

TabiReached(r) == Reaches(r, "tabi")
TabiSelects(r) == Selects(r, "tabi", "bare")
TabiFails(r) == Fails(r, "tabi", "bare")
TabiSucceeds(r) == Succeeds(r, "tabi")
TabiThrows(r) == Throws(r, "tabi")

ZaiReached(r) == Reaches(r, "zai")
ZaiSelects(r) == Selects(r, "zai", "bare")
ZaiFails(r) == Fails(r, "zai", "bare")
ZaiSucceeds(r) == Succeeds(r, "zai")
ZaiThrows(r) == Throws(r, "zai")

\* QwenCloud has no converter for an OpenAI stream: 501 with a row, before any
\* account is looked at.
Unsupported(r) == preq[r].format = "openai" /\ preq[r].stream
QwenCloudReached(r) == Reaches(r, "qwencloud")
QwenCloudRefuses(r) ==
  /\ provider = "qwencloud" /\ preq[r].pc = "selecting" /\ Unsupported(r)
  /\ Ends(r, 501, 1)
  /\ UNCHANGED <<provider, pacct, plock, banned>>
QwenCloudSelects(r) == ~Unsupported(r) /\ Selects(r, "qwencloud", RowName)
QwenCloudFails(r) == Fails(r, "qwencloud", RowName)
QwenCloudSucceeds(r) == Succeeds(r, "qwencloud")
QwenCloudThrows(r) == Throws(r, "qwencloud")

\* Kiro's catch penalises the account as for a 502, a fixed cooldown.
KiroReached(r) == Reaches(r, "kiro")
KiroSelects(r) == Selects(r, "kiro", RowName)
KiroFails(r) == Fails(r, "kiro", RowName)
KiroSucceeds(r) == Succeeds(r, "kiro")
KiroThrows(r) ==
  /\ provider = "kiro" /\ preq[r].pc \in {"called", "reading"}
  /\ Penalises(RowName, [cooldown |-> 1, balance |-> FALSE])
  /\ Ends(r, 502, 1)
  /\ UNCHANGED provider

-----------------------------------------------------------------------------
\* The admin enables the account again, or lifts the lock he sees in the list.
HandlerAdmin ==
  /\ \/ pacct' = [pacct EXCEPT !.enabled = TRUE] /\ ~pacct.enabled /\ UNCHANGED <<plock, banned>>
     \/ \E n \in ModelName : /\ plock[n] > 0
                             /\ plock' = [plock EXCEPT ![n] = 0] /\ banned' = 0
                             /\ UNCHANGED pacct
  /\ UNCHANGED <<provider, preq>>

\* Mutant of Less: what has run out goes on.
LessThanNothing(n) == n - 1
Less(n) == IF n = 0 THEN 0 ELSE n - 1
HandlerTick ==
  /\ pacct' = [pacct EXCEPT !.limited = Less(@)]
  /\ plock' = [n \in ModelName |-> Less(plock[n])]
  /\ banned' = Less(banned)
  /\ UNCHANGED <<provider, preq>>

HandlersNext ==
  \/ \E r \in HandlerRequest :
       \/ AugmentRequest(r) \/ BodyDone(r) \/ StreamDone(r)
       \/ CodeBuddyReached(r) \/ CodeBuddySelects(r) \/ CodeBuddyFails(r)
       \/ CodeBuddySucceeds(r) \/ CodeBuddyThrows(r)
       \/ PioneerReached(r) \/ PioneerSelects(r) \/ PioneerFails(r)
       \/ PioneerSucceeds(r) \/ PioneerThrows(r)
       \/ TabiReached(r) \/ TabiSelects(r) \/ TabiFails(r) \/ TabiSucceeds(r) \/ TabiThrows(r)
       \/ ZaiReached(r) \/ ZaiSelects(r) \/ ZaiFails(r) \/ ZaiSucceeds(r) \/ ZaiThrows(r)
       \/ QwenCloudReached(r) \/ QwenCloudRefuses(r) \/ QwenCloudSelects(r)
       \/ QwenCloudFails(r) \/ QwenCloudSucceeds(r) \/ QwenCloudThrows(r)
       \/ KiroReached(r) \/ KiroSelects(r) \/ KiroFails(r) \/ KiroSucceeds(r) \/ KiroThrows(r)
  \/ HandlerAdmin
  \/ HandlerTick

HandlersSpec == HandlersInit /\ [][HandlersNext]_handlerVars

-----------------------------------------------------------------------------
HandlersTypeOK ==
  /\ provider \in Provider
  /\ pacct \in [enabled : BOOLEAN, limited : Cooldown, dirty : BOOLEAN]
  /\ plock \in [ModelName -> Cooldown] /\ banned \in Cooldown
  /\ \A r \in HandlerRequest :
       /\ preq[r].pc \in {"idle", "augmenting", "selecting", "called", "streaming", "reading", "done"}
       /\ preq[r].format \in Format /\ preq[r].rows \in 0 .. 1
       /\ {preq[r].stream, preq[r].combo, preq[r].dirty, preq[r].metered} \subseteq BOOLEAN
       /\ preq[r].status \in {0, 200, 429, 500, 501, 502, 503}

(* A model that a failing call has locked for an account is not called with *)
(* it again before the lock has run out or an admin has lifted it: whatever *)
(* the order of the answers in between (a success of an older call clears   *)
(* the account's own cooldown), and whether the request names the model or  *)
(* a combo does, which knows it by another name than the handler.           *)
LocksBindEveryRoute ==
  [][ \A r \in HandlerRequest :
        preq[r].pc # "called" /\ preq'[r].pc = "called" => banned = 0 ]_handlerVars

(* What a healthy upstream answers reaches the client in the format and the *)
(* framing it has asked for, and with its usage: each handler reads what    *)
(* its executor has asked the upstream to send.  Z.AI reads JSON although   *)
(* it has asked for a stream when an Anthropic client wants none.           *)
KnownMismatch(r) == provider = "zai" /\ preq[r].format = "anthropic" /\ ~preq[r].stream
HealthyAnswersDelivered ==
  \A r \in HandlerRequest :
    preq[r].pc \in {"reading", "streaming"} /\ ~KnownMismatch(r) =>
      /\ preq[r].body = <<preq[r].format, IF preq[r].stream THEN "sse" ELSE "json">>
      /\ preq[r].metered
=============================================================================
