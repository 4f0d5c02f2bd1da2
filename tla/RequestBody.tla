----------------------------- MODULE RequestBody -----------------------------
(***************************************************************************)
(* A conversation on its way from the client's body to what the upstream   *)
(* is sent, and the answer on its way back: the augmentation of a combo    *)
(* and of the handler (Caveman's prompt, cache breakpoints, RTK), the      *)
(* conversions between the formats, and Kiro's transform.                  *)
(*                                                                         *)
(* A body is reduced to its system prompt and its messages; a message to   *)
(* its role, whether its content is a string or an array, and its pieces:  *)
(* texts, images, tool uses and tool results, by their numbers.  A tool    *)
(* call of an OpenAI message and a tool_use block are the same piece, as   *)
(* no converter but Kiro's touches the messages.  Bodies are mutated in    *)
(* place, and copies share their parts: {...body} shares the messages and  *)
(* a system prompt in blocks, but not one that is a string.                *)
(***************************************************************************)
EXTENDS SequenceFilter, Integers, Sequences, SequencesExt

CONSTANTS
  OpenAIMessages, AnthropicMessages,   \* the messages a client may send
  MaxMessages,
  Setups,                              \* the settings
  MaxMembers,                          \* how many members of a combo are tried
  Replies                              \* the answers: sequences of kinds of blocks

Role == {"system", "developer", "user", "assistant", "tool"}
Kind == {"text", "prompt", "image", "use", "result", "error", "thinking"}
Block == {"thinking", "text", "use"}   \* of an answer
\* Only content in blocks has images and results, only an assistant calls
\* tools, and a message of role tool is a result.
KindsOf(role, shape) ==
  CASE role = "assistant" -> {"text", "use"}
    [] role = "tool" -> {"result"}
    [] role = "user" /\ shape = "array" -> {"text", "image", "result", "error"}
    [] OTHER -> {"text"}
Template == [role : Role, shape : {"string", "array"}, pieces : Seq(Kind)]

ASSUME BodyAssumption ==
  /\ MaxMessages \in Nat \ {0} /\ MaxMembers \in Nat
  /\ Setups \subseteq [augment : BOOLEAN, rtk : BOOLEAN, forced : BOOLEAN]
  /\ \A m \in OpenAIMessages \cup AnthropicMessages :
       m \in Template /\ m.pieces \in Seq(KindsOf(m.role, m.shape))
  /\ Replies \subseteq Seq(Block)

VARIABLES
  sender,      \* the client: its format, system prompt, messages, tools
  setup,       \* settings: caveman, caching, rtk, and the forced upstream format
  body,        \* the body of the dispatcher, or of the combo
  copy,        \* the body that the handler works on
  openai,      \* Kiro's converted body
  stage,       \* "dispatched", "combo", "handler", "augmented", "sent", "answered"
  target,      \* the provider
  members,     \* how many members of the combo have been tried
  sent,        \* what the upstream reads
  answer       \* the answer: its blocks, as sent and as delivered
bodyVars == <<sender, setup, body, copy, openai, stage, target, members, sent, answer>>

ConvertingProviders == {"pioneer", "codebuddy", "kiro"}   \* TabiToken converts as Pioneer
Target == ConvertingProviders \cup {"minimax", "zai", "qwencloud"}

Piece(kind, id) == [kind |-> kind, id |-> id, squeezed |-> FALSE]
Prompt == Piece("prompt", 0)
Pieces(kinds) == [kind : kinds, id : Nat, squeezed : BOOLEAN]
Texts(pieces) == Filtered(pieces, Pieces({"text", "prompt"}))
Results(pieces) == Filtered(pieces, Pieces({"result", "error"}))
Uses(pieces) == Filtered(pieces, Pieces({"use"}))

Message(role, shape, pieces) == [role |-> role, shape |-> shape, pieces |-> pieces]
NoBody == [system |-> "absent", prompt |-> <<>>, messages |-> <<>>]
NoPayload == [turns |-> <<>>, tools |-> FALSE]

\* The client's messages, from the templates, their pieces numbered in order.
Number(messages) ==
  [i \in DOMAIN messages |->
     [messages[i] EXCEPT !.pieces = [j \in DOMAIN @ |-> Piece(@[j], 10 * i + j)]]]
Clients ==
  [format : {"openai"}, tools : BOOLEAN,
   body : {[NoBody EXCEPT !.messages = Number(m)] :
             m \in SeqOf(OpenAIMessages, MaxMessages) \ {<<>>}}]
  \cup
  [format : {"anthropic"}, tools : BOOLEAN,
   body : {[system |-> system, prompt |-> IF system = "absent" THEN <<>> ELSE <<Piece("text", 1)>>,
            messages |-> Number(m)] :
             system \in {"absent", "string", "blocks"},
             m \in SeqOf(AnthropicMessages, MaxMessages) \ {<<>>}}]

BodyInit ==
  /\ sender \in Clients
  /\ setup \in Setups
  /\ body = sender.body /\ copy = NoBody /\ openai = NoBody
  /\ stage \in {"dispatched", "combo"} /\ members = 0
  /\ target \in IF stage = "combo" THEN {"none"} ELSE Target
  /\ sent = NoPayload /\ answer = [from |-> <<>>, to |-> <<>>]

-----------------------------------------------------------------------------
(* Augmentation. *)

\* injectMessagesSystem: to the first system or developer message, or before all.
Instructs(m) == m.role \in {"system", "developer"}
InjectMessages(messages) ==
  IF \E i \in DOMAIN messages : Instructs(messages[i])
  THEN LET first == CHOOSE i \in DOMAIN messages :
                      /\ Instructs(messages[i])
                      /\ \A k \in 1 .. i - 1 : ~Instructs(messages[k])
       IN [messages EXCEPT ![first].pieces = Append(@, Prompt)]
  ELSE <<Message("system", "string", <<Prompt>>)>> \o messages

\* injectCaveman, then addDualCacheBreakpoints, which turns a string into blocks.
Augment(b) ==
  IF b.system = "absent" THEN [b EXCEPT !.messages = InjectMessages(@)]
  ELSE [b EXCEPT !.prompt = Append(@, Prompt), !.system = "blocks"]

\* What the owner of a copy sees of an augmentation through it.
AugmentShared(b, through) ==
  CASE through.system = "absent" -> [b EXCEPT !.messages = InjectMessages(@)]
    [] through.system = "blocks" -> [b EXCEPT !.prompt = Append(@, Prompt)]
    [] OTHER -> b

\* compressMessages: the results of tools, but not an error.  Message objects
\* are shared by all copies.
Shortened(p) == [p EXCEPT !.squeezed = @ \/ p.kind = "result"]
Squeezed(m) ==
  IF m.role = "tool" \/ m.shape = "array"
  THEN [m EXCEPT !.pieces = [j \in DOMAIN @ |-> Shortened(@[j])]] ELSE m
Squeeze(b) == [b EXCEPT !.messages = [i \in DOMAIN @ |-> Squeezed(@[i])]]

-----------------------------------------------------------------------------
(* Conversions of bodies. *)

\* bodyAnthropicToOpenAI: the system prompt becomes a first message.
AnthropicToOpenAI(b) ==
  IF b.system = "absent" THEN b
  ELSE [NoBody EXCEPT !.messages =
          <<Message("system", IF b.system = "string" THEN "string" ELSE "array", b.prompt)>>
            \o b.messages]
\* bodyOpenAIToAnthropic converts parameters and tools, no message.
OpenAIToAnthropic(b) == b

\* Object.assign(body, converted) leaves the system prompt where it was.
Assigned(b) ==
  IF sender.format = "anthropic"
  THEN [b EXCEPT !.messages = AnthropicToOpenAI(b).messages] ELSE OpenAIToAnthropic(b)

\* preparePioneerBody, prepareTabiBody; CodeBuddy adds a system message of its
\* own where there is none, which says nothing of the client's.
Prepared(b) == IF sender.format = "anthropic" THEN AnthropicToOpenAI(b) ELSE b

-----------------------------------------------------------------------------
(* Kiro's convertMessages: a fold over the messages into turns.             *)

Turn(role, texts, uses, results, tools) ==
  [role |-> role, texts |-> texts, uses |-> uses, results |-> results, tools |-> tools]
NoTurns ==
  [history |-> <<>>, user |-> <<>>, said |-> <<>>, results |-> <<>>, role |-> "none",
   injected |-> FALSE]

\* flattenToolInteractions: without tools, uses and results become text.
AsText(pieces) ==
  [j \in DOMAIN pieces |->
     IF pieces[j].kind \in {"use", "result", "error"} THEN [pieces[j] EXCEPT !.kind = "text"]
     ELSE pieces[j]]
Flatten(messages) ==
  [i \in DOMAIN messages |->
     LET m == messages[i] IN
     IF m.role = "tool" THEN Message("user", "string", AsText(m.pieces))
     ELSE IF m.role = "assistant" THEN Message("assistant", "string", AsText(m.pieces))
     ELSE IF m.role = "user" /\ m.shape = "array" THEN [m EXCEPT !.pieces = AsText(@)]
     ELSE m]

\* Mutant of FlushPending: the results are not taken off the pending ones.
FlushKeepsResults(s, tools) ==
  CASE s.role = "user" ->
         [s EXCEPT !.history = Append(@, Turn("user", s.user, <<>>, s.results, tools /\ ~s.injected)),
                   !.user = <<>>, !.injected = TRUE]
    [] s.role = "assistant" ->
         [s EXCEPT !.history = Append(@, Turn("assistant", s.said, <<>>, <<>>, FALSE)), !.said = <<>>]
    [] OTHER -> s
FlushPending(s, tools) ==
  CASE s.role = "user" ->
         [s EXCEPT !.history = Append(@, Turn("user", s.user, <<>>, s.results, tools /\ ~s.injected)),
                   !.user = <<>>, !.results = <<>>, !.injected = TRUE]
    [] s.role = "assistant" ->
         [s EXCEPT !.history = Append(@, Turn("assistant", s.said, <<>>, <<>>, FALSE)), !.said = <<>>]
    [] OTHER -> s

\* A tool message brings its text only as a string, and no text of its own.
TakeUser(s, m) ==
  IF m.role = "tool"
  THEN [s EXCEPT !.results = @ \o (IF m.shape = "string" THEN Results(m.pieces) ELSE <<>>)]
  ELSE [s EXCEPT !.user = @ \o Texts(m.pieces),
                 !.results = @ \o (IF m.shape = "array" THEN Results(m.pieces) ELSE <<>>)]

\* Tool uses end the turn of the assistant.
TakeAssistant(s, m, tools) ==
  LET said == [s EXCEPT !.said = @ \o Texts(m.pieces)]
      f == FlushPending(said, tools)
  IN IF Uses(m.pieces) = <<>> THEN said
     ELSE [f EXCEPT !.history[Len(f.history)].uses = Uses(m.pieces), !.role = "none"]

TakeMessage(s, m, tools) ==
  LET role == IF m.role \in {"system", "tool"} THEN "user" ELSE m.role
      turned == [(IF role # s.role THEN FlushPending(s, tools) ELSE s) EXCEPT !.role = role]
  IN CASE role = "user" -> TakeUser(turned, m)
       [] role = "assistant" -> TakeAssistant(turned, m, tools)
       [] OTHER -> turned

Taken(messages, tools) ==
  LET taken[n \in 0 .. Len(messages)] ==
        IF n = 0 THEN NoTurns ELSE TakeMessage(taken[n - 1], messages[n], tools)
  IN taken[Len(messages)]

\* The last user turn is the current one, and gets the tools that the first
\* turn of the remaining history holds; user turns that now meet are merged.
Merge(history, turn) ==
  LET last == history[Len(history)] IN
  IF history # <<>> /\ turn.role = "user" /\ last.role = "user"
  THEN [history EXCEPT ![Len(history)].texts = @ \o turn.texts,
                       ![Len(history)].results = @ \o turn.results]
  ELSE Append(history, turn)
Merged(history) ==
  LET merged[n \in 0 .. Len(history)] == IF n = 0 THEN <<>> ELSE Merge(merged[n - 1], history[n])
  IN merged[Len(history)]
ConvertMessages(messages, tools) ==
  LET input == IF tools THEN messages ELSE Flatten(messages)
      turns == FlushPending(Taken(input, tools), tools).history
      users == {i \in DOMAIN turns : turns[i].role = "user"}
      at == IF users = {} THEN 0 ELSE CHOOSE i \in users : \A k \in users : k <= i
      history == IF at = 0 THEN turns ELSE RemoveAt(turns, at)
      current == IF at = 0 THEN Turn("user", <<>>, <<>>, <<>>, FALSE) ELSE turns[at]
  IN [turns |-> Append(Merged(history), current),
      tools |-> current.tools \/ (history # <<>> /\ history[1].tools)]

\* What an upstream without turns of its own reads.
AsTurns(messages) ==
  [i \in DOMAIN messages |->
     LET m == messages[i] IN
     Turn(m.role, Texts(m.pieces), Uses(m.pieces), Results(m.pieces), FALSE)]
OpenAIPayload(b) == [turns |-> AsTurns(b.messages), tools |-> sender.tools]
AnthropicPayload(b) ==
  [turns |-> (IF b.prompt = <<>> THEN <<>> ELSE <<Turn("system", b.prompt, <<>>, <<>>, FALSE)>>)
               \o AsTurns(b.messages),
   tools |-> sender.tools]

-----------------------------------------------------------------------------
\* handleComboProxy up to its loop.
ComboPrepares ==
  /\ stage = "combo" /\ members = 0
  /\ LET a == IF setup.augment THEN Augment(body) ELSE body
         q == IF setup.rtk THEN Squeeze(a) ELSE a
     IN body' = IF setup.forced THEN Assigned(q) ELSE q
  /\ stage' = "loop"
  /\ UNCHANGED <<sender, setup, copy, openai, target, members, sent, answer>>

\* The loop: a MiniMax member is called at once, the others by their handlers.
ComboMember ==
  /\ stage = "loop" /\ members < MaxMembers
  /\ members' = members + 1
  /\ \/ \E t \in ConvertingProviders :
          target' = t /\ copy' = body /\ stage' = "handler" /\ UNCHANGED sent
     \/ /\ target' = "minimax" /\ copy' = body /\ stage' = "sent"
        /\ sent' = IF (sender.format = "anthropic") # setup.forced
                   THEN AnthropicPayload(body) ELSE OpenAIPayload(body)
  /\ UNCHANGED <<sender, setup, body, openai, answer>>

Dispatch ==
  /\ stage = "dispatched"
  /\ copy' = body /\ stage' = "handler"
  /\ UNCHANGED <<sender, setup, body, openai, target, members, sent, answer>>

\* The handler's augmentation.  Kiro converts before it.
HandlerAugments ==
  /\ stage = "handler"
  /\ LET converted == IF sender.format = "anthropic" THEN AnthropicToOpenAI(copy) ELSE copy
         a == IF setup.augment THEN Augment(copy) ELSE copy
         shared == IF ~setup.augment \/ copy.system = "string" THEN converted
                   ELSE IF sender.format = "openai" THEN Augment(converted)
                   ELSE [converted EXCEPT !.messages = InjectMessages(@)]
         owner == IF setup.augment /\ members > 0 THEN AugmentShared(body, copy) ELSE body
     IN /\ copy' = IF setup.rtk THEN Squeeze(a) ELSE a
        /\ openai' = IF target # "kiro" THEN NoBody
                     ELSE IF setup.rtk THEN Squeeze(shared) ELSE shared
        /\ body' = IF setup.rtk THEN Squeeze(owner) ELSE owner
  /\ stage' = "augmented"
  /\ UNCHANGED <<sender, setup, target, members, sent, answer>>

Executes ==
  /\ stage = "augmented" /\ stage' = "sent"
  /\ sent' =
       CASE target = "kiro" -> ConvertMessages(openai.messages, sender.tools)
         [] target \in {"pioneer", "codebuddy"} -> OpenAIPayload(Prepared(copy))
         [] target = "zai" -> IF sender.format = "openai" THEN OpenAIPayload(copy)
                              ELSE AnthropicPayload(copy)
         [] target = "qwencloud" ->
              AnthropicPayload(IF sender.format = "openai" THEN OpenAIToAnthropic(copy) ELSE copy)
         [] target = "minimax" ->
              LET b == IF setup.forced THEN Assigned(copy) ELSE copy IN
              IF (sender.format = "anthropic") # setup.forced THEN AnthropicPayload(b)
              ELSE OpenAIPayload(b)
  /\ UNCHANGED <<sender, setup, body, copy, openai, target, members, answer>>

\* A member fails, and the combo goes on to the next.
MemberFails ==
  /\ stage = "sent" /\ members > 0 /\ stage' = "loop"
  /\ UNCHANGED <<sender, setup, body, copy, openai, target, members, sent, answer>>

\* responseOpenAIToAnthropic, responseAnthropicToOpenAI: the kinds in a fixed order.
Only(blocks, kind) == Filtered(blocks, Pieces({kind}))
Regrouped(blocks) == Only(blocks, "thinking") \o Only(blocks, "text") \o Only(blocks, "use")
Answers ==
  /\ stage = "sent" /\ stage' = "answered"
  /\ \E kinds \in Replies : \E converts \in BOOLEAN :
       LET blocks == [i \in DOMAIN kinds |-> Piece(kinds[i], i)] IN
       answer' = [from |-> blocks, to |-> IF converts THEN Regrouped(blocks) ELSE blocks]
  /\ UNCHANGED <<sender, setup, body, copy, openai, target, members, sent>>

BodyNext ==
  \/ ComboPrepares \/ ComboMember \/ Dispatch \/ HandlerAugments \/ Executes \/ MemberFails
  \/ Answers

BodySpec == BodyInit /\ [][BodyNext]_bodyVars

-----------------------------------------------------------------------------
Payloads(p) == \A i \in DOMAIN p.turns : p.turns[i].role \in Role
BodyTypeOK ==
  /\ sender.format \in {"openai", "anthropic"} /\ target \in Target \cup {"none"}
  /\ stage \in {"dispatched", "combo", "loop", "handler", "augmented", "sent", "answered"}
  /\ members \in 0 .. MaxMembers /\ Payloads(sent) /\ Len(answer.from) = Len(answer.to)

Ids(pieces) == [j \in DOMAIN pieces |-> pieces[j].id]
Said(turns) == FlattenSeq([i \in DOMAIN turns |-> Ids(Filtered(turns[i].texts, Pieces(Kind \ {"prompt"})))])
Called(turns) == FlattenSeq([i \in DOMAIN turns |-> Ids(turns[i].uses)])
Returned(turns) == FlattenSeq([i \in DOMAIN turns |-> Ids(turns[i].results)])
Prompts(turns) == FlattenSeq([i \in DOMAIN turns |-> Filtered(turns[i].texts, Pieces({"prompt"}))])
AllPieces(messages) == FlattenSeq([i \in DOMAIN messages |-> messages[i].pieces])
Squeezable == {p.id : p \in {q \in ToSet(AllPieces(sender.body.messages)) : q.kind = "result"}}
Untouched(turns) ==
  \A i \in DOMAIN turns : \A p \in ToSet(turns[i].texts) \cup ToSet(turns[i].results) :
    p.squeezed => setup.rtk /\ p.id \in Squeezable

Original == AnthropicPayload(sender.body).turns
Flattened ==
  Ids(sender.body.prompt \o Filtered(AllPieces(sender.body.messages), Pieces(Kind \ {"image"})))

\* Where the code is known to lose or to repeat a piece.
AssistantEnds == Last(sender.body.messages).role = "assistant"
DropsMessages ==
  \E i \in DOMAIN sender.body.messages :
    LET m == sender.body.messages[i] IN
    m.role = "developer" \/ (m.role = "tool" /\ m.shape = "array" /\ sender.tools)
ConvertedTwice == members > 0 /\ setup.forced
AugmentationLost == target = "kiro" /\ sender.body.system = "string"

(* Every text, tool use and tool result of the client reaches the upstream  *)
(* once and in order, whatever was shared with a body that is mutated after *)
(* the conversion; Kiro's turns keep the order of each kind, and their      *)
(* tools.  RTK touches nothing but results of tools that are no errors.  A  *)
(* request that is no combo's carries Caveman's prompt once.  The cases     *)
(* above are excepted: each is a finding.  What comes back loses no block.  *)
ConversationReachesUpstream ==
  /\ stage = "sent" /\ ~ConvertedTwice /\ ~(target = "kiro" /\ (DropsMessages \/ AssistantEnds)) =>
       /\ IF target = "kiro" /\ ~sender.tools THEN Said(sent.turns) = Flattened
          ELSE /\ Said(sent.turns) = Said(Original)
               /\ Called(sent.turns) = Called(Original)
               /\ Returned(sent.turns) = Returned(Original)
       /\ Untouched(sent.turns)
       /\ sent.tools = sender.tools \/ Head(sender.body.messages).role = "assistant"
       /\ members = 0 /\ ~AugmentationLost =>
            Len(Prompts(sent.turns)) = IF setup.augment THEN 1 ELSE 0
  /\ \A kind \in Block : Ids(Only(answer.to, kind)) = Ids(Only(answer.from, kind))
==============================================================================
