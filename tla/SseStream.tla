------------------------------ MODULE SseStream ------------------------------
(***************************************************************************)
(* The assemblers that turn an upstream's stream into the client's:        *)
(* OpenAIToAnthropicSSEAssembler and KiroAnthropicAssembler on their base  *)
(* SseAssemblerBase, and KiroAssembler, which makes OpenAI chunks.         *)
(*                                                                         *)
(* A behaviour runs one of them.  Content is reduced to its               *)
(* source: the text, the thinking, or the tool call it belongs to.  An     *)
(* event is put on the queue by the step that processes its input, and     *)
(* read by the client at any later time.                                   *)
(*                                                                         *)
(* What Kiro is assumed to send: nothing but metadata after its            *)
(* messageStopEvent, and all the input of one tool use before the next     *)
(* content (KiroWellBehaved); without it toolUseEvent writes the input of  *)
(* a known tool use into whatever block is open.                           *)
(***************************************************************************)
EXTENDS Integers, Sequences, SequencesExt

CONSTANTS
  Tool,               \* the tool calls of an answer: an index or an id
  MaxInputs,          \* how many chunks or events the upstream sends
  KiroWellBehaved

ASSUME SseAssumption ==
  MaxInputs \in Nat \ {0} /\ KiroWellBehaved \in BOOLEAN /\ "none" \notin Tool

VARIABLES
  assembler,   \* the one of this behaviour
  asm,         \* its state
  inputs,      \* how many inputs it has processed
  upstreamAt,  \* "sending", "stopped" (a messageStopEvent) or "ended"
  out,         \* the events on the queue
  client,      \* what the client has seen: the last event, the number of blocks
  owner,       \* history: the source of each block, in the order of opening
  ended        \* the client's stream: "open", "closed" or "broken"
streamVars == <<assembler, asm, inputs, upstreamAt, out, client, owner, ended>>

Source == {"text", "thinking"} \cup Tool
NoBlock == -1
Event(name, index, source) == [name |-> name, index |-> index, source |-> source]
Frame(name) == Event(name, NoBlock, "none")

NewAssembler ==
  [started |-> FALSE, stopped |-> FALSE, current |-> "none", blockIndex |-> NoBlock,
   tools |-> [t \in Tool |-> NoBlock], metering |-> FALSE, context |-> FALSE,
   usage |-> "none", queue |-> <<>>]

StreamInit ==
  /\ assembler \in {"openai", "kiro", "chunks"}
  /\ asm = NewAssembler /\ inputs = 0 /\ upstreamAt = "sending" /\ out = <<>>
  /\ client = Frame("nothing") /\ owner = <<>> /\ ended = "open"

-----------------------------------------------------------------------------
(* SseAssemblerBase *)

Push(s, event) == [s EXCEPT !.queue = Append(@, event)]

EnsureStart(s) ==
  IF s.started THEN s ELSE Push([s EXCEPT !.started = TRUE], Frame("message_start"))

CloseBlock(s) ==
  IF s.current = "none" THEN s
  ELSE Push([s EXCEPT !.current = "none"], Event("block_stop", s.blockIndex, s.current))

\* Mutant of OpenBlock: the block before is left open.
OpenBlockOnly(s, source) ==
  Push([s EXCEPT !.blockIndex = @ + 1, !.current = source],
       Event("block_start", s.blockIndex + 1, source))
OpenBlock(s, source) ==
  LET c == CloseBlock(s) IN
  Push([c EXCEPT !.blockIndex = @ + 1, !.current = source],
       Event("block_start", c.blockIndex + 1, source))

\* The block of a text or of the thinking: another one of the same kind goes on.
InBlockOf(s, source) == IF s.current = source THEN s ELSE OpenBlock(s, source)
Delta(s, index, source) == Push(s, Event("delta", index, source))

\* flush(), with the createFinishEvent of either assembler: Kiro's estimates
\* the usage that no metricsEvent has brought, the other's sends zeros.
FlushBlocks(s) ==
  IF s.stopped THEN s
  ELSE LET closed == CloseBlock(EnsureStart([s EXCEPT !.stopped = TRUE]))
           priced == IF assembler = "kiro" /\ closed.usage = "none"
                     THEN [closed EXCEPT !.usage = "estimated"] ELSE closed
       IN Push(Push(priced, Event("message_delta", NoBlock, priced.usage)), Frame("message_stop"))

-----------------------------------------------------------------------------
(* OpenAIToAnthropicSSEAssembler.process: thinking, text and tool calls of  *)
(* one chunk, in that order.  A delta of a tool call names the block that   *)
(* was opened for its index, whether that one is still open or not.  The    *)
(* second call of a chunk is taken for one of a further chunk.              *)

NoCall == [tool |-> "none", args |-> FALSE]
Chunk == [thinking : BOOLEAN, text : BOOLEAN, usage : BOOLEAN,
          call : [tool : Tool, args : BOOLEAN] \cup {NoCall}]

Content(s, wanted, source) ==
  IF ~wanted THEN s
  ELSE LET b == InBlockOf(EnsureStart(s), source) IN Delta(b, b.blockIndex, source)

\* Mutant of ToolCall: the arguments go to the block that is open.
ToolCallCurrent(s, call) ==
  LET started == EnsureStart(s)
      new == OpenBlock(started, call.tool)
      b == IF started.tools[call.tool] # NoBlock THEN started
           ELSE [new EXCEPT !.tools[call.tool] = new.blockIndex]
  IN IF call.args THEN Delta(b, b.blockIndex, call.tool) ELSE b
ToolCall(s, call) ==
  LET started == EnsureStart(s)
      new == OpenBlock(started, call.tool)
      b == IF started.tools[call.tool] # NoBlock THEN started
           ELSE [new EXCEPT !.tools[call.tool] = new.blockIndex]
  IN IF call.args THEN Delta(b, b.tools[call.tool], call.tool) ELSE b

OpenAIProcess(s, chunk) ==
  LET used == IF chunk.usage THEN [s EXCEPT !.usage = "reported"] ELSE s
      said == Content(Content(used, chunk.thinking, "thinking"), chunk.text, "text")
  IN IF chunk.call = NoCall THEN said ELSE ToolCall(said, chunk.call)

-----------------------------------------------------------------------------
(* KiroAnthropicAssembler.process *)

Metadata == {"contextUsage", "metering", "metrics"}
KiroEvent ==
  [type : Metadata \cup {"messageStop", "text", "thinking", "emptyThinking"}, tool : {"none"}, input : {FALSE}]
    \cup [type : {"toolUse"}, tool : Tool, input : BOOLEAN]

\* KiroWellBehaved.
KiroMaySend(event) ==
  KiroWellBehaved =>
    /\ upstreamAt = "stopped" => event.type \in Metadata
    /\ event.type = "toolUse" /\ asm.tools[event.tool] # NoBlock => asm.current = event.tool

KiroMetadata(s, event) ==
  CASE event.type = "contextUsage" -> [s EXCEPT !.context = TRUE]
    [] event.type = "metering"     -> [s EXCEPT !.metering = TRUE]
    [] event.type = "metrics"      -> [s EXCEPT !.usage = "reported"]

\* toolUseEvent: not stopped by a messageStopEvent, unlike the base's process.
KiroToolUse(s, event) ==
  LET started == EnsureStart(s)
      b == IF started.tools[event.tool] # NoBlock THEN started
           ELSE OpenBlock([started EXCEPT !.tools[event.tool] = started.blockIndex + 1], event.tool)
  IN IF event.input THEN Delta(b, b.blockIndex, event.tool) ELSE b

\* The base's process: an empty thought opens its block and adds nothing to it.
KiroContent(s, event) ==
  IF s.stopped THEN s
  ELSE LET source == IF event.type = "text" THEN "text" ELSE "thinking"
           b == InBlockOf(EnsureStart(s), source)
       IN IF event.type = "emptyThinking" THEN b ELSE Delta(b, b.blockIndex, source)

KiroProcess(s, event) ==
  IF event.type \in Metadata THEN KiroMetadata(s, event)
  ELSE IF event.type = "messageStop" THEN FlushBlocks(s)
  ELSE IF event.type = "toolUse" THEN KiroToolUse(s, event)
  ELSE KiroContent(s, event)

-----------------------------------------------------------------------------
(* KiroAssembler: OpenAI chunks.  `blockIndex` counts the tool calls and    *)
(* `stopped` is its finishEmitted; a finish chunk carries the usage, but    *)
(* the one of a messageStopEvent carries none and suppresses the estimate.  *)

FinishChunk(s) ==
  IF s.stopped THEN s
  ELSE LET priced == IF s.usage = "none" THEN [s EXCEPT !.usage = "estimated"] ELSE s
       IN Push([priced EXCEPT !.stopped = TRUE], Event("finish", NoBlock, priced.usage))

ChunkToolUse(s, event) ==
  LET new == [s EXCEPT !.blockIndex = @ + 1, !.tools[event.tool] = s.blockIndex + 1]
      b == IF s.tools[event.tool] # NoBlock THEN s
           ELSE Push(new, Event("block_start", new.blockIndex, event.tool))
  IN IF event.input THEN Delta(b, b.tools[event.tool], event.tool) ELSE b

ChunkProcess(s, event) ==
  IF event.type \in Metadata
  THEN LET noted == KiroMetadata(s, event)
       IN IF noted.metering /\ noted.context THEN FinishChunk(noted) ELSE noted
  ELSE IF event.type = "messageStop"
  THEN Push([s EXCEPT !.stopped = TRUE], Event("finish", NoBlock, "none"))
  ELSE IF event.type = "toolUse" THEN ChunkToolUse(s, event)
  ELSE IF event.type = "emptyThinking" THEN s ELSE Push(s, Event("delta", NoBlock, event.type))

-----------------------------------------------------------------------------
(* The streams: an input is processed and its events are enqueued at once.  *)

Enqueue(s) == asm' = [s EXCEPT !.queue = <<>>] /\ out' = out \o s.queue

Receives ==
  /\ ended = "open" /\ upstreamAt # "ended" /\ inputs < MaxInputs
  /\ inputs' = inputs + 1
  /\ UNCHANGED <<assembler, client, owner, ended>>

\* openaiSSEToAnthropicSSE
OpenAIChunkArrives ==
  /\ assembler = "openai" /\ Receives /\ UNCHANGED upstreamAt
  /\ \E chunk \in Chunk : Enqueue(OpenAIProcess(asm, chunk))

\* kiroResponseToAnthropicSSE, kiroResponseToOpenAISSE
KiroEventArrives ==
  /\ assembler \in {"kiro", "chunks"} /\ Receives
  /\ \E event \in KiroEvent :
       /\ KiroMaySend(event) \/ assembler = "chunks"
       /\ Enqueue(IF assembler = "kiro" THEN KiroProcess(asm, event) ELSE ChunkProcess(asm, event))
       /\ upstreamAt' = IF event.type = "messageStop" THEN "stopped" ELSE upstreamAt

\* The upstream ends: finalize() or flush(), and the stream is closed.
UpstreamEnds ==
  /\ ended = "open" /\ upstreamAt # "ended"
  /\ upstreamAt' = "ended"
  /\ Enqueue(IF assembler = "chunks" THEN Push(FinishChunk(asm), Frame("done")) ELSE FlushBlocks(asm))
  /\ UNCHANGED <<assembler, inputs, client, owner, ended>>

\* The upstream breaks off: controller.error, which drops what is on the queue.
UpstreamBreaks ==
  /\ ended = "open" /\ upstreamAt # "ended"
  /\ ended' = "broken" /\ out' = <<>>
  /\ UNCHANGED <<assembler, asm, inputs, upstreamAt, client, owner>>

ClientReads ==
  /\ ended = "open" /\ out # <<>>
  /\ client' = Head(out) /\ out' = Tail(out)
  /\ owner' = IF Head(out).name = "block_start" THEN Append(owner, Head(out).source) ELSE owner
  /\ UNCHANGED <<assembler, asm, inputs, upstreamAt, ended>>

ClientSeesEnd ==
  /\ ended = "open" /\ upstreamAt = "ended" /\ out = <<>>
  /\ ended' = "closed"
  /\ UNCHANGED <<assembler, asm, inputs, upstreamAt, out, client, owner>>

StreamNext ==
  \/ OpenAIChunkArrives \/ KiroEventArrives \/ UpstreamEnds \/ UpstreamBreaks
  \/ ClientReads \/ ClientSeesEnd

StreamSpec == StreamInit /\ [][StreamNext]_streamVars

-----------------------------------------------------------------------------
StreamTypeOK ==
  /\ assembler \in {"openai", "kiro", "chunks"} /\ inputs \in 0 .. MaxInputs
  /\ upstreamAt \in {"sending", "stopped", "ended"} /\ ended \in {"open", "closed", "broken"}
  /\ asm.queue = <<>> /\ asm.current \in Source \cup {"none"}
  /\ asm.usage \in {"none", "reported", "estimated"} /\ asm.blockIndex >= NoBlock
  /\ owner \in Seq(Source)
  /\ \A event \in ToSet(out) \cup {client} : event.index \in NoBlock .. asm.blockIndex

(* The Anthropic streams keep the block protocol: each step is one of       *)
(* BlockProtocol's or changes nothing the client sees, whatever the order   *)
(* of text, thinking, tool calls, metadata and stop events.                 *)
Anthropic == assembler # "chunks"
Client == INSTANCE BlockProtocol WITH
  shown  <- IF Anthropic THEN client.name ELSE "nothing",
  opened <- IF Anthropic THEN Len(owner) ELSE 0,
  ended  <- IF Anthropic THEN ended ELSE "open"
StreamGrammar == Client!Spec

(* Every piece of content reaches the client under the index of a block (or *)
(* of a tool call) that was started for its own source: arguments of two    *)
(* tool calls that arrive in turns are not mixed up.                        *)
ContentInItsBlock ==
  client.name = "delta" /\ client.index # NoBlock => owner[client.index + 1] = client.source

(* "Blocks are sequential (one open at a time)" (kiro/anthropic-sse.ts:17,  *)
(* and the grammar at SseAssemblerBase.ts:9): a delta names the block that  *)
(* is open.  OpenAI's tool calls that arrive in turns violate it.           *)
DeltasInsideTheirBlock ==
  [][ client'.name = "delta" /\ Anthropic /\ client' # client =>
        client'.index = Len(owner) - 1 ]_streamVars
=============================================================================
