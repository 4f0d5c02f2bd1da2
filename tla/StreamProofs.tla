---------------------------- MODULE StreamProofs ----------------------------
(***************************************************************************)
(* The assemblers of SseStream keep Anthropic's block protocol and put     *)
(* every piece of content into a block of its own source, for any tools    *)
(* and any number of inputs.                                               *)
(*                                                                         *)
(* The events on the queue lead from where the client is to where the      *)
(* assembler is: a position is the last event and the sources of the       *)
(* blocks that were started, and each event on the way is one that its     *)
(* position allows (Path).  What an assembler remembers is related to the  *)
(* last position only (Held, Begun), so that an event it pushes extends    *)
(* the path, and one the client reads shortens it.  That no event names a  *)
(* block that was not started (Fit) needs none of this, and holds also of  *)
(* an upstream that Kiro is assumed not to be.                             *)
(*                                                                         *)
(* The relay of UsageRelay reads what the pieces of a body say up to the   *)
(* last boundary, for any body and any cuts: what it holds back is the     *)
(* stretch from that boundary to where the chunks end (RelayInv), unless   *)
(* the tail buffer has dropped the start of it.                            *)
(***************************************************************************)
EXTENDS SseStream, UsageRelay, SequenceLemmas, TLAPS

Tag == Source \cup {"none", "reported", "estimated"}
EventName ==
  {"message_start", "block_start", "delta", "block_stop", "message_delta", "message_stop",
   "finish", "done"}
Events == [name : EventName, index : Int, source : Tag]
Position == [last : EventName \cup {"nothing"}, src : Seq(Tag)]

Grammar(p, f) ==
  /\ f.name \notin {"finish", "done"}
  /\ f.name = "message_start" => p.last = "nothing"
  /\ f.name = "block_start" => p.last \in {"message_start", "block_stop"} /\ f.index = Len(p.src)
  /\ f.name = "delta" => p.last \in {"block_start", "delta"} /\ f.index \in 0 .. Len(p.src) - 1
  /\ f.name = "block_stop" =>
       p.last \in {"block_start", "delta"} /\ f.index = Len(p.src) - 1 /\ Len(p.src) > 0
  /\ f.name = "message_delta" => p.last \in {"message_start", "block_stop"}
  /\ f.name = "message_stop" => p.last = "message_delta"
Owned(p, f) ==
  f.name = "delta" /\ f.index # NoBlock =>
    f.index + 1 \in 1 .. Len(p.src) /\ p.src[f.index + 1] = f.source
Allowed(strict, p, f) == Owned(p, f) /\ (strict => Grammar(p, f))

After(p, f) ==
  [last |-> f.name, src |-> IF f.name = "block_start" THEN Append(p.src, f.source) ELSE p.src]

\* The events q lead from p to r.
Path(strict, p, q, r) ==
  \E pos \in [0 .. Len(q) -> Position] :
    /\ pos[0] = p /\ pos[Len(q)] = r
    /\ \A i \in 1 .. Len(q) : Allowed(strict, pos[i - 1], q[i]) /\ pos[i] = After(pos[i - 1], q[i])

-----------------------------------------------------------------------------
(* Paths.                                                                  *)

LEMMA AfterTyped ==
  ASSUME NEW p \in Position, NEW f \in Events
  PROVE  /\ After(p, f) \in Position /\ After(p, f).last = f.name
         /\ After(p, f).src = IF f.name = "block_start" THEN Append(p.src, f.source) ELSE p.src
BY DEF After, Position, Events

LEMMA PathEmpty ==
  ASSUME NEW strict, NEW p \in Position
  PROVE  Path(strict, p, <<>>, p)
<1> DEFINE pos == [i \in 0 .. 0 |-> p]
<1>1. Len(<<>>) = 0 /\ pos \in [0 .. 0 -> Position] /\ pos[0] = p
  OBVIOUS
<1> HIDE DEF pos
<1> QED
  BY <1>1 DEF Path

LEMMA PathNowhere ==
  ASSUME NEW strict, NEW p, NEW r, Path(strict, p, <<>>, r)
  PROVE  r = p
BY DEF Path

LEMMA PathAppend ==
  ASSUME NEW strict, NEW p \in Position, NEW r \in Position, NEW q \in Seq(Events),
         NEW f \in Events, Path(strict, p, q, r), Allowed(strict, r, f)
  PROVE  Path(strict, p, Append(q, f), After(r, f))
<1>1. PICK pos \in [0 .. Len(q) -> Position] :
        /\ pos[0] = p /\ pos[Len(q)] = r
        /\ \A i \in 1 .. Len(q) : Allowed(strict, pos[i - 1], q[i]) /\ pos[i] = After(pos[i - 1], q[i])
  BY DEF Path
<1> DEFINE n == Len(q)
<1> DEFINE new == [i \in 0 .. n + 1 |-> IF i = n + 1 THEN After(r, f) ELSE pos[i]]
<1>2. n \in Nat /\ Len(Append(q, f)) = n + 1
  OBVIOUS
<1>3. /\ \A i \in 1 .. n : Append(q, f)[i] = q[i]
      /\ Append(q, f)[n + 1] = f
  OBVIOUS
<1>4. After(r, f) \in Position
  BY AfterTyped
<1> HIDE DEF n
<1>5. new \in [0 .. n + 1 -> Position]
  BY <1>1, <1>2, <1>4 DEF n
<1>6. /\ new[0] = p /\ new[n + 1] = After(r, f) /\ new[n] = r
      /\ \A i \in 0 .. n : new[i] = pos[i]
  BY <1>1, <1>2 DEF n
<1> HIDE DEF new
<1>7. ASSUME NEW i \in 1 .. n + 1
      PROVE  Allowed(strict, new[i - 1], Append(q, f)[i]) /\ new[i] = After(new[i - 1], Append(q, f)[i])
  <2>1. CASE i = n + 1
    BY <1>2, <1>3, <1>6, <2>1
  <2>2. CASE i # n + 1
    <3>1. i \in 1 .. n /\ i - 1 \in 0 .. n /\ i \in 0 .. n
      BY <1>2, <2>2
    <3>2. new[i - 1] = pos[i - 1] /\ new[i] = pos[i] /\ Append(q, f)[i] = q[i]
      BY <1>3, <1>6, <3>1
    <3> QED
      BY <1>1, <3>1, <3>2 DEF n
  <2> QED
    BY <2>1, <2>2
<1> QED
  BY <1>2, <1>5, <1>6, <1>7 DEF Path

LEMMA PathHead ==
  ASSUME NEW strict, NEW p, NEW r, NEW q \in Seq(Events), q # <<>>, Path(strict, p, q, r)
  PROVE  Allowed(strict, p, Head(q)) /\ Path(strict, After(p, Head(q)), Tail(q), r)
<1>1. PICK pos \in [0 .. Len(q) -> Position] :
        /\ pos[0] = p /\ pos[Len(q)] = r
        /\ \A i \in 1 .. Len(q) : Allowed(strict, pos[i - 1], q[i]) /\ pos[i] = After(pos[i - 1], q[i])
  BY DEF Path
<1> DEFINE n == Len(Tail(q))
<1>2. Len(q) \in Nat /\ Len(q) = n + 1 /\ n \in Nat /\ Head(q) = q[1]
  OBVIOUS
<1>3. \A i \in 1 .. n : Tail(q)[i] = q[i + 1]
  OBVIOUS
<1> DEFINE new == [i \in 0 .. n |-> pos[i + 1]]
<1>4. Allowed(strict, p, Head(q)) /\ pos[1] = After(p, Head(q))
  BY <1>1, <1>2
<1> HIDE DEF n
<1>5. new \in [0 .. n -> Position] /\ new[0] = pos[1] /\ new[n] = r
  BY <1>1, <1>2
<1>6. ASSUME NEW i \in 1 .. n
      PROVE  Allowed(strict, new[i - 1], Tail(q)[i]) /\ new[i] = After(new[i - 1], Tail(q)[i])
  <2>1. i + 1 \in 1 .. Len(q) /\ new[i - 1] = pos[(i + 1) - 1] /\ new[i] = pos[i + 1]
    BY <1>2
  <2> HIDE DEF new
  <2> QED
    BY <1>1, <1>3, <2>1
<1> HIDE DEF new
<1> QED
  BY <1>4, <1>5, <1>6 DEF Path, n

-----------------------------------------------------------------------------
(* The assembler at the end of the path.                                   *)

Asm ==
  [started : BOOLEAN, stopped : BOOLEAN, current : Source \cup {"none"}, blockIndex : Int,
   tools : [Tool -> Int], metering : BOOLEAN, context : BOOLEAN,
   usage : {"none", "reported", "estimated"}, queue : Seq(Events)]

Streams ==
  /\ assembler \in {"openai", "kiro", "chunks"}
  /\ out \in Seq(Events) /\ owner \in Seq(Tag)
  /\ client \in [name : EventName \cup {"nothing"}, index : Int, source : Tag]
Here == [last |-> client.name, src |-> owner]

\* A block the assembler knows of is one it started, for its source.
Held(s, r) ==
  /\ Len(r.src) = s.blockIndex + 1
  /\ \A t \in Tool : s.tools[t] # NoBlock =>
       s.tools[t] + 1 \in 1 .. Len(r.src) /\ r.src[s.tools[t] + 1] = t
  /\ s.current # "none" => Len(r.src) > 0 /\ r.src[Len(r.src)] = s.current

Reached(s, r) ==
  s \in Asm /\ r \in Position /\ Path(Anthropic, Here, out \o s.queue, r) /\ Held(s, r)

\* Between two inputs: no block is closed but by the next one's start.
Begun(s, r) ==
  /\ ~s.started => r.last = "nothing" /\ s.current = "none" /\ s.blockIndex = NoBlock
  /\ s.started /\ s.current = "none" => r.last = "message_start" /\ s.blockIndex = NoBlock
  /\ s.current # "none" => s.started /\ r.last \in {"block_start", "delta"}

Going(s) == \E r : Reached(s, r) /\ Begun(s, r)

\* What a step of an assembler may leave as it was.
Kept(s, t) ==
  /\ t.stopped = s.stopped /\ t.tools = s.tools /\ t.usage = s.usage
  /\ t.metering = s.metering /\ t.context = s.context

LEMMA SourcesTagged == Source \subseteq Tag /\ "none" \notin Source /\ Tool \subseteq Source
BY SseAssumption DEF Source, Tag

LEMMA HereTyped == Streams => Here \in Position
BY DEF Streams, Here, Position

LEMMA EventTyped ==
  ASSUME NEW name \in EventName, NEW index \in Int, NEW source \in Tag
  PROVE  /\ Event(name, index, source) \in Events
         /\ Event(name, index, source).name = name
         /\ Event(name, index, source).index = index
         /\ Event(name, index, source).source = source
BY DEF Event, Events

LEMMA PushTyped ==
  ASSUME NEW s \in Asm, NEW f \in Events
  PROVE  /\ Push(s, f) \in Asm /\ Push(s, f).queue = Append(s.queue, f)
         /\ Kept(s, Push(s, f)) /\ Push(s, f).started = s.started
         /\ Push(s, f).current = s.current /\ Push(s, f).blockIndex = s.blockIndex
<1>1. s.queue \in Seq(Events) /\ Append(s.queue, f) \in Seq(Events)
  BY DEF Asm
<1> DEFINE q == Append(s.queue, f)
<1>2. Push(s, f) = [s EXCEPT !.queue = q]
  BY DEF Push
<1> HIDE DEF q
<1>3. q \in Seq(Events)
  BY <1>1 DEF q
<1>4. /\ Push(s, f) \in Asm /\ Push(s, f).queue = q
      /\ Kept(s, Push(s, f)) /\ Push(s, f).started = s.started
      /\ Push(s, f).current = s.current /\ Push(s, f).blockIndex = s.blockIndex
  BY <1>2, <1>3 DEF Asm, Kept
<1> QED
  BY <1>4 DEF q

\* An event is pushed behind those on the way.
LEMMA Longer ==
  ASSUME Streams, NEW s \in Asm, NEW f \in Events, NEW r \in Position,
         Path(Anthropic, Here, out \o s.queue, r), Allowed(Anthropic, r, f)
  PROVE  Path(Anthropic, Here, out \o Append(s.queue, f), After(r, f))
<1>1. out \in Seq(Events) /\ s.queue \in Seq(Events)
  BY DEF Streams, Asm
<1>2. out \o s.queue \in Seq(Events) /\ out \o Append(s.queue, f) = Append(out \o s.queue, f)
  BY <1>1
<1> QED
  BY <1>2, HereTyped, PathAppend

LEMMA EventPushed ==
  ASSUME Streams, NEW s, NEW r, NEW f \in Events, Reached(s, r), Allowed(Anthropic, r, f),
         f.name # "block_start"
  PROVE  Reached(Push(s, f), After(r, f)) /\ After(r, f).src = r.src /\ After(r, f).last = f.name
<1>1. s \in Asm /\ r \in Position /\ Path(Anthropic, Here, out \o s.queue, r) /\ Held(s, r)
  BY DEF Reached
<1>2. After(r, f) \in Position /\ After(r, f).src = r.src /\ After(r, f).last = f.name
  BY <1>1, AfterTyped
<1>3. Path(Anthropic, Here, out \o Push(s, f).queue, After(r, f))
  BY <1>1, PushTyped, Longer
<1>4. Held(Push(s, f), After(r, f))
  BY <1>1, <1>2, PushTyped DEF Held, Kept
<1> QED
  BY <1>1, <1>2, <1>3, <1>4, PushTyped DEF Reached

\* What the path does not depend on may change.
LEMMA Noted ==
  ASSUME NEW s, NEW r, NEW t \in Asm, Reached(s, r), t.queue = s.queue,
         t.blockIndex = s.blockIndex, t.tools = s.tools, t.current = s.current
  PROVE  Reached(t, r)
BY DEF Reached, Held

\* ensureStart
LEMMA Starting ==
  ASSUME Streams, Anthropic, NEW s, Going(s)
  PROVE  Going(EnsureStart(s)) /\ Kept(s, EnsureStart(s)) /\ EnsureStart(s).started
         /\ EnsureStart(s).current = s.current /\ EnsureStart(s).blockIndex = s.blockIndex
<1>1. PICK r : Reached(s, r) /\ Begun(s, r)
  BY DEF Going
<1>2. s \in Asm /\ r \in Position
  BY <1>1 DEF Reached
<1>3. CASE s.started
  BY <1>3 DEF EnsureStart, Kept
<1>4. CASE ~s.started
  <2> DEFINE t == [s EXCEPT !.started = TRUE]
  <2> DEFINE f == Frame("message_start")
  <2>1. t \in Asm /\ t.queue = s.queue /\ Kept(s, t) /\ t.current = s.current
        /\ t.blockIndex = s.blockIndex /\ t.started
    BY <1>2 DEF Asm, Kept
  <2>2. EnsureStart(s) = Push(t, f)
    BY <1>4 DEF EnsureStart
  <2>3. f \in Events /\ f.name = "message_start"
    BY EventTyped DEF Frame, EventName, Tag, NoBlock
  <2> HIDE DEF t, f
  <2>4. Reached(t, r)
    BY <1>1, <2>1, Noted DEF Kept
  <2>5. Allowed(Anthropic, r, f)
    BY <1>1, <1>4, <2>3 DEF Allowed, Owned, Grammar, Begun
  <2>6. /\ Reached(Push(t, f), After(r, f)) /\ After(r, f).last = "message_start"
    BY <2>3, <2>4, <2>5, EventPushed
  <2>7. /\ Kept(t, Push(t, f)) /\ Push(t, f).started = t.started
        /\ Push(t, f).current = t.current /\ Push(t, f).blockIndex = t.blockIndex
    BY <2>1, <2>3, PushTyped
  <2>8. Begun(Push(t, f), After(r, f))
    BY <1>1, <1>4, <2>1, <2>6, <2>7 DEF Begun
  <2> QED
    BY <2>1, <2>2, <2>6, <2>7, <2>8 DEF Going, Kept
<1> QED
  BY <1>3, <1>4

\* closeBlock: what may follow is a block's start or the end.
LEMMA Closing ==
  ASSUME Streams, Anthropic, NEW s, NEW r, Reached(s, r), Begun(s, r), s.started
  PROVE  \E q : /\ Reached(CloseBlock(s), q) /\ q.src = r.src
                /\ q.last \in {"message_start", "block_stop"}
                /\ Kept(s, CloseBlock(s)) /\ CloseBlock(s).started
                /\ CloseBlock(s).current = "none" /\ CloseBlock(s).blockIndex = s.blockIndex
<1>1. s \in Asm /\ r \in Position /\ Held(s, r)
  BY DEF Reached
<1>2. CASE s.current = "none"
  BY <1>2 DEF CloseBlock, Begun, Kept
<1>3. CASE s.current # "none"
  <2> DEFINE t == [s EXCEPT !.current = "none"]
  <2> DEFINE f == Event("block_stop", s.blockIndex, s.current)
  <2>1. t \in Asm /\ t.queue = s.queue /\ Kept(s, t) /\ t.current = "none"
        /\ t.blockIndex = s.blockIndex /\ t.started
    BY <1>1 DEF Asm, Kept
  <2>2. CloseBlock(s) = Push(t, f)
    BY <1>3 DEF CloseBlock
  <2>3. f \in Events /\ f.name = "block_stop" /\ f.index = s.blockIndex
    BY <1>1, <1>3, SourcesTagged, EventTyped DEF Asm, EventName
  <2> HIDE DEF t, f
  <2>4. Reached(t, r)
    BY <1>1, <2>1 DEF Reached, Held, Kept
  <2>5. Allowed(Anthropic, r, f)
    BY <1>1, <1>3, <2>3 DEF Allowed, Owned, Grammar, Begun, Held, Asm
  <2>6. Reached(Push(t, f), After(r, f)) /\ After(r, f).src = r.src /\ After(r, f).last = "block_stop"
    BY <2>3, <2>4, <2>5, EventPushed
  <2>7. /\ Kept(t, Push(t, f)) /\ Push(t, f).started = t.started
        /\ Push(t, f).current = t.current /\ Push(t, f).blockIndex = t.blockIndex
    BY <2>1, <2>3, PushTyped
  <2> QED
    BY <2>1, <2>2, <2>6, <2>7 DEF Kept
<1> QED
  BY <1>2, <1>3

\* openBlock
LEMMA Opening ==
  ASSUME Streams, Anthropic, NEW s, NEW source \in Source, Going(s), s.started
  PROVE  /\ Going(OpenBlock(s, source)) /\ OpenBlock(s, source).current = source
         /\ OpenBlock(s, source).blockIndex = s.blockIndex + 1 /\ Kept(s, OpenBlock(s, source))
         /\ OpenBlock(s, source).started /\ OpenBlock(s, source) \in Asm
<1> DEFINE c == CloseBlock(s)
<1> DEFINE t == [c EXCEPT !.blockIndex = @ + 1, !.current = source]
<1> DEFINE f == Event("block_start", c.blockIndex + 1, source)
<1>1. PICK q : /\ Reached(c, q) /\ q.last \in {"message_start", "block_stop"}
               /\ Kept(s, c) /\ c.started /\ c.blockIndex = s.blockIndex
  BY Closing DEF Going
<1>2. OpenBlock(s, source) = Push(t, f)
  BY DEF OpenBlock
<1> HIDE DEF c
<1>3. c \in Asm /\ q \in Position /\ Held(c, q) /\ Path(Anthropic, Here, out \o c.queue, q)
  BY <1>1 DEF Reached
<1>4. /\ t \in Asm /\ t.queue = c.queue /\ Kept(c, t) /\ t.started
      /\ t.blockIndex = c.blockIndex + 1 /\ t.current = source
  <2>1. c.blockIndex \in Int /\ c.blockIndex + 1 \in Int /\ source \in Source \cup {"none"}
    BY <1>3 DEF Asm
  <2> DEFINE next == c.blockIndex + 1
  <2>2. t = [c EXCEPT !.blockIndex = next, !.current = source]
    BY <1>3 DEF Asm
  <2>3. next \in Int
    BY <2>1
  <2> HIDE DEF next, t
  <2>4. t \in Asm /\ t.queue = c.queue /\ Kept(c, t) /\ t.started
        /\ t.blockIndex = next /\ t.current = source
    BY <1>1, <1>3, <2>1, <2>2, <2>3 DEF Asm, Kept
  <2> QED
    BY <2>4 DEF next
<1>5. c.blockIndex + 1 \in Int /\ source \in Tag /\ source # "none"
  BY <1>3, SourcesTagged DEF Asm
<1>6. f \in Events /\ f.name = "block_start" /\ f.index = c.blockIndex + 1 /\ f.source = source
  BY <1>5, EventTyped DEF EventName
<1> HIDE DEF t, f
<1>7. Allowed(Anthropic, q, f)
  BY <1>1, <1>3, <1>6 DEF Allowed, Owned, Grammar, Held
<1>8. Path(Anthropic, Here, out \o Append(c.queue, f), After(q, f))
  BY <1>3, <1>6, <1>7, Longer
<1>9. /\ Push(t, f) \in Asm /\ Push(t, f).queue = Append(c.queue, f) /\ Kept(t, Push(t, f))
      /\ Push(t, f).started = t.started /\ Push(t, f).current = t.current
      /\ Push(t, f).blockIndex = t.blockIndex
  BY <1>4, <1>6, PushTyped
<1>10. /\ After(q, f) \in Position /\ After(q, f).last = "block_start"
       /\ After(q, f).src = Append(q.src, source)
  BY <1>3, <1>6, AfterTyped
<1>11. Held(Push(t, f), After(q, f))
  <2>1. q.src \in Seq(Tag) /\ Len(q.src) = c.blockIndex + 1
    BY <1>3 DEF Position, Held
  <2> DEFINE new == Append(q.src, source)
  <2>2. /\ Len(new) = Len(q.src) + 1 /\ new[Len(new)] = source
        /\ \A i \in 1 .. Len(q.src) : new[i] = q.src[i]
        /\ Len(q.src) \in Nat
    BY <1>5, <2>1
  <2> HIDE DEF new
  <2>3. ASSUME NEW k \in Tool, c.tools[k] # NoBlock
        PROVE  c.tools[k] + 1 \in 1 .. Len(new) /\ new[c.tools[k] + 1] = k
    <3>1. c.tools[k] + 1 \in 1 .. Len(q.src) /\ q.src[c.tools[k] + 1] = k
      BY <1>3, <2>3 DEF Held
    <3>2. c.tools[k] + 1 \in 1 .. Len(new)
      BY <2>2, <3>1
    <3> QED
      BY <2>2, <3>1, <3>2
  <2>4. After(q, f).src = new
    BY <1>10 DEF new
  <2>5. /\ Push(t, f).tools = c.tools /\ Push(t, f).current = source
        /\ Push(t, f).blockIndex = c.blockIndex + 1
    BY <1>4, <1>9 DEF Kept
  <2>6. c.blockIndex \in Int
    BY <1>3 DEF Asm
  <2> QED
    BY <2>1, <2>2, <2>3, <2>4, <2>5, <2>6 DEF Held
<1>12. Begun(Push(t, f), After(q, f))
  BY <1>4, <1>5, <1>9, <1>10 DEF Begun
<1>13. Going(Push(t, f))
  BY <1>8, <1>9, <1>10, <1>11, <1>12 DEF Going, Reached
<1> QED
  BY <1>1, <1>2, <1>4, <1>9, <1>13 DEF Kept

\* A block that is open goes on, or a new one is started.
LEMMA Continuing ==
  ASSUME Streams, Anthropic, NEW s, NEW source \in Source, Going(s), s.started
  PROVE  /\ Going(InBlockOf(s, source)) /\ InBlockOf(s, source).current = source
         /\ Kept(s, InBlockOf(s, source))
BY Opening DEF InBlockOf, Kept

\* A delta of the block that is open, or of one that was started for a tool.
LEMMA Saying ==
  ASSUME Streams, Anthropic, NEW s, NEW source \in Source, NEW index, Going(s), s.current # "none",
         \/ source = s.current /\ index = s.blockIndex
         \/ source \in Tool /\ index = s.tools[source] /\ index # NoBlock
  PROVE  Going(Delta(s, index, source)) /\ Kept(s, Delta(s, index, source))
<1>1. PICK r : Reached(s, r) /\ Begun(s, r)
  BY DEF Going
<1>2. s \in Asm /\ r \in Position /\ Held(s, r)
  BY <1>1 DEF Reached
<1>3. index \in Int /\ source \in Tag
  BY <1>2, SourcesTagged DEF Asm
<1>4. index + 1 \in 1 .. Len(r.src) /\ r.src[index + 1] = source
  <2>1. Len(r.src) \in Nat /\ Len(r.src) = s.blockIndex + 1
    BY <1>2 DEF Position, Held
  <2> QED
    BY <1>2, <1>3, <2>1 DEF Held, Asm
<1> DEFINE f == Event("delta", index, source)
<1>5. f \in Events /\ f.name = "delta" /\ f.index = index /\ f.source = source
  BY <1>3, EventTyped DEF EventName
<1>6. Delta(s, index, source) = Push(s, f)
  BY DEF Delta
<1> HIDE DEF f
<1>7. Allowed(Anthropic, r, f)
  <2>1. index \in 0 .. Len(r.src) - 1
    BY <1>2, <1>3, <1>4 DEF Position
  <2> QED
    BY <1>1, <1>4, <1>5, <2>1 DEF Allowed, Owned, Grammar, Begun
<1>8. Reached(Push(s, f), After(r, f)) /\ After(r, f).last = "delta"
  BY <1>1, <1>5, <1>7, EventPushed
<1>9. /\ Kept(s, Push(s, f)) /\ Push(s, f).started = s.started /\ Push(s, f).current = s.current
  BY <1>2, <1>5, PushTyped
<1>10. Begun(Push(s, f), After(r, f))
  BY <1>1, <1>8, <1>9 DEF Begun
<1> QED
  BY <1>6, <1>8, <1>9, <1>10 DEF Going

\* A tool is known by the block that was opened for it.
LEMMA Registering ==
  ASSUME NEW s, NEW tool \in Tool, Going(s), s.current = tool
  PROVE  Going([s EXCEPT !.tools[tool] = s.blockIndex])
<1>1. PICK r : Reached(s, r) /\ Begun(s, r)
  BY DEF Going
<1>2. s \in Asm /\ r \in Position /\ Held(s, r)
  BY <1>1 DEF Reached
<1> DEFINE new == [s.tools EXCEPT ![tool] = s.blockIndex]
<1> DEFINE t == [s EXCEPT !.tools = new]
<1>3. [s EXCEPT !.tools[tool] = s.blockIndex] = t
  BY <1>2 DEF Asm
<1>4. /\ new \in [Tool -> Int] /\ new[tool] = s.blockIndex
      /\ \A k \in Tool \ {tool} : new[k] = s.tools[k]
  BY <1>2 DEF Asm
<1> HIDE DEF new
<1>5. /\ t \in Asm /\ t.queue = s.queue /\ t.tools = new /\ t.current = s.current
      /\ t.started = s.started /\ t.blockIndex = s.blockIndex
  BY <1>2, <1>4 DEF Asm
<1> HIDE DEF t
<1>6. s.current # "none"
  BY SourcesTagged
<1>7. Held(t, r)
  <2>1. r.src[s.blockIndex + 1] = tool /\ s.blockIndex + 1 = Len(r.src) /\ Len(r.src) > 0
    BY <1>2, <1>6 DEF Held
  <2>2. Len(r.src) \in Nat
    BY <1>2 DEF Position
  <2> QED
    BY <1>2, <1>4, <1>5, <2>1, <2>2 DEF Held
<1> QED
  BY <1>1, <1>3, <1>5, <1>7 DEF Going, Reached, Begun

-----------------------------------------------------------------------------
(* One input.  The answer goes on until it has been flushed.               *)

Over(s) == \E r : Reached(s, r) /\ r.last = "message_stop"

\* flush(): the block is closed, and the answer ends.
LEMMA Flushed ==
  ASSUME Streams, Anthropic, NEW s, Going(s), ~s.stopped
  PROVE  Over(FlushBlocks(s)) /\ FlushBlocks(s).stopped
<1> DEFINE t == [s EXCEPT !.stopped = TRUE]
<1> DEFINE closed == CloseBlock(EnsureStart(t))
<1> DEFINE priced == IF assembler = "kiro" /\ closed.usage = "none"
                     THEN [closed EXCEPT !.usage = "estimated"] ELSE closed
<1> DEFINE f == Event("message_delta", NoBlock, priced.usage)
<1> DEFINE g == Frame("message_stop")
<1>1. FlushBlocks(s) = Push(Push(priced, f), g)
  BY DEF FlushBlocks
<1>2. Going(t) /\ t.stopped
  <2>1. PICK r : Reached(s, r) /\ Begun(s, r)
    BY DEF Going
  <2>2. /\ t \in Asm /\ t.queue = s.queue /\ t.tools = s.tools /\ t.current = s.current
        /\ t.blockIndex = s.blockIndex /\ t.started = s.started /\ t.stopped
    BY <2>1 DEF Reached, Asm
  <2> HIDE DEF t
  <2> QED
    BY <2>1, <2>2, Noted DEF Going, Begun
<1> HIDE DEF t
<1>3. Going(EnsureStart(t)) /\ EnsureStart(t).started /\ EnsureStart(t).stopped
  BY <1>2, Starting DEF Kept
<1>4. PICK q : /\ Reached(closed, q) /\ q.last \in {"message_start", "block_stop"}
               /\ closed.stopped /\ closed.current = "none"
  BY <1>3, Closing DEF Going, Kept
<1> HIDE DEF closed
<1>5. closed \in Asm
  BY <1>4 DEF Reached
<1>6. /\ priced \in Asm /\ priced.queue = closed.queue /\ priced.tools = closed.tools
      /\ priced.current = closed.current /\ priced.blockIndex = closed.blockIndex
      /\ priced.stopped
  BY <1>4, <1>5 DEF Asm
<1> HIDE DEF priced
<1>7. Reached(priced, q)
  BY <1>4, <1>6, Noted
<1>8. f \in Events /\ f.name = "message_delta"
  <2>1. priced.usage \in Tag
    BY <1>6 DEF Asm, Tag
  <2> QED
    BY <2>1, EventTyped DEF EventName, NoBlock
<1>9. g \in Events /\ g.name = "message_stop"
  BY EventTyped DEF Frame, EventName, Tag, NoBlock
<1> HIDE DEF f, g
<1>10. Allowed(Anthropic, q, f)
  BY <1>4, <1>8 DEF Allowed, Owned, Grammar
<1>11. /\ Reached(Push(priced, f), After(q, f)) /\ After(q, f).last = "message_delta"
       /\ Push(priced, f).stopped
  <2>1. Reached(Push(priced, f), After(q, f)) /\ After(q, f).last = "message_delta"
    BY <1>7, <1>8, <1>10, EventPushed
  <2>2. Kept(priced, Push(priced, f))
    BY <1>6, <1>8, PushTyped
  <2> QED
    BY <1>6, <2>1, <2>2 DEF Kept
<1>12. Allowed(Anthropic, After(q, f), g)
  BY <1>9, <1>11 DEF Allowed, Owned, Grammar
<1>13. Push(priced, f) \in Asm
  BY <1>11 DEF Reached
<1> DEFINE last == Push(priced, f)
<1> DEFINE p == After(q, f)
<1>14. last \in Asm /\ last.stopped /\ Reached(last, p) /\ Allowed(Anthropic, p, g)
  BY <1>11, <1>12, <1>13
<1>15. FlushBlocks(s) = Push(last, g)
  BY <1>1
<1> HIDE DEF last, p
<1>16. Kept(last, Push(last, g))
  BY <1>9, <1>14, PushTyped
<1>17. Reached(Push(last, g), After(p, g)) /\ After(p, g).last = "message_stop"
  BY <1>9, <1>14, EventPushed
<1> QED
  BY <1>14, <1>15, <1>16, <1>17 DEF Over, Kept

\* A text or a thought.
LEMMA Contented ==
  ASSUME Streams, Anthropic, NEW s, Going(s), NEW wanted, NEW source \in {"text", "thinking"}
  PROVE  Going(Content(s, wanted, source)) /\ Kept(s, Content(s, wanted, source))
<1>1. CASE ~wanted
  BY <1>1 DEF Content, Kept
<1>2. CASE wanted
  <2> DEFINE e == EnsureStart(s)
  <2> DEFINE b == InBlockOf(e, source)
  <2>1. Going(e) /\ Kept(s, e) /\ e.started
    BY Starting
  <2>2. source \in Source /\ source # "none"
    BY SourcesTagged DEF Source
  <2> HIDE DEF e
  <2>3. Going(b) /\ b.current = source /\ Kept(e, b)
    BY <2>1, <2>2, Continuing
  <2>4. Content(s, wanted, source) = Delta(b, b.blockIndex, source)
    BY <1>2 DEF Content, e
  <2> HIDE DEF b
  <2>5. Going(Delta(b, b.blockIndex, source)) /\ Kept(b, Delta(b, b.blockIndex, source))
    BY <2>2, <2>3, Saying
  <2> QED
    BY <2>1, <2>3, <2>4, <2>5 DEF Kept
<1> QED
  BY <1>1, <1>2

\* A tool that is known has a block, so one is open.
LEMMA KnownInBlock ==
  ASSUME NEW s, NEW tool \in Tool, Going(s), s.started, s.tools[tool] # NoBlock
  PROVE  s.current # "none"
<1>1. PICK r : Reached(s, r) /\ Begun(s, r)
  BY DEF Going
<1>2. s.tools[tool] + 1 \in 1 .. Len(r.src) /\ Len(r.src) = s.blockIndex + 1
  BY <1>1 DEF Reached, Held
<1>3. s.current = "none" => Len(r.src) = 0
  BY <1>1, <1>2 DEF Begun, NoBlock
<1>4. s.tools[tool] \in Int
  BY <1>1 DEF Reached, Asm
<1> QED
  BY <1>2, <1>3, <1>4

\* The block of a tool that was not known.
LEMMA Introducing ==
  ASSUME Streams, Anthropic, NEW s, NEW tool \in Tool, Going(s), s.started
  PROVE  LET new == OpenBlock(s, tool)
             b   == [new EXCEPT !.tools[tool] = new.blockIndex]
         IN  /\ Going(b) /\ b.current = tool /\ b.started /\ b.stopped = s.stopped
             /\ b.tools[tool] = b.blockIndex /\ b.blockIndex = s.blockIndex + 1
<1> DEFINE new == OpenBlock(s, tool)
<1> DEFINE b == [new EXCEPT !.tools[tool] = new.blockIndex]
<1>1. /\ Going(new) /\ new.current = tool /\ new.blockIndex = s.blockIndex + 1
      /\ Kept(s, new) /\ new.started /\ new \in Asm
  BY SourcesTagged, Opening
<1> HIDE DEF new
<1>2. Going(b)
  BY <1>1, Registering
<1>3. /\ b.current = new.current /\ b.started = new.started /\ b.stopped = new.stopped
      /\ b.tools[tool] = new.blockIndex /\ b.blockIndex = new.blockIndex
  BY <1>1 DEF Asm
<1> HIDE DEF b
<1>4. /\ Going(b) /\ b.current = tool /\ b.started /\ b.stopped = s.stopped
      /\ b.tools[tool] = b.blockIndex /\ b.blockIndex = s.blockIndex + 1
  BY <1>1, <1>2, <1>3 DEF Kept
<1> QED
  BY <1>4 DEF b, new

\* A tool call of a chunk.
LEMMA ToolCalled ==
  ASSUME Streams, Anthropic, NEW s, Going(s), NEW call \in [tool : Tool, args : BOOLEAN]
  PROVE  Going(ToolCall(s, call)) /\ ToolCall(s, call).stopped = s.stopped
<1> DEFINE tool == call.tool
<1> DEFINE e == EnsureStart(s)
<1> DEFINE new == OpenBlock(e, tool)
<1> DEFINE b == IF e.tools[tool] # NoBlock THEN e
                ELSE [new EXCEPT !.tools[tool] = new.blockIndex]
<1>1. tool \in Tool /\ tool \in Source
  BY SourcesTagged
<1>2. Going(e) /\ Kept(s, e) /\ e.started
  BY Starting
<1>3. ToolCall(s, call) = IF call.args THEN Delta(b, b.tools[tool], tool) ELSE b
  BY DEF ToolCall
<1> HIDE DEF e
<1>4. /\ Going(b) /\ b.current # "none" /\ b.stopped = s.stopped
      /\ b.tools[tool] # NoBlock \/ (tool = b.current /\ b.tools[tool] = b.blockIndex)
  <2>1. CASE e.tools[tool] # NoBlock
    BY <1>1, <1>2, <2>1, KnownInBlock DEF Kept
  <2>2. CASE ~(e.tools[tool] # NoBlock)
    BY <1>1, <1>2, <2>2, Introducing, SourcesTagged DEF Kept
  <2> QED
    BY <2>1, <2>2
<1> HIDE DEF tool, b
<1>5. Going(Delta(b, b.tools[tool], tool)) /\ Kept(b, Delta(b, b.tools[tool], tool))
  BY <1>1, <1>4, Saying
<1> QED
  BY <1>3, <1>4, <1>5 DEF Kept

LEMMA OpenAIGoesOn ==
  ASSUME Streams, Anthropic, NEW s, Going(s), NEW chunk \in Chunk
  PROVE  Going(OpenAIProcess(s, chunk)) /\ OpenAIProcess(s, chunk).stopped = s.stopped
<1> DEFINE used == IF chunk.usage THEN [s EXCEPT !.usage = "reported"] ELSE s
<1> DEFINE thought == Content(used, chunk.thinking, "thinking")
<1> DEFINE said == Content(thought, chunk.text, "text")
<1>1. Going(used) /\ used.stopped = s.stopped
  <2>1. PICK r : Reached(s, r) /\ Begun(s, r)
    BY DEF Going
  <2>2. /\ used \in Asm /\ used.queue = s.queue /\ used.tools = s.tools /\ used.current = s.current
        /\ used.blockIndex = s.blockIndex /\ used.started = s.started /\ used.stopped = s.stopped
    BY <2>1 DEF Reached, Asm
  <2> HIDE DEF used
  <2> QED
    BY <2>1, <2>2, Noted DEF Going, Begun
<1>2. OpenAIProcess(s, chunk) = IF chunk.call = NoCall THEN said ELSE ToolCall(said, chunk.call)
  BY DEF OpenAIProcess
<1> HIDE DEF used
<1>3. Going(thought) /\ Kept(used, thought)
  BY <1>1, Contented
<1> HIDE DEF thought
<1>4. Going(said) /\ Kept(thought, said)
  BY <1>3, Contented
<1> HIDE DEF said
<1>5. CASE chunk.call = NoCall
  BY <1>1, <1>2, <1>3, <1>4, <1>5 DEF Kept
<1>6. CASE chunk.call # NoCall
  <2>1. chunk.call \in [tool : Tool, args : BOOLEAN]
    BY <1>6 DEF Chunk
  <2>2. Going(ToolCall(said, chunk.call)) /\ ToolCall(said, chunk.call).stopped = said.stopped
    BY <1>4, <2>1, ToolCalled
  <2> QED
    BY <1>1, <1>2, <1>3, <1>4, <1>6, <2>2 DEF Kept
<1> QED
  BY <1>5, <1>6

Fine(s) == IF s.stopped THEN Over(s) ELSE Going(s)

LEMMA MetadataNoted ==
  ASSUME NEW s \in Asm, NEW event, event.type \in Metadata
  PROVE  LET t == KiroMetadata(s, event)
         IN  /\ t \in Asm /\ t.queue = s.queue /\ t.tools = s.tools /\ t.current = s.current
             /\ t.blockIndex = s.blockIndex /\ t.started = s.started /\ t.stopped = s.stopped
BY DEF KiroMetadata, Metadata, Asm

\* The tool may be noted before its block is opened or after.
LEMMA Swapped ==
  ASSUME NEW s \in Asm, NEW tool \in Tool
  PROVE  LET new == OpenBlock(s, tool)
         IN  OpenBlock([s EXCEPT !.tools[tool] = s.blockIndex + 1], tool)
               = [new EXCEPT !.tools[tool] = new.blockIndex]
<1> DEFINE noted == [s.tools EXCEPT ![tool] = s.blockIndex + 1]
<1> DEFINE k == [s EXCEPT !.tools = noted]
<1> DEFINE c == CloseBlock(s)
<1> DEFINE f == Event("block_start", c.blockIndex + 1, tool)
<1> DEFINE at == s.blockIndex + 1
<1>1. noted \in [Tool -> Int] /\ at \in Int /\ s.blockIndex \in Int
  BY DEF Asm
<1>2. [s EXCEPT !.tools[tool] = s.blockIndex + 1] = k
  BY DEF Asm
<1>3. c \in Asm /\ c.tools = s.tools /\ c.blockIndex = s.blockIndex
  <2>1. CASE s.current = "none"
    BY <2>1 DEF CloseBlock
  <2>2. CASE s.current # "none"
    <3> DEFINE g == Event("block_stop", s.blockIndex, s.current)
    <3> DEFINE d == [s EXCEPT !.current = "none"]
    <3>1. g \in Events
      BY <1>1, <2>2, SourcesTagged, EventTyped DEF Asm, EventName
    <3>2. d \in Asm /\ d.tools = s.tools /\ d.blockIndex = s.blockIndex
      BY DEF Asm
    <3>3. c = Push(d, g)
      BY <2>2 DEF CloseBlock
    <3> HIDE DEF g, d, c
    <3> QED
      BY <3>1, <3>2, <3>3, PushTyped DEF Kept
  <2> QED
    BY <2>1, <2>2
<1>4. CloseBlock(k) = [c EXCEPT !.tools = noted]
  <2>1. k \in Asm /\ k.queue = s.queue /\ k.current = s.current /\ k.blockIndex = s.blockIndex
    BY <1>1 DEF Asm
  <2>2. CASE s.current = "none"
    BY <2>1, <2>2 DEF CloseBlock
  <2>3. CASE s.current # "none"
    <3> DEFINE q == Append(s.queue, Event("block_stop", s.blockIndex, s.current))
    <3>1. c = [s EXCEPT !.current = "none", !.queue = q]
      BY <2>3 DEF CloseBlock, Push, Asm
    <3>2. CloseBlock(k) = [k EXCEPT !.current = "none", !.queue = q]
      BY <2>1, <2>3 DEF CloseBlock, Push, Asm
    <3> HIDE DEF q, c, noted
    <3> QED
      BY <3>1, <3>2 DEF Asm
  <2> QED
    BY <2>2, <2>3
<1> DEFINE p == Append(c.queue, f)
<1>5. OpenBlock(s, tool) = [c EXCEPT !.blockIndex = at, !.current = tool, !.queue = p]
  BY <1>3 DEF OpenBlock, Push, Asm
<1>6. OpenBlock(k, tool)
        = [c EXCEPT !.tools = noted, !.blockIndex = at, !.current = tool, !.queue = p]
  <2> DEFINE e == [c EXCEPT !.tools = noted]
  <2>1. e.queue = c.queue /\ e.blockIndex = s.blockIndex /\ CloseBlock(k) = e
    BY <1>3, <1>4 DEF Asm
  <2>2. OpenBlock(k, tool) = [e EXCEPT !.blockIndex = at, !.current = tool, !.queue = p]
    <3> HIDE DEF e, c, k, noted
    <3> QED
      BY <1>3, <2>1 DEF OpenBlock, Push, Asm
  <2> HIDE DEF c, k, noted, p
  <2> QED
    BY <2>2
<1>7. c.tools[tool] = s.tools[tool] /\ noted = [c.tools EXCEPT ![tool] = at]
  BY <1>3
<1> HIDE DEF c, k, noted, p, at
<1>8. [OpenBlock(s, tool) EXCEPT !.tools[tool] = OpenBlock(s, tool).blockIndex]
        = [c EXCEPT !.blockIndex = at, !.current = tool, !.queue = p, !.tools = noted]
  BY <1>3, <1>5, <1>7 DEF Asm
<1> QED
  BY <1>2, <1>3, <1>6, <1>8 DEF Asm

LEMMA KiroToolGoesOn ==
  ASSUME Streams, Anthropic, NEW s, Going(s), NEW event \in KiroEvent, event.type = "toolUse",
         s.tools[event.tool] # NoBlock => s.current = event.tool
  PROVE  Going(KiroToolUse(s, event)) /\ KiroToolUse(s, event).stopped = s.stopped
<1> DEFINE tool == event.tool
<1> DEFINE e == EnsureStart(s)
<1> DEFINE new == OpenBlock(e, tool)
<1> DEFINE b == IF e.tools[tool] # NoBlock THEN e
                ELSE [new EXCEPT !.tools[tool] = new.blockIndex]
<1>1. tool \in Tool /\ tool \in Source /\ tool # "none"
  BY SourcesTagged DEF KiroEvent, Metadata
<1>2. Going(e) /\ Kept(s, e) /\ e.started /\ e.current = s.current
  BY Starting
<1>3. e \in Asm
  BY <1>2 DEF Going, Reached
<1>4. KiroToolUse(s, event) = IF event.input THEN Delta(b, b.blockIndex, tool) ELSE b
  BY <1>1, <1>3, Swapped DEF KiroToolUse
<1> HIDE DEF e
<1>5. Going(b) /\ b.current = tool /\ b.stopped = s.stopped
  <2>1. CASE e.tools[tool] # NoBlock
    BY <1>2, <2>1 DEF Kept
  <2>2. CASE ~(e.tools[tool] # NoBlock)
    BY <1>1, <1>2, <2>2, Introducing DEF Kept
  <2> QED
    BY <2>1, <2>2
<1> HIDE DEF tool, b
<1>6. Going(Delta(b, b.blockIndex, tool)) /\ Kept(b, Delta(b, b.blockIndex, tool))
  BY <1>1, <1>5, Saying
<1> QED
  BY <1>4, <1>5, <1>6 DEF Kept

LEMMA KiroGoesOn ==
  ASSUME Streams, Anthropic, NEW s, Fine(s), NEW event \in KiroEvent,
         s.stopped => event.type \in Metadata,
         event.type = "toolUse" /\ s.tools[event.tool] # NoBlock => s.current = event.tool
  PROVE  /\ Fine(KiroProcess(s, event))
         /\ KiroProcess(s, event).stopped <=> (s.stopped \/ event.type = "messageStop")
<1> DEFINE t == KiroProcess(s, event)
<1>1. CASE event.type \in Metadata
  <2>1. t = KiroMetadata(s, event) /\ event.type # "messageStop"
    BY <1>1 DEF KiroProcess, Metadata
  <2>2. PICK r : Reached(s, r) /\ (IF s.stopped THEN r.last = "message_stop" ELSE Begun(s, r))
    BY DEF Fine, Over, Going
  <2>3. /\ t \in Asm /\ t.queue = s.queue /\ t.tools = s.tools /\ t.current = s.current
        /\ t.blockIndex = s.blockIndex /\ t.started = s.started /\ t.stopped = s.stopped
    BY <1>1, <2>1, <2>2, MetadataNoted DEF Reached
  <2>4. s.stopped \in BOOLEAN
    BY <2>2 DEF Reached, Asm
  <2> HIDE DEF t
  <2>5. Reached(t, r) /\ (IF t.stopped THEN r.last = "message_stop" ELSE Begun(t, r))
    BY <2>2, <2>3, Noted DEF Begun
  <2>6. Fine(t) /\ (t.stopped <=> (s.stopped \/ event.type = "messageStop"))
    BY <2>1, <2>3, <2>4, <2>5 DEF Fine, Over, Going
  <2> QED
    BY <2>6 DEF t
<1>2. CASE event.type \notin Metadata
  <2>1. ~s.stopped /\ Going(s)
    BY <1>2 DEF Fine
  <2>2. CASE event.type = "messageStop"
    <3>1. t = FlushBlocks(s)
      BY <1>2, <2>2 DEF KiroProcess
    <3>2. Over(FlushBlocks(s)) /\ FlushBlocks(s).stopped
      BY <2>1, Flushed
    <3> QED
      BY <2>2, <3>1, <3>2 DEF Fine
  <2>3. CASE event.type = "toolUse"
    <3>1. t = KiroToolUse(s, event)
      BY <1>2, <2>3 DEF KiroProcess
    <3>2. Going(KiroToolUse(s, event)) /\ KiroToolUse(s, event).stopped = s.stopped
      BY <2>1, <2>3, KiroToolGoesOn
    <3> QED
      BY <2>1, <2>3, <3>1, <3>2 DEF Fine
  <2>4. CASE event.type \notin {"messageStop", "toolUse"}
    <3> DEFINE source == IF event.type = "text" THEN "text" ELSE "thinking"
    <3> DEFINE e == EnsureStart(s)
    <3> DEFINE b == InBlockOf(e, source)
    <3>1. t = IF event.type = "emptyThinking" THEN b ELSE Delta(b, b.blockIndex, source)
      BY <1>2, <2>1, <2>4 DEF KiroProcess, KiroContent
    <3>2. Going(e) /\ Kept(s, e) /\ e.started
      BY <2>1, Starting
    <3>3. source \in Source /\ source # "none"
      BY DEF Source
    <3> HIDE DEF t, source, e
    <3>4. Going(b) /\ b.current = source /\ Kept(e, b)
      BY <3>2, <3>3, Continuing
    <3> HIDE DEF b
    <3>5. Going(Delta(b, b.blockIndex, source)) /\ Kept(b, Delta(b, b.blockIndex, source))
      BY <3>3, <3>4, Saying
    <3>6. Going(t) /\ t.stopped = s.stopped
      BY <3>1, <3>2, <3>4, <3>5 DEF Kept
    <3>7. Fine(t) /\ (t.stopped <=> (s.stopped \/ event.type = "messageStop"))
      BY <2>1, <2>4, <3>6 DEF Fine
    <3> QED
      BY <3>7 DEF t
  <2> QED
    BY <2>2, <2>3, <2>4
<1> QED
  BY <1>1, <1>2

-----------------------------------------------------------------------------
(* KiroAssembler: its events follow no grammar, but its arguments name the *)
(* tool call they belong to.                                               *)

Counting(s) == s.current = "none" /\ \E r : Reached(s, r)

LEMMA CountingNoted ==
  ASSUME NEW s, NEW t \in Asm, Counting(s), t.queue = s.queue, t.blockIndex = s.blockIndex,
         t.tools = s.tools, t.current = s.current
  PROVE  Counting(t)
BY Noted DEF Counting

\* Anything but the start of a tool call and its arguments.
LEMMA CountingPushed ==
  ASSUME Streams, ~Anthropic, NEW s, Counting(s), NEW name \in EventName \ {"block_start"},
         NEW index \in Int, NEW source \in Tag,
         name = "delta" /\ index # NoBlock => source \in Tool /\ s.tools[source] = index
  PROVE  Counting(Push(s, Event(name, index, source)))
<1> DEFINE f == Event(name, index, source)
<1>1. PICK r : Reached(s, r)
  BY DEF Counting
<1>2. f \in Events /\ f.name = name /\ f.index = index /\ f.source = source
  BY EventTyped
<1>3. s \in Asm /\ Held(s, r)
  BY <1>1 DEF Reached
<1> HIDE DEF f
<1>4. Allowed(Anthropic, r, f)
  BY <1>2, <1>3 DEF Allowed, Owned, Held
<1>5. Reached(Push(s, f), After(r, f))
  BY <1>1, <1>2, <1>4, EventPushed
<1>6. Push(s, f).current = s.current
  BY <1>2, <1>3, PushTyped
<1>7. Counting(Push(s, f))
  BY <1>5, <1>6 DEF Counting
<1> QED
  BY <1>7 DEF f

LEMMA Finished ==
  ASSUME Streams, ~Anthropic, NEW s, Counting(s)
  PROVE  Counting(FinishChunk(s))
<1> DEFINE priced == IF s.usage = "none" THEN [s EXCEPT !.usage = "estimated"] ELSE s
<1> DEFINE t == [priced EXCEPT !.stopped = TRUE]
<1>1. s \in Asm
  BY DEF Counting, Reached
<1>2. /\ priced \in Asm /\ priced.queue = s.queue /\ priced.tools = s.tools
      /\ priced.current = s.current /\ priced.blockIndex = s.blockIndex
  BY <1>1 DEF Asm
<1>3. FinishChunk(s) = IF s.stopped THEN s ELSE Push(t, Event("finish", NoBlock, priced.usage))
  BY DEF FinishChunk
<1> HIDE DEF priced
<1>4. /\ t \in Asm /\ t.queue = s.queue /\ t.tools = s.tools
      /\ t.current = s.current /\ t.blockIndex = s.blockIndex
  BY <1>2 DEF Asm
<1>5. priced.usage \in Tag /\ NoBlock \in Int
  BY <1>2 DEF Asm, Tag, NoBlock
<1> HIDE DEF t
<1>6. Counting(Push(t, Event("finish", NoBlock, priced.usage)))
  BY <1>4, <1>5, CountingNoted, CountingPushed DEF EventName
<1> QED
  BY <1>3, <1>6

LEMMA ToolCounted ==
  ASSUME Streams, ~Anthropic, NEW s, Counting(s), NEW event \in KiroEvent, event.type = "toolUse"
  PROVE  Counting(ChunkToolUse(s, event))
<1> DEFINE tool == event.tool
<1> DEFINE at == s.blockIndex + 1
<1> DEFINE noted == [s.tools EXCEPT ![tool] = at]
<1> DEFINE new == [s EXCEPT !.blockIndex = at, !.tools = noted]
<1> DEFINE f == Event("block_start", at, tool)
<1> DEFINE b == IF s.tools[tool] # NoBlock THEN s ELSE Push(new, f)
<1>1. PICK r : Reached(s, r)
  BY DEF Counting
<1>2. /\ s \in Asm /\ r \in Position /\ Held(s, r) /\ s.current = "none"
      /\ Path(Anthropic, Here, out \o s.queue, r)
  BY <1>1 DEF Reached, Counting
<1>3. tool \in Tool /\ tool \in Tag
  BY SourcesTagged DEF KiroEvent, Metadata
<1>4. at \in Int /\ noted \in [Tool -> Int] /\ noted[tool] = at
      /\ \A k \in Tool \ {tool} : noted[k] = s.tools[k]
  BY <1>2, <1>3 DEF Asm
<1>5. ChunkToolUse(s, event) = IF event.input THEN Push(b, Event("delta", b.tools[tool], tool)) ELSE b
  <2>1. [s EXCEPT !.blockIndex = @ + 1, !.tools[tool] = s.blockIndex + 1] = new
    BY <1>2 DEF Asm
  <2>2. new.blockIndex = at
    BY <1>2 DEF Asm
  <2> HIDE DEF new
  <2> QED
    BY <2>1, <2>2 DEF ChunkToolUse, Delta
<1>6. Counting(b) /\ b.tools[tool] \in Int
  <2>1. CASE s.tools[tool] # NoBlock
    BY <1>2, <1>3, <2>1 DEF Asm
  <2>2. CASE ~(s.tools[tool] # NoBlock)
    <3> HIDE DEF at, noted
    <3>1. /\ new \in Asm /\ new.queue = s.queue /\ new.tools = noted /\ new.current = "none"
          /\ new.blockIndex = at
      BY <1>2, <1>4 DEF Asm
    <3>2. f \in Events /\ f.name = "block_start" /\ f.source = tool
      BY <1>3, <1>4, EventTyped DEF EventName
    <3> HIDE DEF new, f
    <3>3. Allowed(Anthropic, r, f)
      BY <3>2 DEF Allowed, Owned
    <3>4. Path(Anthropic, Here, out \o Append(s.queue, f), After(r, f))
      BY <1>2, <3>2, <3>3, Longer
    <3>5. After(r, f) \in Position /\ After(r, f).src = Append(r.src, tool)
      BY <1>2, <3>2, AfterTyped
    <3>6. /\ Push(new, f) \in Asm /\ Push(new, f).queue = Append(s.queue, f)
          /\ Push(new, f).tools = noted /\ Push(new, f).current = "none"
          /\ Push(new, f).blockIndex = at
      BY <3>1, <3>2, PushTyped DEF Kept
    <3>7. Held(Push(new, f), After(r, f))
      <4> DEFINE longer == Append(r.src, tool)
      <4>1. r.src \in Seq(Tag) /\ Len(r.src) = at /\ Len(r.src) \in Nat
        BY <1>2 DEF Position, Held, at
      <4>2. /\ Len(longer) = Len(r.src) + 1 /\ longer[Len(r.src) + 1] = tool
            /\ \A i \in 1 .. Len(r.src) : longer[i] = r.src[i]
        BY <1>3, <4>1
      <4> HIDE DEF longer
      <4>3. ASSUME NEW k \in Tool, noted[k] # NoBlock
            PROVE  noted[k] + 1 \in 1 .. Len(longer) /\ longer[noted[k] + 1] = k
        <5>1. CASE k = tool
          BY <1>4, <4>1, <4>2, <5>1
        <5>2. CASE k # tool
          <6>1. noted[k] + 1 \in 1 .. Len(r.src) /\ r.src[noted[k] + 1] = k
            BY <1>2, <1>4, <4>3, <5>2 DEF Held
          <6>2. noted[k] + 1 \in 1 .. Len(longer)
            BY <4>1, <4>2, <6>1
          <6> QED
            BY <4>2, <6>1, <6>2
        <5> QED
          BY <5>1, <5>2
      <4>4. After(r, f).src = longer
        BY <3>5 DEF longer
      <4> QED
        BY <3>6, <4>1, <4>2, <4>3, <4>4 DEF Held
    <3>8. Reached(Push(new, f), After(r, f))
      BY <3>4, <3>5, <3>6, <3>7 DEF Reached
    <3> QED
      BY <1>3, <1>4, <2>2, <3>6, <3>8 DEF Counting
  <2> QED
    BY <2>1, <2>2
<1> HIDE DEF tool, b
<1>7. Counting(Push(b, Event("delta", b.tools[tool], tool)))
  BY <1>3, <1>6, CountingPushed DEF EventName
<1> QED
  BY <1>5, <1>6, <1>7

LEMMA ChunksGoOn ==
  ASSUME Streams, ~Anthropic, NEW s, Counting(s), NEW event \in KiroEvent
  PROVE  Counting(ChunkProcess(s, event))
<1>1. s \in Asm
  BY DEF Counting, Reached
<1>2. CASE event.type \in Metadata
  <2> DEFINE noted == KiroMetadata(s, event)
  <2>1. Counting(noted)
    BY <1>1, <1>2, MetadataNoted, CountingNoted
  <2>2. ChunkProcess(s, event) = IF noted.metering /\ noted.context THEN FinishChunk(noted) ELSE noted
    BY <1>2 DEF ChunkProcess
  <2> HIDE DEF noted
  <2> QED
    BY <2>1, <2>2, Finished
<1>3. CASE event.type = "messageStop"
  <2> DEFINE t == [s EXCEPT !.stopped = TRUE]
  <2>1. ChunkProcess(s, event) = Push(t, Event("finish", NoBlock, "none"))
    BY <1>3 DEF ChunkProcess, Metadata
  <2>2. /\ t \in Asm /\ t.queue = s.queue /\ t.tools = s.tools
        /\ t.current = s.current /\ t.blockIndex = s.blockIndex
    BY <1>1 DEF Asm
  <2> HIDE DEF t
  <2>3. Counting(t)
    BY <2>2, CountingNoted
  <2> QED
    BY <2>1, <2>3, CountingPushed DEF EventName, Tag, NoBlock
<1>4. CASE event.type = "toolUse"
  BY <1>4, ToolCounted DEF ChunkProcess, Metadata
<1>5. CASE event.type = "emptyThinking"
  BY <1>5 DEF ChunkProcess, Metadata
<1>6. CASE event.type \in {"text", "thinking"}
  <2>1. ChunkProcess(s, event) = Push(s, Event("delta", NoBlock, event.type))
    BY <1>6 DEF ChunkProcess, Metadata
  <2> QED
    BY <1>6, <2>1, CountingPushed DEF EventName, Tag, Source, NoBlock
<1> QED
  BY <1>2, <1>3, <1>4, <1>5, <1>6 DEF KiroEvent

-----------------------------------------------------------------------------
(* The invariant: while the client reads, what is on its way leads to      *)
(* where the assembler is, and the answer is over once the upstream is.    *)

Underway == IF Anthropic THEN Fine(asm) ELSE Counting(asm)
StreamInv ==
  /\ Streams /\ asm \in Asm /\ asm.queue = <<>>
  /\ ended = "open" => Underway
  /\ upstreamAt \in {"sending", "stopped", "ended"}
  /\ Anthropic => (asm.stopped <=> upstreamAt # "sending")
  /\ assembler = "openai" => upstreamAt # "stopped"

LEMMA Enqueued ==
  ASSUME Streams, NEW s \in Asm, Enqueue(s), UNCHANGED <<assembler, client, owner>>
  PROVE  /\ Streams' /\ asm' \in Asm /\ asm'.queue = <<>> /\ asm'.stopped = s.stopped
         /\ Anthropic' = Anthropic
         /\ Fine(s) => Fine(asm)'
         /\ Counting(s) => Counting(asm)'
<1>1. /\ s.queue \in Seq(Events) /\ out \in Seq(Events) /\ out' = out \o s.queue
      /\ asm' = [s EXCEPT !.queue = <<>>]
  BY DEF Enqueue, Asm, Streams
<1>2. /\ asm' \in Asm /\ asm'.queue = <<>> /\ asm'.stopped = s.stopped /\ asm'.tools = s.tools
      /\ asm'.current = s.current /\ asm'.blockIndex = s.blockIndex /\ asm'.started = s.started
  <2>1. <<>> \in Seq(Events)
    OBVIOUS
  <2> QED
    BY <1>1, <2>1 DEF Asm
<1>3. out' \in Seq(Events) /\ out' \o asm'.queue = out \o s.queue
  BY <1>1, <1>2
<1>4. Streams' /\ Anthropic' = Anthropic /\ Here' = Here
  BY <1>3 DEF Streams, Anthropic, Here
<1>5. ASSUME NEW r, Reached(s, r)
      PROVE  Reached(asm, r)' /\ (Begun(s, r) => Begun(asm, r)')
  BY <1>2, <1>3, <1>4, <1>5 DEF Reached, Held, Begun
<1>6. Fine(s) => Fine(asm)'
  BY <1>2, <1>5 DEF Fine, Over, Going
<1>7. Counting(s) => Counting(asm)'
  BY <1>2, <1>5 DEF Counting
<1> QED
  BY <1>2, <1>4, <1>6, <1>7

LEMMA StreamInvInit == StreamInit => StreamInv
<1> SUFFICES ASSUME StreamInit PROVE StreamInv
  OBVIOUS
<1>1. Streams
  BY DEF StreamInit, Streams, Frame, Event, NoBlock, Tag
<1>2. /\ asm \in Asm /\ asm.queue = <<>> /\ asm.stopped = FALSE /\ asm.started = FALSE
      /\ asm.current = "none" /\ asm.blockIndex = NoBlock /\ \A t \in Tool : asm.tools[t] = NoBlock
  <2>1. <<>> \in Seq(Events)
    OBVIOUS
  <2> QED
    BY <2>1 DEF StreamInit, NewAssembler, Asm, NoBlock
<1>3. out \o asm.queue = <<>> /\ Here \in Position /\ Here.last = "nothing" /\ Here.src = <<>>
  BY <1>1, <1>2, HereTyped DEF StreamInit, Here, Frame, Event
<1>4. Path(Anthropic, Here, out \o asm.queue, Here)
  BY <1>3, PathEmpty
<1>5. Held(asm, Here)
  <2>1. Len(Here.src) = 0
    BY <1>3
  <2> QED
    BY <1>2, <2>1 DEF Held, NoBlock
<1>6. Reached(asm, Here) /\ Begun(asm, Here)
  BY <1>2, <1>3, <1>4, <1>5 DEF Reached, Begun
<1>7. Underway
  BY <1>2, <1>6 DEF Underway, Fine, Going, Counting
<1> QED
  BY <1>1, <1>2, <1>7 DEF StreamInv, StreamInit

LEMMA ChunkArrival ==
  ASSUME StreamInv, OpenAIChunkArrives
  PROVE  StreamInv'
<1>1. /\ assembler = "openai" /\ Anthropic /\ ended = "open" /\ upstreamAt # "ended"
      /\ UNCHANGED <<assembler, client, owner, ended, upstreamAt>>
  BY DEF OpenAIChunkArrives, Receives, Anthropic
<1>2. PICK chunk \in Chunk : Enqueue(OpenAIProcess(asm, chunk))
  BY DEF OpenAIChunkArrives
<1> DEFINE s == OpenAIProcess(asm, chunk)
<1>3. Streams /\ ~asm.stopped /\ Going(asm)
  BY <1>1 DEF StreamInv, Underway, Fine, Asm
<1>4. Going(s) /\ s.stopped = asm.stopped
  BY <1>1, <1>3, OpenAIGoesOn
<1> HIDE DEF s
<1>5. s \in Asm /\ Fine(s)
  BY <1>3, <1>4 DEF Fine, Going, Reached
<1> QED
  BY <1>1, <1>2, <1>3, <1>4, <1>5, Enqueued DEF StreamInv, Underway, s

LEMMA EventArrival ==
  ASSUME KiroWellBehaved, StreamInv, KiroEventArrives
  PROVE  StreamInv'
<1>1. /\ assembler \in {"kiro", "chunks"} /\ ended = "open" /\ upstreamAt # "ended"
      /\ UNCHANGED <<assembler, client, owner, ended>>
  BY DEF KiroEventArrives, Receives
<1>2. PICK event \in KiroEvent :
        /\ KiroMaySend(event) \/ assembler = "chunks"
        /\ Enqueue(IF assembler = "kiro" THEN KiroProcess(asm, event) ELSE ChunkProcess(asm, event))
        /\ upstreamAt' = IF event.type = "messageStop" THEN "stopped" ELSE upstreamAt
  BY DEF KiroEventArrives
<1>3. Streams /\ Underway
  BY <1>1 DEF StreamInv
<1>4. CASE assembler = "kiro"
  <2> DEFINE s == KiroProcess(asm, event)
  <2>1. Anthropic /\ Fine(asm) /\ (asm.stopped <=> upstreamAt # "sending")
    BY <1>3, <1>4 DEF StreamInv, Underway, Anthropic
  <2>2. /\ asm.stopped => event.type \in Metadata
        /\ event.type = "toolUse" /\ asm.tools[event.tool] # NoBlock => asm.current = event.tool
    <3>1. KiroMaySend(event)
      BY <1>2, <1>4
    <3>2. asm.stopped => upstreamAt = "stopped"
      BY <1>1, <2>1 DEF StreamInv
    <3> QED
      BY <3>1, <3>2 DEF KiroMaySend
  <2>3. Fine(s) /\ (s.stopped <=> (asm.stopped \/ event.type = "messageStop"))
    BY <1>3, <2>1, <2>2, KiroGoesOn
  <2>4. Enqueue(s)
    BY <1>2, <1>4
  <2> HIDE DEF s
  <2>5. s \in Asm
    BY <2>3 DEF Fine, Over, Going, Reached
  <2>6. s.stopped <=> upstreamAt' # "sending"
    BY <1>2, <2>1, <2>3
  <2>7. /\ Streams' /\ asm' \in Asm /\ asm'.queue = <<>> /\ asm'.stopped = s.stopped
        /\ Anthropic' = Anthropic /\ Fine(asm)'
    BY <1>1, <1>3, <2>3, <2>4, <2>5, Enqueued
  <2>8. upstreamAt' \in {"sending", "stopped", "ended"}
    BY <1>2 DEF StreamInv
  <2> QED
    BY <1>1, <1>4, <2>1, <2>6, <2>7, <2>8 DEF StreamInv, Underway
<1>5. CASE assembler = "chunks"
  <2> DEFINE s == ChunkProcess(asm, event)
  <2>1. ~Anthropic /\ Counting(asm)
    BY <1>3, <1>5 DEF Underway, Anthropic
  <2>2. Counting(s) /\ Enqueue(s)
    BY <1>2, <1>3, <1>5, <2>1, ChunksGoOn
  <2> HIDE DEF s
  <2>3. s \in Asm
    BY <2>2 DEF Counting, Reached
  <2>4. /\ Streams' /\ asm' \in Asm /\ asm'.queue = <<>>
        /\ Anthropic' = Anthropic /\ Counting(asm)'
    BY <1>1, <1>3, <2>2, <2>3, Enqueued
  <2>5. upstreamAt' \in {"sending", "stopped", "ended"}
    BY <1>2 DEF StreamInv
  <2> QED
    BY <1>1, <1>5, <2>1, <2>4, <2>5 DEF StreamInv, Underway
<1> QED
  BY <1>1, <1>4, <1>5

LEMMA Ending ==
  ASSUME StreamInv, UpstreamEnds
  PROVE  StreamInv'
<1>1. /\ ended = "open" /\ upstreamAt # "ended" /\ upstreamAt' = "ended"
      /\ UNCHANGED <<assembler, client, owner, ended>>
      /\ Enqueue(IF assembler = "chunks" THEN Push(FinishChunk(asm), Frame("done")) ELSE FlushBlocks(asm))
  BY DEF UpstreamEnds
<1>2. Streams /\ Underway
  BY <1>1 DEF StreamInv
<1>3. CASE Anthropic
  <2>1. Fine(asm) /\ Enqueue(FlushBlocks(asm))
    BY <1>1, <1>2, <1>3 DEF Underway, Anthropic
  <2>2. Over(FlushBlocks(asm)) /\ FlushBlocks(asm).stopped
    <3>1. CASE asm.stopped
      BY <2>1, <3>1 DEF FlushBlocks, Fine
    <3>2. CASE ~asm.stopped
      BY <1>2, <1>3, <2>1, <3>2, Flushed DEF Fine
    <3> QED
      BY <3>1, <3>2
  <2>3. FlushBlocks(asm) \in Asm /\ Fine(FlushBlocks(asm))
    BY <2>2 DEF Over, Reached, Fine
  <2>4. /\ Streams' /\ asm' \in Asm /\ asm'.queue = <<>> /\ asm'.stopped = FlushBlocks(asm).stopped
        /\ Anthropic' = Anthropic /\ Fine(asm)'
    BY <1>1, <1>2, <2>1, <2>3, Enqueued
  <2> QED
    BY <1>1, <1>3, <2>2, <2>4 DEF StreamInv, Underway
<1>4. CASE ~Anthropic
  <2> DEFINE s == Push(FinishChunk(asm), Frame("done"))
  <2>1. Counting(asm) /\ Enqueue(s) /\ assembler = "chunks"
    BY <1>1, <1>2, <1>4 DEF Underway, Anthropic
  <2>2. Counting(s)
    BY <1>2, <1>4, <2>1, Finished, CountingPushed DEF Frame, EventName, Tag, NoBlock
  <2> HIDE DEF s
  <2>3. s \in Asm
    BY <2>2 DEF Counting, Reached
  <2> QED
    BY <1>1, <1>2, <1>4, <2>1, <2>2, <2>3, Enqueued DEF StreamInv, Underway
<1> QED
  BY <1>3, <1>4

\* What the client reads is allowed where it is.
LEMMA Reading ==
  ASSUME StreamInv, ClientReads
  PROVE  /\ StreamInv' /\ Head(out) \in Events
         /\ Allowed(Anthropic, Here, Head(out)) /\ Here' = After(Here, Head(out))
<1>1. /\ ended = "open" /\ out # <<>> /\ client' = Head(out) /\ out' = Tail(out)
      /\ owner' = IF Head(out).name = "block_start" THEN Append(owner, Head(out).source) ELSE owner
      /\ UNCHANGED <<assembler, asm, upstreamAt, ended>>
  BY DEF ClientReads
<1>2. Streams /\ Underway /\ out \in Seq(Events) /\ asm.queue = <<>> /\ asm \in Asm
  BY <1>1 DEF StreamInv, Streams
<1>3. Head(out) \in Events /\ Tail(out) \in Seq(Events) /\ out \o asm.queue = out
      /\ Tail(out) \o asm.queue = Tail(out)
  BY <1>1, <1>2
<1>4. Streams' /\ Anthropic' = Anthropic
  BY <1>1, <1>2, <1>3 DEF Streams, Events, Anthropic
<1>5. Here' = After(Here, Head(out))
  BY <1>1, <1>3 DEF Here, After, Events
<1>6. ASSUME NEW r, Reached(asm, r)
      PROVE  Allowed(Anthropic, Here, Head(out)) /\ Reached(asm, r)'
  <2>1. Path(Anthropic, Here, out, r)
    BY <1>3, <1>6 DEF Reached
  <2>2. Allowed(Anthropic, Here, Head(out)) /\ Path(Anthropic, After(Here, Head(out)), Tail(out), r)
    BY <1>1, <1>2, <2>1, PathHead
  <2>3. Path(Anthropic', Here', out' \o asm'.queue, r)
    BY <1>1, <1>3, <1>4, <1>5, <2>2
  <2> QED
    BY <1>1, <1>6, <2>2, <2>3 DEF Reached, Held
<1>7. \E r : Reached(asm, r)
  BY <1>2 DEF Underway, Fine, Over, Going, Counting
<1>8. Underway'
  <2>1. CASE Anthropic
    BY <1>1, <1>2, <1>4, <1>6, <2>1 DEF Underway, Fine, Over, Going, Begun
  <2>2. CASE ~Anthropic
    BY <1>1, <1>2, <1>4, <1>6, <2>2 DEF Underway, Counting
  <2> QED
    BY <2>1, <2>2
<1>9. StreamInv'
  BY <1>1, <1>2, <1>4, <1>8 DEF StreamInv
<1> QED
  BY <1>3, <1>5, <1>6, <1>7, <1>9

LEMMA StreamInvStep ==
  ASSUME KiroWellBehaved, StreamInv, [StreamNext]_streamVars
  PROVE  StreamInv'
<1>1. CASE OpenAIChunkArrives
  BY <1>1, ChunkArrival
<1>2. CASE KiroEventArrives
  BY <1>2, EventArrival
<1>3. CASE UpstreamEnds
  BY <1>3, Ending
<1>4. CASE UpstreamBreaks
  BY <1>4 DEF UpstreamBreaks, StreamInv, Streams, Anthropic
<1>5. CASE ClientReads
  BY <1>5, Reading
<1>6. CASE ClientSeesEnd
  BY <1>6 DEF ClientSeesEnd, StreamInv, Streams, Anthropic
<1>7. CASE UNCHANGED streamVars
  <2>1. /\ UNCHANGED <<assembler, asm, upstreamAt, out, client, owner, ended>>
        /\ Anthropic' = Anthropic /\ Here' = Here
    BY <1>7 DEF streamVars, Anthropic, Here
  <2>2. \A r : (Reached(asm, r)' <=> Reached(asm, r)) /\ (Begun(asm, r)' <=> Begun(asm, r))
    BY <2>1 DEF Reached, Held, Begun
  <2>3. Underway' <=> Underway
    BY <2>1, <2>2 DEF Underway, Fine, Over, Going, Counting
  <2> QED
    BY <2>1, <2>3 DEF StreamInv, Streams
<1> QED
  BY <1>1, <1>2, <1>3, <1>4, <1>5, <1>6, <1>7 DEF StreamNext

THEOREM StreamAlways == ASSUME KiroWellBehaved PROVE StreamSpec => []StreamInv
<1>1. StreamInv /\ [StreamNext]_streamVars => StreamInv'
  BY StreamInvStep
<1> QED
  BY <1>1, StreamInvInit, PTL DEF StreamSpec

\* Content reaches the client in the block of its own source, in any of the
\* three assemblers: Delta's index is one that was started for it.
THEOREM ContentKept == ASSUME KiroWellBehaved PROVE StreamSpec => []ContentInItsBlock
<1>1. StreamInit => ContentInItsBlock
  BY DEF StreamInit, ContentInItsBlock, Frame, Event
<1>2. ContentInItsBlock /\ StreamInv /\ [StreamNext]_streamVars => ContentInItsBlock'
  <2> SUFFICES ASSUME ContentInItsBlock, StreamInv, [StreamNext]_streamVars
               PROVE  ContentInItsBlock'
    OBVIOUS
  <2>1. CASE ClientReads
    <3>1. /\ client' = Head(out) /\ Head(out) \in Events
          /\ owner' = IF Head(out).name = "block_start" THEN Append(owner, Head(out).source) ELSE owner
          /\ Owned(Here, Head(out))
      BY <2>1, Reading DEF ClientReads, Allowed
    <3> QED
      BY <3>1 DEF ContentInItsBlock, Owned, Here
  <2>2. CASE UNCHANGED <<client, owner>>
    BY <2>2 DEF ContentInItsBlock
  <2> QED
    BY <2>1, <2>2 DEF StreamNext, OpenAIChunkArrives, KiroEventArrives, Receives, UpstreamEnds,
       UpstreamBreaks, ClientSeesEnd, streamVars
<1> QED
  BY <1>1, <1>2, StreamAlways, PTL DEF StreamSpec

\* What the Anthropic assemblers make of any upstream is Anthropic's block
\* protocol: SseStream implements BlockProtocol.
THEOREM GrammarKept == ASSUME KiroWellBehaved PROVE StreamSpec => StreamGrammar
<1>1. StreamInit => Client!Init
  BY DEF StreamInit, Client!Init, Frame, Event
<1>2. StreamInv /\ [StreamNext]_streamVars => [Client!Next]_Client!protocolVars
  <2> SUFFICES ASSUME StreamInv, [StreamNext]_streamVars
               PROVE  [Client!Next]_Client!protocolVars
    OBVIOUS
  <2>1. CASE UNCHANGED <<assembler, client, owner, ended>>
    BY <2>1 DEF Client!protocolVars, Anthropic
  <2>2. CASE UpstreamBreaks
    BY <2>2 DEF UpstreamBreaks, Client!Next, Client!End, Client!protocolVars, Anthropic
  <2>3. CASE ClientSeesEnd
    <3>1. /\ ended = "open" /\ ended' = "closed" /\ out = <<>> /\ upstreamAt = "ended"
          /\ UNCHANGED <<assembler, client, owner>>
      BY <2>3 DEF ClientSeesEnd
    <3>2. CASE Anthropic
      <4>1. Over(asm) /\ out \o asm.queue = <<>>
        BY <3>1, <3>2 DEF StreamInv, Underway, Fine
      <4>2. client.name = "message_stop"
        BY <4>1, PathNowhere DEF Over, Reached, Here
      <4> QED
        BY <3>1, <3>2, <4>2 DEF Client!Next, Client!End, Anthropic
    <3>3. CASE ~Anthropic
      BY <3>1, <3>3 DEF Client!protocolVars, Anthropic
    <3> QED
      BY <3>2, <3>3
  <2>4. CASE ClientReads
    <3> DEFINE f == Head(out)
    <3>1. /\ ended = "open" /\ client' = f /\ f \in Events /\ UNCHANGED <<assembler, ended>>
          /\ owner' = IF f.name = "block_start" THEN Append(owner, f.source) ELSE owner
          /\ owner \in Seq(Tag) /\ (Anthropic => Grammar(Here, f))
      BY <2>4, Reading DEF ClientReads, Allowed, StreamInv, Streams
    <3> HIDE DEF f
    <3>2. CASE ~Anthropic
      BY <3>1, <3>2 DEF Client!protocolVars, Anthropic
    <3>3. CASE Anthropic
      <4> DEFINE n == Len(owner)
      <4>1. /\ n \in Nat /\ Anthropic'
            /\ Len(owner') = IF f.name = "block_start" THEN n + 1 ELSE n
        <5>1. f.source \in Tag
          BY <3>1 DEF Events
        <5> QED
          BY <3>1, <3>3, <5>1 DEF Anthropic
      <4>2. /\ f.name \in EventName \ {"finish", "done"}
            /\ f.name = "message_start" => client.name = "nothing"
            /\ f.name = "block_start" => client.name \in {"message_start", "block_stop"} /\ f.index = n
            /\ f.name = "delta" => client.name \in {"block_start", "delta"} /\ f.index \in 0 .. n - 1
            /\ f.name = "block_stop" =>
                 client.name \in {"block_start", "delta"} /\ f.index = n - 1 /\ n > 0
            /\ f.name = "message_delta" => client.name \in {"message_start", "block_stop"}
            /\ f.name = "message_stop" => client.name = "message_delta"
        BY <3>1, <3>3 DEF Grammar, Here, Events
      <4>3. client'.name = f.name /\ ended = "open" /\ ended' = ended
        BY <3>1
      <4>4. f.name = "block_stop" => n - 1 \in 0 .. n
        BY <4>1, <4>2
      <4>5. CASE f.name = "message_start"
        BY <3>3, <4>1, <4>2, <4>3, <4>5 DEF Client!Next, Client!MessageStart
      <4>6. CASE f.name = "block_start"
        <5>1. Client!BlockStart(n) /\ n \in 0 .. n
          BY <3>3, <4>1, <4>2, <4>3, <4>6 DEF Client!BlockStart
        <5> QED
          BY <3>3, <4>3, <5>1 DEF Client!Next
      <4>7. CASE f.name = "delta"
        <5>1. Client!Delta(f.index) /\ f.index \in 0 .. n
          BY <3>3, <4>1, <4>2, <4>3, <4>7 DEF Client!Delta
        <5> QED
          BY <3>3, <4>3, <5>1 DEF Client!Next
      <4>8. CASE f.name = "block_stop"
        <5>1. Client!BlockStop(n - 1)
          BY <3>3, <4>1, <4>2, <4>3, <4>8 DEF Client!BlockStop
        <5> QED
          BY <3>3, <4>3, <4>4, <4>8, <5>1 DEF Client!Next
      <4>9. CASE f.name = "message_delta"
        BY <3>3, <4>1, <4>2, <4>3, <4>9 DEF Client!Next, Client!MessageDelta
      <4>10. CASE f.name = "message_stop"
        BY <3>3, <4>1, <4>2, <4>3, <4>10 DEF Client!Next, Client!MessageStop
      <4> QED
        BY <4>2, <4>5, <4>6, <4>7, <4>8, <4>9, <4>10 DEF EventName
    <3> QED
      BY <3>2, <3>3
  <2> QED
    BY <2>1, <2>2, <2>3, <2>4 DEF StreamNext, OpenAIChunkArrives, KiroEventArrives, Receives,
       UpstreamEnds, streamVars
<1> QED
  BY <1>1, <1>2, StreamAlways, PTL DEF StreamSpec, StreamGrammar, Client!Spec

-----------------------------------------------------------------------------
(* The types, for any upstream: KiroWellBehaved is not used here.         *)

\* An event of a block that n blocks have: the first is number 0.
Sound(n) ==
  {e \in Events : e.index \in NoBlock .. n /\ (e.name = "block_start" => e.source \in Source)}

\* Every index that an assembler knows of is one it has counted up to.
Fit(s) ==
  /\ s \in Asm /\ s.blockIndex >= NoBlock /\ s.queue \in Seq(Sound(s.blockIndex))
  /\ \A t \in Tool : s.tools[t] \in NoBlock .. s.blockIndex
Onward(s, t) == Fit(t) /\ t.blockIndex >= s.blockIndex

LEMMA SoundGrows ==
  ASSUME NEW m \in Int, NEW n \in Int, m <= n, NEW q \in Seq(Sound(m))
  PROVE  q \in Seq(Sound(n))
<1>1. Sound(m) \subseteq Sound(n)
  BY DEF Sound, NoBlock
<1>2. \A i \in 1 .. Len(q) : q[i] \in Sound(n)
  BY <1>1
<1> HIDE DEF Sound
<1> QED
  BY <1>2

LEMMA SoundEvent ==
  ASSUME NEW name \in EventName, NEW n \in Int, NEW index \in NoBlock .. n, NEW source \in Tag,
         name = "block_start" => source \in Source
  PROVE  Event(name, index, source) \in Sound(n)
<1>1. index \in Int
  BY DEF NoBlock
<1> QED
  BY <1>1, EventTyped DEF Sound

LEMMA OnwardTwice ==
  ASSUME NEW s, NEW t, NEW u, Fit(s), Onward(s, t), Onward(t, u)
  PROVE  Onward(s, u)
BY DEF Onward, Fit, Asm

LEMMA FitOnward == ASSUME NEW s, Fit(s) PROVE Onward(s, s)
BY DEF Onward, Fit, Asm

\* What the indices do not depend on may change.
LEMMA FitNoted ==
  ASSUME NEW s, NEW t \in Asm, Fit(s), t.queue = s.queue, t.blockIndex = s.blockIndex,
         t.tools = s.tools
  PROVE  Onward(s, t)
BY DEF Onward, Fit, Asm

LEMMA FitPushed ==
  ASSUME NEW s, NEW f \in Sound(s.blockIndex), Fit(s)
  PROVE  /\ Onward(s, Push(s, f)) /\ Kept(s, Push(s, f))
         /\ Push(s, f).current = s.current /\ Push(s, f).blockIndex = s.blockIndex
<1>1. f \in Events /\ s \in Asm /\ s.queue \in Seq(Sound(s.blockIndex)) /\ s.blockIndex \in Int
  BY DEF Sound, Fit, Asm
<1>2. Append(s.queue, f) \in Seq(Sound(s.blockIndex))
  BY <1>1
<1>3. /\ Push(s, f) \in Asm /\ Push(s, f).queue = Append(s.queue, f) /\ Kept(s, Push(s, f))
      /\ Push(s, f).current = s.current /\ Push(s, f).blockIndex = s.blockIndex
  BY <1>1, PushTyped
<1>4. Fit(Push(s, f))
  BY <1>2, <1>3 DEF Fit, Kept
<1> QED
  BY <1>1, <1>3, <1>4 DEF Onward

\* One block more, which a tool may remember.
LEMMA FitGrown ==
  ASSUME NEW s, NEW t \in Asm, Fit(s), t.queue = s.queue, t.blockIndex = s.blockIndex + 1,
         \A k \in Tool : t.tools[k] = s.tools[k] \/ t.tools[k] = t.blockIndex
  PROVE  Onward(s, t)
<1>1. s.blockIndex \in Int /\ s.blockIndex >= NoBlock /\ s.queue \in Seq(Sound(s.blockIndex))
  BY DEF Fit, Asm
<1>2. t.queue \in Seq(Sound(t.blockIndex))
  BY <1>1, SoundGrows
<1>3. \A k \in Tool : t.tools[k] \in NoBlock .. t.blockIndex
  BY <1>1 DEF Fit, NoBlock
<1> QED
  BY <1>1, <1>2, <1>3 DEF Onward, Fit, NoBlock

LEMMA FitStart ==
  ASSUME NEW s, Fit(s)
  PROVE  /\ Onward(s, EnsureStart(s)) /\ EnsureStart(s).tools = s.tools
         /\ EnsureStart(s).current = s.current /\ EnsureStart(s).usage = s.usage
<1>1. CASE s.started
  BY <1>1, FitOnward DEF EnsureStart
<1>2. CASE ~s.started
  <2> DEFINE t == [s EXCEPT !.started = TRUE]
  <2> DEFINE f == Frame("message_start")
  <2>1. /\ t \in Asm /\ t.queue = s.queue /\ t.tools = s.tools /\ t.current = s.current
        /\ t.blockIndex = s.blockIndex /\ t.blockIndex \in Int /\ t.blockIndex >= NoBlock
        /\ t.usage = s.usage
    BY DEF Fit, Asm
  <2>2. EnsureStart(s) = Push(t, f)
    BY <1>2 DEF EnsureStart
  <2>3. f \in Sound(t.blockIndex)
    BY <2>1, SoundEvent DEF Frame, EventName, Tag, NoBlock
  <2> HIDE DEF t, f
  <2>4. Onward(s, t) /\ Fit(t)
    BY <2>1, FitNoted DEF Onward
  <2>5. Onward(t, Push(t, f)) /\ Kept(t, Push(t, f)) /\ Push(t, f).current = t.current
    BY <2>3, <2>4, FitPushed
  <2>6. Onward(s, Push(t, f))
    BY <2>4, <2>5, OnwardTwice
  <2> QED
    BY <2>1, <2>2, <2>5, <2>6 DEF Kept
<1> QED
  BY <1>1, <1>2

LEMMA FitClose ==
  ASSUME NEW s, Fit(s)
  PROVE  /\ Onward(s, CloseBlock(s)) /\ CloseBlock(s).tools = s.tools
         /\ CloseBlock(s).blockIndex = s.blockIndex /\ CloseBlock(s).usage = s.usage
<1>1. CASE s.current = "none"
  BY <1>1, FitOnward DEF CloseBlock
<1>2. CASE s.current # "none"
  <2> DEFINE t == [s EXCEPT !.current = "none"]
  <2> DEFINE f == Event("block_stop", s.blockIndex, s.current)
  <2>1. /\ t \in Asm /\ t.queue = s.queue /\ t.tools = s.tools
        /\ t.blockIndex = s.blockIndex /\ s.blockIndex \in Int /\ s.blockIndex >= NoBlock
        /\ s.current \in Source /\ t.usage = s.usage
    BY <1>2 DEF Fit, Asm
  <2>2. CloseBlock(s) = Push(t, f)
    BY <1>2 DEF CloseBlock
  <2>3. s.blockIndex \in NoBlock .. t.blockIndex /\ s.current \in Tag
    BY <2>1, SourcesTagged DEF NoBlock
  <2>4. f \in Sound(t.blockIndex)
    BY <2>1, <2>3, SoundEvent DEF EventName
  <2> HIDE DEF t, f
  <2>5. Onward(s, t) /\ Fit(t)
    BY <2>1, FitNoted DEF Onward
  <2>6. Onward(t, Push(t, f)) /\ Kept(t, Push(t, f)) /\ Push(t, f).blockIndex = t.blockIndex
    BY <2>4, <2>5, FitPushed
  <2>7. Onward(s, Push(t, f))
    BY <2>5, <2>6, OnwardTwice
  <2> QED
    BY <2>1, <2>2, <2>6, <2>7 DEF Kept
<1> QED
  BY <1>1, <1>2

LEMMA FitOpen ==
  ASSUME NEW s, Fit(s), NEW source \in Source
  PROVE  /\ Onward(s, OpenBlock(s, source)) /\ OpenBlock(s, source).tools = s.tools
         /\ OpenBlock(s, source).blockIndex = s.blockIndex + 1
<1> DEFINE c == CloseBlock(s)
<1> DEFINE next == c.blockIndex + 1
<1> DEFINE t == [c EXCEPT !.blockIndex = next, !.current = source]
<1> DEFINE f == Event("block_start", next, source)
<1>1. Onward(s, c) /\ Fit(c) /\ c.tools = s.tools /\ c.blockIndex = s.blockIndex
  BY FitClose DEF Onward
<1> HIDE DEF c
<1>2. c \in Asm /\ next \in Int /\ next \in NoBlock .. next /\ source \in Tag
  BY <1>1, SourcesTagged DEF Fit, Asm, NoBlock
<1>3. OpenBlock(s, source) = Push(t, f)
  <2>1. [c EXCEPT !.blockIndex = @ + 1, !.current = source] = t
    BY <1>2 DEF Asm
  <2> HIDE DEF t
  <2> QED
    BY <2>1 DEF OpenBlock, c
<1>4. t \in Asm /\ t.queue = c.queue /\ t.blockIndex = next /\ t.tools = c.tools
  <2> HIDE DEF next
  <2> QED
    BY <1>2 DEF Asm
<1>5. f \in Sound(next)
  <2> HIDE DEF next
  <2> QED
    BY <1>2, SoundEvent DEF EventName
<1> HIDE DEF t, f
<1>6. Onward(c, t) /\ Fit(t)
  BY <1>1, <1>4, FitGrown DEF Onward
<1>7. Onward(t, Push(t, f)) /\ Kept(t, Push(t, f)) /\ Push(t, f).blockIndex = t.blockIndex
  BY <1>4, <1>5, <1>6, FitPushed
<1>8. Onward(s, Push(t, f))
  BY <1>1, <1>6, <1>7, OnwardTwice
<1> QED
  BY <1>1, <1>3, <1>4, <1>7, <1>8 DEF Kept

LEMMA FitDelta ==
  ASSUME NEW s, Fit(s), NEW index \in NoBlock .. s.blockIndex, NEW source \in Source
  PROVE  Onward(s, Delta(s, index, source))
<1>1. s.blockIndex \in Int /\ source \in Tag
  BY SourcesTagged DEF Fit, Asm
<1>2. Event("delta", index, source) \in Sound(s.blockIndex)
  BY <1>1, SoundEvent DEF EventName
<1> QED
  BY <1>2, FitPushed DEF Delta

LEMMA FitContinue ==
  ASSUME NEW s, Fit(s), NEW source \in Source
  PROVE  Onward(s, InBlockOf(s, source))
BY FitOpen, FitOnward DEF InBlockOf

\* A text or a thought, in the block that is open.
LEMMA FitSaid ==
  ASSUME NEW s, Fit(s), NEW source \in Source
  PROVE  LET b == InBlockOf(EnsureStart(s), source)
         IN  Onward(s, b) /\ Onward(s, Delta(b, b.blockIndex, source))
<1> DEFINE e == EnsureStart(s)
<1> DEFINE b == InBlockOf(e, source)
<1>1. Onward(s, e) /\ Fit(e)
  BY FitStart DEF Onward
<1> HIDE DEF e
<1>2. Onward(e, b) /\ Fit(b)
  BY <1>1, FitContinue DEF Onward
<1> HIDE DEF b
<1>3. b.blockIndex \in NoBlock .. b.blockIndex
  BY <1>2 DEF Fit, Asm, NoBlock
<1>4. Onward(b, Delta(b, b.blockIndex, source))
  BY <1>2, <1>3, FitDelta
<1>5. Onward(s, b)
  BY <1>1, <1>2, OnwardTwice
<1>6. Onward(s, Delta(b, b.blockIndex, source))
  BY <1>4, <1>5, OnwardTwice
<1> QED
  BY <1>5, <1>6 DEF b, e

LEMMA FitFlush ==
  ASSUME NEW s, Fit(s)
  PROVE  Onward(s, FlushBlocks(s))
<1>1. CASE s.stopped
  BY <1>1, FitOnward DEF FlushBlocks
<1>2. CASE ~s.stopped
  <2> DEFINE t == [s EXCEPT !.stopped = TRUE]
  <2> DEFINE e == EnsureStart(t)
  <2> DEFINE c == CloseBlock(e)
  <2> DEFINE priced == IF assembler = "kiro" /\ c.usage = "none"
                       THEN [c EXCEPT !.usage = "estimated"] ELSE c
  <2> DEFINE f == Event("message_delta", NoBlock, priced.usage)
  <2> DEFINE g == Frame("message_stop")
  <2>1. FlushBlocks(s) = Push(Push(priced, f), g)
    BY <1>2 DEF FlushBlocks
  <2>2. t \in Asm /\ t.queue = s.queue /\ t.blockIndex = s.blockIndex /\ t.tools = s.tools
    BY DEF Fit, Asm
  <2> HIDE DEF t
  <2>3. Onward(s, t) /\ Fit(t)
    BY <2>2, FitNoted DEF Onward
  <2>4. Onward(t, e) /\ Fit(e)
    BY <2>3, FitStart DEF Onward
  <2> HIDE DEF e
  <2>5. Onward(e, c) /\ Fit(c)
    BY <2>4, FitClose DEF Onward
  <2> HIDE DEF c
  <2>6. priced \in Asm /\ priced.queue = c.queue /\ priced.blockIndex = c.blockIndex /\ priced.tools = c.tools
    BY <2>5 DEF Fit, Asm
  <2> HIDE DEF priced
  <2>7. Onward(c, priced) /\ Fit(priced)
    BY <2>5, <2>6, FitNoted DEF Onward
  <2>8. /\ priced.blockIndex \in Int /\ NoBlock \in NoBlock .. priced.blockIndex
        /\ priced.usage \in Tag /\ "none" \in Tag
    BY <2>6, <2>7 DEF Fit, Asm, NoBlock, Tag
  <2>9. f \in Sound(priced.blockIndex)
    BY <2>8, SoundEvent DEF EventName
  <2>10. g \in Sound(priced.blockIndex)
    BY <2>8, SoundEvent DEF EventName, Frame
  <2> HIDE DEF f, g
  <2> DEFINE p == Push(priced, f)
  <2>11. Onward(priced, p) /\ Fit(p) /\ p.blockIndex = priced.blockIndex
    BY <2>7, <2>9, FitPushed DEF Onward
  <2> HIDE DEF p
  <2>12. Onward(p, Push(p, g))
    BY <2>10, <2>11, FitPushed
  <2>13. Onward(s, c)
    BY <2>3, <2>4, <2>5, OnwardTwice
  <2>14. Onward(s, p)
    BY <2>7, <2>11, <2>13, OnwardTwice
  <2>15. Onward(s, Push(p, g))
    BY <2>12, <2>14, OnwardTwice
  <2> QED
    BY <2>1, <2>15 DEF p
<1> QED
  BY <1>1, <1>2

\* The block of a tool that was not known, whenever it is noted.
LEMMA FitTool ==
  ASSUME NEW s, Fit(s), NEW tool \in Tool
  PROVE  LET new == OpenBlock(s, tool)
             b   == [new EXCEPT !.tools[tool] = new.blockIndex]
         IN  Onward(s, b) /\ b.tools[tool] = b.blockIndex
<1> DEFINE new == OpenBlock(s, tool)
<1>1. Onward(s, new) /\ Fit(new)
  BY SourcesTagged, FitOpen DEF Onward
<1> HIDE DEF new
<1> DEFINE n == new.blockIndex
<1> DEFINE noted == [new.tools EXCEPT ![tool] = n]
<1> DEFINE b == [new EXCEPT !.tools = noted]
<1>2. /\ new \in Asm /\ n \in Int /\ n >= NoBlock /\ noted \in [Tool -> Int] /\ noted[tool] = n
      /\ \A k \in Tool : noted[k] \in NoBlock .. n
  BY <1>1 DEF Fit, Asm, NoBlock
<1> HIDE DEF noted
<1>3. b \in Asm /\ b.queue = new.queue /\ b.blockIndex = n /\ b.tools = noted
  BY <1>2 DEF Asm
<1>4. [new EXCEPT !.tools[tool] = new.blockIndex] = b
  BY <1>2 DEF Asm, noted
<1> HIDE DEF b
<1>5. Onward(new, b)
  BY <1>1, <1>2, <1>3 DEF Onward, Fit
<1>6. Onward(s, b) /\ b.tools[tool] = b.blockIndex
  BY <1>1, <1>2, <1>3, <1>5, OnwardTwice
<1> QED
  BY <1>4, <1>6 DEF new

LEMMA FitContent ==
  ASSUME NEW s, Fit(s), NEW wanted, NEW source \in {"text", "thinking"}
  PROVE  Onward(s, Content(s, wanted, source))
<1>1. source \in Source
  BY DEF Source
<1>2. CASE wanted
  BY <1>1, <1>2, FitSaid DEF Content
<1>3. CASE ~wanted
  BY <1>3, FitOnward DEF Content
<1> QED
  BY <1>2, <1>3

LEMMA FitCall ==
  ASSUME NEW s, Fit(s), NEW call \in [tool : Tool, args : BOOLEAN]
  PROVE  Onward(s, ToolCall(s, call))
<1> DEFINE tool == call.tool
<1> DEFINE e == EnsureStart(s)
<1> DEFINE new == OpenBlock(e, tool)
<1> DEFINE b == IF e.tools[tool] # NoBlock THEN e
                ELSE [new EXCEPT !.tools[tool] = new.blockIndex]
<1>1. tool \in Tool /\ tool \in Source
  BY SourcesTagged
<1>2. Onward(s, e) /\ Fit(e)
  BY FitStart DEF Onward
<1>3. ToolCall(s, call) = IF call.args THEN Delta(b, b.tools[tool], tool) ELSE b
  BY DEF ToolCall
<1> HIDE DEF e
<1>4. Onward(e, b) /\ Fit(b)
  BY <1>1, <1>2, FitTool, FitOnward DEF Onward
<1> HIDE DEF b
<1>5. Onward(s, b) /\ b.tools[tool] \in NoBlock .. b.blockIndex
  BY <1>1, <1>2, <1>4, OnwardTwice DEF Fit
<1> HIDE DEF tool
<1>6. Onward(b, Delta(b, b.tools[tool], tool))
  BY <1>1, <1>4, <1>5, FitDelta
<1>7. Onward(s, Delta(b, b.tools[tool], tool))
  BY <1>5, <1>6, OnwardTwice
<1> QED
  BY <1>3, <1>5, <1>7

LEMMA FitChunk ==
  ASSUME NEW s, Fit(s), NEW chunk \in Chunk
  PROVE  Onward(s, OpenAIProcess(s, chunk))
<1> DEFINE used == IF chunk.usage THEN [s EXCEPT !.usage = "reported"] ELSE s
<1> DEFINE thought == Content(used, chunk.thinking, "thinking")
<1> DEFINE said == Content(thought, chunk.text, "text")
<1>1. used \in Asm /\ used.queue = s.queue /\ used.blockIndex = s.blockIndex /\ used.tools = s.tools
  BY DEF Fit, Asm
<1>2. OpenAIProcess(s, chunk) = IF chunk.call = NoCall THEN said ELSE ToolCall(said, chunk.call)
  BY DEF OpenAIProcess
<1> HIDE DEF used
<1>3. Onward(s, used) /\ Fit(used)
  BY <1>1, FitNoted DEF Onward
<1>4. Onward(used, thought) /\ Fit(thought)
  BY <1>3, FitContent DEF Onward
<1> HIDE DEF thought
<1>5. Onward(thought, said) /\ Fit(said)
  BY <1>4, FitContent DEF Onward
<1> HIDE DEF said
<1>6. Onward(s, thought)
  BY <1>3, <1>4, OnwardTwice
<1>7. Onward(s, said)
  BY <1>5, <1>6, OnwardTwice
<1>8. ASSUME chunk.call # NoCall PROVE Onward(s, ToolCall(said, chunk.call))
  <2>1. chunk.call \in [tool : Tool, args : BOOLEAN]
    BY <1>8 DEF Chunk
  <2>2. Onward(said, ToolCall(said, chunk.call))
    BY <1>5, <2>1, FitCall
  <2> QED
    BY <1>7, <2>2, OnwardTwice
<1> QED
  BY <1>2, <1>7, <1>8

LEMMA FitMetadata ==
  ASSUME NEW s, Fit(s), NEW event, event.type \in Metadata
  PROVE  Onward(s, KiroMetadata(s, event)) /\ Fit(KiroMetadata(s, event))
<1> DEFINE t == KiroMetadata(s, event)
<1>1. s \in Asm
  BY DEF Fit
<1>2. t \in Asm /\ t.queue = s.queue /\ t.tools = s.tools /\ t.blockIndex = s.blockIndex
  BY <1>1, MetadataNoted
<1> HIDE DEF t
<1>3. Onward(s, t)
  BY <1>2, FitNoted
<1> QED
  BY <1>3 DEF Onward, t

LEMMA FitKiroTool ==
  ASSUME NEW s, Fit(s), NEW event \in KiroEvent, event.type = "toolUse"
  PROVE  Onward(s, KiroToolUse(s, event))
<1> DEFINE tool == event.tool
<1> DEFINE e == EnsureStart(s)
<1> DEFINE new == OpenBlock(e, tool)
<1> DEFINE b == IF e.tools[tool] # NoBlock THEN e
                ELSE [new EXCEPT !.tools[tool] = new.blockIndex]
<1>1. tool \in Tool /\ tool \in Source
  BY SourcesTagged DEF KiroEvent, Metadata
<1>2. Onward(s, e) /\ Fit(e) /\ e \in Asm
  BY FitStart DEF Onward, Fit
<1>3. KiroToolUse(s, event) = IF event.input THEN Delta(b, b.blockIndex, tool) ELSE b
  BY <1>1, <1>2, Swapped DEF KiroToolUse
<1> HIDE DEF e
<1>4. Onward(e, b) /\ Fit(b)
  BY <1>1, <1>2, FitTool, FitOnward DEF Onward
<1> HIDE DEF b
<1>5. Onward(s, b)
  BY <1>2, <1>4, OnwardTwice
<1> HIDE DEF tool
<1>6. Onward(b, Delta(b, b.blockIndex, tool))
  <2>1. b.blockIndex \in NoBlock .. b.blockIndex
    BY <1>4 DEF Fit, Asm, NoBlock
  <2> QED
    BY <1>1, <1>4, <2>1, FitDelta
<1>7. Onward(s, Delta(b, b.blockIndex, tool))
  BY <1>5, <1>6, OnwardTwice
<1> QED
  BY <1>3, <1>5, <1>7

LEMMA FitKiro ==
  ASSUME NEW s, Fit(s), NEW event \in KiroEvent
  PROVE  Onward(s, KiroProcess(s, event))
<1>1. CASE event.type \in Metadata
  BY <1>1, FitMetadata DEF KiroProcess
<1>2. CASE event.type = "messageStop"
  BY <1>2, FitFlush DEF KiroProcess, Metadata
<1>3. CASE event.type = "toolUse"
  BY <1>3, FitKiroTool DEF KiroProcess, Metadata
<1>4. CASE event.type \notin Metadata \cup {"messageStop", "toolUse"}
  <2> DEFINE source == IF event.type = "text" THEN "text" ELSE "thinking"
  <2> DEFINE b == InBlockOf(EnsureStart(s), source)
  <2>1. KiroProcess(s, event) =
          IF s.stopped THEN s ELSE IF event.type = "emptyThinking" THEN b ELSE Delta(b, b.blockIndex, source)
    BY <1>4 DEF KiroProcess, KiroContent
  <2>2. source \in Source
    BY DEF Source
  <2> HIDE DEF source
  <2>3. Onward(s, b) /\ Onward(s, Delta(b, b.blockIndex, source))
    BY <2>2, FitSaid
  <2> HIDE DEF b
  <2> QED
    BY <2>1, <2>3, FitOnward
<1> QED
  BY <1>1, <1>2, <1>3, <1>4

LEMMA FitFinish ==
  ASSUME NEW s, Fit(s)
  PROVE  Onward(s, FinishChunk(s)) /\ Fit(FinishChunk(s))
<1> DEFINE priced == IF s.usage = "none" THEN [s EXCEPT !.usage = "estimated"] ELSE s
<1> DEFINE t == [priced EXCEPT !.stopped = TRUE]
<1> DEFINE f == Event("finish", NoBlock, priced.usage)
<1>1. /\ priced \in Asm /\ priced.queue = s.queue /\ priced.tools = s.tools
      /\ priced.blockIndex = s.blockIndex
  BY DEF Fit, Asm
<1>2. FinishChunk(s) = IF s.stopped THEN s ELSE Push(t, f)
  BY DEF FinishChunk
<1> HIDE DEF priced
<1>3. t \in Asm /\ t.queue = s.queue /\ t.tools = s.tools /\ t.blockIndex = s.blockIndex
  BY <1>1 DEF Asm
<1> HIDE DEF t
<1>4. Onward(s, t) /\ Fit(t)
  BY <1>3, FitNoted DEF Onward
<1>5. priced.usage \in Tag /\ t.blockIndex \in Int /\ NoBlock \in NoBlock .. t.blockIndex
  BY <1>1, <1>4 DEF Fit, Asm, Tag, NoBlock
<1>6. f \in Sound(t.blockIndex)
  BY <1>5, SoundEvent DEF EventName
<1> HIDE DEF f
<1>7. Onward(t, Push(t, f))
  BY <1>4, <1>6, FitPushed
<1>8. Onward(s, Push(t, f))
  BY <1>4, <1>7, OnwardTwice
<1> QED
  BY <1>2, <1>8, FitOnward DEF Onward

LEMMA FitChunkTool ==
  ASSUME NEW s, Fit(s), NEW event \in KiroEvent, event.type = "toolUse"
  PROVE  Onward(s, ChunkToolUse(s, event))
<1> DEFINE tool == event.tool
<1> DEFINE at == s.blockIndex + 1
<1> DEFINE noted == [s.tools EXCEPT ![tool] = at]
<1> DEFINE new == [s EXCEPT !.blockIndex = at, !.tools = noted]
<1> DEFINE f == Event("block_start", at, tool)
<1> DEFINE b == IF s.tools[tool] # NoBlock THEN s ELSE Push(new, f)
<1>1. tool \in Tool /\ tool \in Source /\ tool \in Tag
  BY SourcesTagged DEF KiroEvent, Metadata
<1>2. /\ s \in Asm /\ s.blockIndex \in Int /\ at \in Int /\ at \in NoBlock .. at /\ noted \in [Tool -> Int]
      /\ \A k \in Tool : noted[k] = s.tools[k] \/ noted[k] = at
  BY <1>1 DEF Fit, Asm, NoBlock
<1>3. ChunkToolUse(s, event) = IF event.input THEN Delta(b, b.tools[tool], tool) ELSE b
  <2>1. [s EXCEPT !.blockIndex = @ + 1, !.tools[tool] = s.blockIndex + 1] = new
    BY <1>2 DEF Asm
  <2>2. new.blockIndex = at
    BY <1>2 DEF Asm
  <2> HIDE DEF new
  <2> QED
    BY <2>1, <2>2 DEF ChunkToolUse
<1>4. Onward(s, b) /\ Fit(b)
  <2>1. CASE s.tools[tool] # NoBlock
    BY <2>1, FitOnward DEF Onward
  <2>2. CASE ~(s.tools[tool] # NoBlock)
    <3>1. new \in Asm /\ new.queue = s.queue /\ new.tools = noted /\ new.blockIndex = at
      <4> HIDE DEF at, noted
      <4> QED
        BY <1>2 DEF Asm
    <3>2. f \in Sound(at)
      <4> HIDE DEF at, tool
      <4> QED
        BY <1>1, <1>2, SoundEvent DEF EventName
    <3>3. Onward(s, new) /\ Fit(new)
      <4> HIDE DEF new, noted
      <4> QED
        BY <1>2, <3>1, FitGrown DEF Onward
    <3> HIDE DEF new, f
    <3>4. Onward(new, Push(new, f))
      BY <3>1, <3>2, <3>3, FitPushed
    <3>5. Onward(s, Push(new, f))
      BY <3>3, <3>4, OnwardTwice
    <3> QED
      BY <2>2, <3>5 DEF Onward
  <2> QED
    BY <2>1, <2>2
<1> HIDE DEF b
<1>5. b.tools[tool] \in NoBlock .. b.blockIndex
  BY <1>1, <1>4 DEF Fit
<1> HIDE DEF tool
<1>6. Onward(b, Delta(b, b.tools[tool], tool))
  BY <1>1, <1>4, <1>5, FitDelta
<1>7. Onward(s, Delta(b, b.tools[tool], tool))
  BY <1>4, <1>6, OnwardTwice
<1> QED
  BY <1>3, <1>4, <1>7

LEMMA FitChunkEvent ==
  ASSUME NEW s, Fit(s), NEW event \in KiroEvent
  PROVE  Onward(s, ChunkProcess(s, event))
<1>1. CASE event.type \in Metadata
  <2> DEFINE noted == KiroMetadata(s, event)
  <2>1. Onward(s, noted) /\ Fit(noted)
    BY <1>1, FitMetadata
  <2>2. ChunkProcess(s, event) = IF noted.metering /\ noted.context THEN FinishChunk(noted) ELSE noted
    BY <1>1 DEF ChunkProcess
  <2> HIDE DEF noted
  <2>3. Onward(s, FinishChunk(noted))
    BY <2>1, FitFinish, OnwardTwice
  <2> QED
    BY <2>1, <2>2, <2>3
<1>2. CASE event.type = "messageStop"
  <2> DEFINE t == [s EXCEPT !.stopped = TRUE]
  <2>1. t \in Asm /\ t.queue = s.queue /\ t.tools = s.tools /\ t.blockIndex = s.blockIndex
    BY DEF Fit, Asm
  <2>2. ChunkProcess(s, event) = Push(t, Event("finish", NoBlock, "none"))
    BY <1>2 DEF ChunkProcess, Metadata
  <2> HIDE DEF t
  <2>3. Onward(s, t) /\ Fit(t)
    BY <2>1, FitNoted DEF Onward
  <2>4. t.blockIndex \in Int /\ NoBlock \in NoBlock .. t.blockIndex /\ "none" \in Tag
    BY <2>3 DEF Fit, Asm, Tag, NoBlock
  <2>5. Event("finish", NoBlock, "none") \in Sound(t.blockIndex)
    BY <2>4, SoundEvent DEF EventName
  <2>6. Onward(t, Push(t, Event("finish", NoBlock, "none")))
    BY <2>3, <2>5, FitPushed
  <2> QED
    BY <2>2, <2>3, <2>6, OnwardTwice
<1>3. CASE event.type = "toolUse"
  BY <1>3, FitChunkTool DEF ChunkProcess, Metadata
<1>4. CASE event.type = "emptyThinking"
  BY <1>4, FitOnward DEF ChunkProcess, Metadata
<1>5. CASE event.type \in {"text", "thinking"}
  <2>1. ChunkProcess(s, event) = Delta(s, NoBlock, event.type)
    BY <1>5 DEF ChunkProcess, Metadata, Delta
  <2>2. event.type \in Source /\ NoBlock \in NoBlock .. s.blockIndex
    BY <1>5 DEF Source, Fit, Asm, NoBlock
  <2> QED
    BY <2>1, <2>2, FitDelta
<1> QED
  BY <1>1, <1>2, <1>3, <1>4, <1>5 DEF KiroEvent

-----------------------------------------------------------------------------
StreamFit ==
  /\ assembler \in {"openai", "kiro", "chunks"} /\ inputs \in 0 .. MaxInputs
  /\ upstreamAt \in {"sending", "stopped", "ended"} /\ ended \in {"open", "closed", "broken"}
  /\ Fit(asm) /\ asm.queue = <<>>
  /\ out \in Seq(Sound(asm.blockIndex)) /\ owner \in Seq(Source)
  /\ client.index \in NoBlock .. asm.blockIndex

LEMMA FitInitially == StreamInit => StreamFit
<1> SUFFICES ASSUME StreamInit PROVE StreamFit
  OBVIOUS
<1>1. /\ asm \in Asm /\ asm.queue = <<>> /\ asm.blockIndex = NoBlock
      /\ \A t \in Tool : asm.tools[t] = NoBlock
  <2>1. <<>> \in Seq(Events)
    OBVIOUS
  <2> QED
    BY <2>1 DEF StreamInit, NewAssembler, Asm, NoBlock
<1>2. asm.queue \in Seq(Sound(asm.blockIndex)) /\ out \in Seq(Sound(asm.blockIndex))
      /\ owner \in Seq(Source)
  BY <1>1 DEF StreamInit
<1>3. Fit(asm)
  BY <1>1, <1>2 DEF Fit, NoBlock
<1>4. client.index \in NoBlock .. asm.blockIndex
  BY <1>1 DEF StreamInit, Frame, Event, NoBlock
<1> QED
  BY <1>1, <1>2, <1>3, <1>4, SseAssumption DEF StreamInit, StreamFit

LEMMA FitEnqueued ==
  ASSUME StreamFit, NEW s, Onward(asm, s), Enqueue(s), UNCHANGED <<client, owner>>
  PROVE  /\ Fit(asm)' /\ asm'.queue = <<>> /\ out' \in Seq(Sound(asm'.blockIndex))
         /\ client'.index \in NoBlock .. asm'.blockIndex
<1>1. /\ Fit(asm) /\ Fit(s) /\ asm \in Asm /\ s \in Asm /\ asm.blockIndex \in Int
      /\ s.blockIndex \in Int /\ s.blockIndex >= asm.blockIndex
      /\ out' = out \o s.queue /\ asm' = [s EXCEPT !.queue = <<>>]
  BY DEF Enqueue, Onward, Fit, StreamFit, Asm
<1>2. /\ asm' \in Asm /\ asm'.queue = <<>> /\ asm'.tools = s.tools /\ asm'.blockIndex = s.blockIndex
  <2>1. <<>> \in Seq(Events)
    OBVIOUS
  <2> QED
    BY <1>1, <2>1 DEF Asm
<1>3. out \in Seq(Sound(s.blockIndex)) /\ s.queue \in Seq(Sound(s.blockIndex))
  BY <1>1, SoundGrows DEF StreamFit, Fit
<1>4. out' \in Seq(Sound(asm'.blockIndex)) /\ <<>> \in Seq(Sound(asm'.blockIndex))
  BY <1>1, <1>2, <1>3
<1>5. Fit(asm')
  BY <1>1, <1>2, <1>4 DEF Fit
<1>6. client'.index \in NoBlock .. asm'.blockIndex
  BY <1>1, <1>2 DEF StreamFit, NoBlock
<1> QED
  BY <1>2, <1>4, <1>5, <1>6

LEMMA FitStep == StreamFit /\ [StreamNext]_streamVars => StreamFit'
<1> SUFFICES ASSUME StreamFit, [StreamNext]_streamVars PROVE StreamFit'
  OBVIOUS
<1>a. ASSUME Receives PROVE inputs' \in 0 .. MaxInputs /\ UNCHANGED <<assembler, client, owner, ended>>
  BY <1>a, SseAssumption DEF Receives, StreamFit
<1>b. ASSUME NEW s, Onward(asm, s), Enqueue(s), UNCHANGED <<assembler, client, owner, ended>>,
             inputs' \in 0 .. MaxInputs, upstreamAt' \in {"sending", "stopped", "ended"}
      PROVE  StreamFit'
  <2>1. /\ Fit(asm)' /\ asm'.queue = <<>> /\ out' \in Seq(Sound(asm'.blockIndex))
        /\ client'.index \in NoBlock .. asm'.blockIndex
    BY <1>b, FitEnqueued
  <2> QED
    BY <1>b, <2>1 DEF StreamFit
<1>1. CASE OpenAIChunkArrives
  <2>1. PICK chunk \in Chunk : Enqueue(OpenAIProcess(asm, chunk))
    BY <1>1 DEF OpenAIChunkArrives
  <2>2. Onward(asm, OpenAIProcess(asm, chunk))
    BY FitChunk DEF StreamFit
  <2>3. Receives /\ upstreamAt' = upstreamAt
    BY <1>1 DEF OpenAIChunkArrives
  <2> QED
    BY <1>a, <1>b, <2>1, <2>2, <2>3 DEF StreamFit
<1>2. CASE KiroEventArrives
  <2>1. PICK event \in KiroEvent :
          /\ Enqueue(IF assembler = "kiro" THEN KiroProcess(asm, event) ELSE ChunkProcess(asm, event))
          /\ upstreamAt' = IF event.type = "messageStop" THEN "stopped" ELSE upstreamAt
    BY <1>2 DEF KiroEventArrives
  <2>2. Receives /\ upstreamAt' \in {"sending", "stopped", "ended"} /\ Fit(asm)
    BY <1>2, <2>1 DEF KiroEventArrives, StreamFit
  <2>3. Onward(asm, KiroProcess(asm, event)) /\ Onward(asm, ChunkProcess(asm, event))
    BY <2>2, FitKiro, FitChunkEvent
  <2> QED
    BY <1>a, <1>b, <2>1, <2>2, <2>3
<1>3. CASE UpstreamEnds
  <2> DEFINE s == Push(FinishChunk(asm), Frame("done"))
  <2>1. Fit(asm)
    BY DEF StreamFit
  <2>2. Onward(asm, s)
    <3> DEFINE t == FinishChunk(asm)
    <3>1. Onward(asm, t) /\ Fit(t)
      BY <2>1, FitFinish
    <3> HIDE DEF t
    <3>2. t.blockIndex \in Int /\ NoBlock \in NoBlock .. t.blockIndex /\ "none" \in Tag
      BY <3>1 DEF Fit, Asm, Tag, NoBlock
    <3>3. Frame("done") \in Sound(t.blockIndex)
      BY <3>2, SoundEvent DEF EventName, Frame
    <3>4. Onward(t, Push(t, Frame("done")))
      BY <3>1, <3>3, FitPushed
    <3> QED
      BY <2>1, <3>1, <3>4, OnwardTwice DEF t
  <2>3. Onward(asm, FlushBlocks(asm))
    BY <2>1, FitFlush
  <2>4. Enqueue(IF assembler = "chunks" THEN s ELSE FlushBlocks(asm))
        /\ upstreamAt' = "ended" /\ UNCHANGED <<assembler, inputs, client, owner, ended>>
    BY <1>3 DEF UpstreamEnds
  <2>5. inputs' \in 0 .. MaxInputs
    BY <2>4 DEF StreamFit
  <2> HIDE DEF s
  <2> QED
    BY <1>b, <2>2, <2>3, <2>4, <2>5
<1>4. CASE UpstreamBreaks
  <2>1. out' \in Seq(Sound(asm.blockIndex))
    BY <1>4 DEF UpstreamBreaks
  <2> QED
    BY <1>4, <2>1 DEF UpstreamBreaks, StreamFit
<1>5. CASE ClientReads
  <2>1. out # <<>> /\ out \in Seq(Sound(asm.blockIndex))
    BY <1>5 DEF ClientReads, StreamFit
  <2>2. Head(out) \in Sound(asm.blockIndex) /\ Tail(out) \in Seq(Sound(asm.blockIndex))
    BY <2>1
  <2>3. /\ Head(out).index \in NoBlock .. asm.blockIndex
        /\ Head(out).name = "block_start" => Head(out).source \in Source
    BY <2>2 DEF Sound
  <2>4. owner' \in Seq(Source)
    BY <1>5, <2>3 DEF ClientReads, StreamFit
  <2> QED
    BY <1>5, <2>2, <2>3, <2>4 DEF ClientReads, StreamFit
<1>6. CASE ClientSeesEnd
  BY <1>6 DEF ClientSeesEnd, StreamFit
<1>7. CASE UNCHANGED streamVars
  BY <1>7 DEF streamVars, StreamFit
<1> QED
  BY <1>1, <1>2, <1>3, <1>4, <1>5, <1>6, <1>7 DEF StreamNext

LEMMA FitTypes == StreamFit => StreamTypeOK
<1> SUFFICES ASSUME StreamFit PROVE StreamTypeOK
  OBVIOUS
<1>1. ASSUME NEW event \in ToSet(out) \cup {client} PROVE event.index \in NoBlock .. asm.blockIndex
  <2>1. CASE event \in ToSet(out)
    <3>1. out \in Seq(Sound(asm.blockIndex))
      BY DEF StreamFit
    <3>2. event \in Sound(asm.blockIndex)
      BY <2>1, <3>1, MembersOf
    <3> QED
      BY <3>2 DEF Sound
  <2>2. CASE event = client
    BY <2>2 DEF StreamFit
  <2> QED
    BY <2>1, <2>2
<1>2. asm.current \in Source \cup {"none"} /\ asm.usage \in {"none", "reported", "estimated"}
      /\ asm.blockIndex >= NoBlock
  BY DEF StreamFit, Fit, Asm
<1> QED
  BY <1>1, <1>2 DEF StreamFit, StreamTypeOK

\* What the assemblers hold and what is on the queue keep to their types: no
\* event names a block or a tool call that was not started, whatever Kiro sends.
THEOREM StreamTyped == StreamSpec => []StreamTypeOK
BY FitInitially, FitStep, FitTypes, PTL DEF StreamSpec

-----------------------------------------------------------------------------
(* The relay of usages.                                                    *)

\* A piece knows its unit by its place in the body, and the last piece of a
\* unit by the unit's size.
BodyPiece == [unit : DOMAIN Size, at : Nat, last : BOOLEAN, part : Nat \ {0}]
Shaped ==
  /\ pieces \in Seq(BodyPiece)
  /\ \A i \in 1 .. Len(pieces) : pieces[i].last <=> pieces[i].part = Size[pieces[i].unit]
  /\ \A i, j \in 1 .. Len(pieces) : pieces[i].at = pieces[j].at => pieces[i].unit = pieces[j].unit

\* The pieces after the first l, up to the m-th.
Stretch(l, m) == SubSeq(pieces, l + 1, m)
SoFar == Stretch(0, arrived)
Pending == Stretch(Boundary(SoFar), arrived)

RelayInv ==
  /\ reader \in {"tail", "buffer", "frames"} /\ flow \in {"piping", "ended", "aborted", "broken"}
  /\ gone \in BOOLEAN /\ overflowed \in BOOLEAN
  /\ Shaped /\ arrived \in 0 .. Len(pieces)
  /\ held \in Seq(Seq(BodyPiece)) /\ Length(held) <= arrived
  /\ ~overflowed => FlattenSeq(held) = Pending /\ read = Units(SoFar)
  /\ flow = "piping" => reports = <<>>
  /\ reports = <<>> \/ (Len(reports) = 1 /\ (~overflowed => reports[1] = LastUsage(read)))
  /\ flow \in {"ended", "aborted"} /\ reader # "frames" => reports # <<>>

-----------------------------------------------------------------------------
LEMMA GreatestNumber ==
  ASSUME NEW n \in Nat, NEW S \in SUBSET (0 .. n), S # {}
  PROVE  /\ Max(S) \in S /\ \A x \in S : x <= Max(S)
         /\ Min(S) \in S /\ \A x \in S : Min(S) <= x
<1>1. \E m \in S : \A x \in S : m >= x
  <2> DEFINE T == {k \in Nat : n - k \in S}
  <2>1. PICK x \in S : TRUE
    OBVIOUS
  <2>2. n - x \in Nat /\ n - (n - x) = x
    BY <2>1
  <2>3. T # {} /\ T \in SUBSET Nat
    BY <2>1, <2>2
  <2>4. PICK k \in T : \A j \in T : k <= j
    BY <2>3, LeastNumber
  <2>5. ASSUME NEW y \in S PROVE n - k >= y
    <3>1. n - y \in T
      OBVIOUS
    <3> HIDE DEF T
    <3>2. k <= n - y /\ k \in Nat
      BY <2>3, <2>4, <3>1
    <3> QED
      BY <3>2
  <2> QED
    BY <2>4, <2>5
<1>2. \E m \in S : \A x \in S : m <= x
  BY LeastNumber
<1>3. Max(S) \in S /\ \A x \in S : Max(S) >= x
  BY <1>1 DEF Max
<1>4. Min(S) \in S /\ \A x \in S : Min(S) <= x
  BY <1>2 DEF Min
<1> QED
  BY <1>3, <1>4

LEMMA StretchIs ==
  ASSUME NEW S, NEW text \in Seq(S), NEW l \in 0 .. Len(text), NEW m \in l .. Len(text)
  PROVE  /\ SubSeq(text, l + 1, m) \in Seq(S) /\ Len(SubSeq(text, l + 1, m)) = m - l
         /\ \A i \in 1 .. m - l : l + i \in 1 .. Len(text) /\ SubSeq(text, l + 1, m)[i] = text[l + i]
<1>1. \A i \in l + 1 .. m : text[i] \in S
  OBVIOUS
<1>2. /\ SubSeq(text, l + 1, m) \in Seq(S)
      /\ Len(SubSeq(text, l + 1, m)) = IF l + 1 <= m THEN m - (l + 1) + 1 ELSE 0
      /\ \A i \in 1 .. m - (l + 1) + 1 : SubSeq(text, l + 1, m)[i] = text[l + 1 + i - 1]
  BY <1>1, SubSeqProperties
<1>3. m - (l + 1) + 1 = m - l /\ (l + 1 <= m \/ m - l = 0)
  OBVIOUS
<1>4. \A i \in 1 .. m - l : l + 1 + i - 1 = l + i /\ l + i \in 1 .. Len(text)
  OBVIOUS
<1> QED
  BY <1>2, <1>3, <1>4

LEMMA BoundaryIs ==
  ASSUME NEW text \in Seq(BodyPiece)
  PROVE  /\ Boundary(text) \in 0 .. Len(text)
         /\ Boundary(text) # 0 => text[Boundary(text)].last
         /\ \A i \in 1 .. Len(text) : i > Boundary(text) => ~text[i].last
<1> DEFINE ends == {i \in DOMAIN text : text[i].last}
<1>1. DOMAIN text = 1 .. Len(text) /\ Len(text) \in Nat /\ ends \in SUBSET (0 .. Len(text))
  OBVIOUS
<1>2. Boundary(text) = IF ends = {} THEN 0 ELSE Max(ends)
  BY DEF Boundary
<1>a. \A i \in 1 .. Len(text) : i \in ends <=> text[i].last
  BY <1>1
<1>5. \A i \in ends : text[i].last
  OBVIOUS
<1> HIDE DEF ends
<1>3. CASE ends = {}
  BY <1>1, <1>2, <1>3, <1>a
<1>4. CASE ends # {}
  <2>1. Max(ends) \in ends /\ \A x \in ends : x <= Max(ends)
    BY <1>1, <1>4, GreatestNumber
  <2> QED
    <3> DEFINE m == Max(ends)
    <3>1. m \in 0 .. Len(text) /\ Boundary(text) = m /\ m \in ends
      BY <1>1, <1>2, <1>4, <2>1
    <3>2. text[m].last
      BY <1>5, <3>1
    <3>3. ASSUME NEW i \in 1 .. Len(text), i > m PROVE i \notin ends
      BY <2>1, <3>1, <3>3
    <3> HIDE DEF m
    <3> QED
      BY <1>a, <3>1, <3>2, <3>3
<1> QED
  BY <1>3, <1>4

\* It is the only place of this kind.
LEMMA BoundaryOnly ==
  ASSUME NEW text \in Seq(BodyPiece), NEW b \in 0 .. Len(text), b # 0 => text[b].last,
         \A i \in 1 .. Len(text) : i > b => ~text[i].last
  PROVE  Boundary(text) = b
<1>1. /\ Boundary(text) \in 0 .. Len(text)
      /\ Boundary(text) # 0 => text[Boundary(text)].last
      /\ \A i \in 1 .. Len(text) : i > Boundary(text) => ~text[i].last
  BY BoundaryIs
<1>2. ~(b < Boundary(text)) /\ ~(Boundary(text) < b)
  BY <1>1
<1> QED
  BY <1>1, <1>2

-----------------------------------------------------------------------------
(* The units of a text.                                                    *)

Mark(text, i) == IF Whole(text, i) THEN <<text[i].at>> ELSE <<>>
\* A piece ends a run that begins after start.
Run(text, start, piece) ==
  \A k \in 1 .. piece.part : text[start + k].at = piece.at /\ text[start + k].part = k
Marks(text) == [i \in DOMAIN text |-> Mark(text, i)]

LEMMA WholeRun ==
  ASSUME NEW text, NEW i
  PROVE  Whole(text, i) <=> /\ text[i].last /\ i - text[i].part >= 0
                            /\ Run(text, i - text[i].part, text[i])
BY DEF Whole, Run

LEMMA MarksTyped ==
  ASSUME NEW text \in Seq(BodyPiece)
  PROVE  /\ Marks(text) \in Seq(Seq(Nat)) /\ Len(Marks(text)) = Len(text)
         /\ \A i \in 1 .. Len(text) : Marks(text)[i] = Mark(text, i)
         /\ Units(text) = FlattenSeq(Marks(text)) /\ Units(text) \in Seq(Nat)
<1>1. ASSUME NEW i \in 1 .. Len(text) PROVE Mark(text, i) \in Seq(Nat)
  <2>1. text[i].at \in Nat
    <3>1. text[i] \in BodyPiece
      BY ElementOfSeq
    <3> QED
      BY <3>1 DEF BodyPiece
  <2>2. <<text[i].at>> \in Seq(Nat)
    BY <2>1
  <2> QED
    BY <2>2, EmptySeq DEF Mark
<1>2. /\ Marks(text) \in Seq(Seq(Nat)) /\ Len(Marks(text)) = Len(text)
      /\ \A i \in 1 .. Len(text) : Marks(text)[i] = Mark(text, i)
  BY <1>1, SMTT(20) DEF Marks
<1>3. Units(text) = FlattenSeq(Marks(text))
  BY DEF Units, Marks, Mark
<1> QED
  BY <1>2, <1>3, FlattenTyped

LEMMA NothingFlat ==
  ASSUME NEW m \in Nat PROVE FlattenSeq([i \in 1 .. m |-> <<>>]) = <<>>
<1> DEFINE s == [i \in 1 .. m |-> <<>>]
<1>1. s \in Seq(Seq({}))
  BY EmptySeq
<1> HIDE DEF s
<1>2. FlattenSeq(s) \in Seq({})
  BY <1>1, FlattenTyped
<1>3. Len(FlattenSeq(s)) = 0
  <2> DEFINE f == FlattenSeq(s)
  <2>1. f \in Seq({})
    BY <1>2
  <2> HIDE DEF f
  <2>2. Len(f) = 0
    <3>1. Len(f) \in Nat /\ \A i \in 1 .. Len(f) : f[i] \in {}
      BY <2>1, ElementOfSeq
    <3>2. Len(f) # 0 => 1 \in 1 .. Len(f)
      BY <3>1
    <3> QED
      BY <3>1, <3>2
  <2> QED
    BY <2>2 DEF f
<1>4. FlattenSeq(s) = <<>>
  BY <1>2, <1>3, EmptySeq
<1> QED
  BY <1>4 DEF s

\* A cut through a text divides its units if no unit lies across it.
LEMMA UnitsDivide ==
  ASSUME NEW text \in Seq(BodyPiece), NEW b \in 0 .. Len(text),
         \A i \in 1 .. Len(text) : i > b /\ Whole(text, i) => i - text[i].part >= b
  PROVE  Units(text) = Units(SubSeq(text, 1, b)) \o Units(SubSeq(text, b + 1, Len(text)))
<1> DEFINE n == Len(text)
           u == SubSeq(text, 1, b)
           v == SubSeq(text, b + 1, n)
<1>0. n \in Nat
  OBVIOUS
<1>1. /\ u \in Seq(BodyPiece) /\ Len(u) = b
      /\ \A i \in 1 .. b : u[i] = text[i]
  <2>1. 0 \in 0 .. n /\ b \in 0 .. n
    OBVIOUS
  <2>2. /\ SubSeq(text, 0 + 1, b) \in Seq(BodyPiece) /\ Len(SubSeq(text, 0 + 1, b)) = b - 0
        /\ \A i \in 1 .. b - 0 : SubSeq(text, 0 + 1, b)[i] = text[0 + i]
    BY <2>1, StretchIs
  <2>3. 0 + 1 = 1 /\ b - 0 = b /\ \A i \in 1 .. b : 0 + i = i
    OBVIOUS
  <2> QED
    BY <2>2, <2>3
<1>2. /\ v \in Seq(BodyPiece) /\ Len(v) = n - b
      /\ \A i \in 1 .. n - b : b + i \in 1 .. n /\ v[i] = text[b + i]
  BY <1>0, StretchIs
<1> HIDE DEF u, v
<1>3. \A i \in 1 .. n : text[i].part \in Nat \ {0}
  <2>1. \A i \in 1 .. n : text[i] \in BodyPiece
    BY ElementOfSeq
  <2> QED
    BY <2>1 DEF BodyPiece
<1>4. ASSUME NEW i \in 1 .. b PROVE Mark(u, i) = Mark(text, i)
  <2>1. u[i] = text[i] /\ i \in 1 .. n /\ text[i].part \in Nat \ {0}
    BY <1>0, <1>1, <1>3
  <2> DEFINE p == text[i].part
             a == i - p
  <2>2. ASSUME a >= 0, NEW k \in 1 .. p PROVE u[a + k] = text[a + k]
    <3>1. a + k \in 1 .. b
      BY <2>1, <2>2
    <3> HIDE DEF a
    <3> QED
      BY <1>1, <3>1
  <2>3. a >= 0 => (Run(u, a, text[i]) <=> Run(text, a, text[i]))
    <3> HIDE DEF a
    <3> QED
      BY <2>2 DEF Run
  <2>4. Whole(u, i) <=> Whole(text, i)
    BY <2>1, <2>3, WholeRun
  <2> QED
    BY <2>1, <2>4 DEF Mark
<1>5. ASSUME NEW i \in 1 .. n - b PROVE Mark(v, i) = Mark(text, b + i)
  <2>1. v[i] = text[b + i] /\ b + i \in 1 .. n /\ text[b + i].part \in Nat \ {0}
    BY <1>2, <1>3
  <2> DEFINE p == text[b + i].part
  <2>2. p \in Nat \ {0} /\ b \in Nat /\ i \in Nat
    BY <2>1
  <2> DEFINE a == i - p
             c == (b + i) - p
  <2>3. ASSUME a >= 0, NEW k \in 1 .. p PROVE v[a + k] = text[c + k]
    <3>1. a + k \in 1 .. n - b /\ b + (a + k) = c + k
      BY <2>2, <2>3, SMTT(20)
    <3> HIDE DEF a, c
    <3>2. v[a + k] = text[b + (a + k)]
      BY <1>2, <3>1
    <3> QED
      BY <3>1, <3>2
  <2>4. Whole(text, b + i) => a >= 0
    <3>1. Whole(text, b + i) => c >= b
      BY <2>1, <2>2
    <3> QED
      BY <2>2, <3>1
  <2>5. a >= 0 => c >= 0
    BY <2>2
  <2>6. a >= 0 => (Run(v, a, text[b + i]) <=> Run(text, c, text[b + i]))
    <3> HIDE DEF a, c
    <3> QED
      BY <2>3 DEF Run
  <2>7. Whole(v, i) <=> v[i].last /\ a >= 0 /\ Run(v, a, text[b + i])
    BY <2>1, WholeRun
  <2>8. Whole(text, b + i) <=> text[b + i].last /\ c >= 0 /\ Run(text, c, text[b + i])
    <3> DEFINE j == b + i
    <3> HIDE DEF j
    <3>1. Whole(text, j) <=> /\ text[j].last /\ j - text[j].part >= 0
                             /\ Run(text, j - text[j].part, text[j])
      BY WholeRun
    <3> QED
      BY <3>1 DEF j
  <2>9. Whole(v, i) <=> Whole(text, b + i)
    BY <2>1, <2>4, <2>5, <2>6, <2>7, <2>8
  <2> QED
    BY <2>1, <2>9 DEF Mark
<1>6. /\ Marks(text) \in Seq(Seq(Nat)) /\ Len(Marks(text)) = n
      /\ \A i \in 1 .. n : Marks(text)[i] = Mark(text, i)
  BY MarksTyped
<1>7. /\ Marks(u) \in Seq(Seq(Nat)) /\ Len(Marks(u)) = b
      /\ \A i \in 1 .. b : Marks(u)[i] = Mark(u, i)
  BY <1>1, MarksTyped
<1>8. /\ Marks(v) \in Seq(Seq(Nat)) /\ Len(Marks(v)) = n - b
      /\ \A i \in 1 .. n - b : Marks(v)[i] = Mark(v, i)
  BY <1>2, MarksTyped
<1>9. Marks(text) = Marks(u) \o Marks(v)
  <2> DEFINE x == Marks(u)
             y == Marks(v)
             z == Marks(text)
             w == x \o y
  <2> HIDE DEF x, y, z
  <2>1. /\ w \in Seq(Seq(Nat)) /\ Len(w) = b + (n - b)
        /\ \A i \in 1 .. b + (n - b) : w[i] = IF i <= b THEN x[i] ELSE y[i - b]
    BY <1>7, <1>8, ConcatProperties DEF x, y
  <2> HIDE DEF w
  <2>2. b + (n - b) = n
    BY <1>0
  <2>3. ASSUME NEW i \in 1 .. n PROVE w[i] = z[i]
    <3>1. CASE i <= b
      <4>1. i \in 1 .. b
        BY <3>1
      <4> QED
        BY <1>4, <1>6, <1>7, <2>1, <2>2, <3>1, <4>1 DEF x, z
    <3>2. CASE ~(i <= b)
      <4>1. i - b \in 1 .. n - b /\ b + (i - b) = i
        BY <1>0, <3>2
      <4> QED
        BY <1>5, <1>6, <1>8, <2>1, <2>2, <3>2, <4>1 DEF y, z
    <3> QED
      BY <3>1, <3>2
  <2>4. z \in Seq(Seq(Nat)) /\ Len(z) = n
    BY <1>6 DEF z
  <2>5. z = w
    BY <2>1, <2>2, <2>3, <2>4, SeqEqual
  <2> QED
    BY <2>5 DEF w, x, y, z
<1>10. FlattenSeq(Marks(text)) = FlattenSeq(Marks(u)) \o FlattenSeq(Marks(v))
  BY <1>7, <1>8, <1>9, FlattenConcat
<1>11. Units(text) = Units(u) \o Units(v)
  BY <1>1, <1>2, <1>10, MarksTyped
<1> QED
  BY <1>11 DEF u, v

\* What follows the last complete unit has none.
LEMMA UnitsComplete ==
  ASSUME NEW text \in Seq(BodyPiece) PROVE Units(text) = Units(Complete(text))
<1> DEFINE n == Len(text)
           b == Boundary(text)
           u == SubSeq(text, 1, b)
           v == SubSeq(text, b + 1, n)
<1>1. /\ n \in Nat /\ b \in 0 .. n
      /\ \A i \in 1 .. n : i > b => ~text[i].last
  BY BoundaryIs
<1> HIDE DEF b
<1>2. \A i \in 1 .. n : i > b => ~Whole(text, i)
  BY <1>1 DEF Whole
<1>3. Units(text) = Units(u) \o Units(v)
  BY <1>1, <1>2, UnitsDivide
<1>4. /\ v \in Seq(BodyPiece) /\ Len(v) = n - b
      /\ \A i \in 1 .. n - b : b + i \in 1 .. n /\ v[i] = text[b + i]
  BY <1>1, StretchIs
<1>5. u \in Seq(BodyPiece)
  BY <1>1, SubSeqProperties
<1> HIDE DEF v, u
<1>6. Marks(v) = [i \in 1 .. n - b |-> <<>>]
  <2>1. ASSUME NEW i \in 1 .. n - b PROVE Mark(v, i) = <<>>
    <3>1. b + i > b /\ b + i \in 1 .. n
      BY <1>1, <1>4
    <3>2. ~v[i].last
      BY <1>1, <1>4, <3>1
    <3> QED
      BY <3>2 DEF Mark, Whole
  <2>2. DOMAIN v = 1 .. n - b
    BY <1>4
  <2> QED
    BY <2>1, <2>2 DEF Marks
<1>7. Units(v) = <<>>
  BY <1>1, <1>4, <1>6, NothingFlat, MarksTyped
<1>8. Units(text) = Units(u)
  BY <1>3, <1>5, <1>7, MarksTyped, ConcatEmptySeq
<1> QED
  BY <1>8 DEF Complete, u, b
-----------------------------------------------------------------------------
(* The pieces of the body.                                                 *)

LEMMA ShapedInitially == RelayInit => Shaped
<1> SUFFICES ASSUME RelayInit PROVE Shaped
  OBVIOUS
<1>1. PICK text \in Bodies, cut \in 0 .. 1 :
        pieces = SubSeq(PiecesOf(text), 1, Len(PiecesOf(text)) - cut)
  BY DEF RelayInit
<1> DEFINE whole == PiecesOf(text)
           Unit(a) == [p \in 1 .. Size[text[a]] |-> Part(text[a], a, p)]
           Q == {q \in BodyPiece : q.at \in DOMAIN text /\ q.unit = text[q.at] /\ (q.last <=> q.part = Size[q.unit])}
           units == [a \in DOMAIN text |-> Unit(a)]
<1>2. /\ text \in Seq(DOMAIN Size) /\ DOMAIN text = 1 .. Len(text) /\ Len(text) \in Nat
      /\ \A a \in 1 .. Len(text) : text[a] \in DOMAIN Size /\ Size[text[a]] \in Nat \ {0}
  BY RelayAssumption, ElementOfSeq
<1>3. ASSUME NEW a \in 1 .. Len(text) PROVE Unit(a) \in Seq(Q)
  <2>1. ASSUME NEW p \in 1 .. Size[text[a]] PROVE Part(text[a], a, p) \in Q
    <3> DEFINE piece == Part(text[a], a, p)
    <3>1. a \in Nat /\ a \in DOMAIN text /\ p \in Nat \ {0} /\ text[a] \in DOMAIN Size
      BY <1>2
    <3>2. piece = [unit |-> text[a], at |-> a, last |-> p = Size[text[a]], part |-> p]
      BY DEF Part
    <3>3. piece \in BodyPiece
      BY <3>1, <3>2 DEF BodyPiece
    <3>4. piece.at = a /\ piece.unit = text[a] /\ piece.part = p
      BY <3>2
    <3>b. piece.last <=> p = Size[text[a]]
      BY DEF Part
    <3> HIDE DEF piece
    <3>5. piece \in Q
      BY <3>1, <3>3, <3>4, <3>b
    <3> QED
      BY <3>5 DEF piece
  <2> HIDE DEF Q
  <2> QED
    BY <1>2, <2>1
<1>4. units \in Seq(Seq(Q))
  <2> HIDE DEF Unit, Q
  <2> QED
    BY <1>2, <1>3
<1>5. whole = FlattenSeq(units)
  BY DEF PiecesOf
<1> HIDE DEF units, whole
<1>6. whole \in Seq(Q)
  <2> HIDE DEF Q
  <2> QED
    BY <1>4, <1>5, FlattenTyped
<1>7. pieces \in Seq(Q)
  <2> HIDE DEF Q
  <2>1. Len(whole) \in Nat /\ Len(whole) - cut \in Int /\ Len(whole) - cut <= Len(whole)
    BY <1>6
  <2>2. \A i \in 1 .. Len(whole) - cut : whole[i] \in Q
    BY <1>6, <2>1, ElementOfSeq
  <2>3. SubSeq(whole, 1, Len(whole) - cut) \in Seq(Q)
    BY <2>1, <2>2, SubSeqProperties
  <2> QED
    BY <1>1, <2>3 DEF whole
<1>8. \A i \in 1 .. Len(pieces) : pieces[i] \in Q
  <2> HIDE DEF Q
  <2> QED
    BY <1>7, ElementOfSeq
<1>9. pieces \in Seq(BodyPiece)
  <2>1. Q \subseteq BodyPiece
    OBVIOUS
  <2> HIDE DEF Q
  <2> QED
    BY <1>7, <2>1, SeqMonotonic
<1> QED
  BY <1>8, <1>9 DEF Shaped

LEMMA StretchOf ==
  ASSUME Shaped, NEW l \in 0 .. Len(pieces), NEW m \in l .. Len(pieces)
  PROVE  /\ Stretch(l, m) \in Seq(BodyPiece) /\ Len(Stretch(l, m)) = m - l
         /\ \A i \in 1 .. m - l : l + i \in 1 .. Len(pieces) /\ Stretch(l, m)[i] = pieces[l + i]
BY StretchIs DEF Shaped, Stretch

LEMMA StretchOfStretch ==
  ASSUME Shaped, NEW l \in 0 .. Len(pieces), NEW m \in l .. Len(pieces),
         NEW x \in 0 .. m - l, NEW y \in x .. m - l
  PROVE  SubSeq(Stretch(l, m), x + 1, y) = Stretch(l + x, l + y)
<1> DEFINE text == Stretch(l, m)
           s == SubSeq(text, x + 1, y)
           t == Stretch(l + x, l + y)
<1>1. Len(pieces) \in Nat
  BY DEF Shaped
<1>2. text \in Seq(BodyPiece) /\ Len(text) = m - l /\ \A i \in 1 .. m - l : text[i] = pieces[l + i]
  BY StretchOf
<1> HIDE DEF text
<1>3. x \in 0 .. Len(text) /\ y \in x .. Len(text)
  BY <1>2
<1>4. s \in Seq(BodyPiece) /\ Len(s) = y - x
      /\ \A i \in 1 .. y - x : x + i \in 1 .. Len(text) /\ s[i] = text[x + i]
  BY <1>2, <1>3, StretchIs
<1>5. l + x \in 0 .. Len(pieces) /\ l + y \in l + x .. Len(pieces) /\ (l + y) - (l + x) = y - x
  BY <1>1
<1>6. t \in Seq(BodyPiece) /\ Len(t) = y - x /\ \A i \in 1 .. y - x : t[i] = pieces[(l + x) + i]
  BY <1>5, StretchOf
<1> HIDE DEF s, t
<1>7. ASSUME NEW i \in 1 .. y - x PROVE s[i] = t[i]
  <2>1. x + i \in 1 .. m - l /\ l + (x + i) = (l + x) + i
    BY <1>2, <1>4
  <2> QED
    BY <1>2, <1>4, <1>6, <2>1
<1>8. s = t
  BY <1>4, <1>6, <1>7, SeqEqual
<1> QED
  BY <1>8 DEF s, t, text

LEMMA PartOfSoFar ==
  ASSUME Shaped, NEW m \in 0 .. Len(pieces), NEW x \in 0 .. m, NEW y \in x .. m
  PROVE  SubSeq(Stretch(0, m), x + 1, y) = Stretch(x, y)
<1>1. \A l \in {0} : l \in 0 .. Len(pieces) /\ m \in l .. Len(pieces) /\ x \in 0 .. m - l
        /\ y \in x .. m - l /\ l + x = x /\ l + y = y
  BY DEF Shaped
<1>2. \A l \in {0} : SubSeq(Stretch(l, m), x + 1, y) = Stretch(x, y)
  <2> TAKE l \in {0}
  <2>1. SubSeq(Stretch(l, m), x + 1, y) = Stretch(l + x, l + y)
    BY <1>1, StretchOfStretch
  <2> QED
    BY <1>1, <2>1
<1> QED
  BY <1>2

\* No unit lies across the last piece of another.
LEMMA NoUnitAcross ==
  ASSUME Shaped, NEW m \in 0 .. Len(pieces), NEW b \in 0 .. m, b # 0 => pieces[b].last,
         NEW i \in 1 .. m, i > b, Whole(Stretch(0, m), i)
  PROVE  i - Stretch(0, m)[i].part >= b
<1> DEFINE text == Stretch(0, m)
           p == text[i].part
           start == i - p
<1>1. /\ text \in Seq(BodyPiece) /\ Len(text) = m /\ m \in Nat /\ b \in Nat
      /\ \A k \in 1 .. m : text[k] = pieces[k] /\ k \in 1 .. Len(pieces)
  <2>1. 0 \in 0 .. Len(pieces) /\ m \in 0 .. Len(pieces)
    BY DEF Shaped
  <2>2. /\ text \in Seq(BodyPiece) /\ Len(text) = m - 0
        /\ \A k \in 1 .. m - 0 : 0 + k \in 1 .. Len(pieces) /\ text[k] = pieces[0 + k]
    BY <2>1, StretchOf
  <2> HIDE DEF text
  <2>3. m - 0 = m /\ \A k \in 1 .. m : 0 + k = k
    BY <2>1
  <2> QED
    BY <2>2, <2>3
<1>2. text[i].last /\ start >= 0 /\ Run(text, start, text[i])
  BY WholeRun
<1> HIDE DEF text
<1>3. p \in Nat \ {0}
  <2>1. text[i] \in BodyPiece
    BY <1>1, ElementOfSeq
  <2> QED
    BY <2>1 DEF BodyPiece
<1>4. SUFFICES ASSUME start < b PROVE FALSE
  BY <1>1, <1>3 DEF text
<1> DEFINE k == b - start
<1>5. k \in 1 .. p /\ start + k = b /\ k # p /\ b \in 1 .. m /\ i \in 1 .. m
  BY <1>1, <1>2, <1>3, <1>4
<1> HIDE DEF k, start
<1>6. text[b].at = text[i].at /\ text[b].part = k
  BY <1>2, <1>5 DEF Run
<1>7. pieces[b].unit = pieces[i].unit /\ pieces[b].part = Size[pieces[b].unit]
      /\ pieces[i].part = Size[pieces[i].unit]
  BY <1>1, <1>2, <1>5, <1>6 DEF Shaped
<1> QED
  BY <1>1, <1>5, <1>6, <1>7

-----------------------------------------------------------------------------
(* The chunks that are kept.                                               *)

LEMMA PushedIs ==
  ASSUME NEW chunks \in Seq(Seq(BodyPiece)), NEW chunk \in Seq(BodyPiece)
  PROVE  LET all == Append(chunks, chunk)  kept == Pushed(all) IN
         /\ kept \in Seq(Seq(BodyPiece)) /\ Length(kept) <= Length(chunks) + Len(chunk)
         /\ ~(Len(kept) <= Len(chunks)) => kept = all
         /\ Length(kept) \in Nat
<1> DEFINE all == Append(chunks, chunk)
           kept == Pushed(all)
           n == Len(all)
           d == Drops(all)
           cut == SubSeq(all, d + 1, n)
           gone1 == SubSeq(all, 1, d)
<1>1. all \in Seq(Seq(BodyPiece)) /\ n = Len(chunks) + 1 /\ Len(chunks) \in Nat
  BY AppendProperties
<1>2. Length(all) = Length(chunks) + Len(chunk) /\ Length(chunks) \in Nat /\ Length(all) \in Nat
      /\ Len(chunk) \in Nat
  <2> DEFINE f == FlattenSeq(chunks)
  <2>1. f \in Seq(BodyPiece) /\ FlattenSeq(all) = f \o chunk
    BY FlattenTyped, FlattenAppend
  <2> HIDE DEF f
  <2>2. Len(f \o chunk) = Len(f) + Len(chunk) /\ Len(f) \in Nat /\ Len(chunk) \in Nat
    BY <2>1, ConcatProperties
  <2> QED
    BY <2>1, <2>2 DEF Length, f
<1>3. d \in 0 .. n - 1
  <2> DEFINE S == {k \in 0 .. Len(all) - 1 :
                     k = Len(all) - 1 \/ Length(SubSeq(all, k + 1, Len(all))) <= TailBytes}
  <2>1. S \in SUBSET (0 .. n - 1) /\ n - 1 \in S /\ n - 1 \in Nat
    BY <1>1
  <2>2. d = Min(S)
    BY DEF Drops
  <2> HIDE DEF S, d
  <2>3. Min(S) \in S
    BY <2>1, GreatestNumber
  <2> QED
    BY <2>1, <2>2, <2>3
<1> HIDE DEF all, d
<1>4. cut \in Seq(Seq(BodyPiece)) /\ Len(cut) = n - d
      /\ \A i \in 1 .. n - d : d + i \in 1 .. n /\ cut[i] = all[d + i]
  BY <1>1, <1>3, StretchIs
<1>5. gone1 \in Seq(Seq(BodyPiece)) /\ Len(gone1) = d /\ \A i \in 1 .. d : gone1[i] = all[i]
  BY <1>1, <1>3, SubSeqProperties
<1>6. Length(cut) <= Length(all) /\ Length(cut) \in Nat
  <2>1. all = gone1 \o cut
    <3> DEFINE w == gone1 \o cut
    <3> HIDE DEF gone1, cut
    <3>0. gone1 \in Seq(Seq(BodyPiece)) /\ cut \in Seq(Seq(BodyPiece)) /\ Len(gone1) = d /\ Len(cut) = n - d
      BY <1>4, <1>5
    <3>a. /\ gone1 \o cut \in Seq(Seq(BodyPiece)) /\ Len(gone1 \o cut) = Len(gone1) + Len(cut)
          /\ \A i \in 1 .. Len(gone1) + Len(cut) :
               (gone1 \o cut)[i] = IF i <= Len(gone1) THEN gone1[i] ELSE cut[i - Len(gone1)]
      BY <3>0, ConcatProperties
    <3>1. /\ w \in Seq(Seq(BodyPiece)) /\ Len(w) = d + (n - d)
          /\ \A i \in 1 .. d + (n - d) : w[i] = IF i <= d THEN gone1[i] ELSE cut[i - d]
      BY <3>0, <3>a DEF w
    <3> HIDE DEF w
    <3>2. d + (n - d) = n
      BY <1>1, <1>3
    <3>3. ASSUME NEW i \in 1 .. n PROVE w[i] = all[i]
      <4>1. CASE i <= d
        <5>1. i \in 1 .. d
          BY <1>3, <4>1
        <5>2. gone1[i] = all[i]
          BY <1>5, <5>1
        <5>3. w[i] = gone1[i]
          BY <3>1, <3>2, <4>1
        <5> QED
          BY <5>2, <5>3
      <4>2. CASE ~(i <= d)
        <5>1. i - d \in 1 .. n - d /\ d + (i - d) = i
          BY <1>1, <1>3, <4>2
        <5>2. cut[i - d] = all[d + (i - d)]
          BY <1>4, <5>1
        <5>3. w[i] = cut[i - d]
          BY <3>1, <3>2, <4>2
        <5> QED
          BY <5>1, <5>2, <5>3
      <4> QED
        BY <4>1, <4>2
    <3>4. w = all
      BY <1>1, <3>1, <3>2, <3>3, SeqEqual
    <3> QED
      BY <3>4 DEF w
  <2> DEFINE f == FlattenSeq(gone1)
             g == FlattenSeq(cut)
  <2>2. f \in Seq(BodyPiece) /\ g \in Seq(BodyPiece) /\ FlattenSeq(all) = f \o g
    BY <1>4, <1>5, <2>1, FlattenTyped, FlattenConcat
  <2> HIDE DEF f, g
  <2>3. Len(f \o g) = Len(f) + Len(g) /\ Len(f) \in Nat /\ Len(g) \in Nat
    BY <2>2, ConcatProperties
  <2>4. Length(all) = Len(f) + Len(g) /\ Length(cut) = Len(g)
    BY <2>2, <2>3 DEF Length, g
  <2> QED
    BY <2>3, <2>4
<1>7. d = 0 => cut = all
  <2> SUFFICES ASSUME d = 0 PROVE cut = all
    OBVIOUS
  <2>1. Len(cut) = Len(all) /\ \A i \in 1 .. Len(cut) : cut[i] = all[i]
    BY <1>1, <1>3, <1>4
  <2> HIDE DEF cut
  <2> QED
    BY <1>1, <1>4, <2>1, SeqEqual
<1>8. ~(Len(cut) <= Len(chunks)) => cut = all
  BY <1>1, <1>3, <1>4, <1>7
<1>9. kept = cut \/ kept = all
  BY DEF Pushed, d
<1> HIDE DEF kept, cut
<1>10. /\ kept \in Seq(Seq(BodyPiece)) /\ Length(kept) <= Length(chunks) + Len(chunk)
       /\ ~(Len(kept) <= Len(chunks)) => kept = all
       /\ Length(kept) \in Nat
  <2>1. CASE kept = cut
    BY <1>2, <1>4, <1>6, <1>8, <2>1
  <2>2. CASE kept = all
    BY <1>1, <1>2, <2>2
  <2> QED
    BY <1>9, <2>1, <2>2
<1> QED
  BY <1>10 DEF kept, all
-----------------------------------------------------------------------------
(* A chunk arrives.                                                        *)

LEMMA StretchesMeet ==
  ASSUME Shaped, NEW l \in 0 .. Len(pieces), NEW m \in l .. Len(pieces), NEW k \in m .. Len(pieces)
  PROVE  Stretch(l, m) \o Stretch(m, k) = Stretch(l, k)
<1> DEFINE u == Stretch(l, m)
           v == Stretch(m, k)
           w == Stretch(l, k)
           j == u \o v
<1>0. m \in 0 .. Len(pieces) /\ k \in l .. Len(pieces)
  BY DEF Shaped
<1>1. u \in Seq(BodyPiece) /\ Len(u) = m - l /\ \A i \in 1 .. m - l : u[i] = pieces[l + i]
  BY StretchOf
<1>2. v \in Seq(BodyPiece) /\ Len(v) = k - m /\ \A i \in 1 .. k - m : v[i] = pieces[m + i]
  BY <1>0, StretchOf
<1>3. w \in Seq(BodyPiece) /\ Len(w) = k - l /\ \A i \in 1 .. k - l : w[i] = pieces[l + i]
  BY <1>0, StretchOf
<1> HIDE DEF u, v, w
<1>4. /\ u \o v \in Seq(BodyPiece) /\ Len(u \o v) = Len(u) + Len(v)
      /\ \A i \in 1 .. Len(u) + Len(v) : (u \o v)[i] = IF i <= Len(u) THEN u[i] ELSE v[i - Len(u)]
  BY <1>1, <1>2, ConcatProperties
<1>5. Len(u) + Len(v) = k - l
  BY <1>1, <1>2
<1> HIDE DEF j
<1>6. j \in Seq(BodyPiece) /\ Len(j) = k - l
      /\ \A i \in 1 .. k - l : j[i] = IF i <= m - l THEN u[i] ELSE v[i - (m - l)]
  BY <1>1, <1>4, <1>5 DEF j
<1>7. ASSUME NEW i \in 1 .. k - l PROVE j[i] = w[i]
  <2>1. CASE i <= m - l
    BY <1>1, <1>3, <1>6, <2>1
  <2>2. CASE ~(i <= m - l)
    <3>1. i - (m - l) \in 1 .. k - m /\ m + (i - (m - l)) = l + i
      BY <2>2
    <3> QED
      BY <1>2, <1>3, <1>6, <2>2, <3>1
  <2> QED
    BY <2>1, <2>2
<1>8. j = w
  BY <1>3, <1>6, <1>7, SeqEqual
<1> QED
  BY <1>8 DEF j, u, v, w

\* What is read of the pending pieces and a chunk is what the chunk completes.
LEMMA ChunkCompletes ==
  ASSUME Shaped, NEW a \in 0 .. Len(pieces), NEW z \in a .. Len(pieces)
  PROVE  LET b == Boundary(Stretch(0, a))
             text == Stretch(b, z)
             c == Boundary(text)
         IN /\ Boundary(Stretch(0, z)) = b + c
            /\ Units(Stretch(0, z)) = Units(Stretch(0, a)) \o Units(Complete(text))
            /\ Rest(text) = Stretch(b + c, z)
<1> DEFINE before == Stretch(0, a)
           after == Stretch(0, z)
           b == Boundary(before)
           text == Stretch(b, z)
           c == Boundary(text)
<1>0. Len(pieces) \in Nat /\ 0 \in 0 .. Len(pieces) /\ a \in Nat /\ z \in Nat /\ a <= z
  BY DEF Shaped
<1>1. before \in Seq(BodyPiece) /\ Len(before) = a /\ \A i \in 1 .. a : before[i] = pieces[i]
  <2>1. before \in Seq(BodyPiece) /\ Len(before) = a - 0
        /\ \A i \in 1 .. a - 0 : before[i] = pieces[0 + i]
    BY <1>0, StretchOf
  <2> HIDE DEF before
  <2> QED
    BY <1>0, <2>1
<1>2. after \in Seq(BodyPiece) /\ Len(after) = z /\ \A i \in 1 .. z : after[i] = pieces[i]
  <2>1. after \in Seq(BodyPiece) /\ Len(after) = z - 0
        /\ \A i \in 1 .. z - 0 : after[i] = pieces[0 + i]
    BY <1>0, StretchOf
  <2> HIDE DEF after
  <2> QED
    BY <1>0, <2>1
<1> HIDE DEF before, after, b, text, c
<1>3. b \in 0 .. a /\ (b # 0 => before[b].last) /\ \A i \in 1 .. a : i > b => ~before[i].last
  BY <1>1, BoundaryIs DEF b
<1>4. text \in Seq(BodyPiece) /\ Len(text) = z - b /\ \A i \in 1 .. z - b : text[i] = pieces[b + i]
  <2>1. b \in 0 .. Len(pieces) /\ z \in b .. Len(pieces)
    BY <1>0, <1>3
  <2> QED
    BY <2>1, StretchOf DEF text
<1>5. c \in 0 .. z - b /\ (c # 0 => text[c].last) /\ \A i \in 1 .. z - b : i > c => ~text[i].last
  BY <1>4, BoundaryIs DEF c
<1>6. b # 0 => pieces[b].last
  BY <1>0, <1>1, <1>3
<1>7. Boundary(after) = b + c
  <2>1. b + c \in 0 .. Len(after)
    BY <1>0, <1>2, <1>3, <1>5
  <2>2. b + c # 0 => after[b + c].last
    <3>1. CASE c = 0
      <4>1. b + c = b /\ b \in 0 .. z
        BY <1>0, <1>3, <3>1
      <4> QED
        BY <1>2, <1>6, <4>1
    <3>2. CASE c # 0
      <4>1. c \in 1 .. z - b /\ b + c \in 1 .. z
        BY <1>0, <1>3, <1>5, <3>2
      <4>2. text[c].last /\ text[c] = pieces[b + c]
        BY <1>4, <1>5, <3>2, <4>1
      <4>3. after[b + c] = pieces[b + c]
        BY <1>2, <4>1
      <4> QED
        BY <4>2, <4>3
    <3> QED
      BY <3>1, <3>2
  <2>3. ASSUME NEW i \in 1 .. Len(after), i > b + c PROVE ~after[i].last
    <3>a. i \in 1 .. z /\ b \in Nat /\ c \in Nat /\ b <= z
      BY <1>0, <1>2, <1>3, <1>5
    <3>1. i \in 1 .. z /\ i - b \in 1 .. z - b /\ i - b > c /\ b + (i - b) = i
      BY <1>0, <2>3, <3>a
    <3>2. after[i] = pieces[i]
      BY <1>2, <3>1
    <3>3. text[i - b] = pieces[b + (i - b)]
      BY <1>4, <3>1
    <3>4. ~text[i - b].last
      BY <1>5, <3>1
    <3> QED
      BY <3>1, <3>2, <3>3, <3>4
  <2> QED
    BY <1>2, <2>1, <2>2, <2>3, BoundaryOnly
<1>8. SubSeq(after, 1, b) = Stretch(0, b) /\ SubSeq(after, b + 1, z) = text
  <2>1. 0 \in 0 .. z /\ b \in 0 .. z /\ z \in b .. z /\ 0 + 1 = 1 /\ z \in 0 .. Len(pieces)
    BY <1>0, <1>3
  <2>2. SubSeq(Stretch(0, z), 0 + 1, b) = Stretch(0, b)
    BY <1>0, <2>1, PartOfSoFar
  <2>3. SubSeq(Stretch(0, z), b + 1, z) = Stretch(b, z)
    BY <2>1, PartOfSoFar, Zenon
  <2> QED
    BY <2>1, <2>2, <2>3 DEF after, text
<1>9. Units(Stretch(0, b)) = Units(before)
  <2>1. SubSeq(before, 1, b) = Stretch(0, b)
    <3>1. 0 \in 0 .. a /\ b \in 0 .. a /\ 0 + 1 = 1
      BY <1>0, <1>3
    <3>2. SubSeq(Stretch(0, a), 0 + 1, b) = Stretch(0, b)
      BY <1>0, <3>1, PartOfSoFar
    <3> QED
      BY <3>1, <3>2 DEF before
  <2>2. Units(before) = Units(Complete(before))
    BY <1>1, UnitsComplete
  <2> QED
    BY <2>1, <2>2 DEF Complete, b
<1>10. Units(after) = Units(Stretch(0, b)) \o Units(text)
  <2>1. ASSUME NEW i \in 1 .. Len(after), i > b, Whole(after, i) PROVE i - after[i].part >= b
    <3>1. i \in 1 .. z /\ z \in 0 .. Len(pieces) /\ b \in 0 .. z
      BY <1>0, <1>2, <1>3, <2>1
    <3> QED
      BY <1>6, <2>1, <3>1, NoUnitAcross DEF after
  <2>2. b \in 0 .. Len(after)
    BY <1>0, <1>2, <1>3
  <2>3. Units(after) = Units(SubSeq(after, 1, b)) \o Units(SubSeq(after, b + 1, Len(after)))
    BY <1>2, <2>1, <2>2, UnitsDivide
  <2> QED
    BY <1>2, <1>8, <2>3
<1>11. Units(text) = Units(Complete(text))
  BY <1>4, UnitsComplete
<1>12. Rest(text) = Stretch(b + c, z)
  <2>1. /\ b \in 0 .. Len(pieces) /\ z \in b .. Len(pieces) /\ c \in 0 .. z - b
        /\ z - b \in c .. z - b /\ b + (z - b) = z
    BY <1>0, <1>3, <1>5
  <2>2. SubSeq(Stretch(b, z), c + 1, z - b) = Stretch(b + c, b + (z - b))
    BY <2>1, StretchOfStretch
  <2> QED
    BY <1>4, <2>1, <2>2 DEF Rest, text, c
<1> QED
  <2>1. Units(after) = Units(before) \o Units(Complete(text))
    BY <1>9, <1>10, <1>11
  <2> QED
    BY <1>7, <1>12, <2>1 DEF before, after, b, text, c

LEMMA FlattenOne == ASSUME NEW D, NEW s \in Seq(D) PROVE FlattenSeq(<<s>>) = s
<1>1. <<>> \in Seq(Seq(D)) /\ <<>> \in Seq(D) /\ <<s>> = Append(<<>>, s)
  OBVIOUS
<1>2. FlattenSeq(<<s>>) = FlattenSeq(<<>>) \o s
  BY <1>1, FlattenAppend
<1> QED
  BY <1>2, FlattenEmpty, ConcatEmptySeq

LEMMA RelayInitially == RelayInit => RelayInv
<1> SUFFICES ASSUME RelayInit PROVE RelayInv
  OBVIOUS
<1>1. Shaped
  BY ShapedInitially
<1>2. arrived = 0 /\ held = <<>> /\ read = <<>> /\ reports = <<>>
      /\ reader \in {"tail", "buffer", "frames"} /\ flow = "piping" /\ gone = FALSE /\ overflowed = FALSE
  BY DEF RelayInit
<1>3. Len(pieces) \in Nat /\ 0 \in 0 .. Len(pieces)
  BY <1>1 DEF Shaped
<1>4. SoFar = <<>>
  <2>1. SoFar \in Seq(BodyPiece) /\ Len(SoFar) = 0 - 0
    BY <1>1, <1>2, <1>3, StretchOf DEF SoFar
  <2> QED
    BY <2>1, EmptySeq
<1>5. Boundary(SoFar) = 0
  <2>1. <<>> \in Seq(BodyPiece) /\ Len(<<>>) = 0
    OBVIOUS
  <2>2. Boundary(<<>>) \in 0 .. 0
    BY <2>1, BoundaryIs
  <2> QED
    BY <1>4, <2>2
<1>6. Pending = <<>>
  BY <1>2, <1>4, <1>5 DEF Pending, SoFar
<1>7. Units(<<>>) = <<>>
  BY FlattenEmpty DEF Units
<1>8. held \in Seq(Seq(BodyPiece)) /\ Length(held) = 0 /\ FlattenSeq(held) = <<>>
  BY <1>2, FlattenEmpty, EmptySeq DEF Length
<1>9. FlattenSeq(held) = Pending /\ read = Units(SoFar) /\ Length(held) <= arrived
  BY <1>2, <1>4, <1>6, <1>7, <1>8
<1> QED
  BY <1>1, <1>2, <1>3, <1>8, <1>9 DEF RelayInv

LEMMA ChunkStep == RelayInv /\ ChunkArrives => RelayInv'
<1> SUFFICES ASSUME RelayInv, ChunkArrives PROVE RelayInv'
  OBVIOUS
<1>0. Shaped /\ Len(pieces) \in Nat /\ arrived \in 0 .. Len(pieces) /\ held \in Seq(Seq(BodyPiece))
      /\ flow = "piping" /\ reports = <<>>
      /\ pieces' = pieces /\ reader' = reader /\ gone' = gone
  BY DEF RelayInv, ChunkArrives, Shaped
<1>1. PICK n \in 1 .. Len(pieces) - arrived :
        LET chunk == SubSeq(pieces, arrived + 1, arrived + n)
            kept == Pushed(Append(held, chunk))
            text == FlattenSeq(kept)
            now1 == read \o Units(Complete(text))
        IN /\ arrived' = arrived + n /\ read' = now1
           /\ held' = IF Boundary(text) = 0 THEN kept ELSE <<Rest(text)>>
           /\ overflowed' = (overflowed \/ Len(kept) <= Len(held))
           /\ IF reader = "tail" /\ gone
              THEN flow' = "aborted" /\ reports' = Append(reports, LastUsage(now1))
              ELSE UNCHANGED <<flow, reports>>
  BY DEF ChunkArrives
<1> DEFINE a == arrived
           z == arrived + n
           chunk == SubSeq(pieces, arrived + 1, arrived + n)
           kept == Pushed(Append(held, chunk))
           text == FlattenSeq(kept)
           now1 == read \o Units(Complete(text))
<1>2. /\ arrived' = z /\ read' = now1
      /\ held' = IF Boundary(text) = 0 THEN kept ELSE <<Rest(text)>>
      /\ overflowed' = (overflowed \/ Len(kept) <= Len(held))
      /\ IF reader = "tail" /\ gone
         THEN flow' = "aborted" /\ reports' = Append(reports, LastUsage(now1))
         ELSE UNCHANGED <<flow, reports>>
  BY <1>1
<1> HIDE DEF now1
<1>3. a \in 0 .. Len(pieces) /\ z \in a .. Len(pieces) /\ z \in 0 .. Len(pieces) /\ z - a = n
  BY <1>0
<1>4. chunk = Stretch(a, z) /\ chunk \in Seq(BodyPiece) /\ Len(chunk) = n
  BY <1>0, <1>3, StretchOf DEF Stretch
<1> HIDE DEF chunk
<1>5. /\ kept \in Seq(Seq(BodyPiece)) /\ Length(kept) <= Length(held) + n
      /\ ~(Len(kept) <= Len(held)) => kept = Append(held, chunk)
      /\ Length(kept) \in Nat
  BY <1>0, <1>4, PushedIs
<1> HIDE DEF kept
<1>6. text \in Seq(BodyPiece) /\ Len(text) = Length(kept)
  BY <1>5, FlattenTyped DEF Length
<1> HIDE DEF text
<1>7. Boundary(text) \in 0 .. Len(text)
  BY <1>6, BoundaryIs
<1>8. Rest(text) \in Seq(BodyPiece) /\ Len(Rest(text)) = Len(text) - Boundary(text)
  <2>1. Len(text) \in Boundary(text) .. Len(text)
    BY <1>6, <1>7
  <2> QED
    BY <1>6, <1>7, <2>1, StretchIs DEF Rest
<1>9. held' \in Seq(Seq(BodyPiece)) /\ FlattenSeq(held') = IF Boundary(text) = 0 THEN text ELSE Rest(text)
  <2>1. CASE Boundary(text) = 0
    BY <1>2, <1>5, <2>1 DEF text
  <2>2. CASE Boundary(text) # 0
    <3>1. held' = <<Rest(text)>>
      BY <1>2, <2>2
    <3>2. FlattenSeq(<<Rest(text)>>) = Rest(text)
      BY <1>8, FlattenOne
    <3>3. <<Rest(text)>> \in Seq(Seq(BodyPiece))
      BY <1>8
    <3> QED
      BY <2>2, <3>1, <3>2, <3>3
  <2> QED
    BY <2>1, <2>2
<1>10. Length(held)' <= z
  <2>1. Length(held) <= a /\ Length(held) \in Nat
    <3>1. FlattenSeq(held) \in Seq(BodyPiece)
      BY <1>0, FlattenTyped
    <3> QED
      BY <3>1 DEF RelayInv, Length
  <2>2. Len(FlattenSeq(held')) <= Len(text)
    <3>1. Len(text) \in Nat
      BY <1>6
    <3> QED
      BY <1>7, <1>8, <1>9, <3>1
  <2>3. Len(FlattenSeq(held')) \in Nat /\ Len(text) \in Nat
    BY <1>6, <1>9, FlattenTyped
  <2>4. Len(FlattenSeq(held')) <= z
    BY <1>0, <1>5, <1>6, <2>1, <2>2, <2>3
  <2> QED
    BY <2>4 DEF Length
<1>11. ASSUME ~overflowed' PROVE FlattenSeq(held') = Pending' /\ read' = Units(SoFar')
  <2>1. ~overflowed /\ kept = Append(held, chunk)
    BY <1>2, <1>5, <1>11
  <2>2. FlattenSeq(held) = Pending /\ read = Units(SoFar)
    BY <2>1 DEF RelayInv
  <2> DEFINE b == Boundary(Stretch(0, a))
  <2>a. Stretch(0, a) \in Seq(BodyPiece) /\ Len(Stretch(0, a)) = a - 0
    <3>1. 0 \in 0 .. Len(pieces) /\ a \in 0 .. Len(pieces)
      BY <1>0
    <3> QED
      BY <1>0, <3>1, StretchOf
  <2>3. b \in 0 .. a /\ a \in b .. Len(pieces) /\ b \in 0 .. Len(pieces)
    <3>1. b \in 0 .. Len(Stretch(0, a))
      BY <2>a, BoundaryIs
    <3> HIDE DEF b
    <3> QED
      BY <1>0, <2>a, <3>1
  <2>4. text = Stretch(b, z)
    <3>1. text = FlattenSeq(held) \o chunk
      BY <1>0, <1>4, <2>1, FlattenAppend DEF text
    <3>2. FlattenSeq(held) = Stretch(b, a)
      BY <2>2 DEF Pending, SoFar
    <3> HIDE DEF b
    <3>3. Stretch(b, a) \o Stretch(a, z) = Stretch(b, z)
      BY <1>0, <1>3, <2>3, StretchesMeet
    <3> QED
      BY <1>4, <3>1, <3>2, <3>3
  <2> DEFINE c == Boundary(text)
  <2>5. /\ Boundary(Stretch(0, z)) = b + c
        /\ Units(Stretch(0, z)) = Units(Stretch(0, a)) \o Units(Complete(text))
        /\ Rest(text) = Stretch(b + c, z)
    <3> HIDE DEF text
    <3> QED
      BY <1>0, <1>3, <2>4, ChunkCompletes
  <2>6. SoFar' = Stretch(0, z) /\ Pending' = Stretch(Boundary(Stretch(0, z)), z)
    BY <1>0, <1>2 DEF SoFar, Pending, Stretch, Boundary
  <2>7. read' = Units(SoFar')
    BY <1>2, <2>2, <2>5, <2>6 DEF now1, SoFar
  <2>8. FlattenSeq(held') = Pending'
    <3> HIDE DEF b, c
    <3>1. CASE c = 0
      <4>1. b + c = b
        BY <2>3, <3>1
      <4> QED
        BY <1>9, <2>4, <2>5, <2>6, <3>1, <4>1 DEF b, c
    <3>2. CASE c # 0
      BY <1>9, <2>5, <2>6, <3>2 DEF b, c
    <3> QED
      BY <3>1, <3>2
  <2> QED
    BY <2>7, <2>8
<1>12. LastUsage(now1) = LastUsage(read)' /\ Shaped' /\ Len(pieces)' = Len(pieces)
  BY <1>0, <1>2 DEF LastUsage, Shaped
<1>13. /\ flow' \in {"piping", "ended", "aborted", "broken"}
       /\ flow' = "piping" => reports' = <<>>
       /\ reports' = <<>> \/ (Len(reports') = 1 /\ reports'[1] = LastUsage(read)')
       /\ flow' \in {"ended", "aborted"} => reports' # <<>>
  <2>1. CASE reader = "tail" /\ gone
    <3>1. flow' = "aborted" /\ reports' = <<LastUsage(now1)>>
      <4>1. reports' = Append(<<>>, LastUsage(now1)) /\ flow' = "aborted"
        BY <1>0, <1>2, <2>1
      <4> QED
        BY <4>1
    <3>2. Len(reports') = 1 /\ reports'[1] = LastUsage(now1) /\ reports' # <<>>
      BY <3>1
    <3> QED
      BY <1>12, <3>1, <3>2
  <2>2. CASE ~(reader = "tail" /\ gone)
    BY <1>0, <1>2, <2>2
  <2> QED
    BY <2>1, <2>2
<1>14. gone' \in BOOLEAN /\ overflowed' \in BOOLEAN /\ reader' \in {"tail", "buffer", "frames"}
  BY <1>0, <1>2 DEF RelayInv
<1>15. arrived' \in 0 .. Len(pieces')
  BY <1>0, <1>2, <1>3
<1> QED
  BY <1>9, <1>10, <1>2, <1>11, <1>12, <1>13, <1>14, <1>15 DEF RelayInv

LEMMA RelayStep == RelayInv /\ [RelayNext]_relayVars => RelayInv'
<1> SUFFICES ASSUME RelayInv, [RelayNext]_relayVars PROVE RelayInv'
  OBVIOUS
<1> DEFINE Still == /\ reader' = reader /\ pieces' = pieces /\ arrived' = arrived /\ held' = held
                    /\ read' = read /\ overflowed' = overflowed
<1>1. ASSUME Still
      PROVE  /\ SoFar' = SoFar /\ Pending' = Pending /\ Shaped' = Shaped
             /\ LastUsage(read)' = LastUsage(read) /\ Units(SoFar)' = Units(SoFar)
             /\ Length(held)' = Length(held)
  BY <1>1 DEF SoFar, Pending, Stretch, Shaped, LastUsage, Units, Whole, Length, Boundary
<1>2. CASE ChunkArrives
  BY <1>2, ChunkStep
<1>3. CASE BodyEnds
  <2>1. Still /\ flow' = "ended" /\ gone' = gone /\ reports = <<>>
        /\ reports' = IF reader = "frames" THEN reports ELSE Append(reports, LastUsage(read))
    BY <1>3 DEF BodyEnds, RelayInv
  <2>2. reader # "frames" => /\ Len(reports') = 1 /\ reports'[1] = LastUsage(read)
                             /\ reports' # <<>>
    BY <2>1
  <2> QED
    BY <1>1, <2>1, <2>2 DEF RelayInv
<1>4. CASE SignalAborts
  BY <1>1, <1>4 DEF SignalAborts, RelayInv
<1>5. CASE StreamBreaks
  BY <1>1, <1>5 DEF StreamBreaks, RelayInv
<1>6. CASE UNCHANGED relayVars
  BY <1>1, <1>6 DEF relayVars, RelayInv
<1> QED
  BY <1>2, <1>3, <1>4, <1>5, <1>6 DEF RelayNext

LEMMA RelayTypes == RelayInv => RelayTypeOK
<1> SUFFICES ASSUME RelayInv PROVE RelayTypeOK
  OBVIOUS
<1>1. Len(reports) <= 1
  <2>1. Len(<<>>) = 0
    OBVIOUS
  <2>2. reports = <<>> \/ Len(reports) = 1
    BY DEF RelayInv
  <2> QED
    BY <2>1, <2>2
<1> QED
  BY <1>1 DEF RelayInv, RelayTypeOK

\* Wherever the stream is cut, what was read is every complete unit of what
\* has arrived, and the one report is the usage of the last of them that has
\* one, unless the TailBuffer dropped the start of a pending line.
THEOREM UsagesSurviveCuts == RelaySpec => []UsageSurvivesCuts
<1>1. RelayInv => UsageSurvivesCuts
  <2> SUFFICES ASSUME RelayInv PROVE UsageSurvivesCuts
    OBVIOUS
  <2>1. SoFar = SubSeq(pieces, 1, arrived)
    BY DEF SoFar, Stretch
  <2>2. ~overflowed => read = CompleteUnits
    BY <2>1 DEF RelayInv, CompleteUnits
  <2> QED
    BY <2>2 DEF RelayInv, UsageSurvivesCuts
<1> QED
  BY <1>1, RelayInitially, RelayStep, PTL DEF RelaySpec
===============================================================================
