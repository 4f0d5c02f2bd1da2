-------------------------- MODULE RequestBodyProofs --------------------------
(***************************************************************************)
(* The conversation of RequestBody, for any messages of a client, any      *)
(* settings, any number of members of a combo and any answers.             *)
(*                                                                         *)
(* A body is read as its line: the pieces of its system prompt and of its  *)
(* messages, in order.  Two lines say the same when they are equal without *)
(* prompts and without what RTK did (Bare).  Every augmentation and every  *)
(* conversion keeps that (Same), in place or on a copy.  Payloads are      *)
(* compared by columns: what turns carry of a line are its texts, its tool *)
(* uses and its results, each in order (Carries), so that what is said of  *)
(* a line is said of every payload that carries it.                        *)
(*                                                                         *)
(* For Kiro the invariant runs along the fold of convertMessages: what is  *)
(* in the history and what is pending carry the messages taken so far      *)
(* (Has), and only what belongs to a turn of the current role is pending.  *)
(* Merging turns keeps the columns, and the current turn is the last one   *)
(* when the conversation ends with the user.                               *)
(*                                                                         *)
(* What the invariant adds to the property is where the body of a combo    *)
(* and the handler's copy stand between the steps (Waiting, Augmented):    *)
(* that they have come of the client's body, as long as no body is         *)
(* converted twice (Twice), and, of a request that is no combo's, that the *)
(* prompt is in them once.                                                 *)
(***************************************************************************)
EXTENDS RequestBody, SequenceLemmas, TLAPS

-----------------------------------------------------------------------------
(* The conversation.                                                       *)

\* The pieces of messages: RTK has been at none but the results of tools, and
\* only if it is on.
Plain == {"text", "prompt", "image", "use", "result", "error"}
Good ==
  {p \in Pieces(Plain) : /\ p.squeezed => setup.rtk /\ p.id \in Squeezable
                         /\ p.kind = "result" => p.id \in Squeezable}
GoodOf(kinds) == {p \in Good : p.kind \in kinds}
KindsIn(m) == KindsOf(m.role, m.shape) \cup (IF Instructs(m) THEN {"prompt"} ELSE {})
GoodMessage ==
  {m \in [role : Role, shape : {"string", "array"}, pieces : Seq(Good)] :
     /\ m.pieces \in Seq(GoodOf(KindsIn(m)))
     /\ m.role = "developer" \/ (m.role = "tool" /\ m.shape = "array" /\ sender.tools) => DropsMessages}
GoodBody ==
  {b \in [system : {"absent", "string", "blocks"}, prompt : Seq(GoodOf({"text", "prompt"})),
          messages : Seq(GoodMessage)] :
     b.system = "absent" => b.prompt = <<>>}

\* All pieces of a body in their order.
PiecesIn == [m \in GoodMessage |-> m.pieces]
Line(b) == b.prompt \o AllPieces(b.messages)

\* What the client has said, and what was added to it.
Bare == [p \in Good |-> IF p.kind = "prompt" THEN <<>> ELSE <<[kind |-> p.kind, id |-> p.id]>>]
Added == Keeps(Good, Pieces({"prompt"}))
Token == [kind : Plain, id : Nat]

-----------------------------------------------------------------------------
LEMMA GoodIs ==
  ASSUME NEW p \in Good
  PROVE  /\ p = [kind |-> p.kind, id |-> p.id, squeezed |-> p.squeezed]
         /\ p.kind \in Plain /\ p.id \in Nat /\ p.squeezed \in BOOLEAN
         /\ p.squeezed => setup.rtk /\ p.id \in Squeezable
         /\ p.kind = "result" => p.id \in Squeezable
BY DEF Good, Pieces

LEMMA GoodWhen ==
  ASSUME NEW kind \in Plain, NEW id \in Nat, NEW squeezed \in BOOLEAN,
         squeezed => setup.rtk /\ id \in Squeezable, kind = "result" => id \in Squeezable
  PROVE  [kind |-> kind, id |-> id, squeezed |-> squeezed] \in Good
BY DEF Good, Pieces

LEMMA PromptIsGood == Prompt \in Good /\ Prompt.kind = "prompt" /\ Prompt \in GoodOf({"text", "prompt"})
<1>1. Prompt = [kind |-> "prompt", id |-> 0, squeezed |-> FALSE]
  BY DEF Prompt, Piece
<1>2. Prompt \in Good
  BY <1>1, GoodWhen DEF Plain
<1> QED
  BY <1>1, <1>2 DEF GoodOf

LEMMA GoodSeq == ASSUME NEW kinds, NEW s \in Seq(GoodOf(kinds)) PROVE s \in Seq(Good)
<1>1. GoodOf(kinds) \subseteq Good
  BY DEF GoodOf
<1> QED
  BY <1>1, SeqMonotonic

LEMMA GoodSeqKinds ==
  ASSUME NEW kinds, NEW s \in Seq(GoodOf(kinds)), NEW i \in 1 .. Len(s)
  PROVE  s[i] \in Good /\ s[i].kind \in kinds
<1>1. s[i] \in GoodOf(kinds)
  BY ElementOfSeq
<1> QED
  BY <1>1 DEF GoodOf

LEMMA GoodSeqWhen ==
  ASSUME NEW kinds, NEW s \in Seq(Good), \A i \in 1 .. Len(s) : s[i].kind \in kinds
  PROVE  s \in Seq(GoodOf(kinds))
<1>1. \A i \in 1 .. Len(s) : s[i] \in Good
  BY ElementOfSeq
<1>2. \A i \in 1 .. Len(s) : s[i] \in GoodOf(kinds)
  BY <1>1 DEF GoodOf
<1> QED
  BY <1>2

LEMMA MessageIs ==
  ASSUME NEW m \in GoodMessage
  PROVE  /\ m.role \in Role /\ m.shape \in {"string", "array"} /\ m.pieces \in Seq(Good)
         /\ m.pieces \in Seq(GoodOf(KindsIn(m)))
         /\ m = Message(m.role, m.shape, m.pieces)
         /\ m.role = "developer" \/ (m.role = "tool" /\ m.shape = "array" /\ sender.tools) => DropsMessages
BY DEF GoodMessage, Message

LEMMA MessageWhen ==
  ASSUME NEW role \in Role, NEW shape \in {"string", "array"}, NEW s \in Seq(Good),
         s \in Seq(GoodOf(KindsIn(Message(role, shape, s)))),
         role = "developer" \/ (role = "tool" /\ shape = "array" /\ sender.tools) => DropsMessages
  PROVE  Message(role, shape, s) \in GoodMessage
BY DEF GoodMessage, Message

LEMMA BareTyped == Maps(Bare, Good, Token) /\ Maps(Added, Good, Good)
<1>1. ASSUME NEW p \in Good
      PROVE  (IF p.kind = "prompt" THEN <<>> ELSE <<[kind |-> p.kind, id |-> p.id]>>) \in Seq(Token)
  <2>1. [kind |-> p.kind, id |-> p.id] \in Token
    BY GoodIs DEF Token
  <2> QED
    BY <2>1, EmptySeq
<1> QED
  BY <1>1, KeepsTyped DEF Bare, Added, Maps

LEMMA PiecesInTyped == Maps(PiecesIn, GoodMessage, Good)
BY MessageIs DEF PiecesIn, Maps

LEMMA AllPiecesIs ==
  ASSUME NEW ms \in Seq(GoodMessage)
  PROVE  AllPieces(ms) = Through(PiecesIn, ms) /\ AllPieces(ms) \in Seq(Good)
<1>1. \A i \in DOMAIN ms : ms[i] \in GoodMessage
  BY ElementOfSeq
<1>2. Stands(PiecesIn, ms) = [i \in DOMAIN ms |-> ms[i].pieces]
  BY <1>1 DEF Stands, PiecesIn
<1>3. AllPieces(ms) = Through(PiecesIn, ms)
  BY <1>2 DEF AllPieces, Through
<1>4. Through(PiecesIn, ms) \in Seq(Good)
  BY PiecesInTyped, ThroughTyped
<1> QED
  BY <1>3, <1>4

\* What all pieces of the messages stand for, message by message.
InMessages(h) == [m \in GoodMessage |-> Through(h, m.pieces)]

LEMMA MessageByMessage ==
  ASSUME NEW X, NEW h, Maps(h, Good, X), NEW ms \in Seq(GoodMessage)
  PROVE  /\ Through(h, AllPieces(ms)) = Through(InMessages(h), ms)
         /\ Maps(InMessages(h), GoodMessage, X)
<1> DEFINE k == InMessages(h)
<1>1. \A m \in GoodMessage : Through(h, m.pieces) \in Seq(X)
  <2> SUFFICES ASSUME NEW m \in GoodMessage PROVE Through(h, m.pieces) \in Seq(X)
    OBVIOUS
  <2>1. m.pieces \in Seq(Good)
    BY MessageIs
  <2> QED
    BY <2>1, ThroughTyped
<1>2. Maps(k, GoodMessage, X) /\ Composes(k, h, PiecesIn, GoodMessage)
  BY <1>1 DEF PiecesIn, InMessages, Composes, Maps
<1> HIDE DEF k
<1>3. Through(h, Through(PiecesIn, ms)) = Through(k, ms)
  BY <1>2, PiecesInTyped, ThroughTwice
<1> QED
  BY <1>2, <1>3, AllPiecesIs DEF k

LEMMA BodyIs ==
  ASSUME NEW b \in GoodBody
  PROVE  /\ b.system \in {"absent", "string", "blocks"} /\ b.prompt \in Seq(GoodOf({"text", "prompt"}))
         /\ b.prompt \in Seq(Good) /\ b.messages \in Seq(GoodMessage)
         /\ b.system = "absent" => b.prompt = <<>>
         /\ b = [system |-> b.system, prompt |-> b.prompt, messages |-> b.messages]
<1>1. /\ b.system \in {"absent", "string", "blocks"} /\ b.prompt \in Seq(GoodOf({"text", "prompt"}))
      /\ b.messages \in Seq(GoodMessage)
      /\ b.system = "absent" => b.prompt = <<>>
      /\ b = [system |-> b.system, prompt |-> b.prompt, messages |-> b.messages]
  BY DEF GoodBody
<1> QED
  BY <1>1, GoodSeq

\* What a line stands for: the system prompt, then the messages.
LEMMA LineIs ==
  ASSUME NEW X, NEW h, Maps(h, Good, X), NEW b \in GoodBody
  PROVE  /\ Line(b) \in Seq(Good)
         /\ Through(h, Line(b)) = Through(h, b.prompt) \o Through(h, AllPieces(b.messages))
         /\ Through(h, b.prompt) \in Seq(X) /\ Through(h, AllPieces(b.messages)) \in Seq(X)
<1> DEFINE u == b.prompt
           v == AllPieces(b.messages)
<1>1. u \in Seq(Good) /\ v \in Seq(Good)
  BY BodyIs, AllPiecesIs
<1> HIDE DEF u, v
<1>2. u \o v \in Seq(Good)
  BY <1>1, ConcatProperties
<1>3. Through(h, u \o v) = Through(h, u) \o Through(h, v)
  BY <1>1, ThroughConcat
<1>4. Through(h, u) \in Seq(X)
  BY <1>1, ThroughTyped
<1>5. Through(h, v) \in Seq(X)
  BY <1>1, ThroughTyped
<1> QED
  BY <1>2, <1>3, <1>4, <1>5 DEF Line, u, v

-----------------------------------------------------------------------------
(* The columns of a conversation: its pieces of some kinds.                *)

Column(kinds) == Keeps(Good, Pieces(kinds))
Spoken(kinds) == [p \in Good |-> IF p.kind \in kinds THEN <<p.id>> ELSE <<>>]

LEMMA ColumnTyped == ASSUME NEW kinds PROVE Maps(Column(kinds), Good, Good)
BY KeepsTyped DEF Column

LEMMA ColumnAt ==
  ASSUME NEW kinds, NEW p \in Good
  PROVE  Column(kinds)[p] = IF p.kind \in kinds THEN <<p>> ELSE <<>>
<1>1. p \in Pieces(kinds) <=> p.kind \in kinds
  BY GoodIs DEF Pieces
<1> QED
  BY <1>1 DEF Column, Keeps

LEMMA ColumnIs ==
  ASSUME NEW kinds, NEW s \in Seq(Good)
  PROVE  Filtered(s, Pieces(kinds)) = Through(Column(kinds), s)
BY FilteredIsThrough DEF Column

LEMMA ColumnOfAll ==
  ASSUME NEW kinds, NEW s \in Seq(GoodOf(kinds)) PROVE Through(Column(kinds), s) = s
<1>1. s \in Seq(Good)
  BY GoodSeq
<1>2. \A i \in 1 .. Len(s) : Column(kinds)[s[i]] = <<s[i]>>
  <2> SUFFICES ASSUME NEW i \in 1 .. Len(s) PROVE Column(kinds)[s[i]] = <<s[i]>>
    OBVIOUS
  <2>1. s[i] \in Good /\ s[i].kind \in kinds
    BY GoodSeqKinds
  <2> QED
    BY <2>1, ColumnAt
<1>3. Maps(Column(kinds), Good, Good)
  BY ColumnTyped
<1> QED
  BY <1>1, <1>2, <1>3, AllStand

LEMMA ColumnOfNone ==
  ASSUME NEW kinds, NEW others, kinds \cap others = {}, NEW s \in Seq(GoodOf(others))
  PROVE  Through(Column(kinds), s) = <<>>
<1>1. s \in Seq(Good)
  BY GoodSeq
<1>2. \A i \in 1 .. Len(s) : Column(kinds)[s[i]] = <<>>
  <2> SUFFICES ASSUME NEW i \in 1 .. Len(s) PROVE Column(kinds)[s[i]] = <<>>
    OBVIOUS
  <2>1. s[i] \in Good /\ s[i].kind \in others
    BY GoodSeqKinds
  <2> QED
    BY <2>1, ColumnAt
<1>3. Maps(Column(kinds), Good, Good)
  BY ColumnTyped
<1> QED
  BY <1>1, <1>2, <1>3, NothingStands

LEMMA ColumnKinds ==
  ASSUME NEW kinds, NEW s \in Seq(Good)
  PROVE  Through(Column(kinds), s) \in Seq(GoodOf(kinds))
<1> DEFINE t == Filtered(s, Pieces(kinds))
<1>1. t = Through(Column(kinds), s)
  BY ColumnIs
<1>2. t \in Seq(Good)
  BY FilteredTyped
<1>3. \A i \in 1 .. Len(t) : t[i] \in Pieces(kinds)
  BY FilteredMembers
<1> HIDE DEF t
<1>4. \A i \in 1 .. Len(t) : t[i].kind \in kinds
  BY <1>3 DEF Pieces
<1>5. t \in Seq(GoodOf(kinds))
  BY <1>2, <1>4, GoodSeqWhen
<1> QED
  BY <1>1, <1>5

LEMMA SpokenTyped == ASSUME NEW kinds PROVE Maps(Spoken(kinds), Good, Nat)
<1>1. \A p \in Good : <<p.id>> \in Seq(Nat) /\ <<>> \in Seq(Nat)
  BY GoodIs, EmptySeq
<1> QED
  BY <1>1 DEF Spoken, Maps

LEMMA SpokenAt ==
  ASSUME NEW kinds, NEW p \in Good
  PROVE  Spoken(kinds)[p] = IF p.kind \in kinds THEN <<p.id>> ELSE <<>>
BY DEF Spoken

LEMMA IdsAre ==
  ASSUME NEW s \in Seq(Good) PROVE Ids(s) = Through(Spoken(Plain), s) /\ Ids(s) \in Seq(Nat)
<1>0. \A i \in 1 .. Len(s) : s[i] \in Good
  BY ElementOfSeq
<1>1. Ids(s) \in Seq(Nat) /\ Len(Ids(s)) = Len(s) /\ \A i \in 1 .. Len(s) : Ids(s)[i] = s[i].id
  <2>1. \A i \in 1 .. Len(s) : s[i].id \in Nat
    BY <1>0, GoodIs
  <2> QED
    BY <2>1 DEF Ids
<1>2. \A i \in 1 .. Len(s) : Spoken(Plain)[s[i]] = <<Ids(s)[i]>>
  BY <1>0, <1>1, GoodIs, SpokenAt, ZenonT(40)
<1>3. Maps(Spoken(Plain), Good, Nat)
  BY SpokenTyped
<1> DEFINE h == Spoken(Plain)
           t == Ids(s)
<1>4. t \in Seq(Nat) /\ Len(s) = Len(t) /\ (\A i \in 1 .. Len(s) : h[s[i]] = <<t[i]>>) /\ Maps(h, Good, Nat)
  BY <1>1, <1>2, <1>3
<1> HIDE DEF h, t
<1>5. Through(h, s) = t
  BY <1>4, MapStands
<1> QED
  BY <1>4, <1>5 DEF h, t

\* Of a column, those of some kinds.
LEMMA SpokenOfColumn ==
  ASSUME NEW kinds, NEW column, NEW s \in Seq(Good)
  PROVE  Through(Spoken(kinds), Through(Column(column), s)) = Through(Spoken(kinds \cap column), s)
<1> DEFINE g == Spoken(kinds)
           h == Column(column)
           k == Spoken(kinds \cap column)
<1>1. Maps(g, Good, Nat) /\ Maps(k, Good, Nat) /\ Maps(h, Good, Good)
  BY SpokenTyped, ColumnTyped
<1>2. Composes(k, g, h, Good)
  <2> SUFFICES ASSUME NEW d \in Good PROVE k[d] = Through(g, h[d])
    BY DEF Composes
  <2>1. h[d] = IF d.kind \in column THEN <<d>> ELSE <<>>
    BY ColumnAt
  <2>2. g[d] = IF d.kind \in kinds THEN <<d.id>> ELSE <<>>
    BY SpokenAt
  <2>3. k[d] = IF d.kind \in kinds \cap column THEN <<d.id>> ELSE <<>>
    BY SpokenAt
  <2> HIDE DEF g, h, k
  <2>4. Through(g, <<d>>) = g[d]
    BY <1>1, ThroughSingle
  <2>5. Through(g, <<>>) = <<>>
    BY ThroughEmpty
  <2> QED
    BY <2>1, <2>2, <2>3, <2>4, <2>5
<1> HIDE DEF g, h, k
<1>3. Through(g, Through(h, s)) = Through(k, s)
  BY <1>1, <1>2, ThroughTwice
<1> QED
  BY <1>3 DEF g, h, k

LEMMA ColumnOfColumn ==
  ASSUME NEW kinds, NEW column, NEW s \in Seq(Good)
  PROVE  Through(Column(kinds), Through(Column(column), s)) = Through(Column(kinds \cap column), s)
<1> DEFINE g == Column(kinds)
           h == Column(column)
           k == Column(kinds \cap column)
<1>1. Maps(g, Good, Good) /\ Maps(k, Good, Good) /\ Maps(h, Good, Good)
  BY ColumnTyped
<1>2. Composes(k, g, h, Good)
  <2> SUFFICES ASSUME NEW d \in Good PROVE k[d] = Through(g, h[d])
    BY DEF Composes
  <2>1. h[d] = IF d.kind \in column THEN <<d>> ELSE <<>>
    BY ColumnAt
  <2>2. g[d] = IF d.kind \in kinds THEN <<d>> ELSE <<>>
    BY ColumnAt
  <2>3. k[d] = IF d.kind \in kinds \cap column THEN <<d>> ELSE <<>>
    BY ColumnAt
  <2> HIDE DEF g, h, k
  <2>4. Through(g, <<d>>) = g[d]
    BY <1>1, ThroughSingle
  <2>5. Through(g, <<>>) = <<>>
    BY ThroughEmpty
  <2> QED
    BY <2>1, <2>2, <2>3, <2>4, <2>5
<1> HIDE DEF g, h, k
<1>3. Through(g, Through(h, s)) = Through(k, s)
  BY <1>1, <1>2, ThroughTwice
<1> QED
  BY <1>3 DEF g, h, k

\* Without the prompts: what two lines have in common.
LEMMA SpokenByBare ==
  ASSUME NEW kinds, "prompt" \notin kinds, NEW s \in Seq(Good), NEW t \in Seq(Good),
         Through(Bare, s) = Through(Bare, t)
  PROVE  Through(Spoken(kinds), s) = Through(Spoken(kinds), t)
<1> DEFINE g == [e \in Token |-> IF e.kind \in kinds THEN <<e.id>> ELSE <<>>]
           k == Spoken(kinds)
<1>1. Maps(Bare, Good, Token) /\ Maps(k, Good, Nat)
  BY SpokenTyped, BareTyped
<1>2. Maps(g, Token, Nat)
  <2>1. \A e \in Token : <<e.id>> \in Seq(Nat) /\ <<>> \in Seq(Nat)
    BY EmptySeq DEF Token
  <2> QED
    BY <2>1 DEF Maps
<1>3. Composes(k, g, Bare, Good)
  <2> SUFFICES ASSUME NEW d \in Good PROVE k[d] = Through(g, Bare[d])
    BY DEF Composes
  <2> DEFINE e == [kind |-> d.kind, id |-> d.id]
  <2>1. Bare[d] = IF d.kind = "prompt" THEN <<>> ELSE <<e>>
    BY DEF Bare
  <2>2. e \in Token /\ e.kind = d.kind /\ e.id = d.id
    BY GoodIs DEF Token
  <2>3. k[d] = IF d.kind \in kinds THEN <<d.id>> ELSE <<>>
    BY SpokenAt
  <2> HIDE DEF e
  <2>4. g[e] = IF d.kind \in kinds THEN <<d.id>> ELSE <<>>
    BY <2>2
  <2> HIDE DEF g, k
  <2>5. Through(g, <<e>>) = g[e]
    BY <1>2, <2>2, ThroughSingle
  <2>6. Through(g, <<>>) = <<>>
    BY ThroughEmpty
  <2> QED
    BY <2>1, <2>3, <2>4, <2>5, <2>6
<1> HIDE DEF g, k
<1>4. Through(g, Through(Bare, s)) = Through(k, s)
  BY <1>1, <1>2, <1>3, ThroughTwice
<1>5. Through(g, Through(Bare, t)) = Through(k, t)
  BY <1>1, <1>2, <1>3, ThroughTwice
<1> QED
  BY <1>4, <1>5 DEF k

-----------------------------------------------------------------------------
(* Turns, and what they carry of a line of pieces.                         *)

TextKind == {"text", "prompt"}
ResultKind == {"result", "error"}
GoodTurn ==
  [role : Role, texts : Seq(GoodOf(TextKind)), uses : Seq(GoodOf({"use"})),
   results : Seq(GoodOf(ResultKind)), tools : BOOLEAN]
TextsOf == [t \in GoodTurn |-> t.texts]
UsesOf == [t \in GoodTurn |-> t.uses]
ResultsOf == [t \in GoodTurn |-> t.results]
Carries(turns, s) ==
  /\ turns \in Seq(GoodTurn)
  /\ Through(TextsOf, turns) = Through(Column(TextKind), s)
  /\ Through(UsesOf, turns) = Through(Column({"use"}), s)
  /\ Through(ResultsOf, turns) = Through(Column(ResultKind), s)

LEMMA TurnIs ==
  ASSUME NEW t \in GoodTurn
  PROVE  /\ t.role \in Role /\ t.tools \in BOOLEAN
         /\ t.texts \in Seq(GoodOf(TextKind)) /\ t.texts \in Seq(Good)
         /\ t.uses \in Seq(GoodOf({"use"})) /\ t.uses \in Seq(Good)
         /\ t.results \in Seq(GoodOf(ResultKind)) /\ t.results \in Seq(Good)
         /\ t = Turn(t.role, t.texts, t.uses, t.results, t.tools)
<1>1. /\ t.role \in Role /\ t.tools \in BOOLEAN /\ t.texts \in Seq(GoodOf(TextKind))
      /\ t.uses \in Seq(GoodOf({"use"})) /\ t.results \in Seq(GoodOf(ResultKind))
      /\ t = Turn(t.role, t.texts, t.uses, t.results, t.tools)
  BY DEF GoodTurn, Turn
<1>2. t.texts \in Seq(Good)
  BY <1>1, GoodSeq
<1>3. t.uses \in Seq(Good)
  BY <1>1, GoodSeq
<1>4. t.results \in Seq(Good)
  BY <1>1, GoodSeq
<1> QED
  BY <1>1, <1>2, <1>3, <1>4

LEMMA FieldsTyped ==
  Maps(TextsOf, GoodTurn, Good) /\ Maps(UsesOf, GoodTurn, Good) /\ Maps(ResultsOf, GoodTurn, Good)
BY TurnIs DEF TextsOf, UsesOf, ResultsOf, Maps

\* What is said of the turns of a column is said of the column.
LEMMA FieldSpoken ==
  ASSUME NEW field, Maps(field, GoodTurn, Good), NEW kinds, NEW inTurn,
         \A t \in GoodTurn : inTurn[t] = Through(Spoken(kinds), field[t]),
         DOMAIN inTurn = GoodTurn, inTurn = [t \in DOMAIN inTurn |-> inTurn[t]],
         NEW turns \in Seq(GoodTurn), NEW column, NEW s \in Seq(Good),
         Through(field, turns) = Through(Column(column), s)
  PROVE  Through(inTurn, turns) = Through(Spoken(kinds \cap column), s)
<1> DEFINE g == Spoken(kinds)
<1>1. Maps(g, Good, Nat)
  BY SpokenTyped
<1> HIDE DEF g
<1>2. Maps(inTurn, GoodTurn, Nat)
  <2>1. \A t \in GoodTurn : inTurn[t] \in Seq(Nat)
    <3> SUFFICES ASSUME NEW t \in GoodTurn PROVE inTurn[t] \in Seq(Nat)
      OBVIOUS
    <3>1. field[t] \in Seq(Good)
      BY DEF Maps
    <3>2. Through(g, field[t]) \in Seq(Nat)
      BY <1>1, <3>1, ThroughTyped
    <3> QED
      BY <3>2 DEF g
  <2> QED
    BY <2>1 DEF Maps
<1>3. Composes(inTurn, g, field, GoodTurn)
  BY DEF Composes, g
<1>4. Through(g, Through(field, turns)) = Through(inTurn, turns)
  BY <1>1, <1>2, <1>3, ThroughTwice
<1>5. Through(g, Through(Column(column), s)) = Through(Spoken(kinds \cap column), s)
  BY SpokenOfColumn DEF g
<1> QED
  BY <1>4, <1>5

LEMMA SaidOfLine ==
  ASSUME NEW turns, NEW s \in Seq(Good), Carries(turns, s)
  PROVE  Said(turns) = Through(Spoken({"text"}), s)
<1> DEFINE kinds == Kind \ {"prompt"}
           inTurn == [t \in GoodTurn |-> Ids(Filtered(t.texts, Pieces(kinds)))]
<1>0. turns \in Seq(GoodTurn) /\ \A i \in 1 .. Len(turns) : turns[i] \in GoodTurn
  BY ElementOfSeq DEF Carries
<1>1. ASSUME NEW t \in GoodTurn PROVE inTurn[t] = Through(Spoken(kinds \cap Plain), TextsOf[t])
  <2> DEFINE u == Filtered(t.texts, Pieces(kinds))
  <2>1. t.texts \in Seq(Good)
    BY TurnIs
  <2>2. u = Through(Column(kinds), t.texts)
    BY <2>1, ColumnIs
  <2>3. u \in Seq(Good)
    BY <2>1, FilteredTyped
  <2>4. Ids(u) = Through(Spoken(Plain), u)
    BY <2>3, IdsAre
  <2>5. Through(Spoken(Plain), Through(Column(kinds), t.texts)) = Through(Spoken(Plain \cap kinds), t.texts)
    BY <2>1, SpokenOfColumn
  <2>6. inTurn[t] = Ids(u) /\ TextsOf[t] = t.texts
    BY DEF TextsOf
  <2>7. Plain \cap kinds = kinds \cap Plain
    OBVIOUS
  <2> QED
    BY <2>2, <2>4, <2>5, <2>6, <2>7
<1>2. Said(turns) = Through(inTurn, turns)
  <2>1. [i \in DOMAIN turns |-> Ids(Filtered(turns[i].texts, Pieces(kinds)))] = Stands(inTurn, turns)
    BY <1>0 DEF Stands
  <2> QED
    BY <2>1 DEF Said, Through
<1>3. DOMAIN inTurn = GoodTurn /\ inTurn = [t \in DOMAIN inTurn |-> inTurn[t]]
  OBVIOUS
<1>4. Maps(TextsOf, GoodTurn, Good) /\ Through(TextsOf, turns) = Through(Column(TextKind), s)
  BY FieldsTyped DEF Carries
<1>5. (kinds \cap Plain) \cap TextKind = {"text"}
  BY DEF Kind, Plain, TextKind
<1> HIDE DEF inTurn, kinds
<1>6. Through(inTurn, turns) = Through(Spoken((kinds \cap Plain) \cap TextKind), s)
  BY <1>0, <1>1, <1>3, <1>4, FieldSpoken
<1> QED
  BY <1>2, <1>5, <1>6

LEMMA CalledOfLine ==
  ASSUME NEW turns, NEW s \in Seq(Good), Carries(turns, s)
  PROVE  Called(turns) = Through(Spoken({"use"}), s)
<1> DEFINE inTurn == [t \in GoodTurn |-> Ids(t.uses)]
<1>0. turns \in Seq(GoodTurn) /\ \A i \in 1 .. Len(turns) : turns[i] \in GoodTurn
  BY ElementOfSeq DEF Carries
<1>1. ASSUME NEW t \in GoodTurn PROVE inTurn[t] = Through(Spoken(Plain), UsesOf[t])
  <2>1. t.uses \in Seq(Good)
    BY TurnIs
  <2> QED
    BY <2>1, IdsAre DEF UsesOf
<1>2. Called(turns) = Through(inTurn, turns)
  <2>1. [i \in DOMAIN turns |-> Ids(turns[i].uses)] = Stands(inTurn, turns)
    BY <1>0 DEF Stands
  <2> QED
    BY <2>1 DEF Called, Through
<1>3. DOMAIN inTurn = GoodTurn /\ inTurn = [t \in DOMAIN inTurn |-> inTurn[t]]
  OBVIOUS
<1>4. Maps(UsesOf, GoodTurn, Good) /\ Through(UsesOf, turns) = Through(Column({"use"}), s)
  BY FieldsTyped DEF Carries
<1>5. Plain \cap {"use"} = {"use"}
  BY DEF Plain
<1> HIDE DEF inTurn
<1>6. Through(inTurn, turns) = Through(Spoken(Plain \cap {"use"}), s)
  BY <1>0, <1>1, <1>3, <1>4, FieldSpoken
<1> QED
  BY <1>2, <1>5, <1>6

LEMMA ReturnedOfLine ==
  ASSUME NEW turns, NEW s \in Seq(Good), Carries(turns, s)
  PROVE  Returned(turns) = Through(Spoken(ResultKind), s)
<1> DEFINE inTurn == [t \in GoodTurn |-> Ids(t.results)]
<1>0. turns \in Seq(GoodTurn) /\ \A i \in 1 .. Len(turns) : turns[i] \in GoodTurn
  BY ElementOfSeq DEF Carries
<1>1. ASSUME NEW t \in GoodTurn PROVE inTurn[t] = Through(Spoken(Plain), ResultsOf[t])
  <2>1. t.results \in Seq(Good)
    BY TurnIs
  <2> QED
    BY <2>1, IdsAre DEF ResultsOf
<1>2. Returned(turns) = Through(inTurn, turns)
  <2>1. [i \in DOMAIN turns |-> Ids(turns[i].results)] = Stands(inTurn, turns)
    BY <1>0 DEF Stands
  <2> QED
    BY <2>1 DEF Returned, Through
<1>3. DOMAIN inTurn = GoodTurn /\ inTurn = [t \in DOMAIN inTurn |-> inTurn[t]]
  OBVIOUS
<1>4. Maps(ResultsOf, GoodTurn, Good) /\ Through(ResultsOf, turns) = Through(Column(ResultKind), s)
  BY FieldsTyped DEF Carries
<1>5. Plain \cap ResultKind = ResultKind
  BY DEF Plain, ResultKind
<1> HIDE DEF inTurn
<1>6. Through(inTurn, turns) = Through(Spoken(Plain \cap ResultKind), s)
  BY <1>0, <1>1, <1>3, <1>4, FieldSpoken
<1> QED
  BY <1>2, <1>5, <1>6

LEMMA PromptsOfLine ==
  ASSUME NEW turns, NEW s \in Seq(Good), Carries(turns, s)
  PROVE  Prompts(turns) = Through(Added, s)
<1> DEFINE inTurn == [t \in GoodTurn |-> Filtered(t.texts, Pieces({"prompt"}))]
           g == Column({"prompt"})
<1>0. turns \in Seq(GoodTurn) /\ \A i \in 1 .. Len(turns) : turns[i] \in GoodTurn
  BY ElementOfSeq DEF Carries
<1>1. Prompts(turns) = Through(inTurn, turns)
  <2>1. [i \in DOMAIN turns |-> Filtered(turns[i].texts, Pieces({"prompt"}))] = Stands(inTurn, turns)
    BY <1>0 DEF Stands
  <2> QED
    BY <2>1 DEF Prompts, Through
<1>2. ASSUME NEW t \in GoodTurn
      PROVE  inTurn[t] = Through(g, TextsOf[t]) /\ inTurn[t] \in Seq(Good)
  <2>1. t.texts \in Seq(Good)
    BY TurnIs
  <2>2. inTurn[t] = Filtered(t.texts, Pieces({"prompt"})) /\ TextsOf[t] = t.texts
    BY DEF TextsOf
  <2>3. Filtered(t.texts, Pieces({"prompt"})) \in Seq(Good)
    BY <2>1, FilteredTyped
  <2> QED
    BY <2>1, <2>2, <2>3, ColumnIs
<1>3. Maps(inTurn, GoodTurn, Good) /\ Composes(inTurn, g, TextsOf, GoodTurn)
  BY <1>2 DEF Maps, Composes
<1>4. Maps(g, Good, Good) /\ Maps(TextsOf, GoodTurn, Good)
  BY ColumnTyped, FieldsTyped
<1> HIDE DEF g, inTurn
<1>5. Through(g, Through(TextsOf, turns)) = Through(inTurn, turns)
  BY <1>0, <1>3, <1>4, ThroughTwice
<1>6. Through(g, Through(Column(TextKind), s)) = Through(Column({"prompt"} \cap TextKind), s)
  BY ColumnOfColumn DEF g
<1>7. {"prompt"} \cap TextKind = {"prompt"} /\ Added = Column({"prompt"})
  BY DEF TextKind, Added, Column
<1> QED
  BY <1>1, <1>5, <1>6, <1>7 DEF Carries

LEMMA UntouchedTurns == ASSUME NEW turns \in Seq(GoodTurn) PROVE Untouched(turns)
<1> SUFFICES ASSUME NEW i \in DOMAIN turns,
                    NEW p \in ToSet(turns[i].texts) \cup ToSet(turns[i].results), p.squeezed
             PROVE  setup.rtk /\ p.id \in Squeezable
  BY DEF Untouched
<1>1. turns[i] \in GoodTurn
  BY ElementOfSeq
<1>2. turns[i].texts \in Seq(Good) /\ turns[i].results \in Seq(Good)
  BY <1>1, TurnIs
<1>3. p \in Good
  <2>1. ToSet(turns[i].texts) \subseteq Good
    BY <1>2, MembersOf
  <2>2. ToSet(turns[i].results) \subseteq Good
    BY <1>2, MembersOf
  <2> QED
    BY <2>1, <2>2
<1> QED
  BY <1>3, GoodIs

\* The roles of a payload.
LEMMA PayloadRoles == ASSUME NEW p, p.turns \in Seq(GoodTurn) PROVE Payloads(p)
<1>1. \A i \in DOMAIN p.turns : p.turns[i] \in GoodTurn
  BY ElementOfSeq
<1> QED
  BY <1>1, TurnIs DEF Payloads

-----------------------------------------------------------------------------
(* The payloads.                                                           *)

\* What a filter keeps of good pieces.
LEMMA KeptTyped ==
  ASSUME NEW kinds, NEW s \in Seq(Good)
  PROVE  /\ Filtered(s, Pieces(kinds)) \in Seq(GoodOf(kinds))
         /\ Filtered(s, Pieces(kinds)) \in Seq(Good)
         /\ Filtered(s, Pieces(kinds)) = Through(Column(kinds), s)
<1>1. Filtered(s, Pieces(kinds)) = Through(Column(kinds), s)
  BY ColumnIs
<1>2. Through(Column(kinds), s) \in Seq(GoodOf(kinds))
  BY ColumnKinds
<1>3. Filtered(s, Pieces(kinds)) \in Seq(Good)
  BY FilteredTyped
<1> QED
  BY <1>1, <1>2, <1>3

\* One turn for each message.
TurnOf(m) == Turn(m.role, Texts(m.pieces), Uses(m.pieces), Results(m.pieces), FALSE)

LEMMA TurnOfMessage ==
  ASSUME NEW m \in GoodMessage
  PROVE  /\ TurnOf(m) \in GoodTurn
         /\ TextsOf[TurnOf(m)] = Through(Column(TextKind), m.pieces)
         /\ UsesOf[TurnOf(m)] = Through(Column({"use"}), m.pieces)
         /\ ResultsOf[TurnOf(m)] = Through(Column(ResultKind), m.pieces)
<1>1. m.pieces \in Seq(Good) /\ m.role \in Role
  BY MessageIs
<1> DEFINE u == m.pieces
<1>2. u \in Seq(Good)
  BY <1>1
<1> HIDE DEF u
<1>3. Texts(u) \in Seq(GoodOf(TextKind)) /\ Texts(u) = Through(Column(TextKind), u)
  BY <1>2, KeptTyped DEF Texts, TextKind
<1>4. Uses(u) \in Seq(GoodOf({"use"})) /\ Uses(u) = Through(Column({"use"}), u)
  BY <1>2, KeptTyped DEF Uses
<1>5. Results(u) \in Seq(GoodOf(ResultKind)) /\ Results(u) = Through(Column(ResultKind), u)
  BY <1>2, KeptTyped DEF Results, ResultKind
<1>6. TurnOf(m) = Turn(m.role, Texts(u), Uses(u), Results(u), FALSE)
  BY DEF TurnOf, u
<1>7. /\ TurnOf(m) \in GoodTurn /\ TextsOf[TurnOf(m)] = Texts(u)
      /\ UsesOf[TurnOf(m)] = Uses(u) /\ ResultsOf[TurnOf(m)] = Results(u)
  BY <1>1, <1>3, <1>4, <1>5, <1>6 DEF Turn, GoodTurn, TextsOf, UsesOf, ResultsOf
<1> QED
  BY <1>3, <1>4, <1>5, <1>6, <1>7 DEF u

\* A field of the turns is a column of the messages' pieces.
LEMMA FieldOfTurns ==
  ASSUME NEW ms \in Seq(GoodMessage), NEW turns, DOMAIN turns = DOMAIN ms,
         NEW field, NEW kinds,
         \A i \in 1 .. Len(ms) : field[turns[i]] = Through(Column(kinds), ms[i].pieces)
  PROVE  Through(field, turns) = Through(Column(kinds), AllPieces(ms))
<1> DEFINE h == Column(kinds)
           g == InMessages(h)
<1>1. Maps(h, Good, Good)
  BY ColumnTyped
<1>2. \A i \in 1 .. Len(ms) : ms[i] \in GoodMessage
  BY ElementOfSeq
<1>3. \A i \in 1 .. Len(ms) : field[turns[i]] = g[ms[i]]
  BY <1>2 DEF InMessages
<1> HIDE DEF h, g
<1>4. Through(h, AllPieces(ms)) = Through(InMessages(h), ms)
  BY <1>1, MessageByMessage
<1>5. DOMAIN ms = 1 .. Len(ms)
  OBVIOUS
<1>6. Through(field, turns) = Through(g, ms)
  BY <1>3, <1>5, SameStands
<1> QED
  BY <1>4, <1>6 DEF g, h

LEMMA AsTurnsCarries ==
  ASSUME NEW ms \in Seq(GoodMessage) PROVE Carries(AsTurns(ms), AllPieces(ms))
<1> DEFINE turns == AsTurns(ms)
<1>1. \A i \in 1 .. Len(ms) : ms[i] \in GoodMessage
  BY ElementOfSeq
<1>2. DOMAIN turns = DOMAIN ms /\ turns = [i \in 1 .. Len(ms) |-> TurnOf(ms[i])]
  BY DEF AsTurns, TurnOf
<1> HIDE DEF turns
<1>3. ASSUME NEW i \in 1 .. Len(ms)
      PROVE  /\ turns[i] \in GoodTurn
             /\ TextsOf[turns[i]] = Through(Column(TextKind), ms[i].pieces)
             /\ UsesOf[turns[i]] = Through(Column({"use"}), ms[i].pieces)
             /\ ResultsOf[turns[i]] = Through(Column(ResultKind), ms[i].pieces)
  BY <1>1, <1>2, TurnOfMessage
<1>4. turns \in Seq(GoodTurn)
  <2>1. Len(ms) \in Nat
    OBVIOUS
  <2>2. \A i \in 1 .. Len(ms) : TurnOf(ms[i]) \in GoodTurn
    BY <1>1, TurnOfMessage
  <2> QED
    BY <1>2, <2>1, <2>2
<1>5. Through(TextsOf, turns) = Through(Column(TextKind), AllPieces(ms))
  <2>1. \A i \in 1 .. Len(ms) : TextsOf[turns[i]] = Through(Column(TextKind), ms[i].pieces)
    BY <1>3
  <2> QED
    BY <1>2, <2>1, FieldOfTurns, SMTT(20)
<1>6. Through(UsesOf, turns) = Through(Column({"use"}), AllPieces(ms))
  <2>1. \A i \in 1 .. Len(ms) : UsesOf[turns[i]] = Through(Column({"use"}), ms[i].pieces)
    BY <1>3
  <2> QED
    BY <1>2, <2>1, FieldOfTurns, SMTT(20)
<1>7. Through(ResultsOf, turns) = Through(Column(ResultKind), AllPieces(ms))
  <2>1. \A i \in 1 .. Len(ms) : ResultsOf[turns[i]] = Through(Column(ResultKind), ms[i].pieces)
    BY <1>3
  <2> QED
    BY <1>2, <2>1, FieldOfTurns, SMTT(20)
<1> QED
  BY <1>4, <1>5, <1>6, <1>7 DEF Carries, turns

\* Turns one after another carry lines one after another.
LEMMA CarriesConcat ==
  ASSUME NEW t1, NEW t2, NEW s1 \in Seq(Good), NEW s2 \in Seq(Good), Carries(t1, s1), Carries(t2, s2)
  PROVE  Carries(t1 \o t2, s1 \o s2)
<1>1. t1 \in Seq(GoodTurn) /\ t2 \in Seq(GoodTurn)
  BY DEF Carries
<1>2. t1 \o t2 \in Seq(GoodTurn)
  BY <1>1, ConcatProperties
<1>3. ASSUME NEW field, Maps(field, GoodTurn, Good), NEW kinds,
             Through(field, t1) = Through(Column(kinds), s1),
             Through(field, t2) = Through(Column(kinds), s2)
      PROVE  Through(field, t1 \o t2) = Through(Column(kinds), s1 \o s2)
  <2> DEFINE h == Column(kinds)
  <2>1. Maps(h, Good, Good)
    BY ColumnTyped
  <2> HIDE DEF h
  <2>2. Through(field, t1 \o t2) = Through(field, t1) \o Through(field, t2)
    BY <1>1, <1>3, ThroughConcat
  <2>3. Through(h, s1 \o s2) = Through(h, s1) \o Through(h, s2)
    BY <2>1, ThroughConcat
  <2> QED
    BY <1>3, <2>2, <2>3 DEF h
<1> DEFINE t == t1 \o t2
           s == s1 \o s2
<1>4. Through(TextsOf, t) = Through(Column(TextKind), s)
  BY <1>3, FieldsTyped DEF Carries
<1>5. Through(UsesOf, t) = Through(Column({"use"}), s)
  BY <1>3, FieldsTyped DEF Carries
<1>6. Through(ResultsOf, t) = Through(Column(ResultKind), s)
  BY <1>3, FieldsTyped DEF Carries
<1> QED
  BY <1>2, <1>4, <1>5, <1>6 DEF Carries

\* A turn of a system prompt.
LEMMA PromptCarries ==
  ASSUME NEW s \in Seq(GoodOf({"text", "prompt"}))
  PROVE  /\ Carries(<<Turn("system", s, <<>>, <<>>, FALSE)>>, s)
         /\ s = <<>> => Carries(<<>>, s)
<1> DEFINE t == Turn("system", s, <<>>, <<>>, FALSE)
<1>0. s \in Seq(GoodOf(TextKind)) /\ s \in Seq(Good)
  BY GoodSeq DEF TextKind
<1>1. t \in GoodTurn /\ TextsOf[t] = s /\ UsesOf[t] = <<>> /\ ResultsOf[t] = <<>>
  <2>0. t = Turn("system", s, <<>>, <<>>, FALSE)
    OBVIOUS
  <2>1. <<>> \in Seq(GoodOf({"use"})) /\ <<>> \in Seq(GoodOf(ResultKind)) /\ "system" \in Role
    BY EmptySeq DEF Role
  <2> HIDE DEF t
  <2> QED
    BY <1>0, <2>0, <2>1 DEF Turn, GoodTurn, TextsOf, UsesOf, ResultsOf
<1> HIDE DEF t
<1>2. <<t>> \in Seq(GoodTurn)
  BY <1>1
<1>3. Through(TextsOf, <<t>>) = s /\ Through(UsesOf, <<t>>) = <<>> /\ Through(ResultsOf, <<t>>) = <<>>
  <2>1. Through(TextsOf, <<t>>) = TextsOf[t]
    BY <1>1, FieldsTyped, ThroughSingle
  <2>2. Through(UsesOf, <<t>>) = UsesOf[t]
    BY <1>1, FieldsTyped, ThroughSingle
  <2>3. Through(ResultsOf, <<t>>) = ResultsOf[t]
    BY <1>1, FieldsTyped, ThroughSingle
  <2> QED
    BY <1>1, <2>1, <2>2, <2>3
<1>4. Through(Column(TextKind), s) = s
  BY <1>0, ColumnOfAll
<1>5. Through(Column({"use"}), s) = <<>>
  <2>1. {"use"} \cap TextKind = {}
    BY DEF TextKind
  <2> QED
    BY <1>0, <2>1, ColumnOfNone
<1>6. Through(Column(ResultKind), s) = <<>>
  <2>1. ResultKind \cap TextKind = {}
    BY DEF TextKind, ResultKind
  <2> QED
    BY <1>0, <2>1, ColumnOfNone
<1>7. ASSUME s = <<>> PROVE Carries(<<>>, s)
  <2>1. <<>> \in Seq(GoodTurn)
    BY EmptySeq
  <2>2. Through(TextsOf, <<>>) = <<>> /\ Through(UsesOf, <<>>) = <<>> /\ Through(ResultsOf, <<>>) = <<>>
    BY ThroughEmpty
  <2> QED
    BY <1>4, <1>5, <1>6, <1>7, <2>1, <2>2 DEF Carries
<1> QED
  BY <1>2, <1>3, <1>4, <1>5, <1>6, <1>7 DEF Carries, t

LEMMA PayloadsCarry ==
  ASSUME NEW b \in GoodBody
  PROVE  /\ Carries(OpenAIPayload(b).turns, AllPieces(b.messages))
         /\ Carries(AnthropicPayload(b).turns, Line(b))
         /\ OpenAIPayload(b).tools = sender.tools /\ AnthropicPayload(b).tools = sender.tools
<1>1. b.messages \in Seq(GoodMessage) /\ b.prompt \in Seq(GoodOf({"text", "prompt"})) /\ b.prompt \in Seq(Good)
  BY BodyIs
<1> DEFINE ms == b.messages
           first == IF b.prompt = <<>> THEN <<>> ELSE <<Turn("system", b.prompt, <<>>, <<>>, FALSE)>>
<1>2. Carries(AsTurns(ms), AllPieces(ms)) /\ AllPieces(ms) \in Seq(Good)
  BY <1>1, AsTurnsCarries, AllPiecesIs
<1>3. Carries(first, b.prompt)
  BY <1>1, PromptCarries
<1>4. OpenAIPayload(b).turns = AsTurns(ms) /\ AnthropicPayload(b).turns = first \o AsTurns(ms)
  BY DEF OpenAIPayload, AnthropicPayload
<1>5. OpenAIPayload(b).tools = sender.tools /\ AnthropicPayload(b).tools = sender.tools
  BY DEF OpenAIPayload, AnthropicPayload
<1>6. Line(b) = b.prompt \o AllPieces(ms)
  BY DEF Line
<1> HIDE DEF ms, first
<1>7. Carries(first \o AsTurns(ms), b.prompt \o AllPieces(ms))
  BY <1>1, <1>2, <1>3, CarriesConcat
<1> QED
  BY <1>2, <1>4, <1>5, <1>6, <1>7 DEF ms

-----------------------------------------------------------------------------
(* The augmentation and the conversions of bodies.                         *)

\* What the last message and the first say of those of another.
Kin(ms, ns) ==
  ms # <<>> =>
    /\ ns # <<>> /\ ns[Len(ns)].role = ms[Len(ms)].role
    /\ ns[1].role = "assistant" => ms[1].role = "assistant"

\* A body that has come of another.
Same(b, c) ==
  /\ b \in GoodBody /\ c \in GoodBody
  /\ b.system = "absent" <=> c.system = "absent"
  /\ Through(Bare, Line(b)) = Through(Bare, Line(c))
  /\ Kin(b.messages, c.messages)

\* A body that nothing has been added to.
Unprompted == {m \in GoodMessage : m.pieces \in Seq(GoodOf(Plain \ {"prompt"}))}
Fresh(b) == b \in GoodBody /\ b.prompt \in Seq(GoodOf({"text"})) /\ b.messages \in Seq(Unprompted)

LEMMA SameItself == ASSUME NEW b \in GoodBody PROVE Same(b, b)
BY DEF Same, Kin

LEMMA SameAgain ==
  ASSUME NEW b, NEW c, NEW d, Same(b, c), Same(c, d) PROVE Same(b, d)
<1>1. Kin(b.messages, d.messages)
  BY DEF Same, Kin
<1> QED
  BY <1>1 DEF Same

\* A message before the others.
LEMMA Prepended ==
  ASSUME NEW m \in GoodMessage, NEW ms \in Seq(GoodMessage)
  PROVE  /\ <<m>> \o ms \in Seq(GoodMessage)
         /\ AllPieces(<<m>> \o ms) = m.pieces \o AllPieces(ms)
         /\ m.role # "assistant" => Kin(ms, <<m>> \o ms)
<1> DEFINE one == <<m>>
<1>1. one \in Seq(GoodMessage) /\ Len(one) = 1 /\ one[1] = m
  OBVIOUS
<1>2. Through(PiecesIn, one) = m.pieces
  <2>1. Through(PiecesIn, one) = PiecesIn[m]
    BY PiecesInTyped, ThroughSingle
  <2> QED
    BY <2>1 DEF PiecesIn
<1> HIDE DEF one
<1>3. one \o ms \in Seq(GoodMessage)
  BY <1>1, ConcatProperties
<1>4. Through(PiecesIn, one \o ms) = Through(PiecesIn, one) \o Through(PiecesIn, ms)
  BY <1>1, PiecesInTyped, ThroughConcat
<1>5. AllPieces(one \o ms) = Through(PiecesIn, one \o ms)
  BY <1>3, AllPiecesIs
<1>6. AllPieces(ms) = Through(PiecesIn, ms)
  BY AllPiecesIs
<1>7. ASSUME m.role # "assistant" PROVE Kin(ms, one \o ms)
  <2>1. /\ Len(one \o ms) = 1 + Len(ms) /\ Len(ms) \in Nat
        /\ (one \o ms)[1] = m
        /\ Len(ms) # 0 => (one \o ms)[1 + Len(ms)] = ms[Len(ms)]
    BY DEF one
  <2>2. ms # <<>> => Len(ms) # 0
    OBVIOUS
  <2> DEFINE ns == one \o ms
  <2> HIDE DEF ns
  <2>3. Len(ns) = 1 + Len(ms) /\ ns[1] = m /\ (ms # <<>> => ns[Len(ns)] = ms[Len(ms)])
    BY <2>1, <2>2 DEF ns
  <2>4. ns # <<>>
    BY <2>1, <2>3
  <2>5. Kin(ms, ns)
    BY <1>7, <2>3, <2>4 DEF Kin
  <2> QED
    BY <2>5 DEF ns
<1> QED
  BY <1>2, <1>3, <1>4, <1>5, <1>6, <1>7 DEF one

LEMMA ConvertedBody ==
  ASSUME NEW b \in GoodBody
  PROVE  LET c == AnthropicToOpenAI(b) IN
         /\ c \in GoodBody /\ c.system = "absent" /\ c.prompt = <<>>
         /\ AllPieces(c.messages) = Line(b)
         /\ Kin(b.messages, c.messages)
<1>0. /\ b.prompt \in Seq(GoodOf({"text", "prompt"})) /\ b.prompt \in Seq(Good)
      /\ b.messages \in Seq(GoodMessage) /\ (b.system = "absent" => b.prompt = <<>>)
  BY BodyIs
<1>1. CASE b.system = "absent"
  <2>1. AnthropicToOpenAI(b) = b /\ b.prompt = <<>>
    BY <1>0, <1>1 DEF AnthropicToOpenAI
  <2>2. <<>> \o AllPieces(b.messages) = AllPieces(b.messages)
    BY <1>0, AllPiecesIs, ConcatEmptySeq
  <2> QED
    BY <1>1, <2>1, <2>2 DEF Line, Kin
<1>2. CASE b.system # "absent"
  <2> DEFINE m == Message("system", IF b.system = "string" THEN "string" ELSE "array", b.prompt)
             c == AnthropicToOpenAI(b)
  <2>1. m \in GoodMessage /\ m.role = "system" /\ m.pieces = b.prompt
    <3>1. m.role = "system" /\ m.pieces = b.prompt /\ m.shape \in {"string", "array"}
      BY DEF Message
    <3>2. KindsIn(m) = {"text", "prompt"}
      BY <3>1 DEF KindsIn, KindsOf, Instructs
    <3>3. "system" \in Role
      BY DEF Role
    <3> QED
      BY <1>0, <3>1, <3>2, <3>3, MessageWhen DEF Message
  <2>2. c = [system |-> "absent", prompt |-> <<>>, messages |-> <<m>> \o b.messages]
    BY <1>2 DEF AnthropicToOpenAI, NoBody
  <2> HIDE DEF m, c
  <2> DEFINE ms == b.messages
  <2>3. <<m>> \o ms \in Seq(GoodMessage) /\ AllPieces(<<m>> \o ms) = m.pieces \o AllPieces(ms)
        /\ Kin(ms, <<m>> \o ms)
    <3>1. "system" # "assistant"
      OBVIOUS
    <3> HIDE DEF ms
    <3>2. ms \in Seq(GoodMessage)
      BY <1>0 DEF ms
    <3> QED
      BY <2>1, <3>1, <3>2, Prepended
  <2>4. c \in GoodBody
    <3>1. <<>> \in Seq(GoodOf({"text", "prompt"}))
      BY EmptySeq
    <3> QED
      BY <2>2, <2>3, <3>1 DEF GoodBody
  <2>5. AllPieces(c.messages) = b.prompt \o AllPieces(b.messages)
    BY <2>1, <2>2, <2>3
  <2>6. c.system = "absent" /\ c.prompt = <<>> /\ Kin(b.messages, c.messages)
    BY <2>2, <2>3
  <2> QED
    BY <2>4, <2>5, <2>6 DEF Line, c
<1> QED
  BY <1>1, <1>2

LEMMA EachMessage ==
  ASSUME NEW X, NEW h, Maps(h, Good, X), NEW ms \in Seq(GoodMessage), NEW ns \in Seq(GoodMessage),
         Len(ms) = Len(ns),
         \A i \in 1 .. Len(ms) : Through(h, ms[i].pieces) = Through(h, ns[i].pieces)
  PROVE  Through(h, AllPieces(ms)) = Through(h, AllPieces(ns))
<1> DEFINE g == InMessages(h)
<1>1. \A i \in 1 .. Len(ms) : ms[i] \in GoodMessage /\ ns[i] \in GoodMessage
  <2>1. \A i \in 1 .. Len(ms) : ms[i] \in GoodMessage
    BY ElementOfSeq
  <2>2. \A i \in 1 .. Len(ns) : ns[i] \in GoodMessage
    BY ElementOfSeq
  <2> QED
    BY <2>1, <2>2
<1>2. \A i \in 1 .. Len(ms) : g[ms[i]] = g[ns[i]]
  BY <1>1 DEF InMessages
<1>3. DOMAIN ms = 1 .. Len(ms) /\ DOMAIN ms = DOMAIN ns
  OBVIOUS
<1> HIDE DEF g
<1>4. Through(g, ms) = Through(g, ns)
  BY <1>2, <1>3, SameStands
<1>5. Through(h, AllPieces(ms)) = Through(g, ms)
  BY MessageByMessage DEF g
<1>6. Through(h, AllPieces(ns)) = Through(g, ns)
  BY MessageByMessage DEF g
<1> QED
  BY <1>4, <1>5, <1>6

\* What is the same of a result that RTK has been at.
Blind(h) ==
  \A p, q \in Good :
    p.kind = q.kind /\ p.id = q.id /\ (p.kind = "result" \/ p.squeezed = q.squeezed) => h[p] = h[q]

LEMMA BareIsBlind == Blind(Bare) /\ Blind(Added)
<1>1. Blind(Bare)
  BY DEF Blind, Bare
<1>2. ASSUME NEW p \in Good, NEW q \in Good,
             p.kind = q.kind, p.id = q.id, p.kind = "result" \/ p.squeezed = q.squeezed
      PROVE  Added[p] = Added[q]
  <2>1. Added[p] = IF p.kind = "prompt" THEN <<p>> ELSE <<>>
    BY ColumnAt DEF Added, Column
  <2>2. Added[q] = IF q.kind = "prompt" THEN <<q>> ELSE <<>>
    BY ColumnAt DEF Added, Column
  <2>3. p.kind = "prompt" => p = q
    BY <1>2, GoodIs
  <2> QED
    BY <1>2, <2>1, <2>2, <2>3
<1> QED
  BY <1>1, <1>2 DEF Blind

LEMMA SqueezedPieces ==
  ASSUME setup.rtk, NEW m \in GoodMessage
  PROVE  /\ Squeezed(m) \in GoodMessage /\ Squeezed(m).role = m.role
         /\ \A h : Blind(h) => Through(h, m.pieces) = Through(h, Squeezed(m).pieces)
<1> DEFINE s == m.pieces
           q == [j \in DOMAIN s |-> Shortened(s[j])]
<1>0. s \in Seq(Good) /\ s \in Seq(GoodOf(KindsIn(m)))
  BY MessageIs
<1>1. CASE ~(m.role = "tool" \/ m.shape = "array")
  BY <1>1 DEF Squeezed
<1>2. CASE m.role = "tool" \/ m.shape = "array"
  <2>1. Squeezed(m) = Message(m.role, m.shape, q)
    <3>1. m = [role |-> m.role, shape |-> m.shape, pieces |-> s]
      BY MessageIs DEF Message
    <3>2. Squeezed(m) = [m EXCEPT !.pieces = q]
      BY <1>2 DEF Squeezed
    <3> HIDE DEF q, s
    <3> QED
      BY <3>1, <3>2 DEF Message
  <2>2. ASSUME NEW j \in 1 .. Len(s)
        PROVE  /\ s[j] \in Good /\ q[j] \in Good
               /\ q[j].kind = s[j].kind /\ q[j].id = s[j].id /\ s[j].kind \in KindsIn(m)
               /\ s[j].kind = "result" \/ s[j].squeezed = q[j].squeezed
    <3>1. s[j] \in Good /\ s[j].kind \in KindsIn(m)
      BY <1>0, GoodSeqKinds
    <3> DEFINE p == s[j]
               r == Shortened(p)
    <3>2. q[j] = r
      BY <1>0
    <3> HIDE DEF s, q
    <3>3. p \in Good
      BY <3>1
    <3> HIDE DEF p
    <3>4. /\ p = [kind |-> p.kind, id |-> p.id, squeezed |-> p.squeezed]
          /\ p.kind \in Plain /\ p.id \in Nat /\ p.squeezed \in BOOLEAN
          /\ (p.squeezed => setup.rtk /\ p.id \in Squeezable)
          /\ (p.kind = "result" => p.id \in Squeezable)
      BY <3>3, GoodIs
    <3>5. r = [kind |-> p.kind, id |-> p.id, squeezed |-> (p.squeezed \/ p.kind = "result")]
      BY <3>4 DEF Shortened
    <3>6. r \in Good
      BY <3>4, <3>5 DEF Good, Pieces
    <3>7. r.kind = p.kind /\ r.id = p.id /\ (p.kind = "result" \/ p.squeezed = r.squeezed)
      BY <3>4, <3>5
    <3> HIDE DEF r
    <3> QED
      BY <3>1, <3>2, <3>3, <3>6, <3>7 DEF p
  <2>3. DOMAIN s = 1 .. Len(s) /\ Len(s) \in Nat
    BY <1>0
  <2>4. DOMAIN q = 1 .. Len(s)
    BY <2>3
  <2> HIDE DEF q
  <2>5. q \in Seq(Good) /\ Len(q) = Len(s)
    <3>1. q = [j \in 1 .. Len(s) |-> q[j]]
      BY <2>4 DEF q
    <3>2. q \in [1 .. Len(s) -> Good]
      BY <2>2, <3>1
    <3> HIDE DEF s
    <3> QED
      BY <2>3, <3>2
  <2>6. q \in Seq(GoodOf(KindsIn(m)))
    BY <2>2, <2>5, GoodSeqWhen
  <2>7. Squeezed(m).role = m.role /\ Squeezed(m).shape = m.shape /\ Squeezed(m).pieces = q
    BY <2>1 DEF Message
  <2>8. Squeezed(m) \in GoodMessage
    <3>1. KindsIn(Message(m.role, m.shape, q)) = KindsIn(m)
      BY DEF KindsIn, Instructs, Message
    <3>2. m.role \in Role /\ m.shape \in {"string", "array"}
          /\ (m.role = "developer" \/ (m.role = "tool" /\ m.shape = "array" /\ sender.tools) => DropsMessages)
      BY MessageIs
    <3> QED
      BY <2>1, <2>5, <2>6, <3>1, <3>2, MessageWhen
  <2>9. ASSUME NEW h, Blind(h) PROVE Through(h, s) = Through(h, q)
    <3>1. \A j \in DOMAIN s : h[s[j]] = h[q[j]]
      BY <2>2, <2>3, <2>9 DEF Blind
    <3> HIDE DEF s
    <3> QED
      BY <2>3, <2>4, <3>1, SameStands
  <2> QED
    BY <2>7, <2>8, <2>9
<1> QED
  BY <1>1, <1>2

LEMMA SqueezedBody ==
  ASSUME setup.rtk, NEW b \in GoodBody
  PROVE  /\ Same(b, Squeeze(b))
         /\ Through(Added, Line(b)) = Through(Added, Line(Squeeze(b)))
<1> DEFINE ms == b.messages
           ns == [i \in DOMAIN ms |-> Squeezed(ms[i])]
           c == Squeeze(b)
<1>0. /\ b.system \in {"absent", "string", "blocks"} /\ b.prompt \in Seq(GoodOf({"text", "prompt"}))
      /\ ms \in Seq(GoodMessage) /\ (b.system = "absent" => b.prompt = <<>>)
      /\ b = [system |-> b.system, prompt |-> b.prompt, messages |-> ms]
  BY BodyIs
<1>1. c = [system |-> b.system, prompt |-> b.prompt, messages |-> ns]
  BY <1>0 DEF Squeeze
<1> HIDE DEF c, ms
<1>2. DOMAIN ms = 1 .. Len(ms) /\ Len(ms) \in Nat /\ (ms # <<>> => Len(ms) \in 1 .. Len(ms) /\ 1 \in 1 .. Len(ms))
  BY <1>0
<1>3. ASSUME NEW i \in 1 .. Len(ms)
      PROVE  /\ ns[i] \in GoodMessage /\ ns[i].role = ms[i].role
             /\ \A h : Blind(h) => Through(h, ms[i].pieces) = Through(h, ns[i].pieces)
  <2>1. ms[i] \in GoodMessage /\ ns[i] = Squeezed(ms[i])
    BY <1>0, <1>2, ElementOfSeq
  <2> HIDE DEF ns
  <2> QED
    BY <2>1, SqueezedPieces
<1>4. ns \in Seq(GoodMessage) /\ Len(ns) = Len(ms)
  <2>1. DOMAIN ns = 1 .. Len(ms) /\ ns = [i \in 1 .. Len(ms) |-> ns[i]]
    BY <1>2
  <2> HIDE DEF ns
  <2>2. ns \in [1 .. Len(ms) -> GoodMessage]
    BY <1>3, <2>1
  <2> QED
    BY <1>2, <2>2
<1> HIDE DEF ns
<1>5. c \in GoodBody
  BY <1>0, <1>1, <1>4 DEF GoodBody
<1>6. Kin(ms, ns)
  <2>1. ms # <<>> => ns # <<>>
    BY <1>0, <1>2, <1>4
  <2> QED
    BY <1>2, <1>3, <1>4, <2>1 DEF Kin
<1>7. ASSUME NEW X, NEW h, Maps(h, Good, X), Blind(h) PROVE Through(h, Line(b)) = Through(h, Line(c))
  <2>1. \A i \in 1 .. Len(ms) : Through(h, ms[i].pieces) = Through(h, ns[i].pieces)
    BY <1>3, <1>7
  <2>2. Through(h, AllPieces(ms)) = Through(h, AllPieces(ns))
    BY <1>0, <1>4, <1>7, <2>1, EachMessage
  <2>3. Through(h, Line(b)) = Through(h, b.prompt) \o Through(h, AllPieces(b.messages))
    BY <1>7, LineIs
  <2>4. Through(h, Line(c)) = Through(h, c.prompt) \o Through(h, AllPieces(c.messages))
    BY <1>5, <1>7, LineIs
  <2> QED
    BY <1>1, <2>2, <2>3, <2>4 DEF ms
<1>8. Through(Bare, Line(b)) = Through(Bare, Line(c))
  BY <1>7, BareTyped, BareIsBlind
<1>9. Through(Added, Line(b)) = Through(Added, Line(c))
  BY <1>7, BareTyped, BareIsBlind
<1>10. c.system = b.system /\ c.messages = ns
  BY <1>1
<1> QED
  BY <1>5, <1>6, <1>8, <1>9, <1>10 DEF Same, c, ms

\* Caveman's prompt at the end of pieces.
LEMMA PromptAppended ==
  ASSUME NEW kinds, "prompt" \in kinds, NEW s \in Seq(GoodOf(kinds))
  PROVE  /\ Append(s, Prompt) \in Seq(GoodOf(kinds)) /\ Append(s, Prompt) \in Seq(Good)
         /\ Through(Bare, Append(s, Prompt)) = Through(Bare, s)
         /\ Through(Added, s) = <<>> => Through(Added, Append(s, Prompt)) = <<Prompt>>
<1>1. Prompt \in Good /\ Prompt.kind = "prompt" /\ Prompt \in GoodOf(kinds) /\ s \in Seq(Good)
  BY PromptIsGood, GoodSeq DEF GoodOf
<1>2. Append(s, Prompt) \in Seq(GoodOf(kinds)) /\ Append(s, Prompt) \in Seq(Good)
  BY <1>1, AppendProperties
<1>3. Bare[Prompt] = <<>> /\ Added[Prompt] = <<Prompt>>
  BY <1>1, ColumnAt DEF Bare, Added, Column
<1>4. Through(Bare, Append(s, Prompt)) = Through(Bare, s) \o Bare[Prompt]
  BY <1>1, BareTyped, ThroughAppend
<1>5. Through(Added, Append(s, Prompt)) = Through(Added, s) \o Added[Prompt]
  BY <1>1, BareTyped, ThroughAppend
<1>6. Through(Bare, s) \o <<>> = Through(Bare, s)
  <2>1. Through(Bare, s) \in Seq(Token)
    BY <1>1, BareTyped, ThroughTyped
  <2> QED
    BY <2>1, ConcatEmptySeq
<1>7. <<>> \o <<Prompt>> = <<Prompt>>
  BY <1>1, ConcatEmptySeq
<1> QED
  BY <1>2, <1>3, <1>4, <1>5, <1>6, <1>7

\* What is not a prompt has none.
LEMMA NothingAdded ==
  ASSUME NEW kinds, "prompt" \notin kinds, NEW s \in Seq(GoodOf(kinds))
  PROVE  Through(Added, s) = <<>>
<1>1. {"prompt"} \cap kinds = {} /\ Added = Column({"prompt"})
  BY DEF Added, Column
<1> QED
  BY <1>1, ColumnOfNone

LEMMA UnpromptedMessages ==
  ASSUME NEW ms \in Seq(Unprompted)
  PROVE  ms \in Seq(GoodMessage) /\ Through(Added, AllPieces(ms)) = <<>>
<1> DEFINE g == InMessages(Added)
<1>0. ms \in Seq(GoodMessage)
  <2>1. Unprompted \subseteq GoodMessage
    BY DEF Unprompted
  <2> QED
    BY <2>1, SeqMonotonic
<1>1. Through(Added, AllPieces(ms)) = Through(g, ms) /\ Maps(g, GoodMessage, Good)
  BY <1>0, BareTyped, MessageByMessage
<1>2. \A i \in 1 .. Len(ms) : g[ms[i]] = <<>>
  <2> SUFFICES ASSUME NEW i \in 1 .. Len(ms) PROVE g[ms[i]] = <<>>
    OBVIOUS
  <2>1. ms[i] \in Unprompted
    BY ElementOfSeq
  <2>2. ms[i] \in GoodMessage /\ ms[i].pieces \in Seq(GoodOf(Plain \ {"prompt"}))
    BY <2>1 DEF Unprompted
  <2>3. Through(Added, ms[i].pieces) = <<>>
    BY <2>2, NothingAdded
  <2> QED
    BY <2>2, <2>3 DEF InMessages
<1> HIDE DEF g
<1>3. Through(g, ms) = <<>>
  BY <1>0, <1>1, <1>2, NothingStands
<1> QED
  BY <1>0, <1>1, <1>3

LEMMA InstructedMessage ==
  ASSUME NEW m \in GoodMessage, Instructs(m)
  PROVE  LET n == [m EXCEPT !.pieces = Append(@, Prompt)] IN
         /\ n \in GoodMessage /\ n.role = m.role /\ n.pieces = Append(m.pieces, Prompt)
         /\ Through(Bare, n.pieces) = Through(Bare, m.pieces)
         /\ m \in Unprompted => Through(Added, n.pieces) = <<Prompt>>
<1> DEFINE n == [m EXCEPT !.pieces = Append(@, Prompt)]
           s == Append(m.pieces, Prompt)
<1>1. /\ m.role \in Role /\ m.shape \in {"string", "array"}
      /\ m.pieces \in Seq(GoodOf(KindsIn(m)))
      /\ m.role = "developer" \/ (m.role = "tool" /\ m.shape = "array" /\ sender.tools) => DropsMessages
      /\ m = Message(m.role, m.shape, m.pieces)
  BY MessageIs
<1>2. n = Message(m.role, m.shape, s)
  BY <1>1, SMTT(20) DEF Message
<1>3. "prompt" \in KindsIn(m)
  BY DEF KindsIn
<1>4. /\ s \in Seq(GoodOf(KindsIn(m))) /\ s \in Seq(Good)
      /\ Through(Bare, s) = Through(Bare, m.pieces)
      /\ Through(Added, m.pieces) = <<>> => Through(Added, s) = <<Prompt>>
  BY <1>1, <1>3, PromptAppended
<1> HIDE DEF n, s
<1>5. KindsIn(Message(m.role, m.shape, s)) = KindsIn(m)
  BY DEF KindsIn, Instructs, Message
<1>6. n \in GoodMessage
  BY <1>1, <1>2, <1>4, <1>5, MessageWhen
<1>7. n.role = m.role /\ n.pieces = s
  BY <1>2 DEF Message
<1>8. m \in Unprompted => Through(Added, m.pieces) = <<>>
  BY NothingAdded DEF Unprompted
<1> QED
  BY <1>4, <1>6, <1>7, <1>8 DEF n, s

LEMMA FirstInstructs ==
  ASSUME NEW ms \in Seq(GoodMessage), \E i \in DOMAIN ms : Instructs(ms[i])
  PROVE  \E first \in 1 .. Len(ms) :
           /\ Instructs(ms[first])
           /\ InjectMessages(ms) = [ms EXCEPT ![first].pieces = Append(@, Prompt)]
<1> DEFINE T == {n \in Nat : n \in 1 .. Len(ms) /\ Instructs(ms[n])}
           IsFirst(i) == Instructs(ms[i]) /\ \A k \in 1 .. i - 1 : ~Instructs(ms[k])
           first == CHOOSE i \in DOMAIN ms : IsFirst(i)
<1>0. DOMAIN ms = 1 .. Len(ms) /\ Len(ms) \in Nat
  OBVIOUS
<1>1. PICK n \in T : \A k \in T : n <= k
  <2>1. T \in SUBSET Nat /\ T # {}
    BY <1>0
  <2> HIDE DEF T
  <2> QED
    BY <2>1, LeastNumber
<1>2. n \in DOMAIN ms /\ IsFirst(n)
  BY <1>0, <1>1
<1>3. first \in DOMAIN ms /\ IsFirst(first)
  BY <1>2
<1>4. InjectMessages(ms) = [ms EXCEPT ![first].pieces = Append(@, Prompt)]
  BY DEF InjectMessages
<1> HIDE DEF first
<1> QED
  BY <1>0, <1>3, <1>4

LEMMA InjectedMessages ==
  ASSUME NEW ms \in Seq(GoodMessage)
  PROVE  LET ns == InjectMessages(ms) IN
         /\ ns \in Seq(GoodMessage) /\ Kin(ms, ns)
         /\ Through(Bare, AllPieces(ms)) = Through(Bare, AllPieces(ns))
         /\ ms \in Seq(Unprompted) => Through(Added, AllPieces(ns)) = <<Prompt>>
<1> DEFINE ns == InjectMessages(ms)
<1>0. DOMAIN ms = 1 .. Len(ms) /\ Len(ms) \in Nat
  OBVIOUS
<1>a. \A i \in 1 .. Len(ms) : ms[i] \in GoodMessage
  BY ElementOfSeq
<1>b. ms \in Seq(Unprompted) => \A i \in 1 .. Len(ms) : ms[i] \in Unprompted
  BY ElementOfSeq
<1>1. CASE \E i \in DOMAIN ms : Instructs(ms[i])
  <2>1. PICK first \in 1 .. Len(ms) :
          Instructs(ms[first]) /\ ns = [ms EXCEPT ![first].pieces = Append(@, Prompt)]
    BY <1>1, FirstInstructs
  <2> DEFINE m == ms[first]
             n == [m EXCEPT !.pieces = Append(@, Prompt)]
  <2>2. ns = [ms EXCEPT ![first] = n]
    BY <2>1
  <2> HIDE DEF ns, n, m
  <2>3. /\ n \in GoodMessage /\ n.role = m.role
        /\ Through(Bare, n.pieces) = Through(Bare, m.pieces)
        /\ m \in Unprompted => Through(Added, n.pieces) = <<Prompt>>
    <3>1. m \in GoodMessage /\ Instructs(m)
      BY <1>a, <2>1 DEF m
    <3> QED
      BY <3>1, InstructedMessage DEF n
  <2>4. /\ ns \in Seq(GoodMessage) /\ Len(ns) = Len(ms)
        /\ \A j \in 1 .. Len(ms) : ns[j] = IF j = first THEN n ELSE ms[j]
    BY <2>2, <2>3, ExceptSeq
  <2>5. Kin(ms, ns)
    <3>1. ms # <<>> => ns # <<>> /\ 1 \in 1 .. Len(ms) /\ Len(ms) \in 1 .. Len(ms)
      BY <1>0, <2>4
    <3>2. \A j \in 1 .. Len(ms) : ns[j].role = ms[j].role
      BY <2>3, <2>4 DEF m
    <3> QED
      BY <2>4, <3>1, <3>2 DEF Kin
  <2>6. Through(Bare, AllPieces(ms)) = Through(Bare, AllPieces(ns))
    <3>1. \A i \in 1 .. Len(ms) : Through(Bare, ms[i].pieces) = Through(Bare, ns[i].pieces)
      BY <2>3, <2>4 DEF m
    <3> QED
      BY <2>4, <3>1, BareTyped, EachMessage
  <2>7. ASSUME ms \in Seq(Unprompted) PROVE Through(Added, AllPieces(ns)) = <<Prompt>>
    <3> DEFINE g == InMessages(Added)
    <3>1. Through(Added, AllPieces(ns)) = Through(g, ns) /\ Maps(g, GoodMessage, Good)
      BY <2>4, BareTyped, MessageByMessage
    <3>2. \A i \in 1 .. Len(ns) : i # first => g[ns[i]] = <<>>
      <4> SUFFICES ASSUME NEW i \in 1 .. Len(ns), i # first PROVE g[ns[i]] = <<>>
        OBVIOUS
      <4>1. ns[i] \in GoodMessage /\ ns[i].pieces \in Seq(GoodOf(Plain \ {"prompt"}))
        BY <1>a, <1>b, <2>4, <2>7 DEF Unprompted
      <4>2. Through(Added, ns[i].pieces) = <<>>
        BY <4>1, NothingAdded
      <4> QED
        BY <4>1, <4>2 DEF InMessages
    <3>3. g[ns[first]] = <<Prompt>>
      <4>1. ns[first] = n /\ m \in Unprompted
        BY <1>b, <2>4, <2>7 DEF m
      <4> QED
        BY <2>3, <4>1 DEF InMessages
    <3> HIDE DEF g
    <3>4. Through(g, ns) = g[ns[first]]
      BY <2>4, <3>1, <3>2, OneStands
    <3> QED
      BY <3>1, <3>3, <3>4
  <2> QED
    BY <2>4, <2>5, <2>6, <2>7 DEF ns
<1>2. CASE ~\E i \in DOMAIN ms : Instructs(ms[i])
  <2> DEFINE u == <<Prompt>>
             m == Message("system", "string", u)
             v == AllPieces(ms)
  <2>1. m \in GoodMessage /\ m.role = "system" /\ m.pieces = u
    <3>1. m.role = "system" /\ m.pieces = u /\ m.shape = "string"
      BY DEF Message
    <3>2. KindsIn(m) = {"text", "prompt"}
      BY <3>1 DEF KindsIn, KindsOf, Instructs
    <3>3. u \in Seq(Good) /\ u \in Seq(GoodOf({"text", "prompt"})) /\ "system" \in Role
      BY PromptIsGood DEF Role
    <3> HIDE DEF u
    <3> QED
      BY <3>1, <3>2, <3>3, MessageWhen DEF Message
  <2>2. ns = <<m>> \o ms
    BY <1>2 DEF InjectMessages
  <2>3. u \in Seq(Good) /\ v \in Seq(Good) /\ Through(Bare, u) = <<>> /\ Through(Added, u) = <<Prompt>>
    <3>1. Prompt \in Good /\ Bare[Prompt] = <<>> /\ Added[Prompt] = <<Prompt>>
      BY PromptIsGood, ColumnAt DEF Bare, Added, Column
    <3>2. u \in Seq(Good)
      BY <3>1
    <3>3. Through(Bare, <<Prompt>>) = Bare[Prompt]
      BY <3>1, BareTyped, ThroughSingle
    <3>4. Through(Added, <<Prompt>>) = Added[Prompt]
      BY <3>1, BareTyped, ThroughSingle
    <3> QED
      BY <3>1, <3>2, <3>3, <3>4, AllPiecesIs
  <2> HIDE DEF m, ns, u, v
  <2>4. ns \in Seq(GoodMessage) /\ Kin(ms, ns) /\ AllPieces(ns) = u \o v
    BY <2>1, <2>2, Prepended DEF v
  <2>5. Through(Bare, u \o v) = Through(Bare, u) \o Through(Bare, v)
    <3>1. Joins(Bare, Good)
      BY BareTyped, ThroughJoins
    <3> QED
      BY <2>3, <3>1 DEF Joins
  <2>6. Through(Added, u \o v) = Through(Added, u) \o Through(Added, v)
    <3>1. Joins(Added, Good)
      BY BareTyped, ThroughJoins
    <3> QED
      BY <2>3, <3>1 DEF Joins
  <2>7. <<>> \o Through(Bare, v) = Through(Bare, v)
    <3>1. Through(Bare, v) \in Seq(Token)
      BY <2>3, BareTyped, ThroughTyped
    <3> QED
      BY <3>1, ConcatEmptySeq
  <2>8. ms \in Seq(Unprompted) => Through(Added, v) = <<>>
    BY UnpromptedMessages DEF v
  <2>9. <<Prompt>> \o <<>> = <<Prompt>>
    BY PromptIsGood, ConcatEmptySeq
  <2> QED
    BY <2>3, <2>4, <2>5, <2>6, <2>7, <2>8, <2>9 DEF ns, v
<1> QED
  BY <1>1, <1>2

LEMMA FreshLine == ASSUME NEW b, Fresh(b) PROVE Through(Added, Line(b)) = <<>>
<1>1. b \in GoodBody /\ b.prompt \in Seq(GoodOf({"text"})) /\ b.messages \in Seq(Unprompted)
  BY DEF Fresh
<1>2. Through(Added, Line(b)) = Through(Added, b.prompt) \o Through(Added, AllPieces(b.messages))
  BY <1>1, BareTyped, LineIs
<1>3. Through(Added, b.prompt) = <<>>
  BY <1>1, NothingAdded
<1>4. Through(Added, AllPieces(b.messages)) = <<>>
  BY <1>1, UnpromptedMessages
<1>5. <<>> \o <<>> = <<>>
  OBVIOUS
<1> QED
  BY <1>2, <1>3, <1>4, <1>5

\* The prompt at the end of the system prompt.
LEMMA PromptedBody ==
  ASSUME NEW b \in GoodBody, b.system # "absent", NEW system \in {"string", "blocks"},
         NEW c, c = [b EXCEPT !.prompt = Append(@, Prompt), !.system = system]
  PROVE  Same(b, c) /\ (Fresh(b) => Through(Added, Line(c)) = <<Prompt>>)
<1> DEFINE s == Append(b.prompt, Prompt)
           v == AllPieces(b.messages)
<1>0. /\ b.prompt \in Seq(GoodOf({"text", "prompt"})) /\ b.prompt \in Seq(Good)
      /\ b.messages \in Seq(GoodMessage)
      /\ b = [system |-> b.system, prompt |-> b.prompt, messages |-> b.messages]
  BY BodyIs
<1>1. c = [system |-> system, prompt |-> s, messages |-> b.messages]
  BY <1>0
<1>2. /\ s \in Seq(GoodOf({"text", "prompt"})) /\ s \in Seq(Good)
      /\ Through(Bare, s) = Through(Bare, b.prompt)
      /\ Through(Added, b.prompt) = <<>> => Through(Added, s) = <<Prompt>>
  BY <1>0, PromptAppended
<1> HIDE DEF s
<1>3. c \in GoodBody
  BY <1>0, <1>1, <1>2 DEF GoodBody
<1>4. c.prompt = s /\ c.messages = b.messages /\ c.system # "absent"
  <2>1. c.prompt = s /\ c.messages = b.messages /\ c.system = system
    <3> DEFINE r == [system |-> system, prompt |-> s, messages |-> b.messages]
    <3>1. r.prompt = s /\ r.messages = b.messages /\ r.system = system
      OBVIOUS
    <3> HIDE DEF r
    <3>2. c = r
      BY <1>1 DEF r
    <3> QED
      BY <3>1, <3>2
  <2>2. system # "absent"
    OBVIOUS
  <2> QED
    BY <2>1, <2>2
<1>5. Through(Bare, Line(c)) = Through(Bare, c.prompt) \o Through(Bare, AllPieces(c.messages))
  BY <1>3, BareTyped, LineIs
<1>6. Through(Bare, Line(b)) = Through(Bare, b.prompt) \o Through(Bare, AllPieces(b.messages))
  BY BareTyped, LineIs
<1>7. Kin(b.messages, c.messages)
  BY <1>4 DEF Kin
<1>8. ASSUME Fresh(b) PROVE Through(Added, Line(c)) = <<Prompt>>
  <2>1. Through(Added, Line(c)) = Through(Added, c.prompt) \o Through(Added, AllPieces(c.messages))
    BY <1>3, BareTyped, LineIs
  <2>2. Through(Added, b.prompt) = <<>>
    BY <1>8, NothingAdded DEF Fresh
  <2>3. Through(Added, AllPieces(c.messages)) = <<>>
    BY <1>4, <1>8, UnpromptedMessages DEF Fresh
  <2>4. <<Prompt>> \o <<>> = <<Prompt>>
    BY PromptIsGood, ConcatEmptySeq
  <2> QED
    BY <1>2, <1>4, <2>1, <2>2, <2>3, <2>4
<1> QED
  BY <1>2, <1>3, <1>4, <1>5, <1>6, <1>7, <1>8 DEF Same

\* The prompt in the messages.
LEMMA InjectedBody ==
  ASSUME NEW b \in GoodBody, b.system = "absent", NEW c, c = [b EXCEPT !.messages = InjectMessages(@)]
  PROVE  Same(b, c) /\ (Fresh(b) => Through(Added, Line(c)) = <<Prompt>>)
<1> DEFINE ns == InjectMessages(b.messages)
<1>0. /\ b.prompt = <<>> /\ b.messages \in Seq(GoodMessage) /\ b.prompt \in Seq(GoodOf({"text", "prompt"}))
      /\ b = [system |-> b.system, prompt |-> b.prompt, messages |-> b.messages]
  BY BodyIs
<1>1. c = [system |-> b.system, prompt |-> b.prompt, messages |-> ns]
  BY <1>0
<1>2. /\ ns \in Seq(GoodMessage) /\ Kin(b.messages, ns)
      /\ Through(Bare, AllPieces(b.messages)) = Through(Bare, AllPieces(ns))
      /\ b.messages \in Seq(Unprompted) => Through(Added, AllPieces(ns)) = <<Prompt>>
  BY <1>0, InjectedMessages
<1> HIDE DEF ns
<1>3. c \in GoodBody
  BY <1>0, <1>1, <1>2, SMTT(20) DEF GoodBody
<1>4. c.prompt = <<>> /\ c.messages = ns /\ c.system = "absent"
  BY <1>0, <1>1
<1>5. Through(Bare, Line(c)) = Through(Bare, c.prompt) \o Through(Bare, AllPieces(c.messages))
  BY <1>3, BareTyped, LineIs
<1>6. Through(Bare, Line(b)) = Through(Bare, b.prompt) \o Through(Bare, AllPieces(b.messages))
  BY BareTyped, LineIs
<1>7. ASSUME Fresh(b) PROVE Through(Added, Line(c)) = <<Prompt>>
  <2>1. Through(Added, Line(c)) = Through(Added, c.prompt) \o Through(Added, AllPieces(c.messages))
    BY <1>3, BareTyped, LineIs
  <2>2. Through(Added, AllPieces(ns)) = <<Prompt>>
    BY <1>2, <1>7 DEF Fresh
  <2>3. Through(Added, <<>>) = <<>>
    BY ThroughEmpty
  <2>4. <<>> \o <<Prompt>> = <<Prompt>>
    BY PromptIsGood, ConcatEmptySeq
  <2> QED
    BY <1>4, <2>1, <2>2, <2>3, <2>4
<1> QED
  BY <1>0, <1>2, <1>3, <1>4, <1>5, <1>6, <1>7 DEF Same

LEMMA AugmentedBody ==
  ASSUME NEW b \in GoodBody
  PROVE  Same(b, Augment(b)) /\ (Fresh(b) => Through(Added, Line(Augment(b))) = <<Prompt>>)
<1>1. CASE b.system = "absent"
  <2>1. Augment(b) = [b EXCEPT !.messages = InjectMessages(@)]
    BY <1>1 DEF Augment
  <2> QED
    BY <1>1, <2>1, InjectedBody
<1>2. CASE b.system # "absent"
  <2>1. Augment(b) = [b EXCEPT !.prompt = Append(@, Prompt), !.system = "blocks"]
    BY <1>2 DEF Augment
  <2> QED
    BY <1>2, <2>1, PromptedBody
<1> QED
  BY <1>1, <1>2

LEMMA SharedBody == ASSUME NEW b \in GoodBody PROVE Same(b, AugmentShared(b, b))
<1>1. CASE b.system = "absent"
  <2>1. AugmentShared(b, b) = [b EXCEPT !.messages = InjectMessages(@)]
    BY <1>1 DEF AugmentShared
  <2> QED
    BY <1>1, <2>1, InjectedBody
<1>2. CASE b.system = "blocks"
  <2>1. AugmentShared(b, b) = [b EXCEPT !.prompt = Append(@, Prompt), !.system = "blocks"]
    BY <1>2, BodyIs DEF AugmentShared
  <2> QED
    BY <1>2, <2>1, PromptedBody
<1>3. CASE b.system = "string"
  BY <1>3, SameItself DEF AugmentShared
<1> QED
  BY <1>1, <1>2, <1>3, BodyIs

\* A body converted in place.
LEMMA AssignedBody ==
  ASSUME NEW b \in GoodBody
  PROVE  /\ Assigned(b) \in GoodBody
         /\ sender.format = "anthropic" => Assigned(b).messages = AnthropicToOpenAI(b).messages
         /\ sender.format # "anthropic" => Assigned(b) = b
<1>1. CASE sender.format = "anthropic"
  <2> DEFINE ns == AnthropicToOpenAI(b).messages
  <2>1. ns \in Seq(GoodMessage)
    <3>1. AnthropicToOpenAI(b) \in GoodBody
      BY ConvertedBody
    <3> QED
      BY <3>1, BodyIs
  <2>2. Assigned(b) = [b EXCEPT !.messages = ns]
    BY <1>1 DEF Assigned
  <2> HIDE DEF ns
  <2>3. Assigned(b) \in GoodBody /\ Assigned(b).messages = ns
    BY <2>1, <2>2 DEF GoodBody
  <2> QED
    BY <1>1, <2>3 DEF ns
<1>2. CASE sender.format # "anthropic"
  BY <1>2 DEF Assigned, OpenAIToAnthropic
<1> QED
  BY <1>1, <1>2

-----------------------------------------------------------------------------
(* The two folds of Kiro's transform are defined by recursive functions.   *)

FoldStep(fold, s, x, tools) == IF fold = "take" THEN TakeMessage(s, x, tools) ELSE Merge(s, x)
Folding(f, fold, first, xs, tools, n) ==
  f = [k \in 0 .. n |-> IF k = 0 THEN first ELSE FoldStep(fold, f[k - 1], xs[k], tools)]
\* The result of a fold.
FoldsTo(r, fold, first, xs, tools) ==
  \E f : Folding(f, fold, first, xs, tools, Len(xs)) /\ r = f[Len(xs)]

LEMMA FoldingExists ==
  ASSUME NEW fold, NEW first, NEW xs, NEW tools, NEW n \in Nat
  PROVE  \E f : Folding(f, fold, first, xs, tools, n)
<1> DEFINE T == {k \in Nat : \E f : Folding(f, fold, first, xs, tools, k)}
<1>1. 0 \in T
  <2>1. Folding([k \in 0 .. 0 |-> first], fold, first, xs, tools, 0)
    BY DEF Folding
  <2> QED
    BY <2>1
<1>2. ASSUME NEW k \in T PROVE k + 1 \in T
  <2>1. PICK f : Folding(f, fold, first, xs, tools, k)
    OBVIOUS
  <2> DEFINE g == [i \in 0 .. k + 1 |->
                     IF i \in 0 .. k THEN f[i] ELSE FoldStep(fold, f[i - 1], xs[i], tools)]
  <2>2. \A i \in 0 .. k : f[i] = IF i = 0 THEN first ELSE FoldStep(fold, f[i - 1], xs[i], tools)
    BY <2>1 DEF Folding
  <2>3. \A i \in 0 .. k + 1 : g[i] = IF i = 0 THEN first ELSE FoldStep(fold, g[i - 1], xs[i], tools)
    BY <2>2
  <2>4. Folding(g, fold, first, xs, tools, k + 1)
    BY <2>3 DEF Folding
  <2> QED
    BY <2>4
<1> HIDE DEF T
<1>3. T = Nat
  BY <1>1, <1>2, Induction DEF T
<1> QED
  BY <1>3 DEF T

LEMMA FoldingAt ==
  ASSUME NEW fold, NEW first, NEW xs, NEW tools, NEW n, NEW f,
         Folding(f, fold, first, xs, tools, n), NEW i \in 0 .. n
  PROVE  f[i] = IF i = 0 THEN first ELSE FoldStep(fold, f[i - 1], xs[i], tools)
BY DEF Folding

LEMMA FoldingAgrees ==
  ASSUME NEW fold, NEW first, NEW xs, NEW ys, NEW tools, NEW m \in Nat, NEW n \in Nat, m <= n,
         \A i \in 1 .. m : xs[i] = ys[i],
         NEW f, NEW g, Folding(f, fold, first, xs, tools, m), Folding(g, fold, first, ys, tools, n)
  PROVE  f[m] = g[m]
<1> DEFINE T == {i \in Nat : i \in 0 .. m => f[i] = g[i]}
<1>1. 0 \in T
  <2>1. 0 \in 0 .. m /\ 0 \in 0 .. n
    OBVIOUS
  <2>2. f[0] = first
    BY <2>1, FoldingAt
  <2>3. g[0] = first
    BY <2>1, FoldingAt
  <2> QED
    BY <2>2, <2>3
<1>2. ASSUME NEW i \in T PROVE i + 1 \in T
  <2> SUFFICES ASSUME i + 1 \in 0 .. m PROVE f[i + 1] = g[i + 1]
    OBVIOUS
  <2> DEFINE k == i + 1
  <2>0. k \in 0 .. m /\ k \in 0 .. n /\ k - 1 = i /\ k # 0 /\ k \in 1 .. m /\ f[i] = g[i]
    OBVIOUS
  <2> HIDE DEF k
  <2>1. f[k] = IF k = 0 THEN first ELSE FoldStep(fold, f[k - 1], xs[k], tools)
    BY <2>0, FoldingAt
  <2>2. g[k] = IF k = 0 THEN first ELSE FoldStep(fold, g[k - 1], ys[k], tools)
    BY <2>0, FoldingAt
  <2>3. f[k] = g[k]
    BY <2>0, <2>1, <2>2
  <2> QED
    BY <2>3 DEF k
<1> HIDE DEF T
<1>3. T = Nat
  BY <1>1, <1>2, Induction DEF T
<1>4. m \in T /\ m \in 0 .. m
  BY <1>3
<1> QED
  BY <1>4 DEF T

LEMMA FoldsEmpty ==
  ASSUME NEW r, NEW fold, NEW first, NEW tools, FoldsTo(r, fold, first, <<>>, tools) PROVE r = first
<1>1. PICK f : Folding(f, fold, first, <<>>, tools, Len(<<>>)) /\ r = f[Len(<<>>)]
  BY DEF FoldsTo
<1>2. Len(<<>>) = 0 /\ 0 \in 0 .. 0
  OBVIOUS
<1>3. Folding(f, fold, first, <<>>, tools, 0) /\ r = f[0]
  BY <1>1, <1>2
<1>4. f[0] = first
  BY <1>2, <1>3, FoldingAt
<1> QED
  BY <1>3, <1>4

LEMMA FoldsAppend ==
  ASSUME NEW D, NEW xs \in Seq(D), NEW x \in D, NEW fold, NEW first, NEW tools,
         NEW r, FoldsTo(r, fold, first, Append(xs, x), tools)
  PROVE  \E q : FoldsTo(q, fold, first, xs, tools) /\ r = FoldStep(fold, q, x, tools)
<1> DEFINE ys == Append(xs, x)
           n == Len(xs)
<1>1. n \in Nat /\ Len(ys) = n + 1 /\ (\A i \in 1 .. n : xs[i] = ys[i]) /\ ys[n + 1] = x
  BY AppendProperties
<1>2. FoldsTo(r, fold, first, ys, tools)
  OBVIOUS
<1> HIDE DEF ys
<1>3. PICK g : Folding(g, fold, first, ys, tools, n + 1) /\ r = g[n + 1]
  BY <1>1, <1>2 DEF FoldsTo
<1>4. PICK f : Folding(f, fold, first, xs, tools, n)
  BY <1>1, FoldingExists
<1>5. f[n] = g[n]
  <2>1. n <= n + 1 /\ n + 1 \in Nat
    BY <1>1
  <2> HIDE DEF n
  <2> QED
    BY <1>1, <1>3, <1>4, <2>1, FoldingAgrees
<1>6. g[n + 1] = FoldStep(fold, g[n], x, tools)
  <2> DEFINE k == n + 1
  <2>1. k \in 0 .. k /\ k # 0 /\ k - 1 = n /\ ys[k] = x /\ Folding(g, fold, first, ys, tools, k)
    BY <1>1, <1>3
  <2> HIDE DEF k
  <2>2. g[k] = IF k = 0 THEN first ELSE FoldStep(fold, g[k - 1], ys[k], tools)
    BY <2>1, FoldingAt
  <2>3. g[k] = FoldStep(fold, g[n], x, tools)
    BY <2>1, <2>2
  <2> QED
    BY <2>3 DEF k
<1>7. FoldsTo(f[n], fold, first, xs, tools)
  BY <1>4 DEF FoldsTo
<1> QED
  BY <1>3, <1>5, <1>6, <1>7

LEMMA TakenFolds ==
  ASSUME NEW D, NEW ms \in Seq(D), NEW tools
  PROVE  FoldsTo(Taken(ms, tools), "take", NoTurns, ms, tools)
<1> DEFINE taken == CHOOSE f : f = [n \in 0 .. Len(ms) |->
                      IF n = 0 THEN NoTurns ELSE TakeMessage(f[n - 1], ms[n], tools)]
<1>1. \E f : f = [n \in 0 .. Len(ms) |-> IF n = 0 THEN NoTurns ELSE TakeMessage(f[n - 1], ms[n], tools)]
  <2>1. Len(ms) \in Nat
    OBVIOUS
  <2>2. PICK f : Folding(f, "take", NoTurns, ms, tools, Len(ms))
    BY <2>1, FoldingExists
  <2> QED
    BY <2>2 DEF Folding, FoldStep
<1>2. taken = [n \in 0 .. Len(ms) |-> IF n = 0 THEN NoTurns ELSE TakeMessage(taken[n - 1], ms[n], tools)]
  BY <1>1
<1>3. Taken(ms, tools) = taken[Len(ms)]
  BY DEF Taken
<1> HIDE DEF taken
<1>4. Folding(taken, "take", NoTurns, ms, tools, Len(ms))
  BY <1>2 DEF Folding, FoldStep
<1> QED
  BY <1>3, <1>4 DEF FoldsTo

LEMMA MergedFolds ==
  ASSUME NEW D, NEW history \in Seq(D) PROVE FoldsTo(Merged(history), "merge", <<>>, history, "none")
<1> DEFINE merged == CHOOSE f : f = [n \in 0 .. Len(history) |->
                       IF n = 0 THEN <<>> ELSE Merge(f[n - 1], history[n])]
<1>1. \E f : f = [n \in 0 .. Len(history) |-> IF n = 0 THEN <<>> ELSE Merge(f[n - 1], history[n])]
  <2>1. Len(history) \in Nat
    OBVIOUS
  <2>2. PICK f : Folding(f, "merge", <<>>, history, "none", Len(history))
    BY <2>1, FoldingExists
  <2>3. "merge" # "take"
    OBVIOUS
  <2> QED
    BY <2>2, <2>3 DEF Folding, FoldStep
<1>2. merged = [n \in 0 .. Len(history) |-> IF n = 0 THEN <<>> ELSE Merge(merged[n - 1], history[n])]
  BY <1>1
<1>3. Merged(history) = merged[Len(history)]
  BY DEF Merged
<1> HIDE DEF merged
<1>4. Folding(merged, "merge", <<>>, history, "none", Len(history))
  BY <1>2 DEF Folding, FoldStep
<1> QED
  BY <1>3, <1>4 DEF FoldsTo

-----------------------------------------------------------------------------
(* Kiro's turns.                                                           *)

KiroTurn(tools) ==
  {t \in GoodTurn :
     /\ t.role \in {"user", "assistant"}
     /\ t.role = "user" => t.uses = <<>>
     /\ t.tools => tools}
KiroState(tools) ==
  [history : Seq(KiroTurn(tools)), user : Seq(GoodOf(TextKind)), said : Seq(GoodOf(TextKind)),
   results : Seq(GoodOf(ResultKind)), role : {"none", "user", "assistant", "developer"},
   injected : BOOLEAN]
\* Only what belongs to a turn of the current role is pending.
PendingOfRole(s) ==
  /\ s.role # "user" => s.user = <<>> /\ s.results = <<>>
  /\ s.role # "assistant" => s.said = <<>>
\* A first turn of the user has the tools.
FirstHasTools(s, tools) ==
  /\ s.history = <<>> => ~s.injected
  /\ s.history # <<>> /\ s.history[1].role = "user" => (s.history[1].tools <=> tools)
Kiro(s, tools) == s \in KiroState(tools) /\ PendingOfRole(s) /\ FirstHasTools(s, tools)
\* The first turn is, or is going to be, the user's.
StartsWithUser(s) == IF s.history = <<>> THEN s.role = "user" ELSE s.history[1].role = "user"

\* What the state has of a line.
TextsIn(s) == Through(TextsOf, s.history) \o (s.user \o s.said)
UsesIn(s) == Through(UsesOf, s.history)
ResultsIn(s) == Through(ResultsOf, s.history) \o s.results
Has(s, line) ==
  /\ TextsIn(s) = Through(Column(TextKind), line)
  /\ UsesIn(s) = Through(Column({"use"}), line)
  /\ ResultsIn(s) = Through(Column(ResultKind), line)

LEMMA KiroTurnsAreGood ==
  ASSUME NEW tools, NEW history \in Seq(KiroTurn(tools)) PROVE history \in Seq(GoodTurn)
<1>1. KiroTurn(tools) \subseteq GoodTurn
  BY DEF KiroTurn
<1> QED
  BY <1>1, SeqMonotonic

LEMMA KiroIs ==
  ASSUME NEW tools, NEW s \in KiroState(tools)
  PROVE  /\ s.history \in Seq(KiroTurn(tools)) /\ s.history \in Seq(GoodTurn)
         /\ s.user \in Seq(GoodOf(TextKind)) /\ s.user \in Seq(Good)
         /\ s.said \in Seq(GoodOf(TextKind)) /\ s.said \in Seq(Good)
         /\ s.results \in Seq(GoodOf(ResultKind)) /\ s.results \in Seq(Good)
         /\ s.role \in {"none", "user", "assistant", "developer"} /\ s.injected \in BOOLEAN
<1>1. /\ s.history \in Seq(KiroTurn(tools)) /\ s.user \in Seq(GoodOf(TextKind))
      /\ s.said \in Seq(GoodOf(TextKind)) /\ s.results \in Seq(GoodOf(ResultKind))
      /\ s.role \in {"none", "user", "assistant", "developer"} /\ s.injected \in BOOLEAN
  BY DEF KiroState
<1>2. s.history \in Seq(GoodTurn)
  BY <1>1, KiroTurnsAreGood
<1>3. s.user \in Seq(Good)
  BY <1>1, GoodSeq
<1>4. s.said \in Seq(Good)
  BY <1>1, GoodSeq
<1>5. s.results \in Seq(Good)
  BY <1>1, GoodSeq
<1> QED
  BY <1>1, <1>2, <1>3, <1>4, <1>5

LEMMA NoTurnsIs ==
  ASSUME NEW tools
  PROVE  /\ Kiro(NoTurns, tools)
         /\ TextsIn(NoTurns) = <<>> /\ UsesIn(NoTurns) = <<>> /\ ResultsIn(NoTurns) = <<>>
<1>1. Kiro(NoTurns, tools)
  BY EmptySeq DEF Kiro, KiroState, PendingOfRole, FirstHasTools, NoTurns
<1>2. \A h : Through(h, <<>>) = <<>>
  BY ThroughEmpty
<1>3. <<>> \o <<>> = <<>>
  OBVIOUS
<1> QED
  BY <1>1, <1>2, <1>3 DEF TextsIn, UsesIn, ResultsIn, NoTurns

\* A turn at the end of the history.
LongerBy(h, history, t, tools) ==
  /\ h \in Seq(KiroTurn(tools)) /\ h # <<>> /\ h[Len(h)] = t
  /\ h[1] = IF history = <<>> THEN t ELSE history[1]
  /\ Through(TextsOf, h) = Through(TextsOf, history) \o t.texts
  /\ Through(UsesOf, h) = Through(UsesOf, history) \o t.uses
  /\ Through(ResultsOf, h) = Through(ResultsOf, history) \o t.results

LEMMA TurnAppended ==
  ASSUME NEW tools, NEW history \in Seq(KiroTurn(tools)), NEW t \in KiroTurn(tools),
         NEW h, h = Append(history, t)
  PROVE  LongerBy(h, history, t, tools)
<1>0. history \in Seq(GoodTurn) /\ t \in GoodTurn
  BY KiroTurnsAreGood DEF KiroTurn
<1>1. /\ h \in Seq(KiroTurn(tools)) /\ Len(h) = Len(history) + 1 /\ Len(history) \in Nat
      /\ \A i \in 1 .. Len(history) : h[i] = history[i]
      /\ h[Len(history) + 1] = t
  BY AppendProperties
<1>2. h # <<>> /\ h[1] = IF history = <<>> THEN t ELSE history[1]
  <2>1. h # <<>>
    BY <1>1
  <2>2. CASE history = <<>>
    BY <1>1, <2>2
  <2>3. CASE history # <<>>
    <3>1. 1 \in 1 .. Len(history)
      BY <2>3
    <3> QED
      BY <1>1, <2>3, <3>1
  <2> QED
    BY <2>1, <2>2, <2>3
<1>3. Through(TextsOf, Append(history, t)) = Through(TextsOf, history) \o TextsOf[t]
  BY <1>0, FieldsTyped, ThroughAppend
<1>4. Through(UsesOf, Append(history, t)) = Through(UsesOf, history) \o UsesOf[t]
  BY <1>0, FieldsTyped, ThroughAppend
<1>5. Through(ResultsOf, Append(history, t)) = Through(ResultsOf, history) \o ResultsOf[t]
  BY <1>0, FieldsTyped, ThroughAppend
<1>6. TextsOf[t] = t.texts /\ UsesOf[t] = t.uses /\ ResultsOf[t] = t.results
  BY <1>0 DEF TextsOf, UsesOf, ResultsOf
<1> QED
  BY <1>1, <1>2, <1>3, <1>4, <1>5, <1>6 DEF LongerBy

\* The columns of a history.
LEMMA HistoryColumns ==
  ASSUME NEW history \in Seq(GoodTurn)
  PROVE  /\ Through(TextsOf, history) \in Seq(Good)
         /\ Through(UsesOf, history) \in Seq(Good)
         /\ Through(ResultsOf, history) \in Seq(Good)
<1>1. Through(TextsOf, history) \in Seq(Good)
  BY FieldsTyped, ThroughTyped
<1>2. Through(UsesOf, history) \in Seq(Good)
  BY FieldsTyped, ThroughTyped
<1>3. Through(ResultsOf, history) \in Seq(Good)
  BY FieldsTyped, ThroughTyped
<1> QED
  BY <1>1, <1>2, <1>3

LEMMA ConcatNothing ==
  ASSUME NEW a \in Seq(Good)
  PROVE  a \o <<>> = a /\ <<>> \o a = a
BY ConcatEmptySeq

LEMMA FlushedUser ==
  ASSUME NEW tools \in BOOLEAN, NEW s, Kiro(s, tools), s.role = "user"
  PROVE  LET c == FlushPending(s, tools) IN
         /\ Kiro(c, tools) /\ c.role = s.role
         /\ c.user = <<>> /\ c.said = <<>> /\ c.results = <<>>
         /\ TextsIn(c) = TextsIn(s) /\ UsesIn(c) = UsesIn(s) /\ ResultsIn(c) = ResultsIn(s)
         /\ c.history # <<>> /\ c.history[Len(c.history)].role = "user"
         /\ s.history # <<>> => c.history[1] = s.history[1]
         /\ StartsWithUser(s) => c.history[1].role = "user"
<1> DEFINE t == Turn("user", s.user, <<>>, s.results, tools /\ ~s.injected)
           h == Append(s.history, t)
           c == FlushPending(s, tools)
<1>0. s \in KiroState(tools) /\ s.said = <<>>
  BY DEF Kiro, PendingOfRole
<1>1. /\ s.history \in Seq(KiroTurn(tools)) /\ s.history \in Seq(GoodTurn)
      /\ s.user \in Seq(GoodOf(TextKind)) /\ s.user \in Seq(Good)
      /\ s.results \in Seq(GoodOf(ResultKind)) /\ s.results \in Seq(Good)
  BY <1>0, KiroIs
<1>2. t \in KiroTurn(tools) /\ t.texts = s.user /\ t.uses = <<>> /\ t.results = s.results
      /\ t.role = "user" /\ (t.tools <=> tools /\ ~s.injected)
  <2>1. <<>> \in Seq(GoodOf({"use"})) /\ "user" \in Role
    BY EmptySeq DEF Role
  <2> QED
    BY <1>1, <2>1 DEF Turn, KiroTurn, GoodTurn
<1>3. /\ c.history = h /\ c.user = <<>> /\ c.results = <<>> /\ c.injected = TRUE
      /\ c.said = s.said /\ c.role = s.role
      /\ c \in [history : {h}, user : {<<>>}, said : {s.said}, results : {<<>>}, role : {s.role}, injected : {TRUE}]
  BY <1>0 DEF FlushPending, KiroState
<1> HIDE DEF t, h, c
<1>4. LongerBy(h, s.history, t, tools)
  <2>1. h = Append(s.history, t) /\ t \in KiroTurn(tools) /\ s.history \in Seq(KiroTurn(tools))
    BY <1>1, <1>2 DEF h
  <2> QED
    BY <2>1, TurnAppended
<1>5. Kiro(c, tools)
  <2>1. c \in KiroState(tools)
    <3>1. <<>> \in Seq(GoodOf(TextKind)) /\ <<>> \in Seq(GoodOf(ResultKind))
      BY EmptySeq
    <3> QED
      BY <1>0, <1>3, <1>4, <3>1 DEF KiroState, LongerBy
  <2>2. FirstHasTools(c, tools)
    BY <1>2, <1>3, <1>4 DEF FirstHasTools, Kiro, LongerBy
  <2> QED
    BY <1>0, <1>3, <2>1, <2>2 DEF Kiro, PendingOfRole
<1>6. TextsIn(c) = TextsIn(s)
  <2> DEFINE a == Through(TextsOf, s.history)
  <2>1. a \in Seq(Good) /\ a \o s.user \in Seq(Good)
    BY <1>1, HistoryColumns, ConcatProperties
  <2> HIDE DEF a
  <2>2. (a \o s.user) \o <<>> = a \o s.user /\ s.user \o <<>> = s.user
    BY <1>1, <2>1, ConcatNothing
  <2>3. <<>> \o <<>> = <<>>
    OBVIOUS
  <2>4. TextsIn(c) = (a \o s.user) \o (<<>> \o <<>>)
    BY <1>0, <1>2, <1>3, <1>4 DEF TextsIn, a, LongerBy
  <2>5. TextsIn(s) = a \o (s.user \o <<>>)
    BY <1>0 DEF TextsIn, a
  <2> QED
    BY <2>2, <2>3, <2>4, <2>5
<1>7. UsesIn(c) = UsesIn(s)
  <2>1. Through(UsesOf, s.history) \in Seq(Good)
    BY <1>1, HistoryColumns
  <2> QED
    BY <1>2, <1>3, <1>4, <2>1, ConcatNothing DEF UsesIn, LongerBy
<1>8. ResultsIn(c) = ResultsIn(s)
  <2> DEFINE a == Through(ResultsOf, s.history)
  <2>1. a \o s.results \in Seq(Good)
    BY <1>1, HistoryColumns, ConcatProperties
  <2> HIDE DEF a
  <2>2. (a \o s.results) \o <<>> = a \o s.results
    BY <2>1, ConcatNothing
  <2> QED
    BY <1>2, <1>3, <1>4, <2>2 DEF ResultsIn, a, LongerBy
<1>9. StartsWithUser(s) => c.history[1].role = "user"
  BY <1>2, <1>3, <1>4 DEF StartsWithUser, LongerBy
<1> QED
  BY <1>0, <1>2, <1>3, <1>4, <1>5, <1>6, <1>7, <1>8, <1>9 DEF c, LongerBy

\* The same columns, whatever is pending.
SameColumns(c, s) == TextsIn(c) = TextsIn(s) /\ UsesIn(c) = UsesIn(s) /\ ResultsIn(c) = ResultsIn(s)

LEMMA FlushedAssistant ==
  ASSUME NEW tools \in BOOLEAN, NEW s, Kiro(s, tools), s.role = "assistant"
  PROVE  LET c == FlushPending(s, tools) IN
         /\ Kiro(c, tools) /\ c.role = s.role
         /\ c.user = <<>> /\ c.said = <<>> /\ c.results = <<>>
         /\ SameColumns(c, s)
         /\ s.history # <<>> => c.history # <<>> /\ c.history[1] = s.history[1]
         /\ c.history = Append(s.history, Turn("assistant", s.said, <<>>, <<>>, FALSE))
         /\ c.injected = s.injected
         /\ StartsWithUser(s) => StartsWithUser(c)
<1> DEFINE t == Turn("assistant", s.said, <<>>, <<>>, FALSE)
           h == Append(s.history, t)
           c == FlushPending(s, tools)
<1>0. s \in KiroState(tools) /\ s.user = <<>> /\ s.results = <<>>
  BY DEF Kiro, PendingOfRole
<1>1. /\ s.history \in Seq(KiroTurn(tools)) /\ s.history \in Seq(GoodTurn)
      /\ s.said \in Seq(GoodOf(TextKind)) /\ s.said \in Seq(Good)
  BY <1>0, KiroIs
<1>2. t \in KiroTurn(tools) /\ t.texts = s.said /\ t.uses = <<>> /\ t.results = <<>>
      /\ t.role = "assistant"
  <2>1. <<>> \in Seq(GoodOf({"use"})) /\ <<>> \in Seq(GoodOf(ResultKind)) /\ "assistant" \in Role
    BY EmptySeq DEF Role
  <2> QED
    BY <1>1, <2>1 DEF Turn, KiroTurn, GoodTurn
<1>3. /\ c.history = h /\ c.user = <<>> /\ c.results = <<>> /\ c.injected = s.injected
      /\ c.said = <<>> /\ c.role = s.role
      /\ c \in [history : {h}, user : {<<>>}, said : {<<>>}, results : {<<>>}, role : {s.role}, injected : {s.injected}]
  BY <1>0 DEF FlushPending, KiroState
<1> HIDE DEF t, h, c
<1>4. LongerBy(h, s.history, t, tools)
  <2>1. h = Append(s.history, t) /\ t \in KiroTurn(tools) /\ s.history \in Seq(KiroTurn(tools))
    BY <1>1, <1>2 DEF h
  <2> QED
    BY <2>1, TurnAppended
<1>5. Kiro(c, tools)
  <2>1. c \in KiroState(tools)
    <3>1. <<>> \in Seq(GoodOf(TextKind)) /\ <<>> \in Seq(GoodOf(ResultKind))
      BY EmptySeq
    <3>2. s.injected \in BOOLEAN
      BY <1>0, KiroIs
    <3> QED
      BY <1>3, <1>4, <3>1, <3>2 DEF KiroState, LongerBy
  <2>2. FirstHasTools(c, tools)
    BY <1>2, <1>3, <1>4 DEF FirstHasTools, Kiro, LongerBy
  <2> QED
    BY <1>3, <2>1, <2>2 DEF Kiro, PendingOfRole
<1>6. TextsIn(c) = TextsIn(s)
  <2> DEFINE a == Through(TextsOf, s.history)
  <2>1. a \in Seq(Good) /\ a \o s.said \in Seq(Good)
    BY <1>1, HistoryColumns, ConcatProperties
  <2> HIDE DEF a
  <2>2. (a \o s.said) \o <<>> = a \o s.said /\ <<>> \o s.said = s.said
    BY <1>1, <2>1, ConcatNothing
  <2>3. <<>> \o <<>> = <<>>
    OBVIOUS
  <2>4. TextsIn(c) = (a \o s.said) \o (<<>> \o <<>>)
    BY <1>2, <1>3, <1>4 DEF TextsIn, a, LongerBy
  <2>5. TextsIn(s) = a \o (<<>> \o s.said)
    BY <1>0 DEF TextsIn, a
  <2> QED
    BY <2>2, <2>3, <2>4, <2>5
<1>7. UsesIn(c) = UsesIn(s)
  <2>1. Through(UsesOf, s.history) \in Seq(Good)
    BY <1>1, HistoryColumns
  <2> QED
    BY <1>2, <1>3, <1>4, <2>1, ConcatNothing DEF UsesIn, LongerBy
<1>8. ResultsIn(c) = ResultsIn(s)
  <2> DEFINE a == Through(ResultsOf, s.history)
  <2>1. a \in Seq(Good)
    BY <1>1, HistoryColumns
  <2> HIDE DEF a
  <2>2. a \o <<>> = a
    BY <2>1, ConcatNothing
  <2> QED
    BY <1>0, <1>2, <1>3, <1>4, <2>2 DEF ResultsIn, a, LongerBy
<1>9. StartsWithUser(s) => StartsWithUser(c)
  BY <1>3, <1>4 DEF StartsWithUser, LongerBy
<1>10. c.history = Append(s.history, Turn("assistant", s.said, <<>>, <<>>, FALSE))
  BY <1>3 DEF h, t
<1> QED
  BY <1>3, <1>4, <1>5, <1>6, <1>7, <1>8, <1>9, <1>10 DEF c, LongerBy, SameColumns

LEMMA FlushKeeps ==
  ASSUME NEW tools \in BOOLEAN, NEW s, Kiro(s, tools)
  PROVE  LET c == FlushPending(s, tools) IN
         /\ Kiro(c, tools) /\ c.role = s.role
         /\ c.user = <<>> /\ c.said = <<>> /\ c.results = <<>>
         /\ SameColumns(c, s)
         /\ s.history # <<>> => c.history # <<>> /\ c.history[1] = s.history[1]
         /\ StartsWithUser(s) => c.history # <<>> /\ c.history[1].role = "user"
         /\ s.role = "user" => c.history # <<>> /\ c.history[Len(c.history)].role = "user"
<1>1. CASE s.role = "user"
  BY <1>1, FlushedUser DEF SameColumns
<1>2. CASE s.role = "assistant"
  BY <1>2, FlushedAssistant, ZenonT(40) DEF StartsWithUser
<1>3. CASE s.role \notin {"user", "assistant"}
  BY <1>3 DEF FlushPending, Kiro, PendingOfRole, SameColumns, StartsWithUser
<1> QED
  BY <1>1, <1>2, <1>3

\* The state after a change of role.
Turned(s, role, tools) == [(IF role # s.role THEN FlushPending(s, tools) ELSE s) EXCEPT !.role = role]
LEMMA TurnedIs ==
  ASSUME NEW tools \in BOOLEAN, NEW s, Kiro(s, tools), NEW role \in {"user", "assistant", "developer"}
  PROVE  LET c == Turned(s, role, tools) IN
         /\ Kiro(c, tools) /\ c.role = role /\ SameColumns(c, s)
         /\ s.history # <<>> => c.history # <<>> /\ c.history[1] = s.history[1]
         /\ StartsWithUser(s) => StartsWithUser(c)
         /\ s = NoTurns => c.history = <<>>
<1>0. s \in KiroState(tools)
  BY DEF Kiro
<1>1. CASE role = s.role
  <2>1. Turned(s, role, tools) = s
    BY <1>0, <1>1 DEF Turned, KiroState
  <2> QED
    BY <1>1, <2>1 DEF SameColumns, NoTurns
<1>2. CASE role # s.role
  <2> DEFINE d == FlushPending(s, tools)
             c == Turned(s, role, tools)
  <2>1. /\ Kiro(d, tools) /\ d.user = <<>> /\ d.said = <<>> /\ d.results = <<>>
        /\ SameColumns(d, s)
        /\ s.history # <<>> => d.history # <<>> /\ d.history[1] = s.history[1]
        /\ StartsWithUser(s) => d.history # <<>> /\ d.history[1].role = "user"
    BY FlushKeeps
  <2>2. c = [d EXCEPT !.role = role]
    BY <1>2 DEF Turned
  <2>3. s = NoTurns => d = s
    BY DEF FlushPending, NoTurns
  <2> HIDE DEF c, d
  <2>4. /\ c.history = d.history /\ c.user = d.user /\ c.said = d.said /\ c.results = d.results
        /\ c.injected = d.injected /\ c.role = role /\ c \in KiroState(tools)
    <3>1. d \in KiroState(tools)
      BY <2>1 DEF Kiro
    <3> QED
      BY <2>2, <3>1 DEF KiroState
  <2>5. Kiro(c, tools)
    BY <2>1, <2>4 DEF Kiro, PendingOfRole, FirstHasTools
  <2>6. SameColumns(c, s)
    BY <2>1, <2>4 DEF SameColumns, TextsIn, UsesIn, ResultsIn
  <2>7. s = NoTurns => c.history = <<>>
    BY <2>3, <2>4 DEF NoTurns
  <2> QED
    BY <2>1, <2>4, <2>5, <2>6, <2>7 DEF StartsWithUser, c
<1> QED
  BY <1>1, <1>2

\* Messages that Kiro's transform drops nothing of.
Exact == {m \in GoodMessage : m.role # "developer" /\ ~(m.role = "tool" /\ m.shape = "array")}

LEMMA MessageColumns ==
  ASSUME NEW m \in GoodMessage
  PROVE  /\ Texts(m.pieces) \in Seq(GoodOf(TextKind)) /\ Texts(m.pieces) = Through(Column(TextKind), m.pieces)
         /\ Uses(m.pieces) \in Seq(GoodOf({"use"})) /\ Uses(m.pieces) = Through(Column({"use"}), m.pieces)
         /\ Results(m.pieces) \in Seq(GoodOf(ResultKind)) /\ Results(m.pieces) = Through(Column(ResultKind), m.pieces)
         /\ m.role # "assistant" => Uses(m.pieces) = <<>>
         /\ m.role = "tool" => Texts(m.pieces) = <<>>
         /\ ~(m.role = "tool" \/ (m.role = "user" /\ m.shape = "array")) => Results(m.pieces) = <<>>
<1> DEFINE u == m.pieces
<1>1. u \in Seq(Good) /\ u \in Seq(GoodOf(KindsIn(m))) /\ m.role \in Role
  BY MessageIs
<1> HIDE DEF u
<1>2. Texts(u) \in Seq(GoodOf(TextKind)) /\ Texts(u) = Through(Column(TextKind), u)
  BY <1>1, KeptTyped DEF Texts, TextKind
<1>3. Uses(u) \in Seq(GoodOf({"use"})) /\ Uses(u) = Through(Column({"use"}), u)
  BY <1>1, KeptTyped DEF Uses
<1>4. Results(u) \in Seq(GoodOf(ResultKind)) /\ Results(u) = Through(Column(ResultKind), u)
  BY <1>1, KeptTyped DEF Results, ResultKind
<1>5. ASSUME m.role # "assistant" PROVE Through(Column({"use"}), u) = <<>>
  <2>1. {"use"} \cap KindsIn(m) = {}
    BY <1>5 DEF KindsIn, KindsOf, Instructs
  <2> QED
    BY <1>1, <2>1, ColumnOfNone
<1>6. ASSUME m.role = "tool" PROVE Through(Column(TextKind), u) = <<>>
  <2>1. TextKind \cap KindsIn(m) = {}
    BY <1>6 DEF KindsIn, KindsOf, Instructs, TextKind
  <2> QED
    BY <1>1, <2>1, ColumnOfNone
<1>7. ASSUME ~(m.role = "tool" \/ (m.role = "user" /\ m.shape = "array"))
      PROVE  Through(Column(ResultKind), u) = <<>>
  <2>1. ResultKind \cap KindsIn(m) = {}
    BY <1>7 DEF KindsIn, KindsOf, Instructs, ResultKind
  <2> QED
    BY <1>1, <2>1, ColumnOfNone
<1> QED
  BY <1>2, <1>3, <1>4, <1>5, <1>6, <1>7 DEF u

\* The columns with those of one more message.
Adds(c, s, m) ==
  /\ TextsIn(c) = TextsIn(s) \o Through(Column(TextKind), m.pieces)
  /\ UsesIn(c) = UsesIn(s) \o Through(Column({"use"}), m.pieces)
  /\ ResultsIn(c) = ResultsIn(s) \o Through(Column(ResultKind), m.pieces)

LEMMA ColumnsIn ==
  ASSUME NEW tools, NEW s \in KiroState(tools)
  PROVE  TextsIn(s) \in Seq(Good) /\ UsesIn(s) \in Seq(Good) /\ ResultsIn(s) \in Seq(Good)
<1>1. s.history \in Seq(GoodTurn) /\ s.user \in Seq(Good) /\ s.said \in Seq(Good) /\ s.results \in Seq(Good)
  BY KiroIs
<1>2. /\ Through(TextsOf, s.history) \in Seq(Good)
      /\ Through(UsesOf, s.history) \in Seq(Good)
      /\ Through(ResultsOf, s.history) \in Seq(Good)
  BY <1>1, HistoryColumns
<1>3. s.user \o s.said \in Seq(Good)
  BY <1>1, ConcatProperties
<1>4. Through(TextsOf, s.history) \o (s.user \o s.said) \in Seq(Good)
  BY <1>2, <1>3, ConcatProperties
<1>5. Through(ResultsOf, s.history) \o s.results \in Seq(Good)
  BY <1>1, <1>2, ConcatProperties
<1> QED
  BY <1>2, <1>4, <1>5 DEF TextsIn, UsesIn, ResultsIn

LEMMA ConcatThree ==
  ASSUME NEW a \in Seq(Good), NEW b \in Seq(Good), NEW c \in Seq(Good)
  PROVE  a \o (b \o c) = (a \o b) \o c
BY ConcatAssociative, SMTT(20)

LEMMA UserTaken ==
  ASSUME NEW tools \in BOOLEAN, NEW d, Kiro(d, tools), d.role = "user",
         NEW m \in GoodMessage, m.role \in {"user", "system", "tool"}
  PROVE  LET c == TakeUser(d, m) IN
         /\ Kiro(c, tools) /\ c.role = "user" /\ c.history = d.history
         /\ m \in Exact => Adds(c, d, m)
<1> DEFINE c == TakeUser(d, m)
           T == IF m.role = "tool" THEN <<>> ELSE Texts(m.pieces)
           R == IF m.shape = (IF m.role = "tool" THEN "string" ELSE "array") THEN Results(m.pieces) ELSE <<>>
<1>0. d \in KiroState(tools) /\ d.said = <<>>
  BY DEF Kiro, PendingOfRole
<1>1. /\ d.history \in Seq(GoodTurn)
      /\ d.user \in Seq(GoodOf(TextKind)) /\ d.user \in Seq(Good)
      /\ d.results \in Seq(GoodOf(ResultKind)) /\ d.results \in Seq(Good)
  BY <1>0, KiroIs
<1>2. T \in Seq(GoodOf(TextKind)) /\ R \in Seq(GoodOf(ResultKind))
  BY EmptySeq, MessageColumns
<1>3. T \in Seq(Good) /\ R \in Seq(Good)
  <2>1. T \in Seq(Good)
    BY <1>2, GoodSeq
  <2>2. R \in Seq(Good)
    BY <1>2, GoodSeq
  <2> QED
    BY <2>1, <2>2
<1>4. m \in Exact => /\ T = Through(Column(TextKind), m.pieces)
                     /\ <<>> = Through(Column({"use"}), m.pieces)
                     /\ R = Through(Column(ResultKind), m.pieces)
  <2>1. m.shape \in {"string", "array"}
    BY MessageIs
  <2> QED
    BY <2>1, MessageColumns DEF Exact
<1>5. c = [d EXCEPT !.user = d.user \o T, !.results = d.results \o R]
  <2>1. d.user \o <<>> = d.user
    BY <1>1, ConcatNothing
  <2>2. CASE m.role = "tool"
    BY <1>0, <2>1, <2>2 DEF TakeUser, KiroState
  <2>3. CASE m.role # "tool"
    BY <2>3 DEF TakeUser
  <2> QED
    BY <2>2, <2>3
<1> HIDE DEF c, T, R
<1>6. /\ c.user = d.user \o T /\ c.results = d.results \o R /\ c.said = <<>> /\ c.role = "user"
      /\ c.history = d.history /\ c.injected = d.injected
  BY <1>0, <1>5 DEF KiroState
<1>7. Kiro(c, tools)
  <2>1. d.user \o T \in Seq(GoodOf(TextKind))
    BY <1>1, <1>2, ConcatProperties
  <2>2. d.results \o R \in Seq(GoodOf(ResultKind))
    BY <1>1, <1>2, ConcatProperties
  <2>3. c \in KiroState(tools)
    BY <1>0, <1>5, <2>1, <2>2 DEF KiroState
  <2> QED
    BY <1>6, <2>3 DEF Kiro, PendingOfRole, FirstHasTools
<1>8. ASSUME m \in Exact PROVE Adds(c, d, m)
  <2> DEFINE a == Through(TextsOf, d.history)
             r == Through(ResultsOf, d.history)
             v == Through(UsesOf, d.history)
  <2>1. a \in Seq(Good) /\ r \in Seq(Good) /\ v \in Seq(Good)
    BY <1>1, HistoryColumns
  <2>2. TextsIn(c) = a \o ((d.user \o T) \o <<>>) /\ TextsIn(d) = a \o (d.user \o <<>>)
    BY <1>0, <1>6 DEF TextsIn
  <2>3. UsesIn(c) = v /\ UsesIn(d) = v
    BY <1>6 DEF UsesIn
  <2>4. ResultsIn(c) = r \o (d.results \o R) /\ ResultsIn(d) = r \o d.results
    BY <1>6 DEF ResultsIn
  <2> HIDE DEF a, r, v
  <2>5. d.user \o T \in Seq(Good)
    BY <1>1, <1>3, ConcatProperties
  <2>6. (d.user \o T) \o <<>> = d.user \o T /\ d.user \o <<>> = d.user /\ v \o <<>> = v
    BY <1>1, <2>1, <2>5, ConcatNothing
  <2>7. a \o (d.user \o T) = (a \o d.user) \o T
    <3>1. a \in Seq(Good) /\ d.user \in Seq(Good) /\ T \in Seq(Good)
      BY <1>1, <1>3, <2>1
    <3> QED
      BY <3>1, ConcatThree
  <2>8. r \o (d.results \o R) = (r \o d.results) \o R
    <3>1. r \in Seq(Good) /\ d.results \in Seq(Good) /\ R \in Seq(Good)
      BY <1>1, <1>3, <2>1
    <3> QED
      BY <3>1, ConcatThree
  <2> QED
    BY <1>4, <1>8, <2>2, <2>3, <2>4, <2>6, <2>7, <2>8 DEF Adds
<1> QED
  BY <1>6, <1>7, <1>8 DEF c

\* A turn, and the last turn of a history, with other uses.
WithUses(t, uses) == [t EXCEPT !.uses = uses]
LastWithUses(h, uses) == [h EXCEPT ![Len(h)].uses = uses]
LEMMA AppendExcept ==
  ASSUME NEW D, NEW s \in Seq(D), NEW t, NEW uses
  PROVE  LastWithUses(Append(s, t), uses) = Append(s, WithUses(t, uses))
<1> DEFINE E == D \cup {t, [t EXCEPT !.uses = uses]}
           a == Append(s, t)
           b == [t EXCEPT !.uses = uses]
<1>1. s \in Seq(E) /\ t \in E /\ b \in E
  <2>1. D \subseteq E
    OBVIOUS
  <2> QED
    BY <2>1, SeqMonotonic
<1>2. a[Len(a)] = t /\ Len(a) \in 1 .. Len(a) /\ a \in Seq(E) /\ Len(a) = Len(s) + 1
      /\ Len(s) \in Nat /\ \A i \in 1 .. Len(s) : a[i] = s[i]
  <2> HIDE DEF E
  <2> QED
    BY <1>1, AppendProperties
<1>3. [a EXCEPT ![Len(a)].uses = uses] = [a EXCEPT ![Len(a)] = b]
  <2> HIDE DEF E
  <2> QED
    BY <1>2
<1> HIDE DEF E, a, b
<1>4. /\ [a EXCEPT ![Len(a)] = b] \in Seq(E) /\ Len([a EXCEPT ![Len(a)] = b]) = Len(a)
      /\ \A j \in 1 .. Len(a) : [a EXCEPT ![Len(a)] = b][j] = IF j = Len(a) THEN b ELSE a[j]
  BY <1>1, <1>2, ExceptSeq
<1>5. /\ Append(s, b) \in Seq(E) /\ Len(Append(s, b)) = Len(s) + 1
      /\ \A i \in 1 .. Len(s) : Append(s, b)[i] = s[i]
      /\ Append(s, b)[Len(s) + 1] = b
  BY <1>1, AppendProperties
<1> DEFINE x == [a EXCEPT ![Len(a)] = b]
           y == Append(s, b)
<1>6. /\ x \in Seq(E) /\ y \in Seq(E) /\ Len(x) = Len(y)
      /\ \A j \in 1 .. Len(x) : x[j] = IF j = Len(a) THEN b ELSE a[j]
  BY <1>2, <1>4, <1>5
<1>7. /\ \A i \in 1 .. Len(s) : y[i] = s[i]
      /\ y[Len(s) + 1] = b /\ Len(y) = Len(s) + 1
  BY <1>5
<1> HIDE DEF x, y
<1>8. \A j \in 1 .. Len(x) : x[j] = y[j]
  BY <1>2, <1>6, <1>7
<1>9. x = y
  BY <1>6, <1>8, SeqEqual
<1> QED
  BY <1>3, <1>9 DEF x, y, a, b, LastWithUses, WithUses

LEMMA AssistantTaken ==
  ASSUME NEW tools \in BOOLEAN, NEW d, Kiro(d, tools), d.role = "assistant",
         NEW m \in GoodMessage, m.role = "assistant"
  PROVE  LET c == TakeAssistant(d, m, tools) IN
         /\ Kiro(c, tools) /\ Adds(c, d, m)
         /\ d.history # <<>> => c.history # <<>> /\ c.history[1] = d.history[1]
<1> DEFINE c == TakeAssistant(d, m, tools)
           T == Texts(m.pieces)
           U == Uses(m.pieces)
           e == [d EXCEPT !.said = @ \o T]
           f == FlushPending(e, tools)
           a == Through(TextsOf, d.history)
           r == Through(ResultsOf, d.history)
           v == Through(UsesOf, d.history)
<1>0. d \in KiroState(tools) /\ d.user = <<>> /\ d.results = <<>>
  BY DEF Kiro, PendingOfRole
<1>1. /\ d.history \in Seq(GoodTurn) /\ d.history \in Seq(KiroTurn(tools))
      /\ d.said \in Seq(GoodOf(TextKind)) /\ d.said \in Seq(Good)
  BY <1>0, KiroIs
<1>2. T \in Seq(GoodOf(TextKind)) /\ U \in Seq(GoodOf({"use"}))
      /\ T = Through(Column(TextKind), m.pieces) /\ U = Through(Column({"use"}), m.pieces)
      /\ <<>> = Through(Column(ResultKind), m.pieces)
  BY MessageColumns
<1>3. T \in Seq(Good) /\ U \in Seq(Good) /\ a \in Seq(Good) /\ r \in Seq(Good) /\ v \in Seq(Good)
  <2>1. T \in Seq(Good)
    BY <1>2, GoodSeq
  <2>2. U \in Seq(Good)
    BY <1>2, GoodSeq
  <2> QED
    BY <1>1, <2>1, <2>2, HistoryColumns
<1>4. c = IF U = <<>> THEN e ELSE [f EXCEPT !.history[Len(f.history)].uses = U, !.role = "none"]
  BY DEF TakeAssistant
<1> HIDE DEF c, T, U
<1>5. /\ e.said = d.said \o T /\ e.history = d.history /\ e.user = <<>> /\ e.results = <<>>
      /\ e.role = "assistant" /\ e.injected = d.injected
  BY <1>0 DEF KiroState
<1>6. d.said \o T \in Seq(GoodOf(TextKind)) /\ d.said \o T \in Seq(Good)
  <2>1. d.said \o T \in Seq(GoodOf(TextKind))
    BY <1>1, <1>2, ConcatProperties
  <2> QED
    BY <2>1, GoodSeq
<1>7. Kiro(e, tools)
  <2>1. e \in KiroState(tools)
    BY <1>0, <1>6 DEF KiroState
  <2> HIDE DEF e
  <2> QED
    BY <1>5, <2>1 DEF Kiro, PendingOfRole, FirstHasTools
<1> HIDE DEF e
<1>a. TextsIn(d) = a \o (<<>> \o d.said) /\ UsesIn(d) = v /\ ResultsIn(d) = r \o <<>>
  BY <1>0 DEF TextsIn, UsesIn, ResultsIn
<1> HIDE DEF a, r, v
<1>b. a \o (d.said \o T) = (a \o d.said) \o T
  <2>1. a \in Seq(Good) /\ d.said \in Seq(Good) /\ T \in Seq(Good)
    BY <1>1, <1>3
  <2> QED
    BY <2>1, ConcatThree
<1>c. <<>> \o d.said = d.said /\ r \o <<>> = r /\ <<>> \o (d.said \o T) = d.said \o T /\ v \o <<>> = v
  BY <1>1, <1>3, <1>6, ConcatNothing
<1>8. CASE U = <<>>
  <2>1. c = e
    BY <1>4, <1>8
  <2>2. TextsIn(e) = a \o (<<>> \o (d.said \o T)) /\ UsesIn(e) = v /\ ResultsIn(e) = r \o <<>>
    BY <1>5 DEF TextsIn, UsesIn, ResultsIn, a, r, v
  <2>3. Adds(e, d, m)
    BY <1>2, <1>8, <1>a, <1>b, <1>c, <2>2 DEF Adds
  <2> QED
    BY <1>5, <1>7, <2>1, <2>3 DEF c
<1>9. CASE U # <<>>
  <2> DEFINE t == Turn("assistant", d.said \o T, <<>>, <<>>, FALSE)
             t2 == Turn("assistant", d.said \o T, U, <<>>, FALSE)
             h == Append(d.history, t2)
  <2>1. /\ Kiro(f, tools) /\ f.role = "assistant"
        /\ f.user = <<>> /\ f.said = <<>> /\ f.results = <<>>
        /\ f.history = Append(d.history, t) /\ f.injected = d.injected
    <3>1. /\ Kiro(f, tools) /\ f.role = e.role
          /\ f.user = <<>> /\ f.said = <<>> /\ f.results = <<>>
          /\ f.history = Append(e.history, Turn("assistant", e.said, <<>>, <<>>, FALSE))
          /\ f.injected = e.injected
      BY <1>5, <1>7, FlushedAssistant
    <3> QED
      BY <1>5, <3>1
  <2>2. c = [f EXCEPT !.history[Len(f.history)].uses = U, !.role = "none"]
    BY <1>4, <1>9
  <2>3. [t EXCEPT !.uses = U] = t2
    <3> DEFINE p == d.said \o T
    <3> HIDE DEF p
    <3>1. \A w : [Turn("assistant", p, <<>>, <<>>, w) EXCEPT !.uses = U] = Turn("assistant", p, U, <<>>, w)
      BY DEF Turn
    <3> QED
      BY <3>1 DEF p
  <2> HIDE DEF f, t, t2
  <2>4. [f.history EXCEPT ![Len(f.history)].uses = U] = h
    <3>1. LastWithUses(Append(d.history, t), U) = Append(d.history, WithUses(t, U))
      BY <1>1, AppendExcept
    <3> QED
      BY <2>1, <2>3, <3>1 DEF LastWithUses, WithUses
  <2>5. /\ c.history = h /\ c.user = <<>> /\ c.said = <<>> /\ c.results = <<>> /\ c.role = "none"
        /\ c.injected = d.injected
        /\ c \in [history : {h}, user : {<<>>}, said : {<<>>}, results : {<<>>}, role : {"none"},
                  injected : {d.injected}]
    <3>1. f \in KiroState(tools)
      BY <2>1 DEF Kiro
    <3>2. c = [f EXCEPT !.history = [f.history EXCEPT ![Len(f.history)].uses = U], !.role = "none"]
      BY <2>2, <3>1 DEF KiroState
    <3>3. c = [f EXCEPT !.history = h, !.role = "none"]
      BY <2>4, <3>2
    <3> HIDE DEF h
    <3> QED
      BY <2>1, <3>1, <3>3 DEF KiroState
  <2>6. t2 \in KiroTurn(tools) /\ t2.texts = d.said \o T /\ t2.uses = U /\ t2.results = <<>>
        /\ t2.role = "assistant"
    <3>1. <<>> \in Seq(GoodOf(ResultKind)) /\ "assistant" \in Role
      BY EmptySeq DEF Role
    <3> QED
      BY <1>2, <1>6, <3>1 DEF Turn, KiroTurn, GoodTurn, t2
  <2>7. LongerBy(h, d.history, t2, tools)
    <3>1. h = Append(d.history, t2)
      OBVIOUS
    <3> HIDE DEF h
    <3> QED
      BY <1>1, <2>6, <3>1, TurnAppended
  <2> HIDE DEF h
  <2>8. Kiro(c, tools)
    <3>1. <<>> \in Seq(GoodOf(TextKind)) /\ <<>> \in Seq(GoodOf(ResultKind))
      BY EmptySeq
    <3>2. d.injected \in BOOLEAN
      BY <1>0, KiroIs
    <3>3. c \in KiroState(tools)
      BY <2>5, <2>7, <3>1, <3>2 DEF KiroState, LongerBy
    <3>4. FirstHasTools(c, tools)
      BY <2>5, <2>6, <2>7 DEF FirstHasTools, Kiro, LongerBy
    <3> QED
      BY <2>5, <3>3, <3>4 DEF Kiro, PendingOfRole
  <2>9. TextsIn(c) = (a \o (d.said \o T)) \o (<<>> \o <<>>) /\ UsesIn(c) = v \o U
        /\ ResultsIn(c) = (r \o <<>>) \o <<>>
    BY <2>5, <2>6, <2>7 DEF TextsIn, UsesIn, ResultsIn, LongerBy, a, r, v
  <2>10. (a \o (d.said \o T)) \o <<>> = a \o (d.said \o T) /\ <<>> \o <<>> = <<>>
    <3>1. a \o (d.said \o T) \in Seq(Good)
      BY <1>3, <1>6, ConcatProperties
    <3> QED
      BY <3>1, ConcatNothing
  <2>11. Adds(c, d, m)
    BY <1>2, <1>a, <1>b, <1>c, <2>9, <2>10 DEF Adds
  <2>12. d.history # <<>> => c.history # <<>> /\ c.history[1] = d.history[1]
    BY <2>5, <2>7 DEF LongerBy
  <2> QED
    BY <2>8, <2>11, <2>12 DEF c
<1> QED
  BY <1>8, <1>9

LEMMA MessageTaken ==
  ASSUME NEW tools \in BOOLEAN, NEW s, Kiro(s, tools), NEW m \in GoodMessage
  PROVE  LET c == TakeMessage(s, m, tools) IN
         /\ Kiro(c, tools)
         /\ m \in Exact => Adds(c, s, m)
         /\ m \in Exact /\ m.role # "assistant" => c.role = "user"
         /\ StartsWithUser(s) => StartsWithUser(c)
         /\ s = NoTurns /\ m \in Exact /\ m.role # "assistant" => StartsWithUser(c)
<1> DEFINE role == IF m.role \in {"system", "tool"} THEN "user" ELSE m.role
           d == Turned(s, role, tools)
           c == TakeMessage(s, m, tools)
<1>0. m.role \in Role
  BY MessageIs
<1>1. /\ role \in {"user", "assistant", "developer"}
      /\ role = "user" <=> m.role \in {"user", "system", "tool"}
      /\ role = "assistant" <=> m.role = "assistant"
  BY <1>0 DEF Role
<1>2. c = CASE role = "user" -> TakeUser(d, m)
            [] role = "assistant" -> TakeAssistant(d, m, tools)
            [] OTHER -> d
  BY DEF TakeMessage, Turned
<1> HIDE DEF role, c
<1>3. /\ Kiro(d, tools) /\ d.role = role /\ SameColumns(d, s)
      /\ s.history # <<>> => d.history # <<>> /\ d.history[1] = s.history[1]
      /\ StartsWithUser(s) => StartsWithUser(d)
      /\ s = NoTurns => d.history = <<>>
  BY <1>1, TurnedIs
<1> HIDE DEF d
<1>4. CASE role = "user"
  <2>1. c = TakeUser(d, m)
    BY <1>2, <1>4
  <2>2. Kiro(c, tools) /\ c.role = "user" /\ c.history = d.history /\ (m \in Exact => Adds(c, d, m))
    BY <1>1, <1>3, <1>4, <2>1, UserTaken
  <2>3. Adds(c, d, m) => Adds(c, s, m)
    BY <1>3 DEF Adds, SameColumns
  <2> QED
    BY <1>3, <1>4, <2>2, <2>3 DEF StartsWithUser, c
<1>5. CASE role = "assistant"
  <2>1. c = TakeAssistant(d, m, tools)
    BY <1>2, <1>5
  <2>2. Kiro(c, tools) /\ Adds(c, d, m) /\ (d.history # <<>> => c.history # <<>> /\ c.history[1] = d.history[1])
    BY <1>1, <1>3, <1>5, <2>1, AssistantTaken
  <2>3. Adds(c, s, m)
    BY <1>3, <2>2 DEF Adds, SameColumns
  <2>4. StartsWithUser(d) => StartsWithUser(c)
    BY <1>3, <1>5, <2>2 DEF StartsWithUser
  <2> QED
    BY <1>1, <1>3, <1>5, <2>2, <2>3, <2>4 DEF c
<1>6. CASE role = "developer"
  <2>1. c = d
    BY <1>2, <1>6
  <2>2. m.role = "developer"
    BY <1>6 DEF role
  <2> QED
    BY <1>3, <2>1, <2>2 DEF Exact, c
<1> QED
  BY <1>1, <1>4, <1>5, <1>6

\* The state after all messages.
LEMMA TakenKiro ==
  ASSUME NEW tools \in BOOLEAN, NEW ms \in Seq(GoodMessage), NEW r, r = Taken(ms, tools)
  PROVE  /\ Kiro(r, tools)
         /\ ms \in Seq(Exact) => Has(r, AllPieces(ms))
         /\ ms \in Seq(Exact) /\ ms # <<>> /\ ms[Len(ms)].role # "assistant" => r.role = "user"
         /\ ms \in Seq(Exact) /\ ms # <<>> /\ ms[1].role # "assistant" => StartsWithUser(r)
<1> DEFINE Result(u, x) ==
             /\ Kiro(x, tools)
             /\ u \in Seq(Exact) => Has(x, AllPieces(u))
             /\ u \in Seq(Exact) /\ u # <<>> /\ u[Len(u)].role # "assistant" => x.role = "user"
             /\ u \in Seq(Exact) /\ u # <<>> /\ u[1].role # "assistant" => StartsWithUser(x)
           T == {u \in Seq(GoodMessage) : \A x : FoldsTo(x, "take", NoTurns, u, tools) => Result(u, x)}
<1>1. <<>> \in T
  <2> SUFFICES ASSUME NEW x, FoldsTo(x, "take", NoTurns, <<>>, tools) PROVE Result(<<>>, x)
    BY EmptySeq
  <2>1. x = NoTurns
    BY FoldsEmpty
  <2>2. AllPieces(<<>>) = <<>>
    <3>1. Through(PiecesIn, <<>>) = <<>>
      BY ThroughEmpty
    <3>2. <<>> \in Seq(GoodMessage)
      BY EmptySeq
    <3> QED
      BY <3>1, <3>2, AllPiecesIs
  <2>3. \A h : Through(h, <<>>) = <<>>
    BY ThroughEmpty
  <2>4. Kiro(x, tools) /\ TextsIn(x) = <<>> /\ UsesIn(x) = <<>> /\ ResultsIn(x) = <<>>
    BY <2>1, NoTurnsIs
  <2>5. Has(x, AllPieces(<<>>))
    BY <2>2, <2>3, <2>4 DEF Has
  <2> QED
    BY <2>4, <2>5
<1>2. ASSUME NEW u \in T, NEW m \in GoodMessage PROVE Append(u, m) \in T
  <2> DEFINE a == Append(u, m)
  <2>0. u \in Seq(GoodMessage) /\ \A x : FoldsTo(x, "take", NoTurns, u, tools) => Result(u, x)
    OBVIOUS
  <2>1. /\ a \in Seq(GoodMessage) /\ Len(a) = Len(u) + 1 /\ Len(u) \in Nat
        /\ \A i \in 1 .. Len(u) : a[i] = u[i]
        /\ a[Len(u) + 1] = m
    BY <2>0, AppendProperties
  <2> HIDE DEF T
  <2>2. ASSUME a \in Seq(Exact) PROVE u \in Seq(Exact) /\ m \in Exact
    <3>1. \A i \in 1 .. Len(a) : a[i] \in Exact
      BY <2>2, ElementOfSeq
    <3> HIDE DEF a
    <3>2. \A i \in 1 .. Len(u) : u[i] \in Exact
      BY <2>1, <3>1
    <3>3. m \in Exact
      <4>1. Len(u) + 1 \in 1 .. Len(a)
        BY <2>1
      <4> QED
        BY <2>1, <3>1, <4>1
    <3> QED
      BY <2>0, <3>2, <3>3
  <2>3. ASSUME NEW x, FoldsTo(x, "take", NoTurns, a, tools) PROVE Result(a, x)
    <3>1. PICK q : FoldsTo(q, "take", NoTurns, u, tools) /\ x = FoldStep("take", q, m, tools)
      BY <2>0, <2>3, FoldsAppend
    <3>2. Result(u, q)
      BY <2>0, <3>1
    <3>3. x = TakeMessage(q, m, tools)
      BY <3>1 DEF FoldStep
    <3>4. Kiro(q, tools)
      BY <3>2
    <3>5. /\ Kiro(x, tools)
          /\ m \in Exact => Adds(x, q, m)
          /\ m \in Exact /\ m.role # "assistant" => x.role = "user"
          /\ StartsWithUser(q) => StartsWithUser(x)
          /\ q = NoTurns /\ m \in Exact /\ m.role # "assistant" => StartsWithUser(x)
      <4> HIDE DEF Result
      <4> QED
        BY <3>3, <3>4, MessageTaken
    <3>6. ASSUME a \in Seq(Exact) PROVE Has(x, AllPieces(a))
      <4>1. Has(q, AllPieces(u)) /\ m \in Exact
        BY <2>2, <3>2, <3>6
      <4>2. Adds(x, q, m)
        BY <3>5, <4>1
      <4>3. AllPieces(a) = AllPieces(u) \o m.pieces /\ AllPieces(u) \in Seq(Good) /\ m.pieces \in Seq(Good)
        <5>1. Through(PiecesIn, Append(u, m)) = Through(PiecesIn, u) \o PiecesIn[m]
          BY <2>0, PiecesInTyped, ThroughAppend
        <5>2. AllPieces(a) = Through(PiecesIn, a)
          <6> HIDE DEF a
          <6> QED
            BY <2>1, AllPiecesIs
        <5>3. AllPieces(u) = Through(PiecesIn, u) /\ AllPieces(u) \in Seq(Good)
          BY <2>0, AllPiecesIs
        <5>4. PiecesIn[m] = m.pieces /\ m.pieces \in Seq(Good)
          BY MessageIs DEF PiecesIn
        <5> QED
          BY <5>1, <5>2, <5>3, <5>4
      <4> DEFINE v == AllPieces(u)
                 w == m.pieces
      <4> HIDE DEF v, w, a, Result
      <4>4. v \in Seq(Good) /\ w \in Seq(Good) /\ AllPieces(a) = v \o w
        BY <4>3 DEF v, w
      <4>5. \A kinds : Through(Column(kinds), v \o w) = Through(Column(kinds), v) \o Through(Column(kinds), w)
        <5> SUFFICES ASSUME NEW kinds
                     PROVE  Through(Column(kinds), v \o w)
                            = Through(Column(kinds), v) \o Through(Column(kinds), w)
          OBVIOUS
        <5>1. Joins(Column(kinds), Good)
          BY ColumnTyped, ThroughJoins
        <5> QED
          BY <4>4, <5>1 DEF Joins
      <4>6. /\ TextsIn(x) = Through(Column(TextKind), v) \o Through(Column(TextKind), w)
            /\ UsesIn(x) = Through(Column({"use"}), v) \o Through(Column({"use"}), w)
            /\ ResultsIn(x) = Through(Column(ResultKind), v) \o Through(Column(ResultKind), w)
        BY <4>1, <4>2 DEF Has, Adds, v, w
      <4> QED
        BY <4>4, <4>5, <4>6 DEF Has
    <3>7. ASSUME a \in Seq(Exact), a[Len(a)].role # "assistant" PROVE x.role = "user"
      <4>1. m \in Exact /\ m.role # "assistant"
        BY <2>1, <2>2, <3>7
      <4> QED
        BY <3>5, <4>1
    <3>8. ASSUME a \in Seq(Exact), a[1].role # "assistant" PROVE StartsWithUser(x)
      <4>1. CASE u = <<>>
        <5>1. q = NoTurns
          BY <3>1, <4>1, FoldsEmpty
        <5>2. a[1] = m
          BY <2>1, <4>1
        <5> QED
          BY <2>2, <3>5, <3>8, <5>1, <5>2
      <4>2. CASE u # <<>>
        <5>1. a[1] = u[1]
          <6>1. 1 \in 1 .. Len(u)
            BY <2>0, <4>2
          <6> QED
            BY <2>1, <6>1
        <5>2. StartsWithUser(q)
          BY <2>2, <3>2, <3>8, <4>2, <5>1
        <5> QED
          BY <3>5, <5>2
      <4> QED
        BY <4>1, <4>2
    <3> QED
      BY <3>5, <3>6, <3>7, <3>8
  <2> QED
    BY <2>1, <2>3 DEF T
<1> HIDE DEF T
<1>3. T = Seq(GoodMessage)
  BY <1>1, <1>2, SequenceInduction DEF T
<1>4. FoldsTo(r, "take", NoTurns, ms, tools)
  BY TakenFolds
<1>5. Result(ms, r)
  BY <1>3, <1>4 DEF T
<1> QED
  BY <1>5

\* The columns of turns with those of one more.
WithTurn(h2, h, t, tools) ==
  /\ h2 \in Seq(KiroTurn(tools))
  /\ Through(TextsOf, h2) = Through(TextsOf, h) \o t.texts
  /\ Through(UsesOf, h2) = Through(UsesOf, h) \o t.uses
  /\ Through(ResultsOf, h2) = Through(ResultsOf, h) \o t.results

LEMMA KiroTurnIs ==
  ASSUME NEW tools, NEW t \in KiroTurn(tools)
  PROVE  /\ t \in GoodTurn /\ t.role \in {"user", "assistant"} /\ (t.role = "user" => t.uses = <<>>)
         /\ t.tools \in BOOLEAN /\ (t.tools => tools)
         /\ t.texts \in Seq(GoodOf(TextKind)) /\ t.texts \in Seq(Good)
         /\ t.uses \in Seq(GoodOf({"use"})) /\ t.uses \in Seq(Good)
         /\ t.results \in Seq(GoodOf(ResultKind)) /\ t.results \in Seq(Good)
<1>1. t \in GoodTurn /\ t.role \in {"user", "assistant"} /\ (t.role = "user" => t.uses = <<>>) /\ (t.tools => tools)
  BY DEF KiroTurn
<1> QED
  BY <1>1, TurnIs

Replaced(x, h, n, e, D) ==
  x \in Seq(D) /\ Len(x) = Len(h) /\ \A j \in 1 .. Len(h) : x[j] = IF j = n THEN e ELSE h[j]
LEMMA ReplacedIs ==
  ASSUME NEW D, NEW h \in Seq(D), NEW n \in 1 .. Len(h), NEW e \in D, NEW x, x = [h EXCEPT ![n] = e]
  PROVE  Replaced(x, h, n, e, D)
BY DEF Replaced

LEMMA MergeTwo ==
  ASSUME NEW tools, NEW front \in Seq(KiroTurn(tools)), NEW last \in KiroTurn(tools),
         NEW t \in KiroTurn(tools), t.role = "user", last.role = "user",
         NEW h, h = Append(front, last)
  PROVE  WithTurn(Merge(h, t), h, t, tools)
<1> DEFINE new == [last EXCEPT !.texts = @ \o t.texts, !.results = @ \o t.results]
           h2 == Append(front, new)
<1>1. /\ last \in GoodTurn /\ last.uses = <<>> /\ t.uses = <<>>
      /\ last.texts \in Seq(GoodOf(TextKind)) /\ last.texts \in Seq(Good)
      /\ last.results \in Seq(GoodOf(ResultKind)) /\ last.results \in Seq(Good)
      /\ t.texts \in Seq(GoodOf(TextKind)) /\ t.texts \in Seq(Good)
      /\ t.results \in Seq(GoodOf(ResultKind)) /\ t.results \in Seq(Good)
  BY KiroTurnIs
<1>2. /\ new \in KiroTurn(tools) /\ new.texts = last.texts \o t.texts /\ new.uses = <<>>
      /\ new.results = last.results \o t.results
  <2>1. last.texts \o t.texts \in Seq(GoodOf(TextKind))
    BY <1>1, ConcatProperties
  <2>2. last.results \o t.results \in Seq(GoodOf(ResultKind))
    BY <1>1, ConcatProperties
  <2> QED
    BY <1>1, <2>1, <2>2 DEF KiroTurn, GoodTurn
<1> HIDE DEF new
<1>3. /\ h \in Seq(KiroTurn(tools)) /\ h # <<>> /\ h[Len(h)] = last /\ Len(h) = Len(front) + 1
      /\ Len(front) \in Nat /\ \A i \in 1 .. Len(front) : h[i] = front[i]
  BY AppendProperties
<1>4. Merge(h, t) = h2
  <2>1. Merge(h, t) = [h EXCEPT ![Len(h)].texts = @ \o t.texts, ![Len(h)].results = @ \o t.results]
    BY <1>3 DEF Merge
  <2>2. Merge(h, t) = [h EXCEPT ![Len(h)] = new]
    BY <1>3, <2>1 DEF new
  <2> DEFINE x == [h EXCEPT ![Len(h)] = new]
             y == h2
  <2>3. /\ x \in Seq(KiroTurn(tools)) /\ Len(x) = Len(h)
        /\ \A j \in 1 .. Len(h) : x[j] = IF j = Len(h) THEN new ELSE h[j]
    <3> DEFINE D == KiroTurn(tools)
               n == Len(h)
    <3>1. n \in 1 .. Len(h) /\ h \in Seq(D) /\ new \in D
      BY <1>2, <1>3
    <3>a. x = [h EXCEPT ![n] = new]
      OBVIOUS
    <3> HIDE DEF D, n, x
    <3>2. Replaced(x, h, n, new, D)
      BY <3>1, <3>a, ReplacedIs
    <3> QED
      BY <3>2 DEF D, n, Replaced
  <2>4. /\ y \in Seq(KiroTurn(tools)) /\ Len(y) = Len(front) + 1
        /\ \A i \in 1 .. Len(front) : y[i] = front[i]
        /\ y[Len(front) + 1] = new
    BY <1>2, AppendProperties
  <2> HIDE DEF x, y
  <2>5. \A j \in 1 .. Len(x) : x[j] = y[j]
    BY <1>3, <2>3, <2>4
  <2>6. x = y
    BY <1>3, <2>3, <2>4, <2>5, SeqEqual
  <2> QED
    BY <2>2, <2>6 DEF x, y
<1>5. LongerBy(h2, front, new, tools)
  <2>1. h2 = Append(front, new)
    OBVIOUS
  <2> HIDE DEF h2
  <2> QED
    BY <1>2, <2>1, TurnAppended
<1>6. LongerBy(h, front, last, tools)
  BY TurnAppended
<1> HIDE DEF h2
<1> DEFINE a == Through(TextsOf, front)
           v == Through(UsesOf, front)
           r == Through(ResultsOf, front)
<1>7. a \in Seq(Good) /\ v \in Seq(Good) /\ r \in Seq(Good)
  <2>1. front \in Seq(GoodTurn)
    BY KiroTurnsAreGood
  <2> QED
    BY <2>1, HistoryColumns
<1>8. /\ Through(TextsOf, h2) = a \o (last.texts \o t.texts) /\ Through(TextsOf, h) = a \o last.texts
      /\ Through(UsesOf, h2) = v \o <<>> /\ Through(UsesOf, h) = v \o <<>>
      /\ Through(ResultsOf, h2) = r \o (last.results \o t.results) /\ Through(ResultsOf, h) = r \o last.results
      /\ h2 \in Seq(KiroTurn(tools))
  BY <1>1, <1>2, <1>5, <1>6 DEF LongerBy
<1> HIDE DEF a, v, r
<1>9. a \o (last.texts \o t.texts) = (a \o last.texts) \o t.texts
  <2>1. a \in Seq(Good) /\ last.texts \in Seq(Good) /\ t.texts \in Seq(Good)
    BY <1>1, <1>7
  <2> QED
    BY <2>1, ConcatThree
<1>10. r \o (last.results \o t.results) = (r \o last.results) \o t.results
  <2>1. r \in Seq(Good) /\ last.results \in Seq(Good) /\ t.results \in Seq(Good)
    BY <1>1, <1>7
  <2> QED
    BY <2>1, ConcatThree
<1>11. v \o <<>> = v
  BY <1>7, ConcatNothing
<1> QED
  BY <1>1, <1>4, <1>8, <1>9, <1>10, <1>11 DEF WithTurn

LEMMA MergeIs ==
  ASSUME NEW tools, NEW h \in Seq(KiroTurn(tools)), NEW t \in KiroTurn(tools)
  PROVE  WithTurn(Merge(h, t), h, t, tools)
<1>1. CASE h # <<>> /\ t.role = "user" /\ h[Len(h)].role = "user"
  <2> DEFINE front == SubSeq(h, 1, Len(h) - 1)
             last == h[Len(h)]
  <2>1. front \in Seq(KiroTurn(tools)) /\ last \in KiroTurn(tools) /\ h = Append(front, last)
    BY <1>1
  <2> HIDE DEF front
  <2> QED
    BY <1>1, <2>1, MergeTwo
<1>2. CASE ~(h # <<>> /\ t.role = "user" /\ h[Len(h)].role = "user")
  <2>1. Merge(h, t) = Append(h, t)
    BY <1>2 DEF Merge
  <2>2. LongerBy(Append(h, t), h, t, tools)
    BY TurnAppended
  <2> QED
    BY <2>1, <2>2 DEF LongerBy, WithTurn
<1> QED
  BY <1>1, <1>2

\* The columns of two sequences of turns.
SameTurns(h2, h, tools) ==
  /\ h2 \in Seq(KiroTurn(tools))
  /\ Through(TextsOf, h2) = Through(TextsOf, h)
  /\ Through(UsesOf, h2) = Through(UsesOf, h)
  /\ Through(ResultsOf, h2) = Through(ResultsOf, h)

LEMMA MergedIs ==
  ASSUME NEW tools, NEW history \in Seq(KiroTurn(tools))
  PROVE  SameTurns(Merged(history), history, tools)
<1> DEFINE T == {u \in Seq(KiroTurn(tools)) :
                   \A x : FoldsTo(x, "merge", <<>>, u, "none") => SameTurns(x, u, tools)}
<1>1. <<>> \in T
  <2> SUFFICES ASSUME NEW x, FoldsTo(x, "merge", <<>>, <<>>, "none") PROVE SameTurns(x, <<>>, tools)
    BY EmptySeq
  <2>1. x = <<>>
    BY FoldsEmpty
  <2> QED
    BY <2>1, EmptySeq DEF SameTurns
<1>2. ASSUME NEW u \in T, NEW t \in KiroTurn(tools) PROVE Append(u, t) \in T
  <2> DEFINE a == Append(u, t)
  <2>0. u \in Seq(KiroTurn(tools)) /\ \A x : FoldsTo(x, "merge", <<>>, u, "none") => SameTurns(x, u, tools)
    OBVIOUS
  <2> HIDE DEF T
  <2>1. a \in Seq(KiroTurn(tools))
    BY <2>0, AppendProperties
  <2>2. LongerBy(a, u, t, tools)
    BY <2>0, TurnAppended
  <2>3. ASSUME NEW x, FoldsTo(x, "merge", <<>>, a, "none") PROVE SameTurns(x, a, tools)
    <3>1. PICK q : FoldsTo(q, "merge", <<>>, u, "none") /\ x = FoldStep("merge", q, t, "none")
      <4> DEFINE D == KiroTurn(tools)
      <4>1. u \in Seq(D) /\ t \in D
        BY <2>0
      <4> HIDE DEF D
      <4> QED
        BY <2>3, <4>1, FoldsAppend
    <3>2. SameTurns(q, u, tools)
      BY <2>0, <3>1
    <3>3. x = Merge(q, t)
      BY <3>1 DEF FoldStep
    <3>4. q \in Seq(KiroTurn(tools))
      BY <3>2 DEF SameTurns
    <3>5. WithTurn(x, q, t, tools)
      BY <3>3, <3>4, MergeIs
    <3> HIDE DEF a
    <3> QED
      BY <2>2, <3>2, <3>5 DEF SameTurns, LongerBy, WithTurn
  <2> QED
    BY <2>1, <2>3 DEF T
<1> HIDE DEF T
<1>3. T = Seq(KiroTurn(tools))
  BY <1>1, <1>2, SequenceInduction DEF T
<1>4. FoldsTo(Merged(history), "merge", <<>>, history, "none")
  BY MergedFolds
<1> QED
  BY <1>3, <1>4 DEF T

LEMMA LargestNumber ==
  ASSUME NEW n \in Nat, NEW T \in SUBSET (1 .. n), T # {}
  PROVE  \E i \in T : \A k \in T : k <= i
<1> DEFINE U == {j \in Nat : n - j \in T}
<1>1. U \in SUBSET Nat /\ U # {}
  <2>1. PICK i \in T : TRUE
    OBVIOUS
  <2>2. n - i \in Nat /\ n - (n - i) = i
    OBVIOUS
  <2>3. n - i \in U
    BY <2>1, <2>2
  <2> QED
    BY <2>3
<1>2. PICK j \in U : \A k \in U : j <= k
  <2> HIDE DEF U
  <2> QED
    BY <1>1, LeastNumber
<1>3. n - j \in T
  OBVIOUS
<1>4. \A k \in T : k <= n - j
  <2> SUFFICES ASSUME NEW k \in T PROVE k <= n - j
    OBVIOUS
  <2>1. n - k \in Nat /\ n - (n - k) = k
    OBVIOUS
  <2>2. n - k \in U
    BY <2>1
  <2>3. j <= n - k /\ j \in Nat
    BY <1>2, <2>2
  <2> QED
    BY <2>3
<1> QED
  BY <1>3, <1>4

\* The parts of ConvertMessages, of the turns of the flushed state.
UserTurns(turns) == {i \in DOMAIN turns : turns[i].role = "user"}
CurrentAt(turns) ==
  IF UserTurns(turns) = {} THEN 0
  ELSE CHOOSE i \in UserTurns(turns) : \A k \in UserTurns(turns) : k <= i
Past(turns) == IF CurrentAt(turns) = 0 THEN turns ELSE RemoveAt(turns, CurrentAt(turns))
Current(turns) ==
  IF CurrentAt(turns) = 0 THEN Turn("user", <<>>, <<>>, <<>>, FALSE) ELSE turns[CurrentAt(turns)]
KiroInput(ms, tools) == IF tools THEN ms ELSE Flatten(ms)
KiroTurns(ms, tools) == FlushPending(Taken(KiroInput(ms, tools), tools), tools).history

LEMMA ConvertIs ==
  ASSUME NEW ms, NEW tools
  PROVE  LET turns == KiroTurns(ms, tools) IN
         ConvertMessages(ms, tools) =
           [turns |-> Append(Merged(Past(turns)), Current(turns)),
            tools |-> Current(turns).tools \/ (Past(turns) # <<>> /\ Past(turns)[1].tools)]
BY DEF ConvertMessages, KiroTurns, KiroInput, Past, Current, CurrentAt, UserTurns

LEMMA CurrentIs ==
  ASSUME NEW tools, NEW turns \in Seq(KiroTurn(tools))
  PROVE  /\ Current(turns) \in KiroTurn(tools)
         /\ Past(turns) \in Seq(KiroTurn(tools))
<1> DEFINE at == CurrentAt(turns)
           U == UserTurns(turns)
<1>0. Len(turns) \in Nat /\ DOMAIN turns = 1 .. Len(turns)
  OBVIOUS
<1>1. CASE U = {}
  <2>1. at = 0
    BY <1>1 DEF CurrentAt
  <2>2. Turn("user", <<>>, <<>>, <<>>, FALSE) \in KiroTurn(tools)
    <3>1. /\ <<>> \in Seq(GoodOf({"use"})) /\ <<>> \in Seq(GoodOf(ResultKind))
          /\ <<>> \in Seq(GoodOf(TextKind)) /\ "user" \in Role
      BY EmptySeq DEF Role
    <3> QED
      BY <3>1 DEF Turn, KiroTurn, GoodTurn
  <2> QED
    BY <2>1, <2>2 DEF Past, Current
<1>2. CASE U # {}
  <2>1. U \in SUBSET (1 .. Len(turns))
    BY <1>0 DEF UserTurns
  <2>2. \E i \in U : \A k \in U : k <= i
    <3> HIDE DEF U
    <3> QED
      BY <1>0, <1>2, <2>1, LargestNumber
  <2>3. at \in U
    BY <1>2, <2>2 DEF CurrentAt
  <2>4. at \in 1 .. Len(turns)
    BY <2>1, <2>3
  <2> HIDE DEF at, U
  <2>5. turns[at] \in KiroTurn(tools)
    BY <2>4, ElementOfSeq
  <2>6. RemoveAt(turns, at) \in Seq(KiroTurn(tools))
    <3> DEFINE D == KiroTurn(tools)
    <3>1. turns \in Seq(D)
      OBVIOUS
    <3> HIDE DEF D
    <3>2. SubSeq(turns, 1, at - 1) \in Seq(D) /\ SubSeq(turns, at + 1, Len(turns)) \in Seq(D)
      BY <2>4, <3>1
    <3>3. SubSeq(turns, 1, at - 1) \o SubSeq(turns, at + 1, Len(turns)) \in Seq(D)
      BY <3>2, ConcatProperties
    <3> QED
      BY <3>3 DEF RemoveAt, D
  <2> QED
    <3>1. at # 0
      BY <2>4
    <3>2. Current(turns) = turns[at]
      BY <3>1 DEF Current, at
    <3>3. Past(turns) = RemoveAt(turns, at)
      BY <3>1 DEF Past, at
    <3> QED
      BY <2>5, <2>6, <3>2, <3>3
<1> QED
  BY <1>1, <1>2

\* A last turn that is the user's is the current one.
LEMMA LastIsCurrent ==
  ASSUME NEW tools, NEW turns \in Seq(KiroTurn(tools)), turns # <<>>, turns[Len(turns)].role = "user"
  PROVE  /\ Current(turns) = turns[Len(turns)]
         /\ turns = Append(Past(turns), Current(turns))
<1> DEFINE at == CurrentAt(turns)
           U == UserTurns(turns)
           n == Len(turns)
           front == SubSeq(turns, 1, n - 1)
<1>0. n \in Nat /\ n # 0 /\ DOMAIN turns = 1 .. n
  OBVIOUS
<1>1. n \in U /\ \A k \in U : k <= n /\ k \in Nat
  BY <1>0 DEF UserTurns
<1>2. at = n
  <2>1. at = CHOOSE i \in U : \A k \in U : k <= i
    BY <1>1 DEF CurrentAt
  <2>2. at \in U /\ \A k \in U : k <= at
    BY <1>1, <2>1
  <2> HIDE DEF at, U
  <2> QED
    BY <1>0, <1>1, <2>2
<1>3. Current(turns) = turns[n]
  BY <1>0, <1>2 DEF Current
<1>4. Past(turns) = front
  <2> DEFINE D == KiroTurn(tools)
  <2>1. turns \in Seq(D)
    OBVIOUS
  <2> HIDE DEF D
  <2>2. front \in Seq(D) /\ SubSeq(turns, n + 1, n) = <<>>
    BY <1>0, <2>1
  <2>3. front \o <<>> = front
    <3> HIDE DEF front
    <3> QED
      BY <2>2, ConcatEmptySeq
  <2>4. RemoveAt(turns, n) = front \o <<>>
    BY <2>2 DEF RemoveAt
  <2> QED
    BY <1>0, <1>2, <2>3, <2>4 DEF Past
<1>5. turns = Append(front, turns[n])
  BY <1>0
<1> QED
  BY <1>3, <1>4, <1>5

LEMMA ConvertTyped ==
  ASSUME NEW tools \in BOOLEAN, NEW ms, KiroInput(ms, tools) \in Seq(GoodMessage)
  PROVE  /\ ConvertMessages(ms, tools).turns \in Seq(GoodTurn)
         /\ KiroTurns(ms, tools) \in Seq(KiroTurn(tools))
<1> DEFINE input == KiroInput(ms, tools)
           r == Taken(input, tools)
           turns == KiroTurns(ms, tools)
<1>1. Kiro(r, tools)
  <2> HIDE DEF input
  <2> QED
    BY TakenKiro DEF input
<1>2. Kiro(FlushPending(r, tools), tools)
  <2> HIDE DEF r
  <2> QED
    BY <1>1, FlushKeeps
<1>3. turns \in Seq(KiroTurn(tools))
  <2>1. turns = FlushPending(r, tools).history
    BY DEF KiroTurns
  <2> HIDE DEF r, turns
  <2> QED
    BY <1>2, <2>1, KiroIs DEF Kiro
<1> HIDE DEF turns, r, input
<1>4. Current(turns) \in KiroTurn(tools) /\ Past(turns) \in Seq(KiroTurn(tools))
  BY <1>3, CurrentIs
<1>5. Merged(Past(turns)) \in Seq(KiroTurn(tools))
  BY <1>4, MergedIs DEF SameTurns
<1>6. Append(Merged(Past(turns)), Current(turns)) \in Seq(KiroTurn(tools))
  BY <1>4, <1>5, AppendProperties
<1>7. ConvertMessages(ms, tools).turns = Append(Merged(Past(turns)), Current(turns))
  BY ConvertIs DEF turns
<1>8. ConvertMessages(ms, tools).turns \in Seq(GoodTurn)
  BY <1>6, <1>7, KiroTurnsAreGood
<1> QED
  BY <1>3, <1>8 DEF turns

\* Nothing is lost when the conversation ends with the user.
LEMMA ConvertCarries ==
  ASSUME NEW tools \in BOOLEAN, NEW ms, NEW input, input = KiroInput(ms, tools),
         input \in Seq(GoodMessage), input \in Seq(Exact), input # <<>>,
         input[Len(input)].role # "assistant",
         NEW c, c = ConvertMessages(ms, tools)
  PROVE  /\ Carries(c.turns, AllPieces(input))
         /\ input[1].role # "assistant" => (c.tools <=> tools)
<1> DEFINE r == Taken(input, tools)
           f == FlushPending(r, tools)
           turns == KiroTurns(ms, tools)
<1>1. /\ Kiro(r, tools) /\ Has(r, AllPieces(input)) /\ r.role = "user"
      /\ input[1].role # "assistant" => StartsWithUser(r)
  BY TakenKiro
<1> HIDE DEF r
<1>2. /\ Kiro(f, tools) /\ f.user = <<>> /\ f.said = <<>> /\ f.results = <<>>
      /\ SameColumns(f, r)
      /\ StartsWithUser(r) => f.history # <<>> /\ f.history[1].role = "user"
      /\ f.history # <<>> /\ f.history[Len(f.history)].role = "user"
  BY <1>1, FlushKeeps
<1>3. turns = f.history
  BY DEF KiroTurns, r
<1> HIDE DEF f, turns
<1>4. /\ turns \in Seq(KiroTurn(tools)) /\ turns \in Seq(GoodTurn)
      /\ turns # <<>> /\ turns[Len(turns)].role = "user"
      /\ FirstHasTools(f, tools)
  BY <1>2, <1>3, KiroIs DEF Kiro
<1> DEFINE past == Past(turns)
           current == Current(turns)
           merged == Merged(past)
<1>5. past \in Seq(KiroTurn(tools)) /\ current \in KiroTurn(tools) /\ turns = Append(past, current)
      /\ current = turns[Len(turns)]
  <2>1. past \in Seq(KiroTurn(tools)) /\ current \in KiroTurn(tools)
    BY <1>4, CurrentIs
  <2>2. turns = Append(past, current) /\ current = turns[Len(turns)]
    BY <1>4, LastIsCurrent
  <2> QED
    BY <2>1, <2>2
<1>6. /\ c.turns = Append(merged, current)
      /\ c.tools <=> (current.tools \/ (past # <<>> /\ past[1].tools))
  BY ConvertIs DEF turns
<1> HIDE DEF past, current
<1>7. SameTurns(merged, past, tools)
  BY <1>5, MergedIs
<1> HIDE DEF merged
<1>8. LongerBy(turns, past, current, tools)
  BY <1>5, TurnAppended
<1>9. LongerBy(c.turns, merged, current, tools)
  <2>1. merged \in Seq(KiroTurn(tools))
    BY <1>7 DEF SameTurns
  <2> QED
    BY <1>5, <1>6, <2>1, TurnAppended
<1>10. c.turns \in Seq(GoodTurn)
  BY <1>9, KiroTurnsAreGood DEF LongerBy
<1>11. /\ Through(TextsOf, c.turns) = Through(TextsOf, turns)
       /\ Through(UsesOf, c.turns) = Through(UsesOf, turns)
       /\ Through(ResultsOf, c.turns) = Through(ResultsOf, turns)
  BY <1>7, <1>8, <1>9 DEF LongerBy, SameTurns
<1>12. /\ TextsIn(f) = Through(TextsOf, turns) /\ UsesIn(f) = Through(UsesOf, turns)
       /\ ResultsIn(f) = Through(ResultsOf, turns)
  <2>1. <<>> \o <<>> = <<>>
    OBVIOUS
  <2>2. Through(TextsOf, turns) \o <<>> = Through(TextsOf, turns)
    BY <1>4, HistoryColumns, ConcatNothing
  <2>3. Through(ResultsOf, turns) \o <<>> = Through(ResultsOf, turns)
    BY <1>4, HistoryColumns, ConcatNothing
  <2> QED
    BY <1>2, <1>3, <2>1, <2>2, <2>3 DEF TextsIn, UsesIn, ResultsIn
<1>13. Carries(c.turns, AllPieces(input))
  BY <1>1, <1>2, <1>10, <1>11, <1>12 DEF Carries, Has, SameColumns
<1>14. ASSUME input[1].role # "assistant" PROVE c.tools <=> tools
  <2>1. current.tools => tools
    BY <1>5, KiroTurnIs
  <2>2. past # <<>> => (past[1].tools => tools)
    <3> SUFFICES ASSUME past # <<>> PROVE past[1].tools => tools
      OBVIOUS
    <3>1. past[1] \in KiroTurn(tools)
      BY <1>5
    <3> QED
      BY <3>1, KiroTurnIs
  <2>3. turns[1].tools <=> tools
    BY <1>1, <1>2, <1>3, <1>4, <1>14 DEF FirstHasTools
  <2>4. turns[1] = IF past = <<>> THEN current ELSE past[1]
    BY <1>8 DEF LongerBy
  <2> QED
    BY <1>6, <2>1, <2>2, <2>3, <2>4
<1> QED
  BY <1>13, <1>14

-----------------------------------------------------------------------------
(* Without tools, what Kiro is told is all text.                           *)

TextOf(p) == IF p.kind \in {"use", "result", "error"} THEN [p EXCEPT !.kind = "text"] ELSE p
Voiced == [p \in Good |-> <<TextOf(p)>>]
Voice == {"text", "use", "result", "error"}

LEMMA TextOfIs ==
  ASSUME NEW p \in Good
  PROVE  /\ TextOf(p) \in Good /\ TextOf(p).id = p.id
         /\ TextOf(p).kind = IF p.kind \in {"use", "result", "error"} THEN "text" ELSE p.kind
         /\ p.kind \notin {"use", "result", "error"} => TextOf(p) = p
<1>1. /\ p = [kind |-> p.kind, id |-> p.id, squeezed |-> p.squeezed]
      /\ p.kind \in Plain /\ p.id \in Nat /\ p.squeezed \in BOOLEAN
      /\ (p.squeezed => setup.rtk /\ p.id \in Squeezable)
      /\ (p.kind = "result" => p.id \in Squeezable)
  BY GoodIs
<1> DEFINE q == [kind |-> "text", id |-> p.id, squeezed |-> p.squeezed]
<1>2. q \in Good /\ q.id = p.id /\ q.kind = "text"
  BY <1>1 DEF Good, Pieces, Plain
<1>3. CASE p.kind \in {"use", "result", "error"}
  <2>1. TextOf(p) = q
    BY <1>1, <1>3 DEF TextOf
  <2> HIDE DEF q
  <2> QED
    BY <1>2, <1>3, <2>1
<1>4. CASE p.kind \notin {"use", "result", "error"}
  BY <1>4 DEF TextOf
<1> QED
  BY <1>3, <1>4

LEMMA VoicedTyped == Maps(Voiced, Good, Good)
BY TextOfIs DEF Voiced, Maps

LEMMA AsTextIs ==
  ASSUME NEW s \in Seq(Good)
  PROVE  /\ AsText(s) \in Seq(Good) /\ Len(AsText(s)) = Len(s)
         /\ \A j \in 1 .. Len(s) : AsText(s)[j] = TextOf(s[j])
         /\ AsText(s) = Through(Voiced, s)
<1>0. \A j \in 1 .. Len(s) : s[j] \in Good
  BY ElementOfSeq
<1>1. AsText(s) = [j \in 1 .. Len(s) |-> TextOf(s[j])] /\ Len(s) \in Nat
  BY DEF AsText, TextOf
<1>2. /\ AsText(s) \in Seq(Good) /\ Len(AsText(s)) = Len(s)
      /\ \A j \in 1 .. Len(s) : AsText(s)[j] = TextOf(s[j])
  <2>1. \A j \in 1 .. Len(s) : TextOf(s[j]) \in Good
    BY <1>0, TextOfIs
  <2> QED
    BY <1>1, <2>1
<1> DEFINE t == AsText(s)
<1>3. \A j \in 1 .. Len(s) : Voiced[s[j]] = <<t[j]>>
  BY <1>0, <1>2 DEF Voiced
<1> HIDE DEF t
<1>4. Through(Voiced, s) = t
  <2> DEFINE h == Voiced
  <2>1. t \in Seq(Good) /\ Len(s) = Len(t)
    BY <1>2 DEF t
  <2>2. Maps(h, Good, Good) /\ \A j \in 1 .. Len(s) : h[s[j]] = <<t[j]>>
    BY <1>3, VoicedTyped
  <2> HIDE DEF h
  <2>3. Through(h, s) = t
    BY <2>1, <2>2, MapStands
  <2> QED
    BY <2>3 DEF h
<1> QED
  BY <1>2, <1>4 DEF t

\* One message of Flatten.
FlatOf(m) ==
  IF m.role = "tool" THEN Message("user", "string", AsText(m.pieces))
  ELSE IF m.role = "assistant" THEN Message("assistant", "string", AsText(m.pieces))
  ELSE IF m.role = "user" /\ m.shape = "array" THEN [m EXCEPT !.pieces = AsText(@)]
  ELSE m

LEMMA FlatOfIs ==
  ASSUME NEW m \in GoodMessage
  PROVE  /\ FlatOf(m) \in GoodMessage
         /\ FlatOf(m).role = IF m.role = "tool" THEN "user" ELSE m.role
         /\ FlatOf(m).pieces = Through(Voiced, m.pieces)
         /\ m.role # "developer" => FlatOf(m) \in Exact
<1> DEFINE s == m.pieces
           t == AsText(s)
<1>1. /\ m.role \in Role /\ m.shape \in {"string", "array"} /\ s \in Seq(Good)
      /\ s \in Seq(GoodOf(KindsIn(m)))
      /\ m = Message(m.role, m.shape, s)
      /\ m.role = "developer" \/ (m.role = "tool" /\ m.shape = "array" /\ sender.tools) => DropsMessages
  BY MessageIs
<1> HIDE DEF s
<1>2. /\ t \in Seq(Good) /\ Len(t) = Len(s)
      /\ \A j \in 1 .. Len(s) : t[j] = TextOf(s[j])
      /\ t = Through(Voiced, s)
  BY <1>1, AsTextIs
<1>3. \A j \in 1 .. Len(s) : s[j] \in Good /\ s[j].kind \in KindsIn(m)
  BY <1>1, GoodSeqKinds
<1> HIDE DEF t
<1>4. \A j \in 1 .. Len(s) : t[j].kind = IF s[j].kind \in {"use", "result", "error"} THEN "text" ELSE s[j].kind
  BY <1>2, <1>3, TextOfIs
<1>5. CASE m.role = "tool"
  <2>1. \A j \in 1 .. Len(t) : t[j].kind \in {"text"}
    BY <1>2, <1>3, <1>4, <1>5 DEF KindsIn, KindsOf, Instructs
  <2>2. KindsIn(Message("user", "string", t)) = {"text"}
    BY DEF KindsIn, KindsOf, Instructs, Message
  <2>3. t \in Seq(GoodOf({"text"}))
    BY <1>2, <2>1, GoodSeqWhen
  <2>4. Message("user", "string", t) \in GoodMessage
    <3>1. "user" \in Role
      BY DEF Role
    <3> QED
      BY <1>2, <2>2, <2>3, <3>1, MessageWhen
  <2>5. FlatOf(m) = Message("user", "string", t)
    BY <1>5 DEF FlatOf, t, s
  <2> QED
    BY <1>2, <1>5, <2>4, <2>5 DEF Message, Exact, s
<1>6. CASE m.role = "assistant"
  <2>1. \A j \in 1 .. Len(t) : t[j].kind \in {"text", "use"}
    BY <1>2, <1>3, <1>4, <1>6 DEF KindsIn, KindsOf, Instructs
  <2>2. KindsIn(Message("assistant", "string", t)) = {"text", "use"}
    BY DEF KindsIn, KindsOf, Instructs, Message
  <2>3. t \in Seq(GoodOf({"text", "use"}))
    BY <1>2, <2>1, GoodSeqWhen
  <2>4. Message("assistant", "string", t) \in GoodMessage
    <3>1. "assistant" \in Role
      BY DEF Role
    <3> QED
      BY <1>2, <2>2, <2>3, <3>1, MessageWhen
  <2>5. FlatOf(m) = Message("assistant", "string", t)
    BY <1>6 DEF FlatOf, t, s
  <2> QED
    BY <1>2, <1>6, <2>4, <2>5 DEF Message, Exact, s
<1>7. CASE m.role = "user" /\ m.shape = "array"
  <2>1. \A j \in 1 .. Len(t) : t[j].kind \in KindsIn(m)
    BY <1>2, <1>3, <1>4, <1>7 DEF KindsIn, KindsOf, Instructs
  <2>2. KindsIn(Message("user", "array", t)) = KindsIn(m)
    BY <1>7 DEF KindsIn, KindsOf, Instructs, Message
  <2>3. t \in Seq(GoodOf(KindsIn(m)))
    BY <1>2, <2>1, GoodSeqWhen
  <2>4. Message("user", "array", t) \in GoodMessage
    <3>1. "user" \in Role
      BY DEF Role
    <3> QED
      BY <1>2, <2>2, <2>3, <3>1, MessageWhen
  <2>5. FlatOf(m) = Message("user", "array", t)
    <3>1. FlatOf(m) = [m EXCEPT !.pieces = t]
      BY <1>7 DEF FlatOf, t, s
    <3> QED
      BY <1>1, <1>7, <3>1 DEF Message
  <2> QED
    BY <1>2, <1>7, <2>4, <2>5 DEF Message, Exact, s
<1>8. CASE m.role \in {"system", "developer"} \/ (m.role = "user" /\ m.shape = "string")
  <2>1. FlatOf(m) = m
    BY <1>8 DEF FlatOf
  <2>2. \A j \in 1 .. Len(s) : s[j].kind \notin {"use", "result", "error"}
    BY <1>3, <1>8 DEF KindsIn, KindsOf, Instructs
  <2>3. \A j \in 1 .. Len(s) : t[j] = s[j]
    BY <1>2, <1>3, <2>2, TextOfIs
  <2>4. t = s
    BY <1>1, <1>2, <2>3, SeqEqual
  <2> QED
    BY <1>2, <1>8, <2>1, <2>4 DEF Exact, s
<1> QED
  BY <1>1, <1>5, <1>6, <1>7, <1>8 DEF Role

LEMMA FlattenIs ==
  ASSUME NEW ms \in Seq(GoodMessage), NEW ns, ns = Flatten(ms)
  PROVE  /\ ns \in Seq(GoodMessage) /\ Len(ns) = Len(ms)
         /\ AllPieces(ns) = Through(Voiced, AllPieces(ms))
         /\ \A i \in 1 .. Len(ms) : ns[i].role = IF ms[i].role = "tool" THEN "user" ELSE ms[i].role
         /\ (\A i \in 1 .. Len(ms) : ms[i].role # "developer") => ns \in Seq(Exact)
<1>0. (\A i \in 1 .. Len(ms) : ms[i] \in GoodMessage) /\ DOMAIN ms = 1 .. Len(ms) /\ Len(ms) \in Nat
  BY ElementOfSeq
<1>1. ns = [i \in 1 .. Len(ms) |-> FlatOf(ms[i])]
  BY <1>0 DEF Flatten, FlatOf
<1>2. ASSUME NEW i \in 1 .. Len(ms)
      PROVE  /\ ns[i] \in GoodMessage
             /\ ns[i].role = IF ms[i].role = "tool" THEN "user" ELSE ms[i].role
             /\ ns[i].pieces = Through(Voiced, ms[i].pieces)
             /\ ms[i].role # "developer" => ns[i] \in Exact
  BY <1>0, <1>1, FlatOfIs
<1>3. ns \in Seq(GoodMessage) /\ Len(ns) = Len(ms)
  BY <1>0, <1>1, <1>2
<1>4. ASSUME \A i \in 1 .. Len(ms) : ms[i].role # "developer" PROVE ns \in Seq(Exact)
  <2>1. \A i \in 1 .. Len(ms) : ns[i] \in Exact
    BY <1>2, <1>4
  <2> QED
    BY <1>0, <1>1, <2>1
<1>5. AllPieces(ns) = Through(Voiced, AllPieces(ms))
  <2> DEFINE g == InMessages(Voiced)
  <2>1. \A i \in 1 .. Len(ms) : PiecesIn[ns[i]] = g[ms[i]]
    BY <1>0, <1>2 DEF PiecesIn, InMessages
  <2> HIDE DEF g
  <2>2. DOMAIN ns = DOMAIN ms
    BY <1>0, <1>1
  <2>3. Through(PiecesIn, ns) = Through(g, ms)
    BY <1>0, <2>1, <2>2, SameStands
  <2>4. Through(Voiced, AllPieces(ms)) = Through(g, ms)
    BY VoicedTyped, MessageByMessage DEF g
  <2>5. AllPieces(ns) = Through(PiecesIn, ns)
    BY <1>3, AllPiecesIs
  <2> QED
    BY <2>3, <2>4, <2>5
<1> QED
  BY <1>2, <1>3, <1>4, <1>5

LEMMA VoicedSpoken ==
  ASSUME NEW s \in Seq(Good)
  PROVE  /\ Through(Spoken({"text"}), Through(Voiced, s)) = Through(Spoken(Voice), s)
         /\ Through(Added, Through(Voiced, s)) = Through(Added, s)
         /\ Through(Voiced, s) \in Seq(Good)
<1> DEFINE g == Spoken({"text"})
           k == Spoken(Voice)
<1>0. Maps(g, Good, Nat) /\ Maps(k, Good, Nat)
  BY SpokenTyped
<1>a. \A d \in Good : TextOf(d) \in Good /\ Voiced[d] = <<TextOf(d)>>
  BY TextOfIs DEF Voiced
<1>1. Composes(k, g, Voiced, Good)
  <2> SUFFICES ASSUME NEW d \in Good PROVE k[d] = Through(g, Voiced[d])
    BY DEF Composes
  <2> DEFINE e == TextOf(d)
  <2>1. k[d] = IF d.kind \in Voice THEN <<d.id>> ELSE <<>>
    BY SpokenAt
  <2>2. e \in Good /\ e.id = d.id
        /\ e.kind = IF d.kind \in {"use", "result", "error"} THEN "text" ELSE d.kind
    BY TextOfIs
  <2> HIDE DEF e
  <2>3. g[e] = IF e.kind \in {"text"} THEN <<e.id>> ELSE <<>>
    BY <2>2, SpokenAt
  <2> HIDE DEF g, k
  <2>4. Through(g, <<e>>) = g[e]
    BY <1>0, <2>2, ThroughSingle
  <2> QED
    BY <1>a, <2>1, <2>2, <2>3, <2>4 DEF e, Voice
<1>2. Composes(Added, Added, Voiced, Good)
  <2> SUFFICES ASSUME NEW d \in Good PROVE Added[d] = Through(Added, Voiced[d])
    BY DEF Composes
  <2> DEFINE e == TextOf(d)
  <2>1. Added[d] = IF d.kind \in {"prompt"} THEN <<d>> ELSE <<>>
    BY ColumnAt DEF Added, Column
  <2>2. e \in Good /\ (d.kind \notin {"use", "result", "error"} => e = d)
        /\ e.kind = IF d.kind \in {"use", "result", "error"} THEN "text" ELSE d.kind
    BY TextOfIs
  <2> HIDE DEF e
  <2>3. Added[e] = IF e.kind \in {"prompt"} THEN <<e>> ELSE <<>>
    BY <2>2, ColumnAt DEF Added, Column
  <2>4. Through(Added, <<e>>) = Added[e]
    BY <2>2, BareTyped, ThroughSingle
  <2> QED
    BY <1>a, <2>1, <2>2, <2>3, <2>4 DEF e
<1> HIDE DEF g, k
<1>3. Through(g, Through(Voiced, s)) = Through(k, s)
  BY <1>0, <1>1, VoicedTyped, ThroughTwice
<1>4. Through(Added, Through(Voiced, s)) = Through(Added, s)
  BY <1>2, BareTyped, VoicedTyped, ThroughTwice
<1>5. Through(Voiced, s) \in Seq(Good)
  BY VoicedTyped, ThroughTyped
<1> QED
  BY <1>3, <1>4, <1>5 DEF g, k

-----------------------------------------------------------------------------
(* The inductive invariant.                                                *)

\* Object.assign runs on the body of a combo, and again on every copy of it.
Twice == setup.forced /\ (stage = "loop" \/ members > 0)
Once == IF setup.augment THEN <<Prompt>> ELSE <<>>

SenderInv ==
  /\ setup.augment \in BOOLEAN /\ setup.rtk \in BOOLEAN /\ setup.forced \in BOOLEAN
  /\ sender.format \in {"openai", "anthropic"} /\ sender.tools \in BOOLEAN
  /\ Fresh(sender.body) /\ sender.body.messages # <<>>
  /\ sender.format = "openai" => sender.body.system = "absent"

\* Kiro's body, of messages alone, has come of the one it was converted from.
ConvertedFrom(b, c) ==
  /\ Through(Bare, AllPieces(c.messages)) = Through(Bare, Line(b))
  /\ Kin(b.messages, c.messages)
Systemless(b) == b \in GoodBody /\ b.system = "absent"

Staged ==
  /\ target \in Target \cup {"none"}
  /\ stage \in {"dispatched", "combo", "loop", "handler", "augmented", "sent", "answered"}
  /\ stage \in {"dispatched", "handler", "augmented"} => target \in Target
  /\ members \in 0 .. MaxMembers
Waiting ==
  /\ body \in GoodBody
  /\ sender.format = "openai" => body.system = "absent"
  /\ ~Twice => Same(sender.body, body)
  /\ stage \in {"dispatched", "combo"} => body = sender.body /\ members = 0
  /\ stage = "handler" => copy = body /\ (members = 0 => body = sender.body)
Augmented ==
  stage = "augmented" =>
    /\ copy \in GoodBody
    /\ sender.format = "openai" => copy.system = "absent"
    /\ ~Twice => Same(sender.body, copy)
    /\ members = 0 => Through(Added, Line(copy)) = Once
    /\ target = "kiro" =>
         /\ Systemless(openai)
         /\ ~Twice => ConvertedFrom(sender.body, openai)
         /\ members = 0 /\ ~AugmentationLost => Through(Added, AllPieces(openai.messages)) = Once

\* What the upstream reads, and what comes back.
Conveyed(p) ==
  /\ IF target = "kiro" /\ ~sender.tools THEN Said(p.turns) = Flattened
     ELSE /\ Said(p.turns) = Said(Original)
          /\ Called(p.turns) = Called(Original)
          /\ Returned(p.turns) = Returned(Original)
  /\ Untouched(p.turns)
  /\ p.tools = sender.tools \/ Head(sender.body.messages).role = "assistant"
  /\ members = 0 /\ ~AugmentationLost =>
       Len(Prompts(p.turns)) = IF setup.augment THEN 1 ELSE 0
Forth ==
  stage = "sent" /\ ~ConvertedTwice /\ ~(target = "kiro" /\ (DropsMessages \/ AssistantEnds)) =>
    Conveyed(sent)
NothingLost(a) ==
  /\ \A kind \in Block : Ids(Only(a.to, kind)) = Ids(Only(a.from, kind))
  /\ Len(a.from) = Len(a.to)

BodyInv ==
  SenderInv /\ Staged /\ Waiting /\ Augmented /\ sent.turns \in Seq(GoodTurn) /\ Forth /\ NothingLost(answer)

LEMMA BodyImplies == BodyInv => BodyTypeOK /\ ConversationReachesUpstream
<1> SUFFICES ASSUME BodyInv PROVE BodyTypeOK /\ ConversationReachesUpstream
  OBVIOUS
<1>1. Payloads(sent)
  BY PayloadRoles DEF BodyInv
<1>2. BodyTypeOK
  BY <1>1 DEF BodyInv, SenderInv, Staged, NothingLost, BodyTypeOK
<1>3. ConversationReachesUpstream
  BY DEF BodyInv, Forth, Conveyed, NothingLost, ConversationReachesUpstream
<1> QED
  BY <1>2, <1>3

-----------------------------------------------------------------------------
(* What has come of a body carries the conversation.                       *)

LEMMA FreshIs ==
  ASSUME NEW b, Fresh(b)
  PROVE  /\ b \in GoodBody /\ b.prompt \in Seq(GoodOf({"text"})) /\ b.messages \in Seq(Unprompted)
         /\ b.prompt \in Seq(Good) /\ b.messages \in Seq(GoodMessage)
<1>1. b \in GoodBody /\ b.prompt \in Seq(GoodOf({"text"})) /\ b.messages \in Seq(Unprompted)
  BY DEF Fresh
<1> QED
  BY <1>1, BodyIs

LEMMA FreshConverted == ASSUME NEW b, Fresh(b) PROVE Fresh(AnthropicToOpenAI(b))
<1> DEFINE c == AnthropicToOpenAI(b)
           m == Message("system", IF b.system = "string" THEN "string" ELSE "array", b.prompt)
<1>1. b \in GoodBody /\ b.prompt \in Seq(GoodOf({"text"})) /\ b.messages \in Seq(Unprompted)
  BY FreshIs
<1>2. c \in GoodBody /\ c.prompt = <<>>
  BY <1>1, ConvertedBody
<1>3. CASE b.system = "absent"
  BY <1>3 DEF AnthropicToOpenAI
<1>4. CASE b.system # "absent"
  <2>1. c.messages = <<m>> \o b.messages
    BY <1>4 DEF AnthropicToOpenAI, NoBody
  <2>2. m \in GoodMessage /\ m.pieces = b.prompt
    <3>1. c.messages[1] = m /\ 1 \in 1 .. Len(c.messages)
      <4> HIDE DEF m, c
      <4> QED
        BY <1>1, <2>1
    <3>2. c.messages \in Seq(GoodMessage)
      BY <1>2, BodyIs
    <3>3. m \in GoodMessage
      <4> HIDE DEF m, c
      <4> QED
        BY <3>1, <3>2, ElementOfSeq
    <3> QED
      BY <3>3 DEF Message
  <2>3. b.prompt \in Seq(GoodOf(Plain \ {"prompt"}))
    <3>1. GoodOf({"text"}) \subseteq GoodOf(Plain \ {"prompt"})
      BY DEF GoodOf, Plain
    <3> QED
      BY <1>1, <3>1, SeqMonotonic
  <2>4. m \in Unprompted
    BY <2>2, <2>3 DEF Unprompted
  <2>5. c.messages \in Seq(Unprompted)
    <3> HIDE DEF m, c
    <3>1. <<m>> \in Seq(Unprompted)
      BY <2>4
    <3> QED
      BY <1>1, <2>1, <3>1, ConcatProperties
  <2>6. c.prompt \in Seq(GoodOf({"text"}))
    BY <1>2, EmptySeq
  <2> QED
    BY <1>2, <2>5, <2>6 DEF Fresh
<1> QED
  BY <1>1, <1>3, <1>4

\* A body after the augmentation and RTK.
Treated(b) ==
  IF setup.rtk THEN Squeeze(IF setup.augment THEN Augment(b) ELSE b)
  ELSE IF setup.augment THEN Augment(b) ELSE b

LEMMA TreatedBody ==
  ASSUME NEW b \in GoodBody
  PROVE  /\ Treated(b) \in GoodBody
         /\ Same(b, Treated(b))
         /\ Fresh(b) => Through(Added, Line(Treated(b))) = Once
<1> DEFINE a == IF setup.augment THEN Augment(b) ELSE b
<1>1. Same(b, a)
  BY SameItself, AugmentedBody
<1>2. Fresh(b) => Through(Added, Line(a)) = Once
  BY AugmentedBody, FreshLine DEF Once
<1>3. Treated(b) = IF setup.rtk THEN Squeeze(a) ELSE a
  BY DEF Treated
<1> HIDE DEF a
<1>4. a \in GoodBody
  BY <1>1 DEF Same
<1>5. CASE setup.rtk
  <2>1. Same(a, Squeeze(a)) /\ Through(Added, Line(a)) = Through(Added, Line(Squeeze(a)))
    BY <1>4, <1>5, SqueezedBody
  <2>2. Same(b, Squeeze(a))
    BY <1>1, <2>1, SameAgain
  <2>3. Squeeze(a) \in GoodBody
    BY <2>1 DEF Same
  <2> QED
    BY <1>2, <1>3, <1>5, <2>1, <2>2, <2>3
<1>6. CASE ~setup.rtk
  BY <1>1, <1>2, <1>3, <1>4, <1>6
<1> QED
  BY <1>5, <1>6

LEMMA SpokenAgree ==
  ASSUME NEW kinds, NEW k1, NEW k2, k1 \cap kinds = k2 \cap kinds, NEW s \in Seq(GoodOf(kinds))
  PROVE  Through(Spoken(k1), s) = Through(Spoken(k2), s)
<1>1. \A i \in 1 .. Len(s) : s[i] \in Good /\ s[i].kind \in kinds
  BY GoodSeqKinds
<1> DEFINE h == Spoken(k1)
           g == Spoken(k2)
<1>2. \A i \in 1 .. Len(s) : h[s[i]] = g[s[i]]
  <2> SUFFICES ASSUME NEW i \in 1 .. Len(s) PROVE h[s[i]] = g[s[i]]
    OBVIOUS
  <2> DEFINE p == s[i]
  <2>1. p \in Good /\ p.kind \in kinds
    BY <1>1
  <2> HIDE DEF p
  <2>2. h[p] = IF p.kind \in k1 THEN <<p.id>> ELSE <<>>
    BY <2>1, SpokenAt
  <2>3. g[p] = IF p.kind \in k2 THEN <<p.id>> ELSE <<>>
    BY <2>1, SpokenAt
  <2>4. p.kind \in k1 <=> p.kind \in k2
    BY <2>1
  <2> QED
    BY <2>2, <2>3, <2>4 DEF p
<1> HIDE DEF h, g
<1>3. DOMAIN s = 1 .. Len(s)
  OBVIOUS
<1>4. Through(h, s) = Through(g, s)
  BY <1>2, <1>3, SameStands
<1> QED
  BY <1>4 DEF h, g

LEMMA UnpromptedPieces ==
  ASSUME NEW ms \in Seq(Unprompted) PROVE AllPieces(ms) \in Seq(GoodOf(Plain \ {"prompt"}))
<1> DEFINE S == GoodOf(Plain \ {"prompt"})
           ss == [i \in DOMAIN ms |-> ms[i].pieces]
<1>1. \A i \in 1 .. Len(ms) : ms[i].pieces \in Seq(S)
  <2>1. \A i \in 1 .. Len(ms) : ms[i] \in Unprompted
    BY ElementOfSeq
  <2> QED
    BY <2>1 DEF Unprompted
<1> HIDE DEF S
<1>2. ss \in Seq(Seq(S))
  BY <1>1
<1> HIDE DEF ss
<1>3. FlattenSeq(ss) \in Seq(S)
  BY <1>2, FlattenTyped
<1> QED
  BY <1>3 DEF AllPieces, S, ss

LEMMA FlattenedIs ==
  ASSUME Fresh(sender.body) PROVE Flattened = Through(Spoken(Voice), Line(sender.body))
<1> DEFINE u == sender.body.prompt
           v == AllPieces(sender.body.messages)
           K == Kind \ {"image"}
           w == Filtered(v, Pieces(K))
           k == Spoken(Voice)
           g == Spoken(Plain)
<1>0. Maps(k, Good, Nat) /\ Maps(g, Good, Nat)
  BY SpokenTyped
<1>1. u \in Seq(GoodOf({"text"})) /\ u \in Seq(Good) /\ sender.body.messages \in Seq(Unprompted)
      /\ sender.body.messages \in Seq(GoodMessage)
  BY FreshIs
<1>2. v \in Seq(GoodOf(Plain \ {"prompt"}))
  BY <1>1, UnpromptedPieces
<1>3. v \in Seq(Good)
  BY <1>1, AllPiecesIs
<1> HIDE DEF u, v
<1>4. w \in Seq(Good) /\ w = Through(Column(K), v)
  BY <1>3, KeptTyped
<1>5. Through(g, u) = Through(k, u)
  <2>1. Plain \cap {"text"} = Voice \cap {"text"}
    BY DEF Plain, Voice
  <2> QED
    BY <1>1, <2>1, SpokenAgree
<1>6. Through(g, w) = Through(k, v)
  <2>1. Through(g, Through(Column(K), v)) = Through(Spoken(Plain \cap K), v)
    BY <1>3, SpokenOfColumn
  <2>2. (Plain \cap K) \cap (Plain \ {"prompt"}) = Voice \cap (Plain \ {"prompt"})
    BY DEF Plain, Voice, Kind
  <2>3. Through(Spoken(Plain \cap K), v) = Through(Spoken(Voice), v)
    <3> HIDE DEF K
    <3> QED
      BY <1>2, <2>2, SpokenAgree
  <2> QED
    BY <1>4, <2>1, <2>3
<1> HIDE DEF w, k, g
<1>7. u \o w \in Seq(Good)
  BY <1>1, <1>4, ConcatProperties
<1>8. Ids(u \o w) = Through(g, u \o w)
  BY <1>7, IdsAre DEF g
<1>9. Through(g, u \o w) = Through(g, u) \o Through(g, w)
  <2>1. Maps(g, Good, Nat) /\ u \in Seq(Good) /\ w \in Seq(Good)
    BY <1>0, <1>1, <1>4
  <2> QED
    BY <2>1, ThroughConcat
<1>10. Through(k, u \o v) = Through(k, u) \o Through(k, v)
  BY <1>0, <1>1, <1>3, ThroughConcat
<1>11. Flattened = Ids(u \o w) /\ Line(sender.body) = u \o v
  BY DEF Flattened, u, w, v, K, Line
<1> QED
  BY <1>5, <1>6, <1>8, <1>9, <1>10, <1>11 DEF k

LEMMA SaidAsOriginal ==
  ASSUME sender.body \in GoodBody, NEW turns, NEW s \in Seq(Good), Carries(turns, s),
         Through(Bare, s) = Through(Bare, Line(sender.body))
  PROVE  /\ Said(turns) = Said(Original)
         /\ Called(turns) = Called(Original)
         /\ Returned(turns) = Returned(Original)
<1> DEFINE l == Line(sender.body)
<1>1. l \in Seq(Good)
  BY BareTyped, LineIs
<1>2. Carries(Original, l)
  BY PayloadsCarry DEF Original
<1> HIDE DEF l
<1>3. Through(Bare, s) = Through(Bare, l)
  BY DEF l
<1>4. Said(turns) = Said(Original)
  <2>1. Said(turns) = Through(Spoken({"text"}), s)
    BY SaidOfLine
  <2>2. Said(Original) = Through(Spoken({"text"}), l)
    BY <1>1, <1>2, SaidOfLine
  <2>3. Through(Spoken({"text"}), s) = Through(Spoken({"text"}), l)
    BY <1>1, <1>3, SpokenByBare
  <2> QED
    BY <2>1, <2>2, <2>3
<1>5. Called(turns) = Called(Original)
  <2>1. Called(turns) = Through(Spoken({"use"}), s)
    BY CalledOfLine
  <2>2. Called(Original) = Through(Spoken({"use"}), l)
    BY <1>1, <1>2, CalledOfLine
  <2>3. Through(Spoken({"use"}), s) = Through(Spoken({"use"}), l)
    BY <1>1, <1>3, SpokenByBare
  <2> QED
    BY <2>1, <2>2, <2>3
<1>6. Returned(turns) = Returned(Original)
  <2>1. Returned(turns) = Through(Spoken(ResultKind), s)
    BY ReturnedOfLine
  <2>2. Returned(Original) = Through(Spoken(ResultKind), l)
    BY <1>1, <1>2, ReturnedOfLine
  <2>3. "prompt" \notin ResultKind
    BY DEF ResultKind
  <2>4. Through(Spoken(ResultKind), s) = Through(Spoken(ResultKind), l)
    BY <1>1, <1>3, <2>3, SpokenByBare
  <2> QED
    BY <2>1, <2>2, <2>4
<1> QED
  BY <1>4, <1>5, <1>6

LEMMA OnceIs == Len(Once) = IF setup.augment THEN 1 ELSE 0
BY DEF Once

\* A payload of turns that carry what has come of the client's body.
LEMMA ConveyedTurns ==
  ASSUME sender.body \in GoodBody, NEW p, NEW s \in Seq(Good), Carries(p.turns, s),
         ~(target = "kiro" /\ ~sender.tools),
         Through(Bare, s) = Through(Bare, Line(sender.body)),
         p.tools = sender.tools \/ Head(sender.body.messages).role = "assistant",
         members = 0 /\ ~AugmentationLost => Through(Added, s) = Once
  PROVE  Conveyed(p)
<1> DEFINE t == p.turns
<1>1. Said(t) = Said(Original) /\ Called(t) = Called(Original) /\ Returned(t) = Returned(Original)
  BY SaidAsOriginal
<1>2. t \in Seq(GoodTurn)
  BY DEF Carries
<1>3. Untouched(t)
  BY <1>2, UntouchedTurns
<1>4. Prompts(t) = Through(Added, s)
  BY PromptsOfLine
<1> QED
  BY <1>1, <1>3, <1>4, OnceIs DEF Conveyed

\* Kiro without tools: the turns carry the pieces as text.
LEMMA ConveyedText ==
  ASSUME Fresh(sender.body), NEW p, NEW s \in Seq(Good), Carries(p.turns, Through(Voiced, s)),
         target = "kiro" /\ ~sender.tools,
         Through(Bare, s) = Through(Bare, Line(sender.body)),
         p.tools = sender.tools \/ Head(sender.body.messages).role = "assistant",
         members = 0 /\ ~AugmentationLost => Through(Added, s) = Once
  PROVE  Conveyed(p)
<1> DEFINE t == p.turns
           v == Through(Voiced, s)
           l == Line(sender.body)
<1>1. v \in Seq(Good) /\ Through(Added, v) = Through(Added, s)
      /\ Through(Spoken({"text"}), v) = Through(Spoken(Voice), s)
  BY VoicedSpoken
<1>2. l \in Seq(Good)
  BY FreshIs, BareTyped, LineIs
<1>3. Flattened = Through(Spoken(Voice), l)
  BY FlattenedIs
<1>4. Carries(t, v) /\ Through(Bare, s) = Through(Bare, l)
  OBVIOUS
<1>5. t \in Seq(GoodTurn)
  BY DEF Carries
<1> HIDE DEF v, l, t
<1>6. Said(t) = Through(Spoken({"text"}), v)
  BY <1>1, <1>4, SaidOfLine
<1>7. Through(Spoken(Voice), s) = Through(Spoken(Voice), l)
  <2>1. "prompt" \notin Voice
    BY DEF Voice
  <2> QED
    BY <1>2, <1>4, <2>1, SpokenByBare
<1>8. Untouched(t)
  BY <1>5, UntouchedTurns
<1>9. Prompts(t) = Through(Added, v)
  BY <1>1, <1>4, PromptsOfLine
<1> QED
  BY <1>1, <1>3, <1>6, <1>7, <1>8, <1>9, OnceIs DEF Conveyed, t

-----------------------------------------------------------------------------
(* What the handlers make of the conversation.                             *)

LEMMA KinAgain ==
  ASSUME NEW u, NEW v, NEW w, Kin(u, v), Kin(v, w)
  PROVE  Kin(u, w)
BY DEF Kin

Converted(b) == IF sender.format = "anthropic" THEN AnthropicToOpenAI(b) ELSE b

LEMMA LineOfMessages ==
  ASSUME NEW b \in GoodBody, b.system = "absent" PROVE Line(b) = AllPieces(b.messages)
<1>1. b.prompt = <<>>
  BY BodyIs
<1>2. AllPieces(b.messages) \in Seq(Good)
  BY BodyIs, AllPiecesIs
<1> QED
  BY <1>1, <1>2 DEF Line

LEMMA ConvertedIs ==
  ASSUME NEW b \in GoodBody, sender.format = "openai" => b.system = "absent",
         sender.format \in {"openai", "anthropic"}
  PROVE  /\ Systemless(Converted(b))
         /\ AllPieces(Converted(b).messages) = Line(b)
         /\ Kin(b.messages, Converted(b).messages)
         /\ Fresh(b) => Fresh(Converted(b))
<1>1. CASE sender.format = "anthropic"
  BY <1>1, ConvertedBody, FreshConverted DEF Converted, Systemless
<1>2. CASE sender.format = "openai"
  <2>1. Converted(b) = b
    BY <1>2 DEF Converted
  <2>2. Line(b) = AllPieces(b.messages)
    BY <1>2, LineOfMessages
  <2>3. Kin(b.messages, b.messages)
    BY SameItself DEF Same
  <2> QED
    BY <1>2, <2>1, <2>2, <2>3 DEF Systemless
<1> QED
  BY <1>1, <1>2

\* Kiro's body: the augmentation of the handler's copy is seen through what the
\* two share.
SharedWith(b) ==
  IF ~setup.augment \/ b.system = "string" THEN Converted(b)
  ELSE IF sender.format = "openai" THEN Augment(Converted(b))
  ELSE [Converted(b) EXCEPT !.messages = InjectMessages(@)]
KiroBody(b) == IF setup.rtk THEN Squeeze(SharedWith(b)) ELSE SharedWith(b)

LEMMA SharedIs ==
  ASSUME NEW b \in GoodBody, sender.format = "openai" => b.system = "absent",
         sender.format \in {"openai", "anthropic"}
  PROVE  SharedWith(b) =
           IF ~setup.augment \/ b.system = "string" THEN Converted(b) ELSE Augment(Converted(b))
<1>1. Converted(b).system = "absent"
  BY ConvertedIs DEF Systemless
<1>2. Augment(Converted(b)) = [Converted(b) EXCEPT !.messages = InjectMessages(@)]
  BY <1>1 DEF Augment
<1> QED
  BY <1>2 DEF SharedWith

LEMMA KiroBodyIs ==
  ASSUME NEW b \in GoodBody, sender.format = "openai" => b.system = "absent",
         sender.format \in {"openai", "anthropic"}
  PROVE  /\ Systemless(KiroBody(b))
         /\ ConvertedFrom(b, KiroBody(b))
         /\ Fresh(b) /\ ~(setup.augment /\ b.system = "string") =>
              Through(Added, AllPieces(KiroBody(b).messages)) = Once
<1> DEFINE c == Converted(b)
           d == IF setup.rtk THEN Squeeze(c) ELSE c
           o == KiroBody(b)
<1>1. /\ c \in GoodBody /\ c.system = "absent"
      /\ AllPieces(c.messages) = Line(b)
      /\ Kin(b.messages, c.messages)
      /\ Fresh(b) => Fresh(c)
  BY ConvertedIs DEF Systemless
<1>2. o = IF setup.augment /\ b.system = "string" THEN d ELSE Treated(c)
  BY SharedIs DEF KiroBody, Treated
<1> HIDE DEF c
<1>3. Same(c, d)
  BY <1>1, SameItself, SqueezedBody
<1>4. Same(c, Treated(c)) /\ (Fresh(c) => Through(Added, Line(Treated(c))) = Once)
  BY <1>1, TreatedBody
<1> HIDE DEF d, o
<1>5. Same(c, o)
  BY <1>2, <1>3, <1>4
<1>6. /\ o \in GoodBody /\ o.system = "absent"
      /\ Through(Bare, Line(c)) = Through(Bare, Line(o))
      /\ Kin(c.messages, o.messages)
  BY <1>1, <1>5 DEF Same
<1>7. Line(c) = AllPieces(c.messages) /\ Line(o) = AllPieces(o.messages)
  BY <1>1, <1>6, LineOfMessages
<1>8. Kin(b.messages, o.messages)
  BY <1>1, <1>6, KinAgain
<1>9. ConvertedFrom(b, o)
  BY <1>1, <1>6, <1>7, <1>8 DEF ConvertedFrom
<1>10. ASSUME Fresh(b), ~(setup.augment /\ b.system = "string")
       PROVE  Through(Added, AllPieces(o.messages)) = Once
  <2>1. o = Treated(c)
    BY <1>2, <1>10
  <2> QED
    BY <1>1, <1>4, <1>7, <1>10, <2>1
<1> QED
  BY <1>6, <1>9, <1>10 DEF Systemless, o

\* What the handlers but Kiro's send of a body.
SentOf(b) ==
  CASE target \in {"pioneer", "codebuddy"} -> OpenAIPayload(Prepared(b))
    [] target = "zai" -> IF sender.format = "openai" THEN OpenAIPayload(b) ELSE AnthropicPayload(b)
    [] target = "qwencloud" ->
         AnthropicPayload(IF sender.format = "openai" THEN OpenAIToAnthropic(b) ELSE b)
    [] target = "minimax" ->
         LET a == IF setup.forced THEN Assigned(b) ELSE b IN
         IF (sender.format = "anthropic") # setup.forced THEN AnthropicPayload(a)
         ELSE OpenAIPayload(a)

LEMMA PayloadsIs ==
  ASSUME NEW b \in GoodBody, sender.format = "openai" => b.system = "absent",
         sender.format \in {"openai", "anthropic"}
  PROVE  /\ Carries(AnthropicPayload(b).turns, Line(b))
         /\ sender.format = "openai" => Carries(OpenAIPayload(b).turns, Line(b))
         /\ Carries(OpenAIPayload(Converted(b)).turns, Line(b))
         /\ sender.format = "anthropic" => OpenAIPayload(Assigned(b)) = OpenAIPayload(Converted(b))
<1>1. Carries(AnthropicPayload(b).turns, Line(b)) /\ Carries(OpenAIPayload(b).turns, AllPieces(b.messages))
  BY PayloadsCarry
<1>2. sender.format = "openai" => Line(b) = AllPieces(b.messages)
  BY LineOfMessages
<1>3. Carries(OpenAIPayload(Converted(b)).turns, AllPieces(Converted(b).messages))
  BY ConvertedIs, PayloadsCarry DEF Systemless
<1>4. AllPieces(Converted(b).messages) = Line(b)
  BY ConvertedIs
<1>5. ASSUME sender.format = "anthropic" PROVE OpenAIPayload(Assigned(b)) = OpenAIPayload(Converted(b))
  BY <1>5, AssignedBody DEF OpenAIPayload, Converted
<1> QED
  BY <1>1, <1>2, <1>3, <1>4, <1>5

LEMMA SentIs ==
  ASSUME NEW b \in GoodBody, sender.format = "openai" => b.system = "absent",
         sender.format \in {"openai", "anthropic"}, setup.forced \in BOOLEAN,
         target \in Target, target # "kiro"
  PROVE  Carries(SentOf(b).turns, Line(b)) /\ SentOf(b).tools = sender.tools
<1> DEFINE A == AnthropicPayload(b)
           O == OpenAIPayload(b)
           C == OpenAIPayload(Converted(b))
<1>1. /\ Carries(A.turns, Line(b)) /\ (sender.format = "openai" => Carries(O.turns, Line(b)))
      /\ Carries(C.turns, Line(b))
  BY PayloadsIs
<1>2. A.tools = sender.tools /\ O.tools = sender.tools /\ C.tools = sender.tools
  BY DEF AnthropicPayload, OpenAIPayload
<1>3. SentOf(b) \in {A, C} \/ (sender.format = "openai" /\ SentOf(b) = O)
  <2>1. CASE target \in {"pioneer", "codebuddy"}
    <3>1. SentOf(b) = OpenAIPayload(Prepared(b))
      BY <2>1 DEF SentOf
    <3> QED
      BY <3>1 DEF Prepared, Converted
  <2>2. CASE target = "zai"
    <3>1. SentOf(b) = IF sender.format = "openai" THEN O ELSE A
      BY <2>2 DEF SentOf
    <3> HIDE DEF A, O
    <3> QED
      BY <3>1
  <2>3. CASE target = "qwencloud"
    <3>1. SentOf(b) = A
      BY <2>3 DEF SentOf, OpenAIToAnthropic
    <3> QED
      BY <3>1
  <2>4. CASE target = "minimax"
    <3>1. CASE setup.forced /\ sender.format = "anthropic"
      <4>1. SentOf(b) = OpenAIPayload(Assigned(b))
        BY <2>4, <3>1 DEF SentOf
      <4> QED
        BY <3>1, <4>1, PayloadsIs
    <3>2. CASE setup.forced /\ sender.format = "openai"
      <4>1. Assigned(b) = b
        BY <3>2, AssignedBody
      <4>2. SentOf(b) = AnthropicPayload(Assigned(b))
        BY <2>4, <3>2 DEF SentOf
      <4> QED
        BY <4>1, <4>2
    <3>3. CASE ~setup.forced /\ sender.format = "anthropic"
      <4>1. SentOf(b) = A
        BY <2>4, <3>3 DEF SentOf
      <4> QED
        BY <4>1
    <3>4. CASE ~setup.forced /\ sender.format = "openai"
      <4>1. SentOf(b) = O
        BY <2>4, <3>4 DEF SentOf
      <4> QED
        BY <3>4, <4>1
    <3> QED
      BY <3>1, <3>2, <3>3, <3>4
  <2> QED
    BY <2>1, <2>2, <2>3, <2>4 DEF Target, ConvertingProviders
<1> HIDE DEF A, O, C
<1> QED
  BY <1>1, <1>2, <1>3

LEMMA ConvertTools ==
  ASSUME NEW ms, NEW tools PROVE ConvertMessages(ms, tools).tools \in BOOLEAN
<1> DEFINE turns == KiroTurns(ms, tools)
           A == Current(turns).tools \/ (Past(turns) # <<>> /\ Past(turns)[1].tools)
           B == Append(Merged(Past(turns)), Current(turns))
<1>1. ConvertMessages(ms, tools) = [turns |-> B, tools |-> A]
  BY ConvertIs
<1>2. A \in BOOLEAN
  OBVIOUS
<1> HIDE DEF A, B
<1> QED
  BY <1>1, <1>2

LEMMA KiroInputTyped ==
  ASSUME NEW ms \in Seq(GoodMessage), NEW tools
  PROVE  KiroInput(ms, tools) \in Seq(GoodMessage)
<1> DEFINE ns == Flatten(ms)
<1>1. ns \in Seq(GoodMessage)
  BY FlattenIs
<1> QED
  BY <1>1 DEF KiroInput

\* What Kiro is sent, in turns.
LEMMA KiroConveys ==
  ASSUME Fresh(sender.body), sender.body.messages # <<>>, sender.tools \in BOOLEAN,
         NEW b, Systemless(b), ConvertedFrom(sender.body, b), target = "kiro", ~DropsMessages, ~AssistantEnds,
         members = 0 /\ ~AugmentationLost => Through(Added, AllPieces(b.messages)) = Once,
         NEW p, p = ConvertMessages(b.messages, sender.tools)
  PROVE  Conveyed(p)
<1> DEFINE ms == b.messages
           tools == sender.tools
           ns == Flatten(ms)
           input == KiroInput(ms, tools)
           s == AllPieces(ms)
           first == sender.body.messages
<1>1. /\ ms \in Seq(GoodMessage) /\ Kin(first, ms) /\ Through(Bare, s) = Through(Bare, Line(sender.body))
      /\ first # <<>> /\ first \in Seq(GoodMessage) /\ tools \in BOOLEAN
      /\ members = 0 /\ ~AugmentationLost => Through(Added, s) = Once
  BY BodyIs, FreshIs DEF Systemless, ConvertedFrom
<1>2. ~(first[Len(first)].role = "assistant")
  <2>1. Last(first) = first[Len(first)]
    BY DEF Last
  <2> QED
    BY <2>1 DEF AssistantEnds
<1>3. s \in Seq(Good)
  BY <1>1, AllPiecesIs
<1>4. /\ ms # <<>> /\ ms[Len(ms)].role # "assistant"
      /\ ms[1].role = "assistant" => first[1].role = "assistant"
  BY <1>1, <1>2 DEF Kin
<1>5. /\ \A i \in 1 .. Len(ms) : ms[i].role # "developer"
      /\ tools => ms \in Seq(Exact)
  <2>1. \A i \in 1 .. Len(ms) : ms[i] \in GoodMessage
    BY <1>1, ElementOfSeq
  <2>2. ASSUME NEW i \in 1 .. Len(ms)
        PROVE  ms[i].role # "developer" /\ (tools => ms[i] \in Exact)
    BY <2>1, MessageIs DEF Exact
  <2> HIDE DEF ms, tools
  <2>3. tools => ms \in Seq(Exact)
    BY <1>1, <2>2
  <2> QED
    BY <2>2, <2>3
<1>6. /\ ns \in Seq(GoodMessage) /\ Len(ns) = Len(ms)
      /\ AllPieces(ns) = Through(Voiced, s)
      /\ \A i \in 1 .. Len(ms) : ns[i].role = IF ms[i].role = "tool" THEN "user" ELSE ms[i].role
      /\ (\A i \in 1 .. Len(ms) : ms[i].role # "developer") => ns \in Seq(Exact)
  BY <1>1, FlattenIs
<1> HIDE DEF ms, ns, first
<1>7. Len(ms) \in Nat \ {0} /\ 1 \in 1 .. Len(ms) /\ Len(ms) \in 1 .. Len(ms)
  <2>1. Len(ms) \in Nat /\ (Len(ms) = 0 => ms = <<>>)
    BY <1>1, EmptySeq
  <2> QED
    BY <1>4, <2>1
<1>8. input = IF tools THEN ms ELSE ns
  BY DEF KiroInput, ns
<1> HIDE DEF s, input
<1>9. /\ input \in Seq(GoodMessage) /\ input \in Seq(Exact) /\ input # <<>>
      /\ input[Len(input)].role # "assistant"
      /\ input[1].role = "assistant" => first[1].role = "assistant"
  <2>1. CASE tools
    BY <1>1, <1>4, <1>5, <1>8, <2>1
  <2>2. CASE ~tools
    <3>1. input = ns
      BY <1>8, <2>2
    <3>2. ns # <<>>
      BY <1>6, <1>7
    <3>3. ns[Len(ns)].role # "assistant"
      BY <1>4, <1>6, <1>7
    <3>4. ns[1].role = "assistant" => ms[1].role = "assistant"
      BY <1>6, <1>7
    <3> QED
      BY <1>4, <1>5, <1>6, <3>1, <3>2, <3>3, <3>4
  <2> QED
    BY <2>1, <2>2
<1>10. p = ConvertMessages(ms, tools) /\ input = KiroInput(ms, tools)
  BY DEF ms, input
<1> HIDE DEF tools
<1>11. Carries(p.turns, AllPieces(input)) /\ (input[1].role # "assistant" => (p.tools <=> tools))
  BY <1>1, <1>9, <1>10, ConvertCarries
<1>12. p.tools \in BOOLEAN
  BY <1>10, ConvertTools
<1>13. p.tools = tools \/ Head(first).role = "assistant"
  <2>1. Head(first) = first[1]
    BY <1>1
  <2>2. CASE input[1].role = "assistant"
    BY <1>9, <2>1, <2>2
  <2>3. CASE input[1].role # "assistant"
    BY <1>1, <1>11, <1>12, <2>3
  <2> QED
    BY <2>2, <2>3
<1>14. CASE tools
  <2>1. Carries(p.turns, s)
    BY <1>8, <1>11, <1>14 DEF s
  <2>2. sender.body \in GoodBody
    BY FreshIs
  <2> QED
    BY <1>1, <1>3, <1>13, <1>14, <2>1, <2>2, ConveyedTurns DEF tools, first
<1>15. CASE ~tools
  <2>1. Carries(p.turns, Through(Voiced, s))
    BY <1>6, <1>8, <1>11, <1>15
  <2> QED
    BY <1>1, <1>3, <1>13, <1>15, <2>1, ConveyedText DEF tools, first
<1> QED
  BY <1>14, <1>15

LEMMA KiroTyped ==
  ASSUME NEW ms \in Seq(GoodMessage), sender.tools \in BOOLEAN
  PROVE  ConvertMessages(ms, sender.tools).turns \in Seq(GoodTurn)
<1> DEFINE tools == sender.tools
<1>1. tools \in BOOLEAN /\ KiroInput(ms, tools) \in Seq(GoodMessage)
  BY KiroInputTyped
<1> HIDE DEF tools
<1>2. ConvertMessages(ms, tools).turns \in Seq(GoodTurn)
  BY <1>1, ConvertTyped
<1> QED
  BY <1>2 DEF tools

-----------------------------------------------------------------------------
(* What comes back.                                                        *)

LEMMA OnlyIs ==
  ASSUME NEW s \in Seq(Pieces(Block)), NEW kind \in Block
  PROVE  /\ Only(s, kind) \in Seq(Pieces(Block))
         /\ \A i \in 1 .. Len(Only(s, kind)) : Only(s, kind)[i].kind = kind
<1> DEFINE D == Pieces(Block)
           S == Pieces({kind})
           t == Filtered(s, S)
<1>1. s \in Seq(D)
  OBVIOUS
<1> HIDE DEF D
<1>2. t \in Seq(D)
  BY <1>1, FilteredTyped
<1>3. \A i \in 1 .. Len(t) : t[i] \in S
  <2> HIDE DEF S
  <2> QED
    BY <1>1, FilteredMembers
<1>4. \A i \in 1 .. Len(t) : t[i].kind = kind
  BY <1>3 DEF Pieces
<1> QED
  BY <1>2, <1>4 DEF Only, D

LEMMA OnlyOfOnly ==
  ASSUME NEW s \in Seq(Pieces(Block)), NEW kind \in Block, NEW other \in Block
  PROVE  Only(Only(s, other), kind) = IF kind = other THEN Only(s, kind) ELSE <<>>
<1> DEFINE D == Pieces(Block)
           S == Pieces({kind})
           h == Keeps(D, S)
           t == Only(s, other)
<1>1. t \in Seq(D) /\ \A i \in 1 .. Len(t) : t[i].kind = other
  BY OnlyIs
<1> HIDE DEF t
<1>2. \A i \in 1 .. Len(t) : t[i] \in D
  BY <1>1, ElementOfSeq
<1>3. \A i \in 1 .. Len(t) : t[i] \in S <=> kind = other
  BY <1>1, <1>2 DEF Pieces
<1> HIDE DEF D, S
<1>4. Filtered(t, S) = Through(h, t)
  BY <1>1, FilteredIsThrough
<1>5. Maps(h, D, D)
  BY KeepsTyped
<1>6. \A i \in 1 .. Len(t) : h[t[i]] = IF kind = other THEN <<t[i]>> ELSE <<>>
  BY <1>2, <1>3 DEF Keeps
<1> HIDE DEF h
<1>7. CASE kind = other
  <2>1. \A i \in 1 .. Len(t) : h[t[i]] = <<t[i]>>
    BY <1>6, <1>7
  <2>2. Through(h, t) = t
    BY <1>1, <1>5, <2>1, AllStand
  <2> QED
    BY <1>4, <1>7, <2>2 DEF Only, S, t
<1>8. CASE kind # other
  <2>1. \A i \in 1 .. Len(t) : h[t[i]] = <<>>
    BY <1>6, <1>8
  <2>2. Through(h, t) = <<>>
    BY <1>1, <1>5, <2>1, NothingStands
  <2> QED
    BY <1>4, <1>8, <2>2 DEF Only, S, t
<1> QED
  BY <1>7, <1>8

LEMMA OnlyConcat ==
  ASSUME NEW s \in Seq(Pieces(Block)), NEW t \in Seq(Pieces(Block)), NEW kind
  PROVE  Only(s \o t, kind) = Only(s, kind) \o Only(t, kind)
<1> DEFINE D == Pieces(Block)
           S == Pieces({kind})
           h == Keeps(D, S)
<1>1. s \in Seq(D) /\ t \in Seq(D) /\ s \o t \in Seq(D)
  BY ConcatProperties
<1>2. Maps(h, D, D)
  BY KeepsTyped
<1> HIDE DEF D, S
<1>3. Filtered(s, S) = Through(h, s)
  BY <1>1, FilteredIsThrough
<1>4. Filtered(t, S) = Through(h, t)
  BY <1>1, FilteredIsThrough
<1>5. Filtered(s \o t, S) = Through(h, s \o t)
  BY <1>1, FilteredIsThrough
<1> HIDE DEF h
<1>6. Through(h, s \o t) = Through(h, s) \o Through(h, t)
  BY <1>1, <1>2, ThroughConcat
<1> QED
  BY <1>3, <1>4, <1>5, <1>6 DEF Only, S

\* Every block is of one of the three kinds.
LEMMA EveryBlock ==
  ASSUME NEW s \in Seq(Pieces(Block))
  PROVE  Len(Only(s, "thinking")) + Len(Only(s, "text")) + Len(Only(s, "use")) = Len(s)
<1> DEFINE D == Pieces(Block)
           S1 == Pieces({"thinking"})
           S2 == Pieces({"text"})
           S3 == Pieces({"use"})
           Sum3(t) == Len(Filtered(t, S1)) + Len(Filtered(t, S2)) + Len(Filtered(t, S3))
           T == {t \in Seq(D) : Sum3(t) = Len(t)}
<1>0. \A e \in D : \/ e \in S1 /\ e \notin S2 /\ e \notin S3
                   \/ e \notin S1 /\ e \in S2 /\ e \notin S3
                   \/ e \notin S1 /\ e \notin S2 /\ e \in S3
  BY DEF Pieces, Block
<1>00. s \in Seq(D)
  OBVIOUS
<1> HIDE DEF D, S1, S2, S3
<1>1. <<>> \in T
  <2>1. Filtered(<<>>, S1) = <<>> /\ Filtered(<<>>, S2) = <<>> /\ Filtered(<<>>, S3) = <<>>
    BY FilteredEmpty
  <2> QED
    BY <2>1
<1>2. ASSUME NEW t \in T, NEW e \in D PROVE Append(t, e) \in T
  <2>1. t \in Seq(D) /\ Sum3(t) = Len(t) /\ Append(t, e) \in Seq(D) /\ Len(Append(t, e)) = Len(t) + 1
    OBVIOUS
  <2>2. \A S : Filtered(t, S) \in Seq(D)
    BY <2>1, FilteredTyped
  <2>3. ASSUME NEW S
        PROVE  Len(Filtered(Append(t, e), S)) = Len(Filtered(t, S)) + (IF e \in S THEN 1 ELSE 0)
    <3> DEFINE f == Filtered(t, S)
    <3>1. f \in Seq(D)
      BY <2>2
    <3>2. Filtered(Append(t, e), S) = IF e \in S THEN Append(f, e) ELSE f
      BY <2>1, FilteredAppend
    <3> HIDE DEF f
    <3>3. Len(Append(f, e)) = Len(f) + 1 /\ Len(f) \in Nat
      BY <3>1
    <3> QED
      BY <3>2, <3>3 DEF f
  <2>4. /\ Len(Filtered(Append(t, e), S1)) = Len(Filtered(t, S1)) + (IF e \in S1 THEN 1 ELSE 0)
        /\ Len(Filtered(Append(t, e), S2)) = Len(Filtered(t, S2)) + (IF e \in S2 THEN 1 ELSE 0)
        /\ Len(Filtered(Append(t, e), S3)) = Len(Filtered(t, S3)) + (IF e \in S3 THEN 1 ELSE 0)
    BY <2>3
  <2>5. /\ Len(Filtered(t, S1)) \in Nat /\ Len(Filtered(t, S2)) \in Nat /\ Len(Filtered(t, S3)) \in Nat
    BY <2>2
  <2>6. Sum3(Append(t, e)) = Sum3(t) + 1
    <3> DEFINE n1 == Len(Filtered(t, S1))
               n2 == Len(Filtered(t, S2))
               n3 == Len(Filtered(t, S3))
    <3>1. n1 \in Nat /\ n2 \in Nat /\ n3 \in Nat
      BY <2>5
    <3>2. Sum3(Append(t, e)) =
            (n1 + (IF e \in S1 THEN 1 ELSE 0)) + (n2 + (IF e \in S2 THEN 1 ELSE 0))
              + (n3 + (IF e \in S3 THEN 1 ELSE 0))
      BY <2>4
    <3>3. Sum3(t) = n1 + n2 + n3
      OBVIOUS
    <3> HIDE DEF n1, n2, n3, Sum3
    <3>4. CASE e \in S1 /\ e \notin S2 /\ e \notin S3
      BY <3>1, <3>2, <3>3, <3>4
    <3>5. CASE e \notin S1 /\ e \in S2 /\ e \notin S3
      BY <3>1, <3>2, <3>3, <3>5
    <3>6. CASE e \notin S1 /\ e \notin S2 /\ e \in S3
      BY <3>1, <3>2, <3>3, <3>6
    <3> QED
      BY <1>0, <3>4, <3>5, <3>6
  <2> QED
    BY <2>1, <2>6
<1>3. T \subseteq Seq(D)
  OBVIOUS
<1> HIDE DEF T
<1>4. T = Seq(D)
  BY <1>1, <1>2, <1>3, SequenceInduction
<1> QED
  BY <1>00, <1>4 DEF T, Only, S1, S2, S3

LEMMA RegroupedIs ==
  ASSUME NEW s \in Seq(Pieces(Block))
  PROVE  /\ \A kind \in Block : Only(Regrouped(s), kind) = Only(s, kind)
         /\ Len(Regrouped(s)) = Len(s)
<1> DEFINE D == Pieces(Block)
           u == Only(s, "thinking")
           v == Only(s, "text")
           w == Only(s, "use")
<1>1. u \in Seq(D) /\ v \in Seq(D) /\ w \in Seq(D)
  BY OnlyIs DEF Block
<1>2. u \o v \in Seq(D) /\ Len(u \o v) = Len(u) + Len(v)
  <2> HIDE DEF u, v, D
  <2> QED
    BY <1>1, ConcatProperties
<1>3. Len((u \o v) \o w) = (Len(u) + Len(v)) + Len(w)
  <2> HIDE DEF u, v, w, D
  <2> QED
    BY <1>1, <1>2, ConcatProperties
<1>4. Len(Regrouped(s)) = Len(s)
  BY <1>3, EveryBlock DEF Regrouped
<1>5. ASSUME NEW kind \in Block PROVE Only(Regrouped(s), kind) = Only(s, kind)
  <2>1. Only((u \o v) \o w, kind) = Only(u \o v, kind) \o Only(w, kind)
    <3> HIDE DEF u, v, w
    <3> QED
      BY <1>1, <1>2, OnlyConcat, ZenonT(40)
  <2>2. Only(u \o v, kind) = Only(u, kind) \o Only(v, kind)
    <3> HIDE DEF u, v, w
    <3> QED
      BY <1>1, OnlyConcat, SMTT(20)
  <2>3. /\ Only(u, kind) = IF kind = "thinking" THEN Only(s, kind) ELSE <<>>
        /\ Only(v, kind) = IF kind = "text" THEN Only(s, kind) ELSE <<>>
        /\ Only(w, kind) = IF kind = "use" THEN Only(s, kind) ELSE <<>>
    BY OnlyOfOnly DEF Block
  <2> DEFINE r == Only(s, kind)
  <2>4. r \in Seq(D)
    BY OnlyIs
  <2>5. Regrouped(s) = (u \o v) \o w
    BY DEF Regrouped
  <2> HIDE DEF r, u, v, w, D
  <2>6. r \o <<>> = r /\ <<>> \o r = r
    BY <2>4
  <2>7. Only((u \o v) \o w, kind) = r
    <3>1. Only((u \o v) \o w, kind) =
            ((IF kind = "thinking" THEN r ELSE <<>>) \o (IF kind = "text" THEN r ELSE <<>>))
              \o (IF kind = "use" THEN r ELSE <<>>)
      BY <2>1, <2>2, <2>3 DEF r
    <3>2. CASE kind = "thinking"
      BY <2>6, <3>1, <3>2
    <3>3. CASE kind = "text"
      BY <2>6, <3>1, <3>3
    <3>4. CASE kind = "use"
      <4>1. Only((u \o v) \o w, kind) = (<<>> \o <<>>) \o r
        BY <3>1, <3>4
      <4>2. <<>> \o <<>> = <<>>
        OBVIOUS
      <4> QED
        BY <2>6, <4>1, <4>2
    <3> QED
      BY <3>2, <3>3, <3>4 DEF Block
  <2> QED
    BY <2>5, <2>7 DEF r
<1> QED
  BY <1>4, <1>5

LEMMA AnswerWhole ==
  ASSUME NEW kinds \in Replies, NEW converts \in BOOLEAN,
         NEW blocks, blocks = [i \in DOMAIN kinds |-> Piece(kinds[i], i)],
         NEW a, a = [from |-> blocks, to |-> IF converts THEN Regrouped(blocks) ELSE blocks]
  PROVE  NothingLost(a)
<1>1. kinds \in Seq(Block)
  BY BodyAssumption
<1>2. blocks \in Seq(Pieces(Block))
  <2>1. \A i \in 1 .. Len(kinds) : Piece(kinds[i], i) \in Pieces(Block)
    BY <1>1 DEF Piece, Pieces
  <2> QED
    BY <1>1, <2>1
<1>3. a.from = blocks /\ a.to = IF converts THEN Regrouped(blocks) ELSE blocks
  OBVIOUS
<1>4. /\ \A kind \in Block : Only(a.to, kind) = Only(blocks, kind)
      /\ Len(a.to) = Len(blocks)
  BY <1>2, <1>3, RegroupedIs
<1> QED
  BY <1>3, <1>4 DEF NothingLost

-----------------------------------------------------------------------------
(* The client's bodies.                                                    *)

LEMMA FlattenMembers ==
  ASSUME NEW S, NEW ss \in Seq(Seq(S)), NEW i \in 1 .. Len(ss), NEW j \in 1 .. Len(ss[i])
  PROVE  ss[i][j] \in ToSet(FlattenSeq(ss))
<1> DEFINE Within(tt) == \A k \in 1 .. Len(tt) : ToSet(tt[k]) \subseteq ToSet(FlattenSeq(tt))
           T == {tt \in Seq(Seq(S)) : Within(tt)}
           D == Seq(S)
<1>1. <<>> \in T
  OBVIOUS
<1>2. ASSUME NEW tt \in T, NEW t \in D PROVE Append(tt, t) \in T
  <2> DEFINE f == FlattenSeq(tt)
             a == Append(tt, t)
  <2>1. tt \in Seq(Seq(S)) /\ Within(tt) /\ t \in Seq(S)
    OBVIOUS
  <2>2. f \in Seq(S)
    BY <2>1, FlattenTyped
  <2>3. FlattenSeq(a) = f \o t
    BY <2>1, FlattenAppend
  <2>4. a \in Seq(Seq(S)) /\ Len(a) = Len(tt) + 1 /\ a[Len(tt) + 1] = t
        /\ \A k \in 1 .. Len(tt) : a[k] = tt[k]
    BY <2>1
  <2> HIDE DEF a
  <2>5. \A k \in 1 .. Len(tt) : ToSet(tt[k]) \subseteq ToSet(f)
    BY <2>1
  <2> HIDE DEF f
  <2>6. ToSet(f \o t) = ToSet(f) \cup ToSet(t)
    BY <2>1, <2>2, MembersConcat
  <2>7. Within(a)
    <3> SUFFICES ASSUME NEW k \in 1 .. Len(a) PROVE ToSet(a[k]) \subseteq ToSet(FlattenSeq(a))
      OBVIOUS
    <3>1. k \in 1 .. Len(tt) \/ k = Len(tt) + 1
      BY <2>1, <2>4
    <3> QED
      BY <2>3, <2>4, <2>5, <2>6, <3>1
  <2> QED
    BY <2>4, <2>7 DEF a
<1>3. T \subseteq Seq(D)
  OBVIOUS
<1>4. ss \in Seq(D)
  OBVIOUS
<1> HIDE DEF T, D
<1>5. T = Seq(D)
  BY <1>1, <1>2, <1>3, SequenceInduction
<1>6. ToSet(ss[i]) \subseteq ToSet(FlattenSeq(ss))
  BY <1>4, <1>5 DEF T
<1>7. ss[i] \in Seq(S)
  BY ElementOfSeq
<1>8. ss[i][j] \in ToSet(ss[i])
  <2> DEFINE s == ss[i]
  <2>1. s \in Seq(S) /\ j \in 1 .. Len(s)
    BY <1>7
  <2> HIDE DEF s
  <2>2. ToSet(s) = {s[k] : k \in 1 .. Len(s)}
    BY <2>1, MembersOf
  <2> QED
    BY <2>1, <2>2 DEF s
<1> QED
  BY <1>6, <1>8

\* A message of a client, as its template says.
AsTemplate(m, n) ==
  /\ m = Message(m.role, m.shape, m.pieces) /\ m.role \in Role /\ m.shape \in {"string", "array"}
  /\ m.pieces \in Seq(Pieces(KindsOf(m.role, m.shape)))
  /\ \A j \in 1 .. Len(m.pieces) : ~m.pieces[j].squeezed

LEMMA NumberIs ==
  ASSUME NEW M, M \subseteq OpenAIMessages \cup AnthropicMessages,
         NEW t \in SeqOf(M, MaxMessages) \ {<<>>}, NEW ms, ms = Number(t)
  PROVE  /\ ms \in Seq([role : Role, shape : {"string", "array"}, pieces : Seq(Pieces(Plain))])
         /\ ms # <<>>
         /\ \A i \in 1 .. Len(ms) : AsTemplate(ms[i], i)
<1>1. PICK n \in 0 .. MaxMessages : t \in [1 .. n -> M]
  BY DEF SeqOf
<1>2. n \in Nat \ {0}
  BY <1>1, BodyAssumption
<1>3. \A i \in 1 .. n : /\ t[i] \in Template
                        /\ t[i].pieces \in Seq(KindsOf(t[i].role, t[i].shape))
  BY <1>1, BodyAssumption
<1> DEFINE New(i) == [j \in DOMAIN t[i].pieces |-> Piece(t[i].pieces[j], 10 * i + j)]
<1>4. ASSUME NEW i \in 1 .. n
      PROVE  /\ New(i) \in Seq(Pieces(KindsOf(t[i].role, t[i].shape)))
             /\ New(i) \in Seq(Pieces(Plain))
             /\ \A j \in 1 .. Len(New(i)) : ~New(i)[j].squeezed
  <2> DEFINE s == t[i].pieces
             K == KindsOf(t[i].role, t[i].shape)
             w == New(i)
  <2>1. s \in Seq(K)
    BY <1>3
  <2>2. K \subseteq Plain
    BY DEF KindsOf, Plain
  <2> HIDE DEF s, K
  <2>3. \A j \in 1 .. Len(s) : s[j] \in K /\ 10 * i + j \in Nat
    BY <1>2, <2>1, ElementOfSeq
  <2>4. w = [j \in 1 .. Len(s) |-> Piece(s[j], 10 * i + j)] /\ Len(s) \in Nat
    BY <2>1 DEF s
  <2> HIDE DEF w
  <2>5. \A j \in 1 .. Len(s) : Piece(s[j], 10 * i + j) \in Pieces(K)
                               /\ Piece(s[j], 10 * i + j) \in Pieces(Plain)
                               /\ ~Piece(s[j], 10 * i + j).squeezed
    BY <2>2, <2>3 DEF Piece, Pieces
  <2>6. w \in Seq(Pieces(K)) /\ w \in Seq(Pieces(Plain)) /\ Len(w) = Len(s)
    BY <2>4, <2>5
  <2>7. \A j \in 1 .. Len(w) : ~w[j].squeezed
    BY <2>4, <2>5, <2>6
  <2> QED
    BY <2>6, <2>7 DEF K, w
<1>5. ms = [i \in 1 .. n |-> [t[i] EXCEPT !.pieces = New(i)]]
  BY <1>1 DEF Number
<1> HIDE DEF New
<1>6. ASSUME NEW i \in 1 .. n
      PROVE  /\ ms[i] = Message(t[i].role, t[i].shape, New(i))
             /\ ms[i].role = t[i].role /\ ms[i].shape = t[i].shape /\ ms[i].pieces = New(i)
             /\ t[i].role \in Role /\ t[i].shape \in {"string", "array"}
  BY <1>3, <1>5 DEF Message, Template
<1>7. ASSUME NEW i \in 1 .. n
      PROVE  /\ ms[i] \in [role : Role, shape : {"string", "array"}, pieces : Seq(Pieces(Plain))]
             /\ AsTemplate(ms[i], i)
  <2>1. /\ ms[i] = Message(ms[i].role, ms[i].shape, ms[i].pieces)
        /\ ms[i].role \in Role /\ ms[i].shape \in {"string", "array"}
        /\ ms[i].pieces \in Seq(Pieces(KindsOf(ms[i].role, ms[i].shape)))
        /\ ms[i].pieces \in Seq(Pieces(Plain))
        /\ \A j \in 1 .. Len(ms[i].pieces) : ~ms[i].pieces[j].squeezed
    BY <1>4, <1>6
  <2> QED
    BY <2>1 DEF AsTemplate, Message
<1>8. Len(ms) = n /\ ms # <<>>
  BY <1>2, <1>5
<1>9. ms \in Seq([role : Role, shape : {"string", "array"}, pieces : Seq(Pieces(Plain))])
  <2> DEFINE R == [role : Role, shape : {"string", "array"}, pieces : Seq(Pieces(Plain))]
  <2>1. \A i \in 1 .. n : ms[i] \in R
    BY <1>7
  <2> HIDE DEF R
  <2>0. ms = [i \in 1 .. n |-> ms[i]] /\ n \in Nat
    BY <1>2, <1>5
  <2>2. ms \in Seq(R)
    BY <2>0, <2>1
  <2> QED
    BY <2>2 DEF R
<1> QED
  BY <1>7, <1>8, <1>9

\* The client has sent nothing that was added, or shortened.
LEMMA TemplatesFresh ==
  ASSUME NEW ms, ms = sender.body.messages,
         ms \in Seq([role : Role, shape : {"string", "array"}, pieces : Seq(Pieces(Plain))]),
         \A i \in 1 .. Len(ms) : AsTemplate(ms[i], i)
  PROVE  ms \in Seq(Unprompted)
<1> DEFINE R == [role : Role, shape : {"string", "array"}, pieces : Seq(Pieces(Plain))]
           ss == [i \in DOMAIN ms |-> ms[i].pieces]
           X == Pieces(Plain)
<1>1. \A i \in 1 .. Len(ms) : ms[i] \in R /\ ms[i].pieces \in Seq(X)
  <2>1. \A i \in 1 .. Len(ms) : ms[i] \in R
    <3> HIDE DEF R
    <3>1. ms \in Seq(R)
      BY DEF R
    <3> QED
      BY <3>1, ElementOfSeq
  <2> QED
    BY <2>1
<1>2. DOMAIN ms = 1 .. Len(ms) /\ Len(ms) \in Nat
  OBVIOUS
<1> HIDE DEF R, X
<1>3. ss \in Seq(Seq(X)) /\ Len(ss) = Len(ms) /\ \A i \in 1 .. Len(ms) : ss[i] = ms[i].pieces
  BY <1>1, <1>2
<1>4. AllPieces(ms) = FlattenSeq(ss)
  BY DEF AllPieces
<1> HIDE DEF ss
<1>5. ASSUME NEW i \in 1 .. Len(ms) PROVE ms[i] \in Unprompted
  <2> DEFINE m == ms[i]
             s == m.pieces
             K == KindsOf(m.role, m.shape)
  <2>1. /\ m = Message(m.role, m.shape, s) /\ m.role \in Role /\ m.shape \in {"string", "array"}
        /\ s \in Seq(Pieces(K))
        /\ \A j \in 1 .. Len(s) : ~s[j].squeezed
    BY DEF AsTemplate
  <2>2. K \subseteq Plain \ {"prompt"} /\ K \subseteq KindsIn(m)
    BY DEF KindsOf, Plain, KindsIn
  <2>d. m.role = "developer" \/ (m.role = "tool" /\ m.shape = "array" /\ sender.tools) => DropsMessages
    BY <1>2 DEF DropsMessages
  <2>3. ASSUME NEW j \in 1 .. Len(s) PROVE s[j] \in ToSet(AllPieces(ms))
    <3>1. ss[i] = s /\ i \in 1 .. Len(ss)
      BY <1>3
    <3> HIDE DEF s
    <3>2. j \in 1 .. Len(ss[i])
      BY <3>1
    <3>3. ss[i][j] \in ToSet(FlattenSeq(ss))
      BY <1>3, <3>1, <3>2, FlattenMembers
    <3> QED
      BY <1>4, <3>1, <3>3
  <2> HIDE DEF m, s, K
  <2>4. ASSUME NEW j \in 1 .. Len(s)
        PROVE  s[j] \in Good /\ s[j].kind \in K
    <3> DEFINE p == s[j]
    <3>1. p \in Pieces(K)
      BY <2>1, ElementOfSeq
    <3>2. ~p.squeezed /\ p \in ToSet(AllPieces(ms))
      BY <2>1, <2>3
    <3> HIDE DEF p
    <3>3. p \in Pieces(Plain) /\ p.kind \in K
      BY <2>2, <3>1 DEF Pieces
    <3>4. p.kind = "result" => p.id \in Squeezable
      BY <3>2 DEF Squeezable
    <3> QED
      BY <3>2, <3>3, <3>4 DEF Good, p
  <2>5. s \in Seq(Good)
    BY <2>1, <2>4, SMTT(20)
  <2>6. s \in Seq(GoodOf(KindsIn(m)))
    BY <2>2, <2>4, <2>5, GoodSeqWhen
  <2>7. s \in Seq(GoodOf(Plain \ {"prompt"}))
    <3>1. \A j \in 1 .. Len(s) : s[j].kind \in Plain \ {"prompt"}
      BY <2>2, <2>4
    <3> QED
      BY <2>5, <3>1, GoodSeqWhen
  <2>8. m \in GoodMessage
    <3>1. m \in [role : Role, shape : {"string", "array"}, pieces : Seq(Good)] /\ m.pieces = s
      BY <2>1, <2>5 DEF Message
    <3> QED
      BY <2>6, <2>d, <3>1 DEF GoodMessage
  <2>9. m.pieces = s
    BY DEF s
  <2> QED
    BY <2>7, <2>8, <2>9 DEF Unprompted, m
<1> QED
  BY <1>2, <1>5, SMTT(20)

LEMMA SenderFirst == BodyInit => SenderInv
<1> SUFFICES ASSUME BodyInit PROVE SenderInv
  OBVIOUS
<1>1. setup \in [augment : BOOLEAN, rtk : BOOLEAN, forced : BOOLEAN]
  BY BodyAssumption DEF BodyInit
<1>2. CASE sender.format = "openai"
  <2>1. PICK t \in SeqOf(OpenAIMessages, MaxMessages) \ {<<>>} :
          sender.body = [NoBody EXCEPT !.messages = Number(t)] /\ sender.tools \in BOOLEAN
    BY <1>2 DEF BodyInit, Clients
  <2> DEFINE ms == Number(t)
  <2>2. sender.body = [system |-> "absent", prompt |-> <<>>, messages |-> ms]
    BY <2>1 DEF NoBody
  <2> HIDE DEF ms
  <2>3. /\ ms \in Seq([role : Role, shape : {"string", "array"}, pieces : Seq(Pieces(Plain))])
        /\ ms # <<>> /\ \A i \in 1 .. Len(ms) : AsTemplate(ms[i], i)
    <3>1. OpenAIMessages \subseteq OpenAIMessages \cup AnthropicMessages
      OBVIOUS
    <3>2. ms = Number(t)
      BY DEF ms
    <3> QED
      BY <3>1, <3>2, NumberIs
  <2>4. ms = sender.body.messages
    BY <2>2
  <2>5. ms \in Seq(Unprompted)
    BY <2>3, <2>4, TemplatesFresh
  <2>6. ms \in Seq(GoodMessage)
    BY <2>5, UnpromptedMessages
  <2>7. Fresh(sender.body)
    <3>1. <<>> \in Seq(GoodOf({"text"})) /\ <<>> \in Seq(GoodOf({"text", "prompt"}))
      BY EmptySeq
    <3> QED
      BY <2>2, <2>5, <2>6, <3>1 DEF Fresh, GoodBody
  <2> QED
    BY <1>1, <1>2, <2>1, <2>2, <2>3, <2>7 DEF SenderInv
<1>3. CASE sender.format = "anthropic"
  <2>1. PICK system \in {"absent", "string", "blocks"},
             t \in SeqOf(AnthropicMessages, MaxMessages) \ {<<>>} :
          /\ sender.body = [system |-> system,
                            prompt |-> IF system = "absent" THEN <<>> ELSE <<Piece("text", 1)>>,
                            messages |-> Number(t)]
          /\ sender.tools \in BOOLEAN
    BY <1>3 DEF BodyInit, Clients
  <2> DEFINE ms == Number(t)
             s == IF system = "absent" THEN <<>> ELSE <<Piece("text", 1)>>
  <2>2. sender.body = [system |-> system, prompt |-> s, messages |-> ms]
    BY <2>1
  <2>a. s \in Seq(GoodOf({"text"})) /\ s \in Seq(GoodOf({"text", "prompt"}))
        /\ (system = "absent" => s = <<>>)
    <3>1. Piece("text", 1) \in GoodOf({"text"}) /\ Piece("text", 1) \in GoodOf({"text", "prompt"})
      BY DEF Piece, GoodOf, Good, Pieces, Plain
    <3>2. CASE system = "absent"
      <4>1. s = <<>>
        BY <3>2
      <4> HIDE DEF s
      <4> QED
        BY <4>1, EmptySeq
    <3>3. CASE system # "absent"
      <4> DEFINE p == Piece("text", 1)
      <4>1. s = <<p>> /\ p \in GoodOf({"text"}) /\ p \in GoodOf({"text", "prompt"})
        BY <3>1, <3>3
      <4> HIDE DEF s, p
      <4> QED
        BY <3>3, <4>1
    <3> QED
      BY <3>2, <3>3
  <2> HIDE DEF ms, s
  <2>3. /\ ms \in Seq([role : Role, shape : {"string", "array"}, pieces : Seq(Pieces(Plain))])
        /\ ms # <<>> /\ \A i \in 1 .. Len(ms) : AsTemplate(ms[i], i)
    <3>1. AnthropicMessages \subseteq OpenAIMessages \cup AnthropicMessages
      OBVIOUS
    <3>2. ms = Number(t)
      BY DEF ms
    <3> QED
      BY <3>1, <3>2, NumberIs
  <2>4. ms = sender.body.messages
    BY <2>2
  <2>5. ms \in Seq(Unprompted)
    BY <2>3, <2>4, TemplatesFresh
  <2>6. ms \in Seq(GoodMessage)
    BY <2>5, UnpromptedMessages
  <2>7. Fresh(sender.body)
    BY <2>2, <2>5, <2>6, <2>a DEF Fresh, GoodBody
  <2> QED
    BY <1>1, <1>3, <2>1, <2>2, <2>3, <2>7 DEF SenderInv
<1> QED
  BY <1>2, <1>3 DEF BodyInit, Clients

LEMMA BodyStarts == BodyInit => BodyInv
<1> SUFFICES ASSUME BodyInit PROVE BodyInv
  OBVIOUS
<1>1. SenderInv
  BY SenderFirst
<1>2. sender.body \in GoodBody
  BY <1>1, FreshIs DEF SenderInv
<1>3. Staged
  BY BodyAssumption DEF BodyInit, Staged, Target, ConvertingProviders
<1>4. Waiting
  BY <1>1, <1>2, SameItself DEF BodyInit, Waiting, SenderInv
<1>5. Augmented /\ Forth
  BY DEF BodyInit, Augmented, Forth
<1>6. sent.turns \in Seq(GoodTurn)
  BY EmptySeq DEF BodyInit, NoPayload
<1>7. NothingLost(answer)
  BY DEF BodyInit, NothingLost, Only, Filtered
<1> QED
  BY <1>1, <1>3, <1>4, <1>5, <1>6, <1>7 DEF BodyInv

-----------------------------------------------------------------------------
(* Every step keeps the invariant.                                         *)

LEMMA SameClient ==
  ASSUME UNCHANGED <<sender, setup>>
  PROVE  /\ Good' = Good /\ GoodMessage' = GoodMessage /\ GoodBody' = GoodBody
         /\ GoodTurn' = GoodTurn /\ Unprompted' = Unprompted
         /\ Bare' = Bare /\ Added' = Added /\ Once' = Once
         /\ (SenderInv <=> SenderInv')
         /\ Squeezable' = Squeezable /\ Flattened' = Flattened /\ Original' = Original
         /\ (DropsMessages <=> DropsMessages') /\ (AssistantEnds <=> AssistantEnds')
<1>1. Squeezable' = Squeezable /\ Flattened' = Flattened /\ Original' = Original
      /\ (DropsMessages <=> DropsMessages') /\ (AssistantEnds <=> AssistantEnds') /\ Once' = Once
  BY DEF Squeezable, Flattened, Original, AnthropicPayload, DropsMessages, AssistantEnds, Once
<1>2. Good' = Good
  BY <1>1 DEF Good
<1>3. \A kinds : GoodOf(kinds)' = GoodOf(kinds)
  BY <1>2 DEF GoodOf
<1>4. GoodMessage' = GoodMessage
  BY <1>1, <1>2, <1>3 DEF GoodMessage
<1>5. GoodBody' = GoodBody /\ GoodTurn' = GoodTurn /\ Unprompted' = Unprompted
  BY <1>3, <1>4 DEF GoodBody, GoodTurn, Unprompted
<1>6. Bare' = Bare /\ Added' = Added
  BY <1>2 DEF Bare, Added
<1>7. SenderInv <=> SenderInv'
  BY <1>3, <1>5 DEF SenderInv, Fresh
<1> QED
  BY <1>1, <1>2, <1>4, <1>5, <1>6, <1>7


LEMMA CombosPrepare == BodyInv /\ ComboPrepares => BodyInv'
<1> SUFFICES ASSUME BodyInv, ComboPrepares PROVE BodyInv'
  OBVIOUS
<1> DEFINE q == Treated(body)
<1>1. /\ stage = "combo" /\ members = 0 /\ stage' = "loop"
      /\ UNCHANGED <<sender, setup, copy, openai, target, members, sent, answer>>
      /\ body' = IF setup.forced THEN Assigned(q) ELSE q
  BY DEF ComboPrepares, Treated
<1>2. GoodBody' = GoodBody /\ GoodTurn' = GoodTurn /\ Bare' = Bare /\ (SenderInv <=> SenderInv')
  BY <1>1, SameClient
<1>3. body = sender.body /\ body \in GoodBody /\ SenderInv
  BY <1>1 DEF BodyInv, Waiting
<1>4. q \in GoodBody /\ Same(body, q)
  BY <1>3, TreatedBody
<1> HIDE DEF q
<1>5. Assigned(q) \in GoodBody /\ (sender.format # "anthropic" => Assigned(q) = q)
  BY <1>4, AssignedBody
<1>6. body' \in GoodBody
  BY <1>1, <1>4, <1>5
<1>7. sender.format = "openai" => body'.system = "absent"
  <2>1. sender.format = "openai" => q.system = "absent"
    BY <1>3, <1>4 DEF Same, SenderInv
  <2> QED
    BY <1>1, <1>5, <2>1
<1>8. ~Twice' => Same(sender.body, body')
  BY <1>1, <1>3, <1>4 DEF Twice
<1>9. Waiting'
  <2>1. ~Twice' => Same(sender.body, body)'
    BY <1>1, <1>2, <1>8 DEF Same
  <2> QED
    BY <1>1, <1>2, <1>6, <1>7, <2>1 DEF Waiting
<1>10. Staged' /\ Augmented' /\ Forth' /\ NothingLost(answer)'
  BY <1>1 DEF BodyInv, Staged, Augmented, Forth, NothingLost
<1> QED
  BY <1>1, <1>2, <1>3, <1>9, <1>10 DEF BodyInv

LEMMA Dispatches == BodyInv /\ Dispatch => BodyInv'
<1> SUFFICES ASSUME BodyInv, Dispatch PROVE BodyInv'
  OBVIOUS
<1>1. /\ stage = "dispatched" /\ stage' = "handler" /\ copy' = body
      /\ UNCHANGED <<sender, setup, body, openai, target, members, sent, answer>>
  BY DEF Dispatch
<1>2. GoodBody' = GoodBody /\ GoodTurn' = GoodTurn /\ Bare' = Bare /\ (SenderInv <=> SenderInv')
  BY <1>1, SameClient
<1>3. body = sender.body /\ body \in GoodBody /\ (sender.format = "openai" => body.system = "absent")
      /\ (~Twice => Same(sender.body, body)) /\ members = 0
  BY <1>1 DEF BodyInv, Waiting
<1>4. Waiting'
  <2>1. ~Twice' => Same(sender.body, body)'
    BY <1>1, <1>2, <1>3 DEF Same, Twice
  <2> QED
    BY <1>1, <1>2, <1>3, <2>1 DEF Waiting
<1>5. Staged' /\ Augmented' /\ Forth' /\ NothingLost(answer)'
  BY <1>1 DEF BodyInv, Staged, Augmented, Forth, NothingLost
<1> QED
  BY <1>1, <1>2, <1>4, <1>5 DEF BodyInv

LEMMA MembersFail == BodyInv /\ MemberFails => BodyInv'
<1> SUFFICES ASSUME BodyInv, MemberFails PROVE BodyInv'
  OBVIOUS
<1>1. /\ stage = "sent" /\ members > 0 /\ stage' = "loop"
      /\ UNCHANGED <<sender, setup, body, copy, openai, target, members, sent, answer>>
  BY DEF MemberFails
<1>2. GoodBody' = GoodBody /\ GoodTurn' = GoodTurn /\ Bare' = Bare /\ (SenderInv <=> SenderInv')
  BY <1>1, SameClient
<1>3. body \in GoodBody /\ (sender.format = "openai" => body.system = "absent")
      /\ (~Twice => Same(sender.body, body))
  BY <1>1 DEF BodyInv, Waiting
<1>4. Waiting'
  <2>1. ~Twice' => Same(sender.body, body)'
    BY <1>1, <1>2, <1>3 DEF Same, Twice
  <2> QED
    BY <1>1, <1>2, <1>3, <2>1 DEF Waiting
<1>5. Staged' /\ Augmented' /\ Forth' /\ NothingLost(answer)'
  BY <1>1 DEF BodyInv, Staged, Augmented, Forth, NothingLost
<1> QED
  BY <1>1, <1>2, <1>4, <1>5 DEF BodyInv

LEMMA AnswersReturn == BodyInv /\ Answers => BodyInv'
<1> SUFFICES ASSUME BodyInv, Answers PROVE BodyInv'
  OBVIOUS
<1>1. /\ stage = "sent" /\ stage' = "answered"
      /\ UNCHANGED <<sender, setup, body, copy, openai, target, members, sent>>
  BY DEF Answers
<1>2. GoodBody' = GoodBody /\ GoodTurn' = GoodTurn /\ Bare' = Bare /\ (SenderInv <=> SenderInv')
  BY <1>1, SameClient
<1>3. body \in GoodBody /\ (sender.format = "openai" => body.system = "absent")
      /\ (~Twice => Same(sender.body, body))
  BY <1>1 DEF BodyInv, Waiting
<1>4. Waiting'
  <2>1. ~Twice' => Same(sender.body, body)'
    BY <1>1, <1>2, <1>3 DEF Same, Twice
  <2> QED
    BY <1>1, <1>2, <1>3, <2>1 DEF Waiting
<1>5. Staged' /\ Augmented' /\ Forth'
  BY <1>1 DEF BodyInv, Staged, Augmented, Forth
<1>6. NothingLost(answer)'
  <2>1. PICK kinds \in Replies, converts \in BOOLEAN :
          answer' = [from |-> [i \in DOMAIN kinds |-> Piece(kinds[i], i)],
                     to |-> IF converts THEN Regrouped([i \in DOMAIN kinds |-> Piece(kinds[i], i)])
                            ELSE [i \in DOMAIN kinds |-> Piece(kinds[i], i)]]
    BY DEF Answers
  <2> DEFINE a == answer'
             blocks == [i \in DOMAIN kinds |-> Piece(kinds[i], i)]
  <2>2. a = [from |-> blocks, to |-> IF converts THEN Regrouped(blocks) ELSE blocks]
    BY <2>1
  <2>3. blocks = [i \in DOMAIN kinds |-> Piece(kinds[i], i)]
    OBVIOUS
  <2> HIDE DEF a, blocks
  <2>4. NothingLost(a)
    BY <2>2, <2>3, AnswerWhole
  <2> QED
    BY <2>4 DEF a, NothingLost
<1> QED
  BY <1>1, <1>2, <1>4, <1>5, <1>6 DEF BodyInv

LEMMA CombosCall == BodyInv /\ ComboMember => BodyInv'
<1> SUFFICES ASSUME BodyInv, ComboMember PROVE BodyInv'
  OBVIOUS
<1>1. /\ stage = "loop" /\ members < MaxMembers /\ members' = members + 1
      /\ UNCHANGED <<sender, setup, body, openai, answer>>
      /\ members \in 0 .. MaxMembers /\ MaxMembers \in Nat
  BY BodyAssumption DEF ComboMember, BodyInv, Staged
<1>2. /\ GoodBody' = GoodBody /\ GoodTurn' = GoodTurn /\ Bare' = Bare /\ (SenderInv <=> SenderInv')
      /\ Squeezable' = Squeezable /\ Original' = Original
  BY <1>1, SameClient
<1>3. /\ body \in GoodBody /\ (sender.format = "openai" => body.system = "absent")
      /\ (~Twice => Same(sender.body, body)) /\ SenderInv
  BY DEF BodyInv, Waiting
<1>4. members' > 0 /\ members' # 0 /\ members' \in 0 .. MaxMembers /\ (Twice <=> setup.forced)
  BY <1>1 DEF Twice
<1>5. ~Twice' => Same(sender.body, body)'
  BY <1>1, <1>2, <1>3, <1>4 DEF Same, Twice
<1>6. CASE \E t \in ConvertingProviders :
             target' = t /\ copy' = body /\ stage' = "handler" /\ UNCHANGED sent
  <2>1. target' \in Target /\ copy' = body /\ stage' = "handler" /\ sent' = sent
    BY <1>6 DEF Target
  <2>2. Waiting'
    BY <1>1, <1>2, <1>3, <1>4, <1>5, <2>1 DEF Waiting
  <2>3. Staged' /\ Augmented' /\ Forth' /\ NothingLost(answer)'
    BY <1>1, <1>4, <2>1 DEF BodyInv, Staged, Augmented, Forth, NothingLost
  <2>4. sent'.turns \in Seq(GoodTurn)
    BY <2>1 DEF BodyInv
  <2> QED
    BY <1>2, <1>3, <2>2, <2>3, <2>4 DEF BodyInv
<1>7. CASE /\ target' = "minimax" /\ copy' = body /\ stage' = "sent"
           /\ sent' = IF (sender.format = "anthropic") # setup.forced
                      THEN AnthropicPayload(body) ELSE OpenAIPayload(body)
  <2> DEFINE A == AnthropicPayload(body)
             O == OpenAIPayload(body)
             p == sent'
             l == Line(body)
  <2>1. /\ Carries(A.turns, l) /\ (sender.format = "openai" => Carries(O.turns, l))
        /\ Carries(O.turns, AllPieces(body.messages))
        /\ A.tools = sender.tools /\ O.tools = sender.tools
    BY <1>3, PayloadsIs, PayloadsCarry DEF SenderInv
  <2>2. p \in {A, O}
    BY <1>7
  <2>3. ~setup.forced => p = A \/ sender.format = "openai"
    <3>1. CASE sender.format = "anthropic"
      <4>1. ~setup.forced => p = A
        BY <1>3, <1>7, <3>1 DEF SenderInv
      <4> QED
        BY <4>1
    <3> QED
      BY <1>3, <3>1 DEF SenderInv
  <2>4. l \in Seq(Good)
    BY <1>3, BareTyped, LineIs
  <2> HIDE DEF A, O, p, l
  <2>5. p.turns \in Seq(GoodTurn) /\ p.tools = sender.tools
    BY <2>1, <2>2 DEF Carries
  <2>6. ASSUME ~setup.forced PROVE Carries(p.turns, l)
    BY <2>1, <2>2, <2>3, <2>6
  <2>7. Untouched(p.turns)
    BY <2>5, UntouchedTurns
  <2>8. ASSUME ~setup.forced
        PROVE  /\ Said(p.turns) = Said(Original)
               /\ Called(p.turns) = Called(Original)
               /\ Returned(p.turns) = Returned(Original)
    <3>1. sender.body \in GoodBody /\ Through(Bare, l) = Through(Bare, Line(sender.body))
      BY <1>3, <1>4, <2>8 DEF Same, l
    <3> QED
      BY <2>4, <2>6, <2>8, <3>1, SaidAsOriginal
  <2>9. Forth'
    <3> SUFFICES ASSUME ~ConvertedTwice' PROVE Conveyed(sent)'
      BY DEF Forth
    <3>1. ~setup.forced
      BY <1>1, <1>4 DEF ConvertedTwice
    <3>2. /\ Said(sent.turns)' = Said(Original)'
          /\ Called(sent.turns)' = Called(Original)'
          /\ Returned(sent.turns)' = Returned(Original)'
      BY <1>2, <2>8, <3>1 DEF Said, Called, Returned, p
    <3>3. Untouched(sent.turns)'
      BY <1>1, <1>2, <2>7 DEF Untouched, p
    <3>4. target' # "kiro"
      BY <1>7
    <3>5. sent'.tools = sender'.tools
      BY <1>1, <2>5 DEF p
    <3> QED
      BY <1>4, <3>2, <3>3, <3>4, <3>5 DEF Conveyed
  <2>10. Waiting'
    BY <1>1, <1>2, <1>3, <1>4, <1>5, <1>7 DEF Waiting
  <2>11. Staged' /\ Augmented' /\ NothingLost(answer)'
    BY <1>1, <1>4, <1>7 DEF BodyInv, Staged, Augmented, NothingLost, Target
  <2>12. (sent.turns)' \in Seq(GoodTurn)'
    BY <1>2, <2>5 DEF p
  <2> QED
    BY <1>2, <1>3, <2>9, <2>10, <2>11, <2>12 DEF BodyInv
<1> QED
  BY <1>6, <1>7 DEF ComboMember

LEMMA HandlersAugment == BodyInv /\ HandlerAugments => BodyInv'
<1> SUFFICES ASSUME BodyInv, HandlerAugments PROVE BodyInv'
  OBVIOUS
<1> DEFINE owner == IF setup.augment /\ members > 0 THEN AugmentShared(body, body) ELSE body
           q == Treated(body)
           k == KiroBody(body)
           o == IF setup.rtk THEN Squeeze(owner) ELSE owner
<1>1. /\ stage = "handler" /\ stage' = "augmented"
      /\ UNCHANGED <<sender, setup, target, members, sent, answer>>
  BY DEF HandlerAugments
<1>2. /\ copy = body /\ (members = 0 => body = sender.body)
      /\ body \in GoodBody /\ (sender.format = "openai" => body.system = "absent")
      /\ (~Twice => Same(sender.body, body)) /\ SenderInv
  BY <1>1 DEF BodyInv, Waiting
<1>3. copy' = q /\ body' = o
  BY <1>2 DEF HandlerAugments, Treated
<1>4. openai' = IF target # "kiro" THEN NoBody ELSE k
  BY <1>2 DEF HandlerAugments, KiroBody, SharedWith, Converted
<1>5. GoodBody' = GoodBody /\ GoodTurn' = GoodTurn /\ Bare' = Bare /\ (SenderInv <=> SenderInv')
      /\ Added' = Added /\ Once' = Once
  BY <1>1, SameClient
<1>6. /\ q \in GoodBody /\ Same(body, q)
      /\ Fresh(body) => Through(Added, Line(q)) = Once
  BY <1>2, TreatedBody
<1>7. Same(body, o) /\ o \in GoodBody
  <2>1. Same(body, owner)
    BY <1>2, SameItself, SharedBody
  <2> HIDE DEF owner
  <2>2. owner \in GoodBody
    BY <2>1 DEF Same
  <2>3. CASE setup.rtk
    <3>1. Same(owner, Squeeze(owner))
      BY <2>2, <2>3, SqueezedBody
    <3>2. Same(body, Squeeze(owner))
      BY <2>1, <3>1, SameAgain
    <3> QED
      BY <2>3, <3>2 DEF Same
  <2>4. CASE ~setup.rtk
    BY <2>1, <2>2, <2>4
  <2> QED
    BY <2>3, <2>4
<1>8. /\ Systemless(k) /\ ConvertedFrom(body, k)
      /\ Fresh(body) /\ ~(setup.augment /\ body.system = "string") =>
           Through(Added, AllPieces(k.messages)) = Once
  BY <1>2, KiroBodyIs DEF SenderInv
<1> HIDE DEF owner, q, k, o
<1>9. Twice' <=> Twice
  BY <1>1 DEF Twice
<1>10. Waiting'
  <2>1. ASSUME ~Twice PROVE Same(sender.body, o)
    BY <1>2, <1>7, <2>1, SameAgain
  <2>2. ~Twice' => Same(sender.body, body)'
    BY <1>1, <1>3, <1>5, <1>9, <2>1 DEF Same
  <2>3. sender.format = "openai" => o.system = "absent"
    BY <1>2, <1>7 DEF Same
  <2> QED
    BY <1>1, <1>3, <1>5, <1>7, <2>2, <2>3 DEF Waiting
<1>11. members = 0 => Fresh(body)
  BY <1>2 DEF SenderInv
<1>12. Augmented'
  <2>1. ASSUME ~Twice PROVE Same(sender.body, q)
    BY <1>2, <1>6, <2>1, SameAgain
  <2>2. ~Twice' => Same(sender.body, copy)'
    BY <1>1, <1>3, <1>5, <1>9, <2>1 DEF Same
  <2>3. (sender.format = "openai" => copy.system = "absent")'
    BY <1>1, <1>2, <1>3, <1>6 DEF Same
  <2>4. copy' \in GoodBody' /\ (members = 0 => Through(Added, Line(copy)) = Once)'
    BY <1>1, <1>3, <1>5, <1>6, <1>11 DEF Line
  <2>5. ASSUME target = "kiro"
        PROVE  /\ Systemless(openai)'
               /\ ~Twice' => ConvertedFrom(sender.body, openai)'
               /\ (members = 0 /\ ~AugmentationLost => Through(Added, AllPieces(openai.messages)) = Once)'
    <3>1. openai' = k
      BY <1>4, <2>5
    <3>2. Systemless(openai)'
      BY <1>5, <1>8, <3>1 DEF Systemless
    <3>3. ASSUME ~Twice PROVE ConvertedFrom(sender.body, k)
      <4>1. Same(sender.body, body)
        BY <1>2, <3>3
      <4> DEFINE ms == sender.body.messages
      <4>2. Kin(ms, body.messages) /\ Through(Bare, Line(sender.body)) = Through(Bare, Line(body))
        BY <4>1 DEF Same
      <4> HIDE DEF ms
      <4>3. Kin(body.messages, k.messages) /\ Through(Bare, AllPieces(k.messages)) = Through(Bare, Line(body))
        BY <1>8 DEF ConvertedFrom
      <4>4. Kin(ms, k.messages)
        BY <4>2, <4>3, KinAgain
      <4> QED
        BY <4>2, <4>3, <4>4 DEF ConvertedFrom, ms
    <3>4. ~Twice' => ConvertedFrom(sender.body, openai)'
      BY <1>1, <1>5, <1>9, <3>1, <3>3 DEF ConvertedFrom
    <3>5. ASSUME members = 0, ~AugmentationLost PROVE Through(Added, AllPieces(k.messages)) = Once
      <4>1. body.system # "string"
        BY <1>2, <2>5, <3>5 DEF AugmentationLost
      <4> QED
        BY <1>8, <1>11, <3>5, <4>1
    <3>6. (members = 0 /\ ~AugmentationLost => Through(Added, AllPieces(openai.messages)) = Once)'
      BY <1>1, <1>5, <3>1, <3>5 DEF AugmentationLost
    <3> QED
      BY <3>2, <3>4, <3>6
  <2> QED
    BY <1>1, <2>2, <2>3, <2>4, <2>5 DEF Augmented
<1>13. Staged' /\ Forth' /\ NothingLost(answer)'
  BY <1>1 DEF BodyInv, Staged, Forth, NothingLost
<1> QED
  BY <1>1, <1>2, <1>5, <1>10, <1>12, <1>13 DEF BodyInv

LEMMA HandlersExecute == BodyInv /\ Executes => BodyInv'
<1> SUFFICES ASSUME BodyInv, Executes PROVE BodyInv'
  OBVIOUS
<1> DEFINE p == sent'
<1>1. /\ stage = "augmented" /\ stage' = "sent"
      /\ UNCHANGED <<sender, setup, body, copy, openai, target, members, answer>>
  BY DEF Executes
<1>2. /\ copy \in GoodBody /\ (sender.format = "openai" => copy.system = "absent")
      /\ (~Twice => Same(sender.body, copy))
      /\ (members = 0 => Through(Added, Line(copy)) = Once)
      /\ SenderInv /\ target \in Target
  BY <1>1 DEF BodyInv, Augmented, Staged
<1>3. ASSUME target = "kiro"
      PROVE  /\ Systemless(openai)
             /\ ~Twice => ConvertedFrom(sender.body, openai)
             /\ members = 0 /\ ~AugmentationLost => Through(Added, AllPieces(openai.messages)) = Once
  BY <1>1, <1>3 DEF BodyInv, Augmented
<1>4. Twice <=> ConvertedTwice
  BY <1>1 DEF Twice, ConvertedTwice
<1>5. p.turns \in Seq(GoodTurn)
      /\ (~ConvertedTwice /\ ~(target = "kiro" /\ (DropsMessages \/ AssistantEnds)) => Conveyed(p))
  <2>1. CASE target = "kiro"
    <3>1. p = ConvertMessages(openai.messages, sender.tools)
      BY <2>1 DEF Executes
    <3> HIDE DEF p
    <3>2. openai.messages \in Seq(GoodMessage)
      BY <1>3, <2>1, BodyIs DEF Systemless
    <3>3. p.turns \in Seq(GoodTurn)
      <4>1. sender.tools \in BOOLEAN
        BY <1>2 DEF SenderInv
      <4>2. ConvertMessages(openai.messages, sender.tools).turns \in Seq(GoodTurn)
        BY <3>2, <4>1, KiroTyped
      <4> QED
        BY <3>1, <4>2
    <3>4. ASSUME ~ConvertedTwice, ~DropsMessages, ~AssistantEnds PROVE Conveyed(p)
      <4>1. Fresh(sender.body) /\ sender.body.messages # <<>> /\ sender.tools \in BOOLEAN
        BY <1>2 DEF SenderInv
      <4>2. Systemless(openai) /\ ConvertedFrom(sender.body, openai)
        BY <1>3, <1>4, <2>1, <3>4
      <4>3. members = 0 /\ ~AugmentationLost => Through(Added, AllPieces(openai.messages)) = Once
        BY <1>3, <2>1
      <4> QED
        BY <2>1, <3>1, <3>4, <4>1, <4>2, <4>3, KiroConveys
    <3> QED
      BY <2>1, <3>3, <3>4
  <2>2. CASE target # "kiro"
    <3> DEFINE l == Line(copy)
    <3>1. p = SentOf(copy)
      <4>1. CASE target \in {"pioneer", "codebuddy"}
        BY <4>1 DEF Executes, SentOf
      <4>2. CASE target = "zai"
        BY <4>2 DEF Executes, SentOf
      <4>3. CASE target = "qwencloud"
        BY <4>3 DEF Executes, SentOf
      <4>4. CASE target = "minimax"
        BY <4>4 DEF Executes, SentOf
      <4> QED
        BY <1>2, <2>2, <4>1, <4>2, <4>3, <4>4 DEF Target, ConvertingProviders
    <3> HIDE DEF p
    <3>2. Carries(SentOf(copy).turns, l) /\ SentOf(copy).tools = sender.tools
      BY <1>2, <2>2, SentIs DEF SenderInv
    <3>3. l \in Seq(Good)
      BY <1>2, BareTyped, LineIs
    <3>4. members = 0 => Through(Added, l) = Once
      BY <1>2
    <3>5. ~ConvertedTwice => Through(Bare, l) = Through(Bare, Line(sender.body))
      BY <1>2, <1>4 DEF Same
    <3> HIDE DEF l
    <3>6. Carries(p.turns, l) /\ p.tools = sender.tools
      BY <3>1, <3>2
    <3>7. ASSUME ~ConvertedTwice PROVE Conveyed(p)
      <4>1. sender.body \in GoodBody
        BY <1>2, FreshIs DEF SenderInv
      <4> QED
        BY <2>2, <3>3, <3>4, <3>5, <3>6, <3>7, <4>1, ConveyedTurns
    <3>8. p.turns \in Seq(GoodTurn)
      BY <3>6 DEF Carries
    <3> QED
      BY <3>7, <3>8
  <2> QED
    BY <2>1, <2>2
<1>6. /\ GoodBody' = GoodBody /\ GoodTurn' = GoodTurn /\ Bare' = Bare /\ (SenderInv <=> SenderInv')
      /\ Squeezable' = Squeezable /\ Original' = Original /\ Flattened' = Flattened
      /\ (DropsMessages <=> DropsMessages') /\ (AssistantEnds <=> AssistantEnds')
  BY <1>1, SameClient
<1>7. Waiting'
  <2>1. body \in GoodBody /\ (sender.format = "openai" => body.system = "absent")
        /\ (~Twice => Same(sender.body, body))
    BY DEF BodyInv, Waiting
  <2>2. ~Twice' => Same(sender.body, body)'
    BY <1>1, <1>6, <2>1 DEF Same, Twice
  <2> QED
    BY <1>1, <1>6, <2>1, <2>2 DEF Waiting
<1>8. Forth'
  <2> SUFFICES ASSUME ~ConvertedTwice', ~(target = "kiro" /\ (DropsMessages \/ AssistantEnds))'
               PROVE  Conveyed(sent)'
    BY DEF Forth
  <2>1. Conveyed(p)
    BY <1>1, <1>5, <1>6 DEF ConvertedTwice
  <2>2. Conveyed(sent')
    BY <2>1
  <2>3. Untouched(sent.turns)' <=> Untouched(sent'.turns)
    BY <1>1, <1>6 DEF Untouched
  <2>4. AugmentationLost' <=> AugmentationLost
    BY <1>1 DEF AugmentationLost
  <2>5. /\ Said(sent.turns)' = Said(sent'.turns) /\ Called(sent.turns)' = Called(sent'.turns)
        /\ Returned(sent.turns)' = Returned(sent'.turns) /\ Prompts(sent.turns)' = Prompts(sent'.turns)
    BY DEF Said, Called, Returned, Prompts
  <2> QED
    BY <1>1, <1>6, <2>2, <2>3, <2>4, <2>5 DEF Conveyed
<1>9. Staged' /\ Augmented' /\ NothingLost(answer)'
  BY <1>1 DEF BodyInv, Staged, Augmented, NothingLost
<1> QED
  BY <1>2, <1>5, <1>6, <1>7, <1>8, <1>9 DEF BodyInv

LEMMA BodyRests == BodyInv /\ UNCHANGED bodyVars => BodyInv'
<1> SUFFICES ASSUME BodyInv, UNCHANGED bodyVars PROVE BodyInv'
  OBVIOUS
<1>1. UNCHANGED <<sender, setup, body, copy, openai, stage, target, members, sent, answer>>
  BY DEF bodyVars
<1>2. /\ GoodBody' = GoodBody /\ GoodTurn' = GoodTurn /\ Bare' = Bare /\ (SenderInv <=> SenderInv')
      /\ Added' = Added /\ Once' = Once
      /\ Squeezable' = Squeezable /\ Original' = Original /\ Flattened' = Flattened
      /\ (DropsMessages <=> DropsMessages') /\ (AssistantEnds <=> AssistantEnds')
  BY <1>1, SameClient
<1>3. Waiting' <=> Waiting
  BY <1>1, <1>2 DEF Waiting, Twice, Same
<1>4. Augmented' <=> Augmented
  BY <1>1, <1>2 DEF Augmented, Twice, Same, Systemless, ConvertedFrom, AugmentationLost, Line
<1>5. Forth' <=> Forth
  BY <1>1, <1>2 DEF Forth, Conveyed, ConvertedTwice, Untouched, AugmentationLost, Said, Called, Returned, Prompts
<1> QED
  BY <1>1, <1>2, <1>3, <1>4, <1>5 DEF BodyInv, Staged, NothingLost

LEMMA BodySteps == BodyInv /\ [BodyNext]_bodyVars => BodyInv'
BY CombosPrepare, CombosCall, Dispatches, HandlersAugment, HandlersExecute, MembersFail,
   AnswersReturn, BodyRests DEF BodyNext

(* The bodies keep to their types.                                         *)
THEOREM BodyTypes == BodySpec => []BodyTypeOK
<1>1. BodyInv => BodyTypeOK
  BY BodyImplies
<1> QED
  BY <1>1, BodyStarts, BodySteps, PTL DEF BodySpec

(* Every text, tool use and tool result of a client reaches the upstream   *)
(* once and in order, by every handler, directly and through a combo, for  *)
(* any conversation of any length: what was mutated in place after it was  *)
(* shared, or converted before it was augmented, has lost nothing that the *)
(* exceptions of the property do not name, and no answer loses a block.    *)
THEOREM ConversationsReachUpstream == BodySpec => []ConversationReachesUpstream
<1>1. BodyInv => ConversationReachesUpstream
  BY BodyImplies
<1> QED
  BY <1>1, BodyStarts, BodySteps, PTL DEF BodySpec
===============================================================================
