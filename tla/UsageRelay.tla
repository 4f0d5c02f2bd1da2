------------------------------ MODULE UsageRelay ------------------------------
(***************************************************************************)
(* Reading an upstream's stream that arrives in chunks cut anywhere, and   *)
(* the report of its usage:                                                *)
(*  "tail":   pipeWithUsage, with the TailBuffer that holds the pending     *)
(*            line among its last chunks;                                  *)
(*  "buffer": iterSSEChunks under openaiSSEToAnthropicSSE;                 *)
(*  "frames": consumeKiroFrames, with the ChunkAccumulator.                *)
(*                                                                         *)
(* A body is a sequence of units: SSE lines, or event-stream frames.  A    *)
(* unit is some pieces long, and complete with the last of them; the body  *)
(* may break off inside a unit.  Sizes are counted in pieces.              *)
(***************************************************************************)
EXTENDS Integers, Sequences, SequencesExt, FiniteSetsExt

CONSTANTS
  Bodies,       \* the bodies: sequences of units
  Size,         \* the pieces of each unit
  UsageUnits,   \* the units that carry a usage
  TailBytes     \* TAIL_BYTES

ASSUME RelayAssumption ==
  /\ TailBytes \in Nat \ {0}
  /\ Size \in [DOMAIN Size -> Nat \ {0}] /\ \A body \in Bodies : body \in Seq(DOMAIN Size)

VARIABLES
  reader,      \* which of the three reads this body
  pieces,      \* the pieces of the body that will arrive
  arrived,     \* how many have
  held,        \* the chunks kept for the unit that is not complete
  read,        \* the units that were read, as positions in the body
  flow,        \* "piping", "ended", "aborted" or "broken"
  gone,        \* the signal of the client has fired
  reports,     \* the usages reported to onUsage
  overflowed   \* history: the TailBuffer has dropped a chunk
relayVars == <<reader, pieces, arrived, held, read, flow, gone, reports, overflowed>>

NoUsage == "none"

\* The pieces of a body: unit, part, and whether it ends its unit.
Part(unit, at, part) == [unit |-> unit, at |-> at, last |-> part = Size[unit], part |-> part]
PiecesOf(body) ==
  FlattenSeq([i \in DOMAIN body |-> [p \in 1 .. Size[body[i]] |-> Part(body[i], i, p)]])

RelayInit ==
  /\ reader \in {"tail", "buffer", "frames"}
  /\ \E body \in Bodies : \E cut \in 0 .. 1 :
       LET whole == PiecesOf(body) IN pieces = SubSeq(whole, 1, Len(whole) - cut)
  /\ arrived = 0 /\ held = <<>> /\ read = <<>>
  /\ flow = "piping" /\ gone = FALSE /\ reports = <<>> /\ overflowed = FALSE

-----------------------------------------------------------------------------
\* TailBuffer.push: the oldest chunks go while the whole exceeds TAIL_BYTES.
Length(chunks) == Len(FlattenSeq(chunks))
Drops(chunks) ==
  Min({n \in 0 .. Len(chunks) - 1 :
         n = Len(chunks) - 1 \/ Length(SubSeq(chunks, n + 1, Len(chunks))) <= TailBytes})
Pushed(chunks) ==
  IF reader = "tail" THEN SubSeq(chunks, Drops(chunks) + 1, Len(chunks)) ELSE chunks

\* Up to the last complete unit, and what is left: parseSseDataLines, the loop
\* of iterSSEChunks, decodeFrames.
Boundary(text) == LET ends == {i \in DOMAIN text : text[i].last} IN
  IF ends = {} THEN 0 ELSE Max(ends)
Complete(text) == SubSeq(text, 1, Boundary(text))
\* Mutant of Rest: what follows the last complete unit is thrown away.
RestDropped(text) == <<>>
Rest(text) == SubSeq(text, Boundary(text) + 1, Len(text))

\* The units that parse: all of their pieces are there.
Whole(text, i) ==
  LET start == i - text[i].part IN
  /\ text[i].last /\ start >= 0
  /\ \A k \in 1 .. text[i].part : text[start + k].at = text[i].at /\ text[start + k].part = k
Units(text) ==
  FlattenSeq([i \in DOMAIN text |-> IF Whole(text, i) THEN <<text[i].at>> ELSE <<>>])

\* The usage of the last unit read that has one (extractUsageFromSSEStream).
LastUsage(units) ==
  LET at == {i \in DOMAIN units : \E p \in ToSet(pieces) : p.at = units[i] /\ p.unit \in UsageUnits}
  IN IF at = {} THEN NoUsage ELSE units[Max(at)]

-----------------------------------------------------------------------------
\* A chunk of any length; an aborted relay reads it, reports and terminates.
ChunkArrives ==
  /\ flow = "piping" /\ arrived < Len(pieces)
  /\ \E n \in 1 .. Len(pieces) - arrived :
       LET chunk == SubSeq(pieces, arrived + 1, arrived + n)
           kept == Pushed(Append(held, chunk))
           text == FlattenSeq(kept)
           now == read \o Units(Complete(text))
       IN /\ arrived' = arrived + n /\ read' = now
          /\ held' = IF Boundary(text) = 0 THEN kept ELSE <<Rest(text)>>
          /\ overflowed' = (overflowed \/ Len(kept) <= Len(held))
          /\ IF reader = "tail" /\ gone
             THEN flow' = "aborted" /\ reports' = Append(reports, LastUsage(now))
             ELSE UNCHANGED <<flow, reports>>
  /\ UNCHANGED <<reader, pieces, gone>>

\* The end of the body: flush, or the callback after controller.close.
BodyEnds ==
  /\ flow = "piping" /\ arrived = Len(pieces)
  /\ flow' = "ended"
  /\ reports' = IF reader = "frames" THEN reports ELSE Append(reports, LastUsage(read))
  /\ UNCHANGED <<reader, pieces, arrived, held, read, gone, overflowed>>

\* The client leaves: its signal fires, its stream is cancelled, or both.
SignalAborts ==
  /\ flow = "piping" /\ ~gone /\ gone' = TRUE
  /\ UNCHANGED <<reader, pieces, arrived, held, read, flow, reports, overflowed>>
\* A cancelled or broken stream runs neither transform nor flush again.
StreamBreaks ==
  /\ flow = "piping" /\ flow' = "broken"
  /\ UNCHANGED <<reader, pieces, arrived, held, read, gone, reports, overflowed>>

RelayNext == ChunkArrives \/ BodyEnds \/ SignalAborts \/ StreamBreaks

RelaySpec == RelayInit /\ [][RelayNext]_relayVars

-----------------------------------------------------------------------------
RelayTypeOK ==
  /\ reader \in {"tail", "buffer", "frames"} /\ arrived \in 0 .. Len(pieces)
  /\ flow \in {"piping", "ended", "aborted", "broken"} /\ {gone, overflowed} \subseteq BOOLEAN
  /\ Length(held) <= arrived /\ Len(reports) <= 1

(* Where a stream is cut into chunks makes no difference: what was read are *)
(* the complete units of all that has arrived, each once and in order, and  *)
(* what is reported, at most once, is the usage of the last of them that    *)
(* has one; also when the report is made for a client that has left.  The   *)
(* TailBuffer's limit is the exception: it drops the start of a pending     *)
(* line, which then is the line that is missing.                            *)
CompleteUnits == Units(SubSeq(pieces, 1, arrived))
UsageSurvivesCuts ==
  /\ ~overflowed => read = CompleteUnits
  /\ flow \in {"ended", "aborted"} /\ reader # "frames" =>
       /\ Len(reports) = 1
       /\ ~overflowed => reports[1] = LastUsage(CompleteUnits)
===============================================================================
