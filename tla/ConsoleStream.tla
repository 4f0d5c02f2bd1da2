----------------------------- MODULE ConsoleStream -----------------------------
(***************************************************************************)
(* The request-flow console: the bus with its ring of recent events, the   *)
(* SSE endpoint that replays the ring and then subscribes, the page that   *)
(* batches what arrives into frames, and the sink that prints to stdout.   *)
(*                                                                         *)
(* An event is its number in `log`, the history of what was emitted.  The  *)
(* ids that genReqId draws are taken to be distinct (see the README).      *)
(***************************************************************************)
EXTENDS Integers, Sequences, FiniteSets, SequencesExt

CONSTANTS
  MaxRequests,    \* bounds the requests
  RingCap,        \* of the bus
  MaxEvents,      \* that the page keeps
  HighWater,      \* of the coalescer before stdout
  MaxConnections, \* bounds the reconnects
  MaxLog          \* bounds the events emitted

ASSUME ConsoleAssumption == {MaxRequests, RingCap, MaxEvents, HighWater, MaxConnections, MaxLog} \subseteq Nat \ {0}

VARIABLES
  log,         \* the events emitted, each a request and a phase
  ring,        \* buf, head and size of ConsoleBus
  stream,      \* per connection: "new", "replaying", "subscribed", or how it ended
  replay,      \* of the connection that replays: what is still to be written
  wire,        \* events written for the page and not yet received
  page,        \* pending, shown, paused, and whether a frame is asked for
  missed,      \* events the page was not sent, or gave up
  stdout       \* the coalescer's buffer, and the last event printed
consoleVars == <<log, ring, stream, replay, wire, page, missed, stdout>>

Connection == 1 .. MaxConnections
\* In the order they start in.
ConsoleRequest == 1 .. MaxRequests

ConsoleInit ==
  /\ log = <<>>
  /\ ring = [buf |-> [i \in 0 .. RingCap - 1 |-> 0], head |-> 0, size |-> 0]
  /\ stream = [c \in Connection |-> "new"]
  /\ replay = <<>> /\ wire = <<>> /\ missed = {}
  /\ page = [pending |-> <<>>, shown |-> <<>>, paused |-> FALSE, frame |-> FALSE]
  /\ stdout = [buf |-> <<>>, printed |-> 0]

\* The last n elements of a sequence.
Newest(s, n) == IF Len(s) <= n THEN s ELSE SubSeq(s, Len(s) - n + 1, Len(s))

-----------------------------------------------------------------------------
(* ConsoleBus *)

Stored(e) ==
  [buf |-> [ring.buf EXCEPT ![ring.head] = e], head |-> (ring.head + 1) % RingCap,
   size |-> IF ring.size < RingCap THEN ring.size + 1 ELSE ring.size]
Recent ==
  LET start == IF ring.size < RingCap THEN (ring.head - ring.size + RingCap) % RingCap ELSE ring.head
  IN [i \in 1 .. ring.size |-> ring.buf[(start + i - 1) % RingCap]]

\* The page's connection, if the server has subscribed it.
Subscribed == \E c \in Connection : stream[c] = "subscribed"
Phases(r) == {log[k].phase : k \in {j \in DOMAIN log : log[j].req = r}}
Settled(S) == {"done", "error"} \cap S # {}
\* "account" stands for what is told between the start and the end.
MayEmit(r, phase) ==
  CASE phase = "start" -> Phases(r) = {} /\ \A q \in 1 .. r - 1 : Phases(q) # {}
    [] phase = "account" -> Phases(r) = {"start"}
    [] phase \in {"done", "error"} -> "start" \in Phases(r) /\ ~Settled(Phases(r))

\* Every subscriber is called at once: the stream writes, the sink buffers.
Emit(r, phase) ==
  LET e == Len(log) + 1 IN
  /\ Len(log) < MaxLog /\ MayEmit(r, phase)
  /\ log' = Append(log, [req |-> r, phase |-> phase])
  /\ ring' = Stored(e)
  /\ stdout' = [stdout EXCEPT !.buf = Newest(Append(@, e), HighWater)]
  /\ IF Subscribed THEN wire' = Append(wire, e) /\ missed' = missed
     ELSE wire' = wire /\ missed' = missed \cup {e}
  /\ UNCHANGED <<stream, replay, page>>

\* A timer, 50 ms after the first event of a batch; the buffer goes in one write.
Prints ==
  /\ stdout.buf # <<>>
  /\ stdout' = [buf |-> <<>>, printed |-> Last(stdout.buf)]
  /\ UNCHANGED <<log, ring, stream, replay, wire, page, missed>>

-----------------------------------------------------------------------------
(* GET /api/admin/console/stream *)

Connected == \E c \in Connection : stream[c] \in {"replaying", "subscribed"}
Opens(c, stage) ==
  /\ ~Connected /\ stream[c] = "new" /\ \A d \in 1 .. c - 1 : stream[d] # "new"
  /\ stream' = [stream EXCEPT ![c] = stage]
  /\ replay' = Recent
  /\ missed' = missed \ ToSet(Recent)
  /\ UNCHANGED <<log, ring, wire, page, stdout>>
\* Mutant of StreamOpens: the handler subscribes before it replays.
StreamOpensSubscribed(c) == Opens(c, "subscribed")
StreamOpens(c) == Opens(c, "replaying")

\* Each event of the replay is awaited; others may be emitted in between.
ReplayWrites(c) ==
  /\ stream[c] \in {"replaying", "subscribed"} /\ replay # <<>>
  /\ wire' = Append(wire, Head(replay)) /\ replay' = Tail(replay)
  /\ UNCHANGED <<log, ring, stream, page, missed, stdout>>

Subscribe(c) ==
  /\ stream[c] = "replaying" /\ replay = <<>>
  /\ stream' = [stream EXCEPT ![c] = "subscribed"]
  /\ UNCHANGED <<log, ring, replay, wire, page, missed, stdout>>

\* The connection breaks and the EventSource will open another.  onAbort is
\* registered after the replay: an abort before that finds nobody, and the
\* handler goes on to subscribe for a client that is gone.
ConnectionBreaks(c) ==
  /\ stream[c] \in {"replaying", "subscribed"}
  /\ stream' = [stream EXCEPT ![c] = IF @ = "replaying" THEN "abandoned" ELSE "closed"]
  /\ missed' = missed \cup ToSet(wire) \cup ToSet(replay)
  /\ wire' = <<>> /\ replay' = <<>>
  /\ UNCHANGED <<log, ring, page, stdout>>

-----------------------------------------------------------------------------
(* Console.tsx *)

MessageArrives ==
  /\ wire # <<>>
  /\ wire' = Tail(wire)
  /\ IF page.paused THEN missed' = missed \cup {Head(wire)} /\ page' = page
     ELSE /\ missed' = missed
          /\ page' = [page EXCEPT !.pending = Append(@, Head(wire)), !.frame = TRUE]
  /\ UNCHANGED <<log, ring, stream, replay, stdout>>

\* The next animation frame takes the batch over; the oldest are cut off.
FrameFlushes ==
  /\ page.frame
  /\ LET all == page.shown \o page.pending IN
     /\ page' = [page EXCEPT !.frame = FALSE, !.pending = <<>>, !.shown = Newest(all, MaxEvents)]
     /\ missed' = missed \cup (ToSet(all) \ ToSet(Newest(all, MaxEvents)))
  /\ UNCHANGED <<log, ring, stream, replay, wire, stdout>>

PauseOrClear ==
  /\ \/ page' = [page EXCEPT !.paused = ~@] /\ missed' = missed
     \/ page' = [page EXCEPT !.shown = <<>>] /\ missed' = missed \cup ToSet(page.shown)
  /\ UNCHANGED <<log, ring, stream, replay, wire, stdout>>

\* groupBlocks: what the page shows of a request.
BlockPhases(r) == {log[page.shown[i]].phase : i \in {j \in DOMAIN page.shown : log[page.shown[j]].req = r}}
\* Mutant of InFlight: a failure does not settle a block.
InFlightUntilDone(r) == "start" \in BlockPhases(r) /\ "done" \notin BlockPhases(r)
InFlight(r) == "start" \in BlockPhases(r) /\ ~Settled(BlockPhases(r))
\* The stat strip counts start events, not blocks.
ActiveCount ==
  Cardinality({i \in DOMAIN page.shown :
    log[page.shown[i]].phase = "start" /\ InFlight(log[page.shown[i]].req)})

ConsoleNext ==
  \/ \E r \in ConsoleRequest, phase \in {"start", "account", "done", "error"} : Emit(r, phase)
  \/ \E c \in Connection : StreamOpens(c) \/ ReplayWrites(c) \/ Subscribe(c) \/ ConnectionBreaks(c)
  \/ Prints \/ MessageArrives \/ FrameFlushes \/ PauseOrClear

ConsoleSpec == ConsoleInit /\ [][ConsoleNext]_consoleVars

-----------------------------------------------------------------------------
ConsoleTypeOK ==
  /\ \A i \in DOMAIN log : log[i].req \in ConsoleRequest
  /\ ring.head \in 0 .. RingCap - 1 /\ ring.size \in 0 .. RingCap
  /\ stream \in [Connection -> {"new", "replaying", "subscribed", "abandoned", "closed"}]
  /\ missed \subseteq DOMAIN log
  /\ Len(page.shown) <= MaxEvents /\ Len(stdout.buf) <= HighWater

(* When everything has arrived, the page is right about what runs: a block  *)
(* is in flight exactly while its request is, and the number of active      *)
(* requests in the stat strip is theirs.  A replay after a reconnect        *)
(* repeats start events, which the strip counts again.                      *)
Reconnected == stream[1] \in {"abandoned", "closed"}
BlocksTruthful ==
  wire = <<>> /\ page.pending = <<>> /\ replay = <<>> /\ missed = {} =>
    LET running == {r \in ConsoleRequest : "start" \in Phases(r) /\ ~Settled(Phases(r))} IN
    /\ {r \in ConsoleRequest : InFlight(r)} = running
    /\ ~Reconnected => ActiveCount = Cardinality(running)

(* The page gets what was emitted, each event once and in order, as long as *)
(* its connection holds: the replay brings the newest events, and what the  *)
(* server emits after it follows.  What is lost was emitted while it        *)
(* replayed or was disconnected, arrived while paused, or was cut off or    *)
(* cleared; nothing gets stuck without a frame.  stdout prints in order and *)
(* drops only from a burst beyond the high water.                           *)
Increasing(s) == \A i \in 1 .. Len(s) - 1 : s[i] < s[i + 1]
ConsoleReplay ==
  LET held == page.shown \o page.pending \o wire IN
  /\ Recent = Newest([k \in DOMAIN log |-> k], RingCap)
  /\ ~Reconnected => Increasing(held \o replay)
  /\ DOMAIN log \ missed \subseteq ToSet(held \o replay)
  /\ page.pending # <<>> => page.frame
  /\ Increasing(<<stdout.printed>> \o stdout.buf)
  /\ Last(<<stdout.printed>> \o stdout.buf) = Len(log)
  /\ BlocksTruthful
===============================================================================
