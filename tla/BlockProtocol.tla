---------------------------- MODULE BlockProtocol ----------------------------
(***************************************************************************)
(* What an Anthropic client relies on in a message stream: message_start,  *)
(* content blocks one after the other with the indices 0, 1, 2..., each    *)
(* started once and stopped once with its deltas in between, then          *)
(* message_delta and message_stop, and nothing more.  A stream may break   *)
(* off anywhere, but it ends properly only after message_stop.             *)
(***************************************************************************)
EXTENDS Integers

VARIABLES
  shown,       \* the last event: "nothing" before the first
  opened,      \* how many blocks have been started
  ended        \* "open", "closed" or "broken"

protocolVars == <<shown, opened, ended>>

Init == shown = "nothing" /\ opened = 0 /\ ended = "open"

MessageStart == shown = "nothing" /\ shown' = "message_start" /\ UNCHANGED <<opened, ended>>

\* `index` is the one the event names.
BlockStart(index) ==
  /\ shown \in {"message_start", "block_stop"} /\ index = opened
  /\ shown' = "block_start" /\ opened' = opened + 1 /\ UNCHANGED ended

Delta(index) ==
  /\ shown \in {"block_start", "delta"} /\ index \in 0 .. opened - 1
  /\ shown' = "delta" /\ UNCHANGED <<opened, ended>>

BlockStop(index) ==
  /\ shown \in {"block_start", "delta"} /\ index = opened - 1
  /\ shown' = "block_stop" /\ UNCHANGED <<opened, ended>>

MessageDelta ==
  /\ shown \in {"message_start", "block_stop"}
  /\ shown' = "message_delta" /\ UNCHANGED <<opened, ended>>

MessageStop ==
  shown = "message_delta" /\ shown' = "message_stop" /\ UNCHANGED <<opened, ended>>

End ==
  /\ ended = "open"
  /\ \/ ended' = "broken"
     \/ ended' = "closed" /\ shown = "message_stop"
  /\ UNCHANGED <<shown, opened>>

Next ==
  \/ /\ ended = "open"
     /\ \/ MessageStart \/ MessageDelta \/ MessageStop
        \/ \E index \in 0 .. opened : BlockStart(index) \/ Delta(index) \/ BlockStop(index)
  \/ End

Spec == Init /\ [][Next]_protocolVars
==============================================================================
