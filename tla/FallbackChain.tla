---------------------------- MODULE FallbackChain ----------------------------
(***************************************************************************)
(* What a combo promises its client, without saying how: the members are   *)
(* tried in their order and each at most once, a member that answers ends  *)
(* the chain, a failure another model may cure moves it on, any other      *)
(* failure ends it, and a client that gets an error gets the one of the    *)
(* last member that failed (429 when every member was passed over).        *)
(* ComboChain is shown to implement this specification.                    *)
(***************************************************************************)
EXTENDS Integers

CONSTANTS
  Request,
  MaxMembers,   \* length of the longest combo
  Retryable,    \* the statuses another model may cure
  Final         \* the statuses it may not

VARIABLES
  phase,        \* of each request
  size,         \* members of its combo
  tried,        \* the last member that was given its turn
  verdict       \* the status of the last failure, 0 without one
vars == <<phase, size, tried, verdict>>

Init ==
  /\ phase = [r \in Request |-> "rest"]
  /\ size = [r \in Request |-> 0]
  /\ tried = [r \in Request |-> 0]
  /\ verdict = [r \in Request |-> 0]

Begin(r) ==
  /\ phase[r] \in {"rest", "delivered", "failed"}
  /\ phase' = [phase EXCEPT ![r] = "between"]
  /\ \E n \in 1 .. MaxMembers : size' = [size EXCEPT ![r] = n]
  /\ tried' = [tried EXCEPT ![r] = 0]
  /\ verdict' = [verdict EXCEPT ![r] = 0]

\* Some members may be passed over, none is returned to.
GiveTurn(r) ==
  /\ phase[r] = "between"
  /\ \E n \in tried[r] + 1 .. size[r] : tried' = [tried EXCEPT ![r] = n]
  /\ UNCHANGED size

Try(r) ==
  /\ GiveTurn(r)
  /\ phase' = [phase EXCEPT ![r] = "trying"]
  /\ UNCHANGED verdict

\* The member is refused before its upstream is called.
Refuse(r) ==
  /\ GiveTurn(r)
  /\ \E status \in Retryable : verdict' = [verdict EXCEPT ![r] = status]
  /\ UNCHANGED phase

Fail(r) ==
  /\ phase[r] = "trying"
  /\ \/ /\ \E status \in Retryable : verdict' = [verdict EXCEPT ![r] = status]
        /\ phase' = [phase EXCEPT ![r] = "between"]
     \/ /\ \E status \in Final : verdict' = [verdict EXCEPT ![r] = status]
        /\ phase' = [phase EXCEPT ![r] = "failed"]
  /\ UNCHANGED <<size, tried>>

Deliver(r) ==
  /\ phase[r] = "trying"
  /\ phase' = [phase EXCEPT ![r] = "delivered"]
  /\ UNCHANGED <<size, tried, verdict>>

\* No member is left, or none of the remaining can be tried.
GiveUp(r) ==
  /\ phase[r] = "between"
  /\ phase' = [phase EXCEPT ![r] = "failed"]
  /\ verdict' = [verdict EXCEPT ![r] = IF @ = 0 THEN 429 ELSE @]
  /\ UNCHANGED <<size, tried>>

\* No account is enabled at all: 503.
TurnAway(r) ==
  /\ phase[r] = "between" /\ tried[r] = 0
  /\ phase' = [phase EXCEPT ![r] = "failed"]
  /\ verdict' = [verdict EXCEPT ![r] = 503]
  /\ UNCHANGED <<size, tried>>

Next == \E r \in Request :
  Begin(r) \/ Try(r) \/ Refuse(r) \/ Fail(r) \/ Deliver(r) \/ GiveUp(r) \/ TurnAway(r)

Spec == Init /\ [][Next]_vars
=============================================================================
