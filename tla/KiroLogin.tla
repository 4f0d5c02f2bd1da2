------------------------------ MODULE KiroLogin ------------------------------
(***************************************************************************)
(* Adding a Kiro account with a device code: the hook of the dialog        *)
(* (useKiroDeviceFlow) with its step, its interval and its two refs, the   *)
(* two endpoints of the admin API behind it, and AWS SSO OIDC, which is    *)
(* external.                                                               *)
(*                                                                         *)
(* Device codes are numbered in the order they are asked for, and each     *)
(* gets at most one interval.  clearInterval stops the interval pollRef    *)
(* names, which need not be the one that calls it.  Requests of a dialog   *)
(* that was reset are not cancelled, and an interval does not wait for the *)
(* answer to its last poll.                                                *)
(***************************************************************************)
EXTENDS Integers, FiniteSets

CONSTANTS
  Lifetime,   \* intervals until a device code's deadline (expiresIn)
  MaxCodes,   \* bound: device codes asked for in a behaviour
  MaxPolls    \* bound: polls under way at once; more fail at once

ASSUME LoginAssumption == {Lifetime, MaxCodes, MaxPolls} \subseteq Nat

VARIABLES
  login,      \* the hook: [step, data, abort, poll]; data and poll 0 are null
  asked,      \* device codes asked for so far
  starting,   \* those whose answer is on its way
  interval,   \* per code: intervals left to the deadline, or OFF
  poll,       \* the polls under way: [code, at]
  grant,      \* per code, at upstream
  saved       \* the codes that have become accounts

loginVars == <<login, asked, starting, interval, poll, grant, saved>>

Code == 1 .. MaxCodes
OFF == -1
Steps == {"idle", "loading", "code", "polling", "success", "error"}

LoginInit ==
  /\ login = [step |-> "idle", data |-> 0, abort |-> FALSE, poll |-> 0]
  /\ asked = 0
  /\ starting = {}
  /\ interval = [c \in Code |-> OFF]
  /\ poll = {}
  /\ grant = [c \in Code |-> "none"]
  /\ saved = {}

-----------------------------------------------------------------------------
(* The dialog.                                                             *)

\* "Login with ..." of the first page, or "Retry" of the error page.
StartDeviceCode ==
  /\ login.step \in {"idle", "error"} /\ asked < MaxCodes
  /\ asked' = asked + 1
  /\ starting' = starting \cup {asked + 1}
  /\ login' = [login EXCEPT !.step = "loading", !.abort = FALSE]
  /\ UNCHANGED <<interval, poll, grant, saved>>

\* The answer is shown whatever the dialog has become meanwhile.
DeviceCode(c) ==
  /\ c \in starting
  /\ starting' = starting \ {c}
  /\ \/ /\ grant' = [grant EXCEPT ![c] = "pending"]
        /\ login' = [login EXCEPT !.step = "code", !.data = c]
     \/ /\ login' = [login EXCEPT !.step = "error"]
        /\ UNCHANGED grant
  /\ UNCHANGED <<asked, interval, poll, saved>>

\* "I've entered the code".
StartPolling ==
  /\ login.step = "code"
  /\ login' = [login EXCEPT !.step = "polling", !.abort = FALSE, !.poll = login.data]
  /\ interval' = [interval EXCEPT ![login.data] = Lifetime]
  /\ UNCHANGED <<asked, starting, poll, grant, saved>>

ClearInterval == [c \in Code |-> IF c = login.poll THEN OFF ELSE interval[c]]

\* Another method is chosen, or the dialog is closed.
ResetLogin ==
  /\ login.step # "idle"
  /\ login' = [login EXCEPT !.step = "idle", !.data = 0, !.abort = TRUE]
  /\ interval' = ClearInterval
  /\ UNCHANGED <<asked, starting, poll, grant, saved>>

\* Mutant of Expired: the deadline is not looked at.
ExpiredNever(c) == login.abort
Expired(c) == login.abort \/ interval[c] = 0

\* An interval fires: past its deadline it stops the interval of pollRef and
\* says so, unless the dialog was reset; else it sends a poll.
IntervalFires(c) ==
  /\ interval[c] # OFF
  /\ IF Expired(c)
     THEN /\ interval' = ClearInterval
          /\ login' = [login EXCEPT !.step = IF login.abort THEN @ ELSE "error"]
          /\ UNCHANGED poll
     ELSE /\ interval' = [interval EXCEPT ![c] = IF @ = 0 THEN 0 ELSE @ - 1]
          /\ \/ /\ Cardinality(poll) < MaxPolls
                /\ \E n \in 1 .. MaxPolls :
                     /\ \A p \in poll : p.n # n
                     /\ poll' = poll \cup {[n |-> n, code |-> c, at |-> "sent"]}
             \/ UNCHANGED poll   \* the poll does not reach the server
          /\ UNCHANGED login
  /\ UNCHANGED <<asked, starting, grant, saved>>

\* The server asks upstream with the code; a token becomes an account.  An
\* answer of upstream that is lost, or a row that is refused, is a failure.
ServePoll(p) ==
  /\ p.at = "sent"
  /\ \E at \in {"pending", "success", "error", "failed"} :
       /\ at = "pending" => grant[p.code] = "pending"
       /\ at = "success" => grant[p.code] = "approved"
       /\ at = "error" => grant[p.code] \in {"consumed", "dead"}
       /\ poll' = (poll \ {p}) \cup {[p EXCEPT !.at = at]}
       /\ saved' = IF at = "success" THEN saved \cup {p.code} ELSE saved
       /\ \/ grant[p.code] = "approved" /\ grant' = [grant EXCEPT ![p.code] = "consumed"]
          \/ at # "success" /\ UNCHANGED grant
  /\ UNCHANGED <<login, asked, starting, interval>>

\* The answer reaches the dialog, or does not.
PollAnswered(p) ==
  /\ p.at # "sent"
  /\ poll' = poll \ {p}
  /\ \/ /\ p.at \in {"success", "error"}
        /\ login' = [login EXCEPT !.step = p.at]
        /\ interval' = ClearInterval
     \/ UNCHANGED <<login, interval>>
  /\ UNCHANGED <<asked, starting, grant, saved>>

\* The person at the other window, and the clock of upstream.
UserDecides(c) ==
  /\ grant[c] \in {"pending", "approved"}
  /\ \E g \in {"approved", "dead"} :
       /\ g # grant[c]
       /\ grant' = [grant EXCEPT ![c] = g]
  /\ UNCHANGED <<login, asked, starting, interval, poll, saved>>

LoginNext ==
  \/ StartDeviceCode \/ StartPolling \/ ResetLogin
  \/ \E c \in Code : DeviceCode(c) \/ IntervalFires(c) \/ UserDecides(c)
  \/ \E p \in poll : ServePoll(p) \/ PollAnswered(p)

\* An interval of an open page fires again and again.
LoginFairness == \A c \in Code : WF_loginVars(IntervalFires(c))

LoginSpec == LoginInit /\ [][LoginNext]_loginVars /\ LoginFairness

-----------------------------------------------------------------------------
LoginTypeOK ==
  /\ login \in [step : Steps, data : 0 .. MaxCodes, abort : BOOLEAN, poll : 0 .. MaxCodes]
  /\ asked \in 0 .. MaxCodes
  /\ starting \subseteq 1 .. asked
  /\ interval \in [Code -> OFF .. Lifetime]
  /\ poll \subseteq [n : 1 .. MaxPolls, code : Code,
                     at : {"sent", "pending", "success", "error", "failed"}]
  /\ grant \in [Code -> {"none", "pending", "approved", "consumed", "dead"}]
  /\ saved \subseteq Code

\* A dialog that waits for the authorization does not wait for ever, whichever
\* dialogs were reset before it and whichever polls are still under way: its
\* own interval, or another that stops it, ends the step
\* (useKiroDeviceFlow.ts:69-112).
PollingEnds == (login.step = "polling") ~> (login.step # "polling")
=============================================================================
