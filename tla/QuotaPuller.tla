----------------------------- MODULE QuotaPuller -----------------------------
(***************************************************************************)
(* The quota puller and its snapshots.  A tick (of the timer, or asked for *)
(* by the quota page) lists the accounts, pulls the quota of each enabled  *)
(* token-plan account in turn, and then prunes old snapshots and logs.  No *)
(* tick waits for the one before.  The page shows, per window, the         *)
(* snapshot that was inserted last.                                        *)
(*                                                                         *)
(* Time is counted in units of which DayLength make a day.  fetched_at is  *)
(* written by datetime('now'), with a space between date and time; the     *)
(* cutoff is an ISO string with a 'T', which sorts after every time of its *)
(* own day.  request_logs.created_at is written and pruned the same way.   *)
(***************************************************************************)
EXTENDS Integers, Sequences, FiniteSets, SequencesExt, SequenceFilter

CONSTANTS
  QuotaAccount,  \* the accounts of MiniMax, in the order of the list
  Puller,        \* ticks that may be under way at once
  DayLength,
  KeepDays,      \* retention
  MaxTime,       \* bound: the clock
  MaxRows        \* bound: snapshots inserted in a behaviour

ASSUME QuotaAssumption ==
  /\ {DayLength, KeepDays} \subseteq Nat \ {0} /\ {MaxTime, MaxRows} \subseteq Nat
  /\ QuotaAccount \in Seq(ToSet(QuotaAccount))

VARIABLES
  qnow,       \* the clock
  qacct,      \* the accounts table: "on", "off" (disabled or payg) or "gone"
  snapshots,  \* the rows in the order of their ids
  inserted,   \* how many there have been
  tick        \* the ticks: [pc, todo, plan]

quotaVars == <<qnow, qacct, snapshots, inserted, tick>>

NoTick == [pc |-> "idle", todo |-> <<>>, plan |-> 1]
Listed == ToSet(QuotaAccount)
Plans == 1 .. 2   \* token_plan/remains, then coding_plan/remains

QuotaInit ==
  /\ qnow = 0
  /\ qacct \in [Listed -> {"on", "off"}]
  /\ snapshots = <<>>
  /\ inserted = 0
  /\ tick = [k \in Puller |-> NoTick]

-----------------------------------------------------------------------------
Day(t) == t \div DayLength

Keep == KeepDays * DayLength

\* Mutant of Pruned: the cutoff lies a day too late.
PrunedEarly(row) == Day(row.at) <= Day(qnow - (KeepDays - 1) * DayLength)

\* fetched_at < cutoff, as strings.
Pruned(row) == Day(row.at) <= Day(qnow - Keep)

Kept(rows) == Filtered(rows, {row \in ToSet(rows) : ~Pruned(row)})

\* The loop of tickQuotaOnce after one account: the next is asked, or the
\* tick prunes and ends.
Continue(k, rest, rows) ==
  /\ tick' = [tick EXCEPT ![k] =
       IF rest = <<>> THEN NoTick ELSE [NoTick EXCEPT !.pc = "sent", !.todo = rest]]
  /\ snapshots' = IF rest = <<>> THEN Kept(rows) ELSE rows

StartTick(k) ==
  /\ tick[k].pc = "idle"
  /\ Continue(k, Filtered(QuotaAccount, {a \in Listed : qacct[a] = "on"}), snapshots)
  /\ UNCHANGED <<qnow, qacct, inserted>>

\* Mutant of Accepts: the table has no foreign key.
AcceptsAnyAccount(a) == TRUE
\* The foreign key on account_id.
Accepts(a) == qacct[a] # "gone"

\* The answer becomes a row; without one, or when the account is gone (the
\* foreign key refuses the row), the second endpoint is asked.
AnswerPulled(k) ==
  LET a == Head(tick[k].todo) IN
      /\ tick[k].pc = "sent"
      /\ \/ /\ Accepts(a)
            /\ inserted < MaxRows
            /\ inserted' = inserted + 1
            /\ Continue(k, Tail(tick[k].todo), Append(snapshots, [account |-> a, at |-> qnow]))
         \/ /\ UNCHANGED inserted
            /\ IF tick[k].plan = 1
               THEN /\ tick' = [tick EXCEPT ![k].plan = 2]
                    /\ UNCHANGED snapshots
               ELSE Continue(k, Tail(tick[k].todo), snapshots)
      /\ UNCHANGED <<qnow, qacct>>

\* The admin disables, enables or deletes an account: its rows go with it.
ChangeAccount(a) ==
  /\ qacct[a] # "gone"
  /\ \E s \in {"on", "off", "gone"} \ {qacct[a]} : qacct' = [qacct EXCEPT ![a] = s]
  /\ snapshots' = IF qacct'[a] = "gone"
                  THEN Filtered(snapshots, {row \in ToSet(snapshots) : row.account # a})
                  ELSE snapshots
  /\ UNCHANGED <<qnow, inserted, tick>>

QuotaTick ==
  /\ qnow < MaxTime
  /\ qnow' = qnow + 1
  /\ UNCHANGED <<qacct, snapshots, inserted, tick>>

QuotaNext ==
  \/ \E k \in Puller : StartTick(k) \/ AnswerPulled(k)
  \/ \E a \in Listed : ChangeAccount(a)
  \/ QuotaTick

QuotaSpec == QuotaInit /\ [][QuotaNext]_quotaVars

-----------------------------------------------------------------------------
QuotaTypeOK ==
  /\ qnow \in 0 .. MaxTime
  /\ qacct \in [Listed -> {"on", "off", "gone"}]
  /\ \A i \in DOMAIN snapshots :
       /\ snapshots[i].account \in Listed
       /\ qacct[snapshots[i].account] # "gone"
       /\ snapshots[i].at <= qnow
  /\ inserted \in 0 .. MaxRows
  /\ tick \in [Puller -> [pc : {"idle", "sent"},
                          todo : Seq(Listed), plan : Plans]]

TickEnds == \E k \in Puller : tick[k].pc # "idle" /\ tick'[k].pc = "idle"

\* A tick that ends leaves no row older than the retention, and what it takes
\* is at most a day younger than that (the two formats of a time sort
\* differently within a day: quota-snapshots.ts:58-62, request-logs.ts:476-480).
RetentionWithinADay ==
  [][TickEnds =>
       /\ \A i \in DOMAIN snapshots' : snapshots'[i].at >= qnow - Keep
       /\ \A row \in ToSet(snapshots) \ ToSet(snapshots') :
            row.at < qnow - Keep + DayLength]_quotaVars
=============================================================================
