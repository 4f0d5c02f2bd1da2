------------------------------ MODULE KiroToken ------------------------------
(***************************************************************************)
(* The credentials of one Kiro account: the refresh token (api_key), the   *)
(* cached bearer with its expiry, and provider_data, of which the persona  *)
(* and the profile ARN matter here.  Requests, the quota page and the      *)
(* usage dialog all read the row first and act on that copy: they refresh  *)
(* the bearer when their copy says it is not fresh, and a request of the   *)
(* CLI persona looks its profile up and writes provider_data back.         *)
(*                                                                         *)
(* Upstream (AWS SSO OIDC or the desktop endpoint) is external: it may     *)
(* keep a refresh token, or issue a new one and refuse the old one from    *)
(* then on; its answer may be lost.                                        *)
(***************************************************************************)
EXTENDS Integers, FiniteSets

CONSTANTS
  KiroCall,      \* requests and admin pages that may be under way
  BearerTtl,     \* how long a new bearer counts as fresh
  MaxTokens,     \* bound: refresh tokens issued in a behaviour
  MaxKiroEdits   \* bound: edits of the admin in a behaviour

ASSUME KiroAssumption == MaxTokens \in Nat \ {0} /\ {BearerTtl, MaxKiroEdits} \subseteq Nat

VARIABLES
  kiro,        \* the row: [refresh, ttl, persona, arn]; ttl 0 is no fresh bearer
  kcall,       \* per call its stage, its copy of the row, what upstream issued
  accepted,    \* the refresh tokens upstream accepts
  issued,      \* how many there have been
  lost,        \* an answer with a new token has been lost
  kiroEdits    \* how often the admin has changed the row

kiroVars == <<kiro, kcall, accepted, issued, lost, kiroEdits>>

Personas == {"ide", "cli"}
KiroRow == [refresh : 1 .. MaxTokens, ttl : 0 .. BearerTtl, persona : Personas, arn : BOOLEAN]
NoCopy == [refresh |-> 1, ttl |-> 0, persona |-> "ide", arn |-> FALSE]
NewCall == [pc |-> "idle", discovers |-> FALSE, copy |-> NoCopy, token |-> 1, seen |-> 0]

\* An account as an import or the device flow leaves it.
KiroInit ==
  /\ kiro \in [refresh : {1}, ttl : {0, BearerTtl}, persona : Personas, arn : BOOLEAN]
  /\ kcall = [c \in KiroCall |-> NewCall]
  /\ accepted = {1}
  /\ issued = 1
  /\ lost = FALSE
  /\ kiroEdits = 0

Stage(c, pc) == kcall' = [kcall EXCEPT ![c].pc = pc]
EndCall(c) == kcall' = [kcall EXCEPT ![c] = NewCall]

-----------------------------------------------------------------------------
\* A request has selected the account, or a page has listed it.  `seen` is
\* the edit its copy includes.
ReadRow(c) ==
  /\ kcall[c].pc = "idle"
  /\ \E discovers \in BOOLEAN :
       kcall' = [kcall EXCEPT ![c] =
         [NewCall EXCEPT !.pc = "read", !.discovers = discovers, !.copy = kiro,
                         !.seen = kiroEdits]]
  /\ UNCHANGED <<kiro, accepted, issued, lost, kiroEdits>>

\* ensureAccessToken up to its await: the copy decides.
EnsureAccessToken(c) ==
  /\ kcall[c].pc = "read"
  /\ Stage(c, IF kcall[c].copy.ttl > 0 THEN "bearer" ELSE "asking")
  /\ UNCHANGED <<kiro, accepted, issued, lost, kiroEdits>>

\* Upstream is asked with the token of the copy.
Upstream(c) ==
  LET used == kcall[c].copy.refresh IN
  /\ kcall[c].pc = "asking"
  /\ \/ \* refused, or not reached: refreshKiroToken returns null or throws
        /\ EndCall(c)
        /\ UNCHANGED <<accepted, issued, lost>>
     \/ \* a bearer, and the same refresh token or none
        /\ used \in accepted
        /\ kcall' = [kcall EXCEPT ![c].pc = "answered", ![c].token = used]
        /\ UNCHANGED <<accepted, issued, lost>>
     \/ \* a bearer and a new refresh token, of which the answer may be lost
        /\ used \in accepted /\ issued < MaxTokens
        /\ issued' = issued + 1
        /\ accepted' = (accepted \ {used}) \cup {issued + 1}
        /\ \/ kcall' = [kcall EXCEPT ![c].pc = "answered", ![c].token = issued + 1]
              /\ UNCHANGED lost
           \/ EndCall(c) /\ lost' = TRUE
  /\ UNCHANGED <<kiro, kiroEdits>>

\* Mutant of Stored: the refresh token of the answer, or the one it was asked
\* with, is written back whether or not it is another one.
StoredAlways(c, ttl) == [kiro EXCEPT !.ttl = ttl, !.refresh = kcall[c].token]

\* Bearer and expiry; the refresh token only if it is another one.
Stored(c, ttl) ==
  [kiro EXCEPT !.ttl = ttl,
               !.refresh = IF kcall[c].token # kcall[c].copy.refresh THEN kcall[c].token ELSE @]

\* An answer without a lifetime leaves a bearer that is never fresh.
Persist(c) ==
  /\ kcall[c].pc = "answered"
  /\ \E ttl \in {0, BearerTtl} : kiro' = Stored(c, ttl)
  /\ Stage(c, "bearer")
  /\ UNCHANGED <<accepted, issued, lost, kiroEdits>>

\* ensureProfileArn, for a request of the CLI persona without an ARN; every
\* other caller has what it needs.
UseBearer(c) ==
  /\ kcall[c].pc = "bearer"
  /\ IF kcall[c].discovers /\ kcall[c].copy.persona = "cli" /\ ~kcall[c].copy.arn
     THEN Stage(c, "discovering")
     ELSE EndCall(c)
  /\ UNCHANGED <<kiro, accepted, issued, lost, kiroEdits>>

\* Mutant of ProviderData: the blob is written with the ARN alone.
ProviderDataArnOnly(c) == [persona |-> "ide", arn |-> TRUE]

\* The blob that is written back is the copy's, with the ARN.
ProviderData(c) == [persona |-> kcall[c].copy.persona, arn |-> TRUE]

Discovered(c) ==
  /\ kcall[c].pc = "discovering"
  /\ \/ UNCHANGED kiro
     \/ kiro' = [kiro EXCEPT !.persona = ProviderData(c).persona, !.arn = ProviderData(c).arn]
  /\ EndCall(c)
  /\ UNCHANGED <<accepted, issued, lost, kiroEdits>>

\* PATCH of the account: the persona, or a refresh token of the same or of
\* another login; the cached bearer stays.
EditAccount ==
  /\ kiroEdits < MaxKiroEdits
  /\ kiroEdits' = kiroEdits + 1
  /\ \/ /\ \E p \in Personas : kiro' = [kiro EXCEPT !.persona = p]
        /\ UNCHANGED <<accepted, issued>>
     \/ /\ issued < MaxTokens
        /\ issued' = issued + 1
        /\ accepted' = accepted \cup {issued + 1}
        /\ kiro' = [kiro EXCEPT !.refresh = issued + 1]
  /\ UNCHANGED <<kcall, lost>>

\* Bearers age, in the row and in the copies.
KiroTick ==
  LET Aged(r) == [r EXCEPT !.ttl = IF @ > 0 THEN @ - 1 ELSE 0] IN
  /\ kiro.ttl > 0
  /\ kiro' = Aged(kiro)
  /\ kcall' = [c \in KiroCall |-> [kcall[c] EXCEPT !.copy = Aged(@)]]
  /\ UNCHANGED <<accepted, issued, lost, kiroEdits>>

KiroNext ==
  \/ \E c \in KiroCall :
       \/ ReadRow(c) \/ EnsureAccessToken(c) \/ Upstream(c) \/ Persist(c)
       \/ UseBearer(c) \/ Discovered(c)
  \/ EditAccount
  \/ KiroTick

KiroSpec == KiroInit /\ [][KiroNext]_kiroVars

-----------------------------------------------------------------------------
Calls ==
  [pc : {"idle", "read", "asking", "answered", "bearer", "discovering"},
   discovers : BOOLEAN, copy : KiroRow, token : 1 .. MaxTokens, seen : 0 .. MaxKiroEdits]
KiroTypeOK ==
  /\ kiro \in KiroRow
  /\ kcall \in [KiroCall -> Calls]
  /\ accepted \subseteq 1 .. MaxTokens
  /\ issued \in 1 .. MaxTokens
  /\ lost \in BOOLEAN
  /\ kiroEdits \in 0 .. MaxKiroEdits

\* However many calls refresh on old copies of the row, and whatever token an
\* admin enters meanwhile, the refresh token that is stored is one that
\* upstream accepts, once no answer is on its way: the account does not lock
\* itself out (auth.ts:56-72).  Only a lost answer can do that.
StoredTokenAccepted ==
  ~lost /\ (\A c \in KiroCall : kcall[c].pc # "answered") => kiro.refresh \in accepted

\* An admin's choice of persona can be undone by a request that read the row
\* before it and writes provider_data back after it (profile.ts:92-94), but
\* never by one that read the row afterwards.
EditUndoneOnlyByOlderCopy ==
  [][kiro'.persona # kiro.persona =>
       \/ kiroEdits' = kiroEdits + 1
       \/ \E c \in KiroCall :
            kcall[c].pc = "discovering" /\ kcall'[c].pc = "idle" /\ kcall[c].seen < kiroEdits]_kiroVars
=============================================================================
