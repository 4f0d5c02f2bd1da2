------------------------------- MODULE Dashboard -------------------------------
(***************************************************************************)
(* The pages of the dashboard and the query cache behind them: what each   *)
(* page shows, what its mutations write on the server, and which queries   *)
(* they invalidate or fetch again when the server has answered.            *)
(*                                                                         *)
(* Queries do not affect each other, so that a behaviour follows one of    *)
(* them, `query`, through the pages.  The server's tables are known by     *)
(* the time of their last write.  How the cache fetches, replaces a fetch  *)
(* and grows stale is TanStack Query 5 as query-client.ts configures it.   *)
(* The locks are those of one account: the page "editAccount" is the dialog *)
(* on that account, and "accounts" has none open, or one on another.       *)
(***************************************************************************)
EXTENDS Integers, FiniteSets

CONSTANTS
  MaxVisits,   \* bounds the changes of page
  MaxWrites,   \* bounds the mutations sent
  MaxActs      \* bounds both together

ASSUME DashboardAssumption == {MaxVisits, MaxWrites, MaxActs} \subseteq Nat

\* The tables that the GET route behind each query reads.
AccountsRoute == {"accounts", "locks"}
TransportsRoute == {"transports", "accounts"}
ModelsRoute == {"models", "aliases", "combos"}
AliasesRoute == {"aliases", "models"}
QuotaRoute == {"accounts", "snapshots"}
MeRoute == {"password", "session"}
OverviewRoute == {"accounts", "keys", "logs"}
UsageRoute == {"accounts", "logs"}
Shows ==
  [accounts |-> AccountsRoute, locks |-> {"locks"}, transports |-> TransportsRoute,
   selection |-> {"selection"}, models |-> ModelsRoute, aliases |-> AliasesRoute,
   combos |-> {"combos"}, keys |-> {"keys"}, quota |-> QuotaRoute,
   failureMode |-> {"failureMode"}, settings |-> {"settings"}, me |-> MeRoute,
   security |-> {"password", "session"}, overview |-> OverviewRoute, usage |-> UsageRoute]
Query == DOMAIN Shows

-----------------------------------------------------------------------------
(* The mutations of each page *)

\* `refetches`: the queries whose observer the page asks to fetch again.
Mutation(name, writes, invalidates) ==
  [name |-> name, writes |-> writes, invalidates |-> invalidates, refetches |-> {}]

\* Adding an account of a provider seeds the models it serves.
\* Mutant of CreateAccount: the seeded models are forgotten.
CreateAccountOnly == Mutation("createAccount", {"accounts", "models"}, {"accounts"})
CreateAccount == Mutation("createAccount", {"accounts", "models"}, {"accounts", "models"})
DeviceLogin == Mutation("deviceLogin", {"accounts", "models"}, {"accounts", "models"})
AutoImport == Mutation("autoImport", {"accounts", "models"}, {"accounts"})
NotionLogin == [Mutation("notionLogin", {"accounts", "models"}, {}) EXCEPT !.refetches = {"accounts"}]
ToggleAccount == Mutation("toggleAccount", {"accounts"}, {"accounts"})
EditAccount == Mutation("editAccount", {"accounts"}, {"accounts"})
DeleteAccount == Mutation("deleteAccount", {"accounts", "locks", "snapshots"}, {"accounts"})
Unlock == [Mutation("unlock", {"locks"}, {"accounts"}) EXCEPT !.refetches = {"locks"}]
Select == Mutation("select", {"selection"}, {"selection"})

\* Deleting a transport takes it off the accounts that use it.
DeleteTransports == Mutation("deleteTransports", {"transports", "accounts"}, {"transports", "accounts"})
SaveTransport == Mutation("saveTransport", {"transports"}, {"transports"})
SetFailureMode == Mutation("setFailureMode", {"failureMode"}, {"failureMode"})

SaveModel == Mutation("saveModel", {"models"}, {"models"})
ModelsOfProvider == Mutation("modelsOfProvider", {"models"}, {"models"})
SaveAlias == Mutation("saveAlias", {"aliases"}, {"aliases", "models"})
SaveCombo == Mutation("saveCombo", {"combos"}, {"combos"})
SaveClientKey == Mutation("saveClientKey", {"keys"}, {"keys"})
PullQuota == Mutation("pullQuota", {"snapshots"}, {"quota"})
SaveSettings == Mutation("saveSettings", {"settings"}, {"settings"})
\* The first password leaves the page without a session.
ChangePassword == Mutation("changePassword", {"password"}, {"me", "security"})
LogIn == Mutation("logIn", {"session"}, {"me"})

(* The pages: the queries each observes, and its mutations *)

PageOf(observes, mutates) == [observes |-> observes, mutates |-> mutates]
AccountsPage ==
  PageOf({"accounts", "transports", "selection"},
         {CreateAccount, DeviceLogin, AutoImport, NotionLogin, ToggleAccount, DeleteAccount, Select})
\* The dialog over the accounts page, of one component with it.
EditAccountPage ==
  PageOf({"accounts", "transports", "selection", "locks"}, {EditAccount, Unlock})
TransportsPage ==
  PageOf({"transports", "failureMode"}, {DeleteTransports, SaveTransport, SetFailureMode})
ModelsPage == PageOf({"models", "aliases"}, {SaveModel, ModelsOfProvider})
AliasesPage == PageOf({"aliases", "models"}, {SaveAlias})
CombosPage == PageOf({"combos", "models"}, {SaveCombo})
ClientKeysPage == PageOf({"keys"}, {SaveClientKey})
QuotaPage == PageOf({"quota"}, {PullQuota})
SettingsPage == PageOf({"settings"}, {SaveSettings, ChangePassword})
UsagePage == PageOf({"keys", "accounts", "usage"}, {})
OverviewPage == PageOf({"overview"}, {})
Pages ==
  [accounts |-> AccountsPage, editAccount |-> EditAccountPage, transports |-> TransportsPage,
   models |-> ModelsPage, aliases |-> AliasesPage, combos |-> CombosPage,
   clientKeys |-> ClientKeysPage, quota |-> QuotaPage, settings |-> SettingsPage,
   usage |-> UsagePage, overview |-> OverviewPage, login |-> PageOf({}, {LogIn})]
Page == DOMAIN Pages
OfAccountsPage == {"accounts", "editAccount"}
\* The shell's queries are observed on every page.
ShellObserves == {"me", "security"}
\* Fetched when the application starts, whatever the page.
Primed == {"me", "settings"}
\* Fetched every minute while observed.
Polled == {"quota"}

\* What no page brings up to date: the queries that show what a mutation writes
\* and that it leaves alone.
OfAccounts == {"createAccount", "deviceLogin", "autoImport", "notionLogin", "toggleAccount",
               "editAccount", "deleteAccount"}
Seeding == {"createAccount", "deviceLogin", "autoImport", "notionLogin", "saveModel", "modelsOfProvider"}
Forgotten ==
  [q \in Query |->
    CASE q \in {"quota", "usage"} -> OfAccounts \cup {"deleteTransports"}
      [] q = "overview" -> OfAccounts \cup {"deleteTransports", "saveClientKey"}
      [] q = "transports" -> OfAccounts
      [] q = "models" -> {"autoImport", "notionLogin", "saveCombo"}
      [] q = "aliases" -> Seeding
      [] q = "locks" -> {"deleteAccount"}
      [] q = "security" -> {"logIn"}
      [] OTHER -> {}]

-----------------------------------------------------------------------------
VARIABLES
  query,      \* the query that the behaviour follows
  route,      \* the page on display
  visits,
  cache,      \* time of the server that the data in the cache is of
  fetch,      \* whether a fetch is under way, and the time its answer is of
  stale, failed,
  now,        \* time of the server: the writes so far
  saving,     \* the mutations under way, the time of their writes, and the observer they refetch
  due,        \* the time that the page has to show
  overtaken   \* the fetch read before a write that it will hide
dashboardVars ==
  <<query, route, visits, cache, fetch, stale, failed, now, saving, due, overtaken>>

Nothing == -1
Idle == [on |-> FALSE, read |-> Nothing]
Requested == [on |-> TRUE, read |-> Nothing]
ObservedOn(p) == query \in Pages[p].observes \cup ShellObserves
Observed == ObservedOn(route)

DashboardInit ==
  /\ query \in Query /\ route \in Page
  /\ visits = 0 /\ now = 0 /\ due = 0
  /\ cache = Nothing /\ stale = FALSE /\ failed = FALSE /\ overtaken = FALSE
  /\ fetch = IF Observed \/ query \in Primed THEN Requested ELSE Idle
  /\ saving = {}

\* A new fetch takes the place of one under way.
Fetches == fetch' = Requested /\ failed' = FALSE /\ overtaken' = FALSE

\* The observer of the locks follows the dialog while the page is mounted
\* ("page"); afterwards it keeps the account that the dialog was on, this one
\* ("kept") or none ("lost").
LeavesAccounts ==
  {IF s.observer = "page" THEN [s EXCEPT !.observer = IF route = "editAccount" THEN "kept" ELSE "lost"]
   ELSE s : s \in saving}

\* The page's queries are fetched unless the cache has them fresh; one that is
\* being fetched is waited for.  The login page is left by logging in, and
\* signing out, which leads to it, clears the cache as a start does.
Visit(p) ==
  /\ visits < MaxVisits /\ visits + now + Cardinality(saving) < MaxActs
  /\ p \notin {route, "login"} /\ (route = "login" => now > 0)
  /\ visits' = visits + 1 /\ route' = p
  /\ IF ObservedOn(p) /\ ~Observed /\ ~fetch.on /\ (cache = Nothing \/ stale)
     THEN Fetches
     ELSE UNCHANGED <<fetch, failed, overtaken>>
  /\ saving' = IF query = "locks" /\ route \in OfAccountsPage /\ p \notin OfAccountsPage
               THEN LeavesAccounts ELSE saving
  /\ UNCHANGED <<query, cache, stale, now, due>>

ServerReads ==
  /\ fetch = Requested
  /\ fetch' = [fetch EXCEPT !.read = now]
  /\ UNCHANGED <<query, route, visits, cache, stale, failed, now, saving, due, overtaken>>
\* An answer is fresh for the stale time, also when the query was invalidated
\* since it was asked for.
AnswerArrives ==
  /\ fetch.read # Nothing
  /\ cache' = fetch.read /\ fetch' = Idle /\ stale' = FALSE /\ failed' = FALSE
  /\ UNCHANGED <<query, route, visits, now, saving, due, overtaken>>
\* After its retries; the page shows the error.
FetchFails ==
  /\ fetch.on /\ fetch' = Idle /\ failed' = TRUE
  /\ UNCHANGED <<query, route, visits, cache, stale, now, saving, due, overtaken>>

\* The stale time passes; data that nothing observes is dropped in the end; the
\* timer of a polled query, or the button of a failed one, fetches again.
TimePasses ==
  /\ ~fetch.on /\ cache # Nothing
  /\ \/ stale' = TRUE /\ cache' = cache
     \/ ~Observed /\ cache' = Nothing /\ stale' = FALSE
  /\ UNCHANGED <<query, route, visits, fetch, failed, now, saving, due, overtaken>>
FetchesAgain ==
  /\ Observed /\ ~fetch.on /\ (query \in Polled \/ failed)
  /\ Fetches
  /\ UNCHANGED <<query, route, visits, cache, stale, now, saving, due>>

\* The mutations that mean something to the query.
Touches(m) == Shows[query] \cap m.writes # {} \/ query \in m.invalidates \cup m.refetches
\* useMutation: requests under way may overlap, and their answers find the
\* page or another.
MutationSent(m) ==
  /\ m \in Pages[route].mutates /\ Touches(m)
  /\ now + Cardinality(saving) < MaxWrites /\ visits + now + Cardinality(saving) < MaxActs
  /\ \A s \in saving : s.mutation # m
  /\ query \in m.refetches \cap {"locks"} => cache # Nothing   \* each lock has its button
  /\ saving' = saving \cup {[mutation |-> m, at |-> Nothing, observer |-> "page"]}
  /\ UNCHANGED <<query, route, visits, cache, fetch, stale, failed, now, due, overtaken>>
ServerWrites ==
  \E s \in saving :
    /\ s.at = Nothing
    /\ now' = now + 1
    /\ saving' = (saving \ {s}) \cup {[s EXCEPT !.at = now']}
    /\ UNCHANGED <<query, route, visits, cache, fetch, stale, failed, due, overtaken>>

\* The observer that the mutation refetches is one of the query: of the
\* accounts always, of the locks as long as it is on this account.
Refetched(s) ==
  /\ query \in s.mutation.refetches
  /\ query = "locks" => s.observer = "kept" \/ (s.observer = "page" /\ route = "editAccount")

\* onSuccess: invalidateQueries marks the query and, if it is observed, fetches
\* it in place of a fetch under way, unless that is its first; refetch does the
\* same without a mark, observed or not.
Replaces(s) ==
  /\ Refetched(s) \/ (query \in s.mutation.invalidates /\ Observed)
  /\ ~fetch.on \/ cache # Nothing
\* Not an unlock whose refetch is of another query: nothing brings its locks up
\* to date.
Concerned(s) ==
  /\ Shows[query] \cap s.mutation.writes # {} /\ s.mutation.name \notin Forgotten[query]
  /\ s.mutation = Unlock /\ query = "locks" => Refetched(s)
\* The page was told of the write, so it is due; a fetch that read before it
\* and goes on is overtaken.
Acknowledged ==
  \E s \in saving :
    /\ s.at # Nothing /\ saving' = saving \ {s}
    /\ due' = IF Concerned(s) /\ due < s.at THEN s.at ELSE due
    /\ stale' = (stale \/ query \in s.mutation.invalidates)
    /\ IF Replaces(s) THEN Fetches
       ELSE /\ overtaken' = (overtaken \/ (Concerned(s) /\ fetch.read \in 0 .. s.at - 1))
            /\ UNCHANGED <<fetch, failed>>
    /\ UNCHANGED <<query, route, visits, cache, now>>

\* Refused, or done and its answer lost: the page shows an error, nothing more.
MutationFails ==
  /\ \E s \in saving : saving' = saving \ {s}
  /\ UNCHANGED <<query, route, visits, cache, fetch, stale, failed, now, due, overtaken>>

DashboardNext ==
  \/ \E p \in Page : Visit(p)
  \/ ServerReads \/ AnswerArrives \/ FetchFails \/ TimePasses \/ FetchesAgain
  \/ \E m \in UNION {Pages[p].mutates : p \in Page} : MutationSent(m)
  \/ ServerWrites \/ Acknowledged \/ MutationFails

DashboardSpec == DashboardInit /\ [][DashboardNext]_dashboardVars

-----------------------------------------------------------------------------
DashboardTypeOK ==
  /\ query \in Query /\ route \in Page /\ visits \in 0 .. MaxVisits
  /\ cache \in Nothing .. now /\ fetch \in [on : BOOLEAN, read : Nothing .. now]
  /\ {stale, failed, overtaken} \subseteq BOOLEAN
  /\ now \in 0 .. MaxWrites /\ due \in 0 .. now
  /\ \A s \in saving : s.observer \in {"page", "kept", "lost"}
  /\ now + Cardinality({s \in saving : s.at = Nothing}) <= MaxWrites

(* A page at rest, without an error, shows every write that it was told of,  *)
(* on whatever page it was made and however fetches, writes and visits       *)
(* interleave, except what Forgotten names, an unlock whose dialog was left  *)
(* before its answer (refetchLocks, Accounts.tsx:303, is then of another     *)
(* query), and what an overtaken fetch hides.                                *)
PageShowsWhatWasSaved ==
  Observed /\ ~fetch.on /\ ~failed /\ ~overtaken => cache >= due
===============================================================================
