# Kelola Router: specifications, model checks and proofs

Kelola Router is a single-process TypeScript proxy (Hono on Node, better-sqlite3)
in front of several LLM providers. A client sends an OpenAI or Anthropic request
with a client key; the router chooses an upstream account, calls the provider,
applies a cooldown when the provider refuses, falls back along a *combo* of models
when one was configured, relays the answer and records it in a log.

This directory holds TLA+ modules for the part of the router where order, overlap
and failure matter, TLC configurations that check them on small instances, and
TLAPS proofs of what matters most for every instance. Paths of source files are
relative to the repository root.

Run `tlc -config X.cfg M` and `tlapm M.tla` in this directory; `PROJECT.json` lists
the runs, what each definition was translated from, and the hazards of the code.

## 1. Inventory

### 1.1 How the program executes

One JavaScript thread runs everything. SQLite calls are synchronous. A handler runs
undisturbed between two `await`s, and anything may run at an `await`: other
requests, admin calls, timers. The hazards of this code are therefore *state read
before an await and applied after it*, not data races.

### 1.2 Components

| Component | State | Operations | Hard behaviour | What makes it correct |
|---|---|---|---|---|
| **Error rules and backoff ladder** `src/accounts/{error-rules,backoff}.ts`, `src/providers/parse-error.ts` | the account's `backoff_level` | `parseError`, `checkFallbackError`, `getQuotaCooldown` | priority of six sources of verdicts; ends of the ladder; units | the ladder counts failures, semantic codes decide, Retry-After is honoured |
| **Selection and model locks** `src/accounts/{selection,state,locks}.ts` | `rrCursor`, `stickyMap` (in `server.ts`), `account_model_locks` | `selectAccount`, `setModelLock`, `getModelLock`, `clearExpiredModelLocks` | cursor and pins shared by all providers and overlapping requests; foreign key of locks | pins move only when they must; no lock outlives its account |
| **Request pipeline** `src/server.ts`, `src/proxy/{minimax,pipeline,error-handling}.ts` | the accounts table, one snapshot per request | route, select, gate, call, penalise, reset, answer, log | stale snapshots; deletion under a request; fall-through of swallowed exceptions | penalties leave an error; disabled accounts stay disabled; one row per answer |
| **Provider handlers** `src/proxy/{kiro,notion,codebuddy,pioneer,tabi,zai,qwencloud}.ts` with `src/providers/*` | none of their own | the same steps, with names, formats, framings and error paths of their own | what the executor asked for and what the handler reads are written in different files; two names of a model | the client gets its format and framing; a lock binds whatever name the model is asked by |
| **Combos** `src/proxy/combo.ts`, `src/db/repos/combos.ts` | position in the chain, last error | resolve, select, delegate or call, continue, exhaust | delegated handlers select again after an await; every failure path continues the loop differently | order kept, no member left out, every attempt logged, ends |
| **Request-log queue** `src/db/repos/request-logs.ts` | `pending`, `timers`, `dropped`, `pendingPromises` | `insertRequestLogDeferred`, `flushDb`, `flushDeferredLogs` | forgotten timeouts, failed batches, limits, shutdown, crash | nothing twice, nothing stranded, order kept, bounded |
| **Accounts and their admin API** `src/db/repos/accounts.ts`, `src/api/admin/accounts.ts` | the accounts table | create, enable, disable, delete, PATCH, clear lock, imports | concurrent with requests | see the pipeline |
| **Stream relay** `src/streaming/*` , `src/proxy/capture.ts` | abort flag, tail buffer, line and frame buffers | transform, flush, abort | chunks cut anywhere, client or upstream gone between chunks | each complete unit is read once; the usage is reported at most once, and is the last one |
| **Transports** `src/transport/*`, `src/db/repos/transports.ts` | transports table, resolution cache (1 s), dispatcher LRU, SOCKS cache, pool cursors | resolve, rotate, get dispatcher, fetch, edit | check-await-set; closing a dispatcher in use; cached "direct" | resolutions are current; no dispatcher leaks; where failures are to be blocked, a handler's call never goes out directly |
| **Kiro tokens** `src/providers/kiro/{auth,token-refresh,profile}.ts`, `useKiroDeviceFlow.ts` | refresh token, bearer, `provider_data`; the dialog's step and interval | refresh, look up the profile, edit; start, poll, reset a login | concurrent refreshes that rotate the token; whole-column write-backs; late polls of a reset dialog | the stored token is accepted; polling ends |
| **Registry and caches** `src/providers/{alias,alias-cache,model-prefix}.ts`, `src/db/repos/{models,aliases,combos,settings,client-keys}.ts`, `src/api/admin/cache.ts` | models, aliases, combos, keys, settings; copies with a time limit | resolve, create, rename, delete, seed, invalidate | one name space over three tables; every write has to name the caches it outdates | names are unambiguous and lead to a model (an alias of its own name does not: a finding); caches agree with their tables |
| **SSE assemblers, Kiro event stream** `src/providers/common/SseAssemblerBase.ts`, `src/providers/kiro/{anthropic-sse,assembler,eventstream}.ts`, `src/providers/codebuddy/stream-convert.ts` | open block, index, known tools, queue of events | process, flush, drain | any order of upstream events, early end | Anthropic's block protocol; content in its own block |
| **Augmentation and conversion** `src/caveman/*`, `src/rtk/*`, `src/proxy/augment.ts`, `src/providers/format/*`, `src/providers/kiro/transform.ts` | the body of a request | augment, convert, transform | bodies mutated in place after copies that share their parts | what the client said reaches the upstream, once and in order |
| **Console** `src/console/*`, `src/server.ts`, `pages/Console.tsx` | ring, subscribers, connection, page | emit, replay, subscribe, batch, pause, clear | replay with awaits before the subscription; reconnection | each event once, in order, while the connection holds |
| **Quota puller, retention** `src/scheduler/quota-pull.ts`, `src/db/repos/quota-snapshots.ts` | interval, snapshots | tick, pull, prune | overlapping ticks over an outdated list; two formats of a time | no snapshot of a deleted account; retention off by a day at most |
| **Dashboard** `src/client/src/*` | the query cache, the page shown | visit, fetch, mutate, invalidate | fetches that overlap writes; answers after a page was left | a page at rest shows what was saved |
| **Login and sessions; database opening; pricing and report SQL; CodeBuddy sidecar** | – | – | none that depends on order | unit tests reach them |

### 1.3 How they interact

* `server.ts` owns the cursor and the sticky map and passes them to `handleProxy`,
  which routes a request to a combo, to a provider's handler, or to its own MiniMax path.
* A delegated handler gets a *copy* of the cursor; it is written back when the handler
  returns. An exception that leaves the handler is swallowed by `handleProxy`, which goes
  on with its own path.
* All handlers read and write the same accounts and locks; the admin API does too.
* Every path ends in `insertRequestLogDeferred`, for streams in the callback of
  `pipeWithUsage`, after the response was returned.
* `gracefulShutdown` stops the quota puller, flushes the queue, closes the database.
* A name is looked up in the registry and its caches before an account is selected; the
  account's transport and, for Kiro, its bearer are looked up between selection and call.
* A body is augmented, converted and sent; the answer is assembled or relayed, and its usage
  read on the way. A flush of the queue outdates the reports.
* The pipeline emits to the console bus; the dashboard reads it as a stream, and all else
  through the admin API and its query cache.

## 2. Modules

| Module | Models |
|---|---|
| `ErrorRules` | `checkFallbackError`, its rule table, `getQuotaCooldown`, and the conventions of its two kinds of callers, as operators over abstract answers |
| `AccountLadder` | one account under any sequence of failures and successes, judged by `ErrorRules` |
| `RequestPipeline` | concurrent requests over accounts, locks, cursor, sticky map; the admin; the clock |
| `FallbackChain` | the abstract promise of a combo |
| `ComboChain` | the loop of `combo.ts` over the state of `RequestPipeline`; implements `FallbackChain` |
| `LogQueue` | the deferred queue, with the process that may stop, crash and restart |
| `Transport` | table, resolution and its cache, pools, dispatchers, agents, both failure modes, the legs of what goes out for an account, the admin's edits |
| `KiroToken` | callers that refresh one account's bearer on copies of its row, while an admin edits it |
| `KiroLogin` | the device-code dialog, its interval, the two endpoints and AWS SSO OIDC (external) |
| `QuotaPuller` | overlapping ticks, the two endpoints of a pull, pruning |
| `ProviderHandlers` | the handlers of CodeBuddy, Pioneer, TabiToken, Z.AI, QwenCloud and Kiro: names, locks, formats, rows, penalties |
| `RequestBody` | conversations through augmentation, conversion, Kiro's transform and a combo's members, over bodies that share parts |
| `BlockProtocol` | what an Anthropic client relies on in a message stream |
| `SseStream` | the three assemblers; the two Anthropic ones implement `BlockProtocol` |
| `UsageRelay` | tail buffer, SSE line iterator and frame decoder over chunks cut anywhere |
| `Registry` | models, aliases, combos, their admin API, the seeds, the alias cache, the resolution of a bare name |
| `LookupCaches` | the caches of client keys, settings and reports |
| `ConsoleStream` | bus, ring, SSE endpoint, page, stdout sink |
| `Dashboard` | pages, mutations and queries; the query cache (TanStack Query 5, external) |
| `SequenceFilter` | `Filtered`, what `filter()` makes of an array and a deletion of a Map |
| `MCUpstream` | `Transport`, `KiroToken`, `KiroLogin` and `QuotaPuller` on small instances |
| `MCGateway` | the modules from `ProviderHandlers` to `Dashboard` on small instances |
| `MCAccountLadder`, `MCRequestPipeline`, `MCComboChain`, `MCLogQueue` | values of the constants for TLC |
| `RequestPipelineProofs`, `ComboChainProofs`, `LogQueueProofs`, `UpstreamProofs` (the components of `MCUpstream`, and `AccountLadder`), `StreamProofs` (`SseStream`, `UsageRelay`), `RequestBodyProofs`, `GatewayProofs` (`Registry`, `LookupCaches`, `ProviderHandlers`, `Dashboard`, `ConsoleStream`, and the types of all of `MCGateway`) | theorems and proofs |
| `SequenceLemmas` | lemmas about filtered, flattened and ascending sequences, which the last four use |

`RequestPipeline` extends `ErrorRules`; `ComboChain` extends `RequestPipeline`. The other
components meet at values only (a name, a bearer, a body, a row), not at shared variables, so
that each has its module.

### 2.1 From code to model

*Steps.* An action is what a handler does from one `await` to the next, however many
functions that goes through: `Select` is selection, resolution of the model, lock gate and
the start of the call; `UpstreamError` is verdict, `applyErrorState`, `setModelLock`,
`disableAccount`, the log row and the end of the request. Stages of a request (`conn[r].pc`):
`reading` (body, augmentation), `deferred` (fallen through to the MiniMax path),
`fetching` (the call), `body` (a buffered answer being read), `stream`, and the ends
`refused`, `answered`, `cut`; a combo adds `chaining` and `delegated`.

*Snapshots.* `buildAccountStates` copies a row before the call. `conn[r].snap` keeps the
fields that are applied later (level, status) and whether `clearErrorState` would find
the snapshot clean. `conn[r].cursor` is the copy of the cursor, `conn[r].entry` the value
at the entry of a delegated handler, which is restored when it throws.

*Handlers.* In `RequestPipeline`, `minimax` stands for `handleProxy`'s own path and for the five handlers of its
shape (CodeBuddy, Pioneer, Z.AI, Tabi, QwenCloud: everything after the selection inside one
`try`). `kiro` differs in its catch, which penalises, and `notion` in having neither
selection nor catch around its error path, and in never resetting an account. What tells the
others apart (names, formats, framings) is in `ProviderHandlers`, one provider at a time.

*Answers.* A failed answer is a record of the six things the rules look at: status,
phrase of the rule table (`""` for other wordings), `base_resp` code, window reset,
Retry-After, semantic code. Messages themselves are not represented.

*Time.* `rate_limited_until` and `locked_until` are countdowns. `Tick` lets one unit pass
everywhere; 0 is a time that has passed, `Unset` is NULL. `MaxTimer` caps a countdown: the
order of the expirations of two long cooldowns is lost, their existence and expiry are not.
The deletion of expired lock rows cannot be observed (every reader tests the time) and
is not represented.

*Database.* Deletion cascades to locks; inserting a lock for a deleted account throws, which
is what makes the exception paths interesting. A deleted id does not come back (ULIDs).
Accounts are numbered in the order of `created_at`, the order in which the code lists them.

*Log queue.* A row is its number. `timeouts` counts the timeouts that will still fire,
`registered` is `timers.has(db)`: a flush by shutdown forgets a timer without clearing it.
The table of the model is the sequence of the rows written.

*Transports.* A call is at one of its awaits: `selected` (it has the row of its account),
`importing` (the cache was read, `undici` is being imported), `holding` (it has a dispatcher).
An agent is numbered when it is made; `open` until something closes it. A resolution is
cached with its key, the assignment it was made for. What goes out for a Kiro account has *legs*:
the refresh of its token and the lookup of its profile, each if it is needed (which is left to
chance), then the call itself, one after the other over the transport resolved for the first.
`mode` is the failure mode that the maker of a call has for it; `FailureMode` is what `proxyAwareFetch`
is given of that, which is nothing for the legs before the call ("direct" is the default). What
has no mode at all, `/v1/models` and the admin's test of a model, is `CallAtOnce`. Kiro's usage and
its device login are given no transport either: they are `Probe`s with `Direct`.

*Kiro.* A caller keeps the copy of the row it read. Refresh tokens are numbered in the order
of issue; `accepted` are those the service would take. It may keep the token or rotate it,
and its answer may be lost.

*Streams and bodies.* Text is reduced to its source: a piece has a number and a kind, an event
its name, index and source. Chunks are cut at any piece. `RequestBody` keeps apart what the
code shares: a copy that shares its messages with the body sees what is done to them later.

*Registry and caches.* A copy has an age in ticks and lives for one. A handler of the admin API
is one step, as it awaits its body before it checks anything; but PUT of an alias looks for
the alias, awaits, and writes (`PutReads`, `PutWrites`). It may write the target it had found: since
any model may have been that, the model lets it write any, if the foreign key admits it. The
name of a model without a namespace is a bare name too (`OwnName`), and may be its own alias.

*Console.* Event *n* is the *n*-th emitted. The ids of requests (`genReqId`, 16 random bits) are
taken to be distinct: two requests with the same id would share a block of the page.

*Dashboard.* The server's tables are known by the time of their last write; a page's data by
the time it was read. `Shows` says what each query reads, `Pages` what each page observes and
which mutations it offers, with the tables they write and the queries they invalidate or have
fetched again (`refetches`), one entry for each in the source. A refetch is asked of an observer of
the page: that of the accounts is of the accounts always, that of the locks is of the account in the
edit dialog when the answer arrives (`Refetched`). The locks are those of one account, so
"editAccount" is the dialog on that account, and "accounts" the page with no dialog or one on another;
a page that is unmounted leaves its observer where it was (`LeavesAccounts`). A fetch that goes on although its query was invalidated (its
first, or one that nobody observes) may hide the write: it is `overtaken`. `Forgotten` names
the mutations that do not name a query they change: each is a finding.

## 3. Runs

| Run | Configuration | Properties | Bounds |
|---|---|---|---|
| `decisions` | `AccountLadder.cfg` | `LadderCountsFailures`, `SemanticCodesDecide` | the real constants of the source; 3,000 answers: each case of the rule table combined with each other; failures counted up to 10, past the cap of 8 |
| `requests` | `RequestPipelinePool.cfg` | `TypeOK`, `PenaltyLeavesError`, `DisabledStaysDisabled`, `PinMovesOnlyWhenUnavailable` | 2 requests, 2 accounts, 2 modes that change, accounts disabled and enabled, locks cleared, 429 and exhausted balance, ladder of 2 rungs, time of 1 unit |
| `routes` | `RequestPipelineRoute.cfg` | `NoOrphanLocks`, `ForeignFetchOnlyByFallThrough`, `OneRowPerAnswer` | 2 requests; an account of each kind of handler, a second, incomplete Notion account created later; models of Kiro and Notion and an unresolvable one; 503 and 401 |
| `combo` | `ComboChain.cfg` | `NoMemberLeftOut`, `PromiseKept` (refinement of `FallbackChain`), `ComboSettles` (liveness) | 1 request, two combos of 3 members, one with the same model twice, one with an unresolvable one; 429, 400 and exhausted balance; deletion, enabling, locks cleared |
| `combo_pair` | `ComboChainPair.cfg` | `EveryAttemptLogged`, `TriesOnlyFreshAccounts` | 2 requests over two combos that share two accounts, one with two models of the same account; sticky mode, deletion |
| `log_queue` | `LogQueue.cfg` | `TypeOK`, `Conservation`, `NoRowStranded`, `QueueBounded`, `WrittenInOrder`, `ShutdownLeavesOnlyLateRows`, `RowsSettle` (liveness) | 7 rows; (batch, bound) = (2,4), (3,3), (4,2); any number of crashes and restarts |
| `upstream` | `Upstream.cfg` | `UpstreamTypeOK`, `ResolutionsCurrent`, `NoDispatcherLeaks`, `BlockedNeverDirect`, `StoredTokenAccepted`, `EditUndoneOnlyByOlderCopy`, `PollingEnds` (liveness), `RetentionWithinADay` | transports: 2 calls of 1 Kiro account, with a refresh and a lookup before each, 3 rows and a free one, a pool of two or a relay with a proxy, LRU of 1, 2 agents, 1 edit; Kiro: 2 callers, 3 tokens, 1 edit; login: 2 codes, 2 polls under way; puller: 2 ticks, 2 accounts, 2 rows per pull, 4 units of time of which 2 are a day |
| `gateway` | `Gateway.cfg` | `GatewayTypeOK`, `HealthyAnswersDelivered`, `LocksBindEveryRoute`, `ContentInItsBlock`, `StreamGrammar` (refinement of `BlockProtocol`), `UsageSurvivesCuts`, `ConversationReachesUpstream`, `NamesResolveAsListed`, `CachesCurrent`, `ConsoleReplay`, `PageShowsWhatWasSaved` | handlers: 2 requests, a cooldown of 1 tick; streams: 3 inputs, 2 tools; relay: bodies of up to 3 units of 1, 2 and 4 pieces, a tail of 3; bodies: 3 messages of 11 forms, 2 members, 3 settings; registry: 2 model names, one of them bare, 2 bare names, 2 combos, 1 PUT under way; caches: 2 keys, 2 values, 2 flushes; console: 2 requests of 2 events, ring of 2, 2 connections, log of 3; dashboard: 15 queries over all pages, 2 writes, 2 visits, 3 acts |
| `success_reset` | `RequestPipelineReset.cfg` | `SuccessResets` – **violated** | as `requests` |
| `retry_after` | `AccountLadderRetry.cfg` | `RetryAfterHonoured` – **violated** | as `decisions` |
| `combo_foreign` | `ComboChainForeign.cfg` | `MiniMaxPathUsesMiniMaxAccounts` – **violated** | 1 request, a Kiro and a Notion account, a combo of one Notion member |
| `stream_tools` | `SseStreamTools.cfg` | `DeltasInsideTheirBlock` – **violated** | 3 inputs, 2 tools |

The type invariant of each module is checked by one run: `TypeOK` by `requests` and
`log_queue`, those of the later modules, together, by `upstream` and `gateway`.

*The focus of a behaviour.* The components of `MCUpstream`, and those of `MCGateway`, share no
variable. A behaviour of these two modules runs one of its components, its `focus`, while the
others keep one initial state: their state spaces add up instead of multiplying, and nothing
is lost, as no action of one reads or writes what belongs to another. `PollingEnds` needs
`LoginFairness` only; the fairness of an interval is vacuous in the behaviours of another focus.

*Why the bounds are enough.* The state shared by requests is a row per account, a lock per
account and model, one cursor and one map. Every interference the code has is between the
snapshot of one request and one write of another (request or admin), so two requests exhibit
it; a third repeats it. Two accounts are the least with which selection has a choice. Two
rungs distinguish "on the ladder", "climbed" and "at the cap"; `decisions` checks the real
ladder of eight by itself. One unit of time distinguishes cooling, expired and never set.
In the queue, 7 rows fill each configuration's batch more than once, with a crash or a
forgotten timeout between. The same argument holds of two callers that refresh a token, two
calls that miss the dispatcher cache (with an LRU of one, each evicts the other's), two
overlapping ticks, and a fetch or visit between two writes. Three inputs open a block, leave
it and come back to it. A tail of three pieces holds the longest line that fits and not the
one that does not. Three messages hold a call, its result and what follows. What these
instances show of safety is, for most properties, proved for all in section 5.

*Deadlock* is checked except in `upstream` and `gateway` (and `stream_tools`): their parts are
finite errands (a call that was made, a stream that was closed, a budget of visits and writes
that is used up), which may be done. In the other modules a request may always arrive and a
clock always tick, and the log queue always ends in a crash and a restart.

### 3.1 Fairness

* `LogQueue!FairSpec`: weak fairness of `TimerFires` (a timeout that is due stays in the
  event loop until it runs) and of `Exit` (`gracefulShutdown` waits for promises that are
  already settled). Nothing is assumed of insertions, crashes or restarts.
* `ComboChain!FairCSpec`: strong fairness of each request's `Progress`. The loop itself is
  synchronous; a handler reaches its selection after awaiting local work; a call or a body
  is answered, fails or times out (the fetch of the runtime has limits of its own). It is
  strong because another request inside the loop holds everyone else back for the moment,
  so `Progress` is not continuously enabled. Streams are not assumed to end.
* `KiroLogin!LoginFairness`: weak fairness of each interval. An interval of a page that is open
  fires again and again until it is cleared. No fairness is assumed of the answers to polls,
  of the user or of AWS: `PollingEnds` holds without them, since each interval has a deadline.

`KiroWellBehaved` is an assumption of another kind, about what Kiro sends: nothing but metadata
after its `messageStopEvent`, and all the input of one tool use before the next content.
`StreamGrammar` and `ContentInItsBlock` are checked and proved under it; that the assembler
depends on it is a finding.

### 3.2 The disagreements found

1. **Retry-After in the MiniMax path and in combos is multiplied by 1000 twice**
   (`minimax.ts:390`, `combo.ts:408`, `error-rules.ts:40`): "2 seconds" cools the account
   for 33 minutes. The handlers that use `handleUpstreamError` are right.
2. **A success does not always reset the ladder** (`pipeline.ts:170`): the early return
   decides on a snapshot, ARCHITECTURE.md:282 promises a reset on the next success.
3. **A combo member of Notion, Z.AI or QwenCloud is sent to MiniMax's upstream with an
   account of any provider** (`combo.ts:149`, `combo.ts:371`), the leak the comment at
   `combo.ts:131` sets out to prevent.

4. **Arguments of an OpenAI tool call that arrive after another block was opened are sent for
   a block that is already stopped** (`codebuddy/stream-convert.ts:244`), against "one open at
   a time" (`kiro/anthropic-sse.ts:17`). `BlockProtocol` allows a delta of any block that was
   started, so that the rest of the grammar can be stated; this run states what is left.

Three more were found by reading, and bound what the passing properties say:

5. **In block mode, a request on a Kiro account may show the real address** (`kiro/token-refresh.ts:50`):
   the refresh of its token and the lookup of its profile are given the account's proxy and no
   failure mode, and go out directly when the proxy fails, as does the catalogue of `/v1/models`.
   `FailureModeCard.tsx:44` promises "Requests blocked … real IP protected". `BlockedNeverDirect` is about
   the call after them, the only one that is given the mode.
6. **An alias of the name of its target is accepted and leads nowhere** (`alias.ts:66`): its target
   equals the name asked for, which is how the resolution knows a name that is no alias.
   `Aliases.tsx:307` says that requests for such a name "route to the alias target instead".
   `NamesResolveAsListed` excepts it.
7. **A lock that was removed may be shown again** (`Accounts.tsx:303`): the answer to an unlock fetches the
   locks of whichever account is in the dialog by then. A dialog left before the answer and opened
   again within 30 seconds shows the lock it was told is gone. `Concerned` keeps such an unlock out
   of what `PageShowsWhatWasSaved` owes.

The model takes each of these steps; a property without the exception (calls of every leg, aliases of
every name, every unlock) is violated within a few steps.

`PROJECT.json` quotes more than thirty others, met while reading the code for the model. Where
a property would be violated by one of them, its exception is named in the property or in a
definition beside it: `KnownMismatch` (Z.AI), `ConvertedTwice`, `DropsMessages`,
`AssistantEnds` and `AugmentationLost` (bodies), `overflowed` (the tail buffer), `missed` and
`Reconnected` (the console), `lost` (an answer with a rotated token), `FailureMode` (the legs that
are given one), `OwnName` (an alias of its own name), `Forgotten`, `Concerned` (an unlock whose
dialog was left) and `overtaken` (the dashboard). What remains is what the code does keep.

## 4. What the passing properties say

* `LadderCountsFailures`: the *n*-th ladder failure costs 2^(n-1) s up to 4 minutes, whatever
  other failures come between.
* `SemanticCodesDecide`: once a semantic code is present, neither wording nor status matters.
* `PenaltyLeavesError`: however stale writes overlap, an account that is cooling, on a rung or
  in status `error` shows a last error.
* `DisabledStaysDisabled`: no late answer enables an account again.
* `PinMovesOnlyWhenUnavailable`: a pin leaves its account only if that account could not have
  served the request.
* `NoOrphanLocks`, `OneRowPerAnswer`, `ForeignFetchOnlyByFallThrough`: what deletion under a
  request and swallowed exceptions can, and cannot, lead to.
* `NoMemberLeftOut`, `PromiseKept`, `ComboSettles`, `EveryAttemptLogged`,
  `TriesOnlyFreshAccounts`: a combo keeps the order of its members, tries each once, stops
  early only for a failure no other model cures, reports the last failure, ends, leaves a row
  per call, and never starts an attempt on an account that is cooling, disabled or locked.
* `Conservation`, `NoRowStranded`, `QueueBounded`, `WrittenInOrder`,
  `ShutdownLeavesOnlyLateRows`, `RowsSettle`: every row is written once or counted as lost,
  no row waits without a timer, the queue is bounded, the table is in order, a shutdown
  leaves only rows that came after its flush.

* `ResolutionsCurrent`, `NoDispatcherLeaks`, `BlockedNeverDirect`: an edit of the transports is
  in force from the next call on; whoever loses the race for a place in the LRU closes its
  agent, and a handler's call that loses its agent that way, or whose refresh went out directly
  because of it, still never goes out directly when it must not. Of other calls it says nothing
  (section 3.2, 5).
* `StoredTokenAccepted`, `EditUndoneOnlyByOlderCopy`: concurrent refreshes do not lock the
  account out; only a call that is older than an edit can undo it.
* `PollingEnds`: resets and late answers do not leave a dialog polling for ever.
* `RetentionWithinADay`: pruning keeps its promise up to the day the two formats differ by.
* `HealthyAnswersDelivered`, `LocksBindEveryRoute`: for six providers, four client forms and two
  routes each, the answer has the client's format, framing and usage; a lock binds under
  either name of a model.
* `ConversationReachesUpstream`: every piece arrives once and in order, whatever is mutated later.
* `StreamGrammar`, `ContentInItsBlock`: any order of upstream events becomes a stream that an
  Anthropic client accepts, with each piece under an index started for its source.
* `UsageSurvivesCuts`: where chunks are cut makes no difference to what is read and reported.
* `NamesResolveAsListed`, `CachesCurrent`: no copy is asked for what a write has made untrue, a PUT
  included that was overtaken by a deletion; an alias leads to a model unless it is of its own name.
* `ConsoleReplay`: replay, subscription, batching, pause and reconnection lose and reorder only
  what they are known to.
* `PageShowsWhatWasSaved`: a page at rest shows each write it was told of, but for the exceptions
  named in section 3.2.

`PROJECT.json` pairs each property with a mutant of the code, kept next to the definition it
replaces ("Mutant of ..."), under which the property fails.

## 5. Theorems

All proofs are checked by TLAPS for arbitrary constants under the named assumptions of the
modules (accounts are a finite set of numbers; a provider per account and per model; the
cursor's period is a multiple of step times the number of a provider's accounts; the ladder
has one to eight rungs and positive costs; configurations are positive; `NONE` is no name).

* `RequestPipelineProofs`: `VerdictIsDecision` (every verdict of `ErrorRules` is a well-formed
  decision, split along the priorities of the rule table), `TypesHold`,
  `PenaltyAlwaysLeavesError`, `LocksNeverOrphaned`, `ForeignFetchesFallThrough`, `RowsCounted`,
  `OnlyTheAdminEnables`, `PinsKeptWhileAvailable`. The inductive invariant is
  `BaseInv == TypeOK /\ RouteInv`. `RouteInv` is what `ForeignFetchOnlyByFallThrough` lacks
  to be inductive: *before* the call a request is with the handler of its model, or with
  MiniMax's because an account of its provider was deleted or Notion's handler threw; and an
  account that is called exists or once existed and belongs to the handler. It rests on
  `RowsPersist` (deleted accounts stay deleted). The others are inductive given `BaseInv`:
  the types tell which values an action may write, and `CallsWell` that the account of an
  answer is an account.
* `ComboChainProofs`: `AttemptsLogged`, `EveryMemberAsked`, `AttemptsFresh`, and `LoopKeepsPromise`,
  the refinement of `FallbackChain`. The inductive invariant `ComboInv` says of each request
  where it can be in the loop (`Good`: what it has logged, called and heard so far). Every
  action changes one request; `Move` says what it may do to it, each action is shown to be a
  `Move`, and the four results are read off that relation.
* `LogQueueProofs`: `QueueTyped`, `RowsConserved`, `RowsNeverStranded`, `QueueStaysBounded`,
  `TableInOrder`, `ShutdownFlushes`. The inductive invariant adds to the properties `Restart` (a
  process that is down holds nothing), `LateRows` (while it is stopping, the queue holds
  only rows from the signal on) and `Order` (table before queue before the next row).
* `UpstreamProofs`, for `Transport`: `ResolutionsNeverStale` (an entry is made from the table as it
  is and every edit empties the cache) and `BlockedStaysBlocked` (what a failure leads to is
  settled when the leg is begun: `Decided`; it holds of a handler's call, whatever the legs before
  it did), neither of which needs the caches of agents. For
  `KiroToken`: `KiroTyped`, `TokenAlwaysAccepted`, `EditsUndoneByOlderCopies`. `Rotation` is why
  an answer may be stored whenever it comes: a new token is known only to the call that was
  given it, and while the stored one is refused, some call is about to store its own.
  `DispatchersAllClosed` does need the caches (`AgentsInv`): the open agents are those of the LRU,
  which holds no URL and no agent twice, so that whatever takes an entry out must close its agent.
  For `QuotaPuller`: `RetentionKept`. Pruning compares two formats of a time, whose order agrees
  with that of the times up to a day (`DayOrder`); the rest is what a filter keeps, whichever
  ticks wrote the rows. `UpstreamTyped` gives the types of all four components, `KiroLogin` included.
  For `AccountLadder`, with ladders of up to eight rungs: `LadderAlwaysCounts` (a verdict has no
  level or is the next rung from the level it was given, `AnyVerdict`, and the cost of each rung
  is its power of two, `RungCost`), and `CodesAlwaysDecide`, which needs no invariant, only the
  order of the tests of `CheckFallbackError`.
* `StreamProofs`: `GrammarKept`, the refinement of `BlockProtocol`, and `ContentKept`, under
  `KiroWellBehaved`. The events on the queue are a `Path` from where the client is to where
  the assembler is, each allowed where it stands; what the assembler remembers (open block,
  index, known tools) is related to the end of the path only, so that pushing an event
  extends it and reading one shortens it. And `UsagesSurviveCuts`, for bodies of any number of units of
  any size, cut anywhere: what the relay holds back is the stretch of the body from the last
  boundary to where the chunks end, and what it has read are the units up to that boundary (`RelayInv`).
  `StreamTyped` holds without `KiroWellBehaved`: whatever the upstream sends, no event and no
  tool names a block beyond the assembler's index, and the index never falls (`Fit`, `Onward`).
* `RequestBodyProofs`: `ConversationsReachUpstream` and `BodyTypes`, for conversations of any length.
  A body is read as its *line*, the pieces of its system prompt and its messages in order. Two
  bodies are the `Same` when their lines are equal without prompts and without what RTK did
  (`Bare`), and the roles at both ends agree as far as Kiro's turns depend on them (`Kin`). Every
  augmentation and conversion keeps that, in place or on a copy. A payload is compared by
  columns (its texts, its tool uses, its results: `Carries`), since Kiro's turns keep the order of
  each kind and not of all. Kiro's transform is a fold, and the invariant runs along it: history
  and pending pieces carry the messages taken so far (`Has`), and what is pending belongs to a
  turn of the current role. The inductive invariant says where the combo's body and the
  handler's copy stand between the steps (`Waiting`, `Augmented`): that they have come of the client's
  body unless a body is converted twice (`Twice`, a finding), and that the prompt of a request
  that is no combo's is in them once.
* `GatewayProofs`: `NamesAlwaysResolve` (with `Copied`, the copy of the aliases is never out of
  date, and `Leads`, the target of an alias is a model, which it
  leads to unless it is of its own name) and `CachesNeverStale`. For `ProviderHandlers`:
  `LocksAlwaysBind` (`LocksHeld`: a ban never outlasts the lock of the bare name, which all
  handlers test and set; `StepsNamed` is where the row's name is shown to be the bare one
  wherever a handler uses it) and `AnswersDelivered` (`HandlersDeliver`, one case per provider;
  QwenCloud's needs that no call is made for what it refuses, `Supported`).
  `PagesShowWhatWasSaved`: to be inductive, "a page at rest" needs the moments
  before it (`Shown`): an answer under way was read late enough or is known to be overtaken, and
  data nobody observes is new enough or stale. It owes nothing to a mutation of `Forgotten`, nor to an unlock
  whose refetch was of another query (`Told`). `ConsoleReplayed`: page, pending batch, wire and
  the rest of the replay are four ascending sequences, each before the next, while there was one
  connection (`InOrder`); every event is in one of them or missed (`ArrivalsInv`); the slots of
  the ring hold the events that their distance from the head says (`RingInv`). `GatewayTyped`: the
  invariants above are stated of parts that step one at a time, and what they lack of the types
  is stated beside them (`HandlersInv`, ranges of a request's fields; `CombosInv`; `CountsInv`, a
  report counts no more rows than were flushed; `PagesInv`, the writes done and under way stay
  within their bound). With those of `StreamProofs` and `RequestBodyProofs` they are one invariant of the
  gateway (`GatewayInv`).
* `SequenceLemmas`: induction over numbers and over sequences, each stated for the set of those a
  statement holds of, which the provers can instantiate; `FlattenSeq` has the value its
  recursive function says; what `Filtered` keeps, in which order; members and ascending sequences.

Every invariant and every safety property that a run checks is stated by a theorem. Only
model-checked are the three liveness properties (`ComboSettles`, `RowsSettle`, `PollingEnds`): they
rest on fairness, which is out of the prover's reach. `GrammarKept` and `ContentKept` assume
`KiroWellBehaved`, as the runs that pass do (section 3).

## 6. Not modelled, and why

* Notion's handler beyond its selection and its catch: its transcript and its patch stream are
  a reverse-engineered format; two defects of it are findings.
* The wording of errors, token counts, prices, parameters of a request, what an RTK filter makes
  of a text, captured bodies: nothing above depends on them.
* The SQL of reports and exports: arithmetic over rows in single statements. What they read, and
  when a cached report is outdated, is modelled.
* Expired lock rows and their throttled deletion; `status = 'disabled'`, which is tested and
  never written.
* `count_tokens`, `/v1/models`, the imports of credentials, health tests and pre-flight tests: one
  read, or one insertion, each.
* Login and sessions: synchronous reads and writes of one settings row, one session row and a
  counter per address, which meet no other component.
* Opening and migrating the database happens once, before any request.
* Forms, tables, charts, keyboard navigation and the viewer of request bodies are presentation.
* The CodeBuddy sidecar is a Python process that drives a third party's login page.
* In `ComboChain`, an interleaving inside `augmentRequest` before the loop is the stage
  `reading`; the combos table is constant (renaming a combo under a request has no effect on it).

## 7. What is left

1. Liveness stays with TLC: the prover has no rule for `ENABLED`.
2. Notion's patch stream as a fourth assembler, once its defects are settled.
3. A theorem for the parts of `RequestPipeline` and `LogQueue` together: that the row of an answer,
   queued once (`RowsCounted`), is conserved to the table (`RowsConserved`).
