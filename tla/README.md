# A verification of LLMHub's credential and execution core

LLMHub is a Go proxy. It accepts OpenAI, Claude, Gemini, Codex and Grok style
requests, translates them, and sends each one upstream under one of many
credentials. A *Home* server may take over the choice of credential and bound
how many executions run at once. Translation is data; what is hard to get right
is the state that goroutines, instances and restarts share: which executions
Home still counts, which credentials cool down, what the scheduler and the model
registry believe of them, whose token is the newest, which alarms were announced.
That is what the modules in this directory model, check with TLC and, in part,
prove with TLAPS. All paths are relative to the repository.

`PROJECT.json` maps every definition to source lines, and lists components,
runs, mutants, findings, hazards and theorems.

## 1. Inventory

### Modelled, wholly or partly

| Component | State | Operations | Interacts with |
|---|---|---|---|
| Home execution registry, `sdk/cliproxy/executionregistry` | pending tokens, scopes, bound resources, release sequence per group, sink, barriers, accepting/draining/closed | BeginDispatch, End, Install, Bind, EndWithRelease, SetReleaseSink, ObserveBarrier, FreezeInFlight, Drain, Close | called by `home_dispatch.go` and `home_concurrency.go` (token, scope, resource), by `service.go` (start and stop of a lifetime), by the in-flight publisher (freeze); calls the flusher's MarkDirty as its sink |
| Release flusher, `internal/home/concurrency_release.go` | latest and acknowledged sequence and open tickets per group; wake, force and timer | MarkDirty, Run, flush, Flush | called by the registry with no lock held; sends frames to Home |
| Credential availability, `sdk/cliproxy/auth/conductor.go`, `selector.go`, `types.go` | cooldown, quota window, error of each model and of the credential; execution sequence | MarkResult, ResetQuota, ReconcileRegistryModelStates, RestoreCooldownState; readers isAuthBlockedForModel, clientModelProjectionForAuth | results come from every request goroutine; feeds scheduler, model registry, cooldown store |
| Scheduler synchronisation, `scheduler.go`, `conductor.go` | Manager's credential with epoch and generation; scheduler's entry and fence | Register, Update, Forget, MarkResult, resets, refresh marks, upsertAuth, removeAuth, rebuild | clones are handed over after `Manager.mu` is released |
| Selection, `scheduler.go`, `selector.go` | shards, ready views, cursors, mixed cursors; credits of the weighted selector | pickSingle, pickMixed, promotion, demotion, upserts, rebuild, pickNext with its second try, pickNextLegacy with the weighted selector | entries come from scheduler synchronisation; requests pick |
| Model registry, `internal/registry/model_registry.go`, `sdk/cliproxy/model_registry.go`, `service.go` | count, providers, quota marks, suspensions of each model; what each client offers; cached list; registration fence | RegisterClient, UnregisterClient, marks, GetAvailableModels; registration by two goroutines | fed by credential updates, by changes of the catalog, by MarkResult |
| Credential refresh, `auto_refresh_loop.go`, `metadata_merge.go`, `conductor.go` | queue, marks and jobs of the loop; pending window; token, backoffs and epochs of the credential | the loop and its workers, ForceRefreshAuth by requests, the merge, Register, Update, Forget, MarkResult | the provider rotates tokens; results and edits run beside it |
| Quota alerts, `internal/quotaalert`, `internal/store/postgres_quota_alert.go` | settings, rows, failure streaks, outbox with leases, advisory lock | RunCollectionOnce, CommitCollection, DeliverNotificationsOnce, ClaimNotificationBatches, ResolveNotification, SaveSettings | several instances share the database; messages go to Telegram |

What makes each correct, and what is hard about it:

* *Registry.* Home's count of running executions is right only if each
  execution is counted as released once, after its resource is closed, and the
  count reaches whichever sink is installed. Sinks are called with no lock held;
  a shutdown runs against late Install and Bind; a barrier is answered against
  dispatches that are still undecided; Drain sleeps on a channel that each
  release must close.
* *Flusher.* Sequences are cumulative, so frames may be lost, resent or
  overtaken, but a ticket may not be closed before Home knows, nor stay open
  when nobody will ever send again; wake-ups must not be lost; the final Flush
  must not report success too early.
* *Availability.* Results of concurrent executions arrive in any order and each
  rewrites the same fields: a success that is older than a cooldown, a sibling's
  quota, an aggregation, a policy that changes between two failures, a restart
  from saved records with other models. A live cooldown must survive all of them,
  except the administrator's reset.
* *Synchronisation.* Clones arrive in any order, a rebuild races with upserts, a
  removal races with registrations; the fence has to tell which is newer.
* *Selection.* Views are rebuilt when an entry changes but not when a cooldown
  ends or a token expires; the place in the rotation must survive rebuilds,
  exclusions and members that come and go.
* *Model registry.* Models are shared by clients; a registration is resolved with
  no lock held, by two goroutines; marks of results arrive late; the list is cached.
* *Refresh.* A token is used up by a refresh, so two refreshes, an edit of an old
  copy, a removal and a new registration must not lose the newest one, and a
  credential must not fall out of the loop's queue.
* *Quota alerts.* Cycles of several instances count in one database; an alarm is
  held back by samples and margins, and must not be entered in silence; messages
  are delivered at least once through crashes and leases that end.

### Not modelled

| Component | Hard behaviour | Why not, or when |
|---|---|---|
| Home dispatch, in-flight publisher, Home client | redispatch, revisions across lifetimes, reconnects | next in the plan, over ExecutionRegistry |
| Usage manager and usage queue, `internal/redisqueue` | bounded queue with retention; the forwarder of `service.go:867` requeues what it could not send behind newer records | next in the plan |
| Request conductor, `combo.go` | retry rounds, cooldown waits, model pools, request-scoped errors | the picks it makes and the results it reports are modelled; the rounds are planned |
| Session affinity; caches | expiry | small |
| Watcher, runtime control, updater, WebSocket relay | coalescing; apply and roll back; replaced connections | small |
| Service lifecycle | start-up and shutdown order | appears as guards (`serving`, `Restart`, `flush`) |
| Persistent stores | commit order of two saves (`postgres_cooldown_store.go:124`) | the cooldown store is a variable of AuthCooldown, the alert store is in QuotaAlert |
| Translators, executors, OAuth, HTTP API, discovery, Codex live, UI, logging | data conversion or I/O; most of the repository's lines | no; their outcomes are inputs of the models |

## 2. Plan

Built, in this order: ExecutionRegistry (1), ReleaseFlusher with its promise
CumulativeRelease (2), AuthState and AuthCooldown (3), SchedulerSync (4),
ModelRegistry and ModelRegistration (5), AuthRefresh (6), Selection (7),
QuotaEvaluator and QuotaAlert (8).

Left: `HomeDispatch` (publisher and redispatch over ExecutionRegistry),
`UsageQueue`, session affinity, the rounds of the request conductor.

Proofs: every safety invariant and action property that a passing run checks is a
theorem, and the registry and the flusher are joined by `ReleaseSource`. Worth stating
and proving next, in this order: what is left of the share of weighted picks when the
candidates change from pick to pick; an abstract selector, without views, that
`Selection` implements; an abstract registry of offers that `ModelRegistration`
implements as `ReleaseFlusher` does `CumulativeRelease`.

The number of runs is kept at twelve: ten that pass, at most two of a component,
and two for findings. Findings without a run of their own are in section 5.

## 3. Modules

Definitions marked as a mutant are plausible mistakes in the definition they
precede; no specification uses them. `MC*` modules hold the instances. Variables
called history are read by properties only.

### ExecutionRegistry (1)

Every action is one critical section of `Registry.mu`, or one step that the code
takes with no lock held: the compare-and-swap of the state, a resource that
closes, a call of the sink. Tokens and scopes share the identifiers handed out by
`Registry.next`; `phase` says where each one is, so `Registry.pending` and
`Registry.scopes` are the sets `Pending` and `Scopes`. `EndWithRelease` is six
steps (`EndDeactivate`, `EndStartClose`, the wait for the resource,
`EndMarkReleased`, `EndCallSink`, `EndForget`), because everything else may run
between them; so are Drain and Close. The condition variable is modelled as it
is: `signalLocked` closes the channel that each waiting Drain captured, which
moves it from "waiting" to "woken". `cutOf` and `received` are history.
A Drain's timeout is an action that may always happen and is never relied upon.

### ReleaseFlusher and CumulativeRelease (2)

The registry is reduced to its sequence (`Release`) and to calls of MarkDirty on
their way, in any order. MarkDirty and its signal are two actions, since the wake
channel is written after the lock is released. `Run` is its select (`RunWake`,
`RunFlush`, `RunReturns`) and its flush: the batch is a snapshot of what is dirty,
each frame is sent without the lock (`SendOK`, `SendError`) and acknowledged in a
section of its own (`Acknowledge`). Home and the connection are external: a send
may fail before or after Home has applied the frame. `CumulativeRelease` is the
promise, checked and proved as a refinement: Home's sequence of a group only
grows and is never ahead of the registry.

### ReleaseSource, between (1) and (2)

What each side takes the other for: every release is handed over in one call of its
own, calls arrive in any order, and once the source is quiet there is no call left and
none comes. `ExecutionRegistry` implements it, quiet once a Drain has returned nil
(`ImplementsHandOver`); the reduced registry inside `ReleaseFlusher` implements it too,
quiet from the poll of Flush on (`ImplementsSource`), which `service.go` calls only
after such a Drain. So the flusher assumes of the registry nothing that the registry
does not do.

### AuthState and AuthCooldown (3)

`AuthState` has the functions: what a result, a reset, a reconciliation and a
restore do to one credential, and what its readers derive from it. `AuthCooldown`
is the system over time: executions are dispatched with a sequence, report
success, failure or nothing (`Neutral`) in any order; time passes; records are
saved after the lock is released (`SaveRecords`); the process restarts with any
set of registered models.

Time is a natural number with 0 for Go's zero time. Durations are small
constants. A failure is a record of the status class, the retry hint, the
credential scope, force_cooldown, and the configuration that MarkResult reads, so
that a policy may change between two failures. The credential has no refresh
scheduled, an unexpired token, and is not disabled; the Kiro quota block is left
out. Results delivered for Home carry no execution sequence, so nothing is
claimed of stale successes there.

### SchedulerSync (4)

One credential id. `clock` counts writes, and `rev` names the write whose content
a clone carries; `fence` is authGenerations, `entry` the clone the scheduler
serves. A writer changes the Manager and starts a call; the call arrives at the
scheduler in any later step. `holds` marks calls made while the caller still
holds the mutation lock of the id (Register, Update), which Forget does not take.
`Load` leaves epoch and generation zero, as they are not persisted, while the
update time is. Reconcile and reset read the clock before the lock, and may stamp
a time that up to `MaxLag` writes have overtaken. The upsert that a failing
refreshAuth makes under `Manager.mu` is covered by MarkResult's. History:
`dropped`, a rebuild unscheduled the id; `late`, the last write has an earlier
time than its own. Persisting is left out: when it fails in ResetQuota
(`conductor.go:5552`), the credential has changed and nobody is told, until the
next write.

### ModelRegistry and ModelRegistration (5)

`ModelRegistry` has one operator per method that changes the registry, each a hold
of its mutex, over the three maps of the code and the cached list. Of a model's
description only the web search capability is kept, which the registry merges
over its clients. `ModelRegistration` drives it: the goroutine of credential
updates and the callback of the catalog each take a snapshot of the credential and
of the client's registration epoch, resolve the models with no lock held, and
publish if neither has changed, else try once more; results mark the registry
after they have released `Manager.mu`, one call at a time.

Left out: the exclusions of the configuration in the fence, legacy client ids,
hooks, ReconcileRegistryModelStates (it is in AuthCooldown), the projections of
whole credentials, the inline application of an update when the queue of updates
is saturated. Concurrent executions of one client and model are not told apart.
`crossed` is history: the callback of the catalog published between the two steps of a
removal, which nothing in the code keeps it from (section 5).

### AuthRefresh (6)

One credential: the dispatcher's heap, mark and wake channel, the job queue and
its worker, the pending window, the refresh lock of the id; a refresh reads the
credential (`ReadForRefresh`), calls the provider, which rotates its token with
every refresh, and merges (`UpdateRefreshedAuth`, `RefreshFails`,
`RefreshCancelled`). Requests that met a 401 refresh too. Beside it the credential
is edited, also from an older copy (`putBack`), registered anew, removed, and
results are recorded. Loops are stopped and replaced.

Merged steps are named in the module's header. Left out: credentials without an
executor, the mutation lock, file snapshots and persistence, the merge of model
states, preferred intervals, the growth of backoffs, the cap of the timer, an
answer lost after the provider has rotated the token, projections after a refresh.

### Selection (7)

The scheduler of one model with a shard per provider. A view is the set of ready
credentials of a priority, with or without websockets, which only requests to codex
prefer; a cursor keeps the identity of the previous pick. An action is one hold of
the scheduler's lock. `Outcome` is a whole pick of the scheduler: promotion and
demotion, the pick, and when nothing was found the rebuild and the second try of
pickNext.

The scheduler answers for round robin and fill first only
(`useSchedulerFastPath`, `conductor.go:5824`): isBuiltInSelector is false of a
`WeightedRoundRobinSelector`, so its picks are `PickNextLegacy`, which filters the
credentials themselves, without views, and keeps the credits of each kind of request
in the selector (`states`). The weighted branches of the scheduler and its
mixedWeightedStates are never reached from the Manager, and are not modelled.

Left out: the texts and classes of errors; the legacy path of other strategies, for
route-aware models and session affinity, and the selectors an embedder writes; the
limits on how many kinds of requests and how many credits the weighted selector
keeps, far beyond any bound here, and a selector that is replaced (a new one starts
without credits); the exclusion of free credentials (like a tried one), a pinned
credential (part of `Allowed`), the Kiro block, two clock readings within one pick,
and the saturation of the weighted credits at 64 bits (`saturatingAddInt64`; section
6 says within which bounds they stay). Weights are positive. The share of weighted
picks is a theorem about `PickWeighted`, not a property of a run.

### QuotaEvaluator and QuotaAlert (8)

`QuotaEvaluator` has the rules for one window of an account: threshold,
confirmation samples, recovery margin, what a failed collection leaves, which rows
are well formed and which events a change is worth. `QuotaAlert` has the
instances: each does one thing at a time, a cycle (`BeginCollection` reads the
settings and takes the lock; `FinishCollection` is the collectors, the evaluation
and the one transaction) or a delivery (`Claim`, `Send`, `Resolve` per batch).
`Crash`, `LoseConnection` and a lease that ends while its holder still works are
bounded by `MaxIncident`. What a cycle reads changes only under the lock, so it is
read where it is used; a cycle that has lost its lock writes nothing.

A lease is known by the attempt it is for. `extra` is history: deliveries whose
sender was told, less those that were then lost in a crash or that outlived a
lease. `calm` and `sound` are history too.

Left out: more than one provider (hence one batch per cycle) and more than one
window per account, beside `collection`; skew between the clocks of instances and
database; acknowledgement, payload quarantine, secrets, the collectors, Telegram;
the poll timers and Wake (a cycle may begin at any time); PruneEvents and
PruneNotificationBatches, which nothing calls.

## 4. Runs

| Run | What it shows | Bounds and why they are enough |
|---|---|---|
| `ExecutionRegistry_safety` | ReleaseExact, SinkCaughtUp, ForgottenIsReported, DrainedIsQuiet, NoResourceLeaked, NoRevival | two executions, one limited group or none, two Drains, a Close, a sink replaced once. Two executions are needed for sequences out of order, two sinks for the replay, two Drains for the loser of the CAS. 2.0 million states |
| `ExecutionRegistry_liveness` | BarrierSound; DrainTerminates, CloseTerminates, BarrierAnswered | two executions, one barrier, a Drain, two Closes (one waits for the other). 390 thousand states. Without scopes that count releases; barriers of any number are proved |
| `ReleaseFlusher_delivery` | TicketTruth, WaitersCovered, PromptFlush, FlushComplete, ImplementsPromise, TicketsClose | two groups (one may fail while the other is sent) with two releases each (the later may be marked first). 110 thousand states |
| `AuthCooldown_results` | CredentialQuotaHolds, StaleSuccessHarmless, FailureNeverShortens, BackoffOncePerWindow, ForcedCoolsDown | three executions over two models or of none, one failure of each effect on the state and of each policy. Three executions make a failure, a sibling's failure and a stale success. Failures with a status that is not listed, or transient ones while transient cooldowns are off, set no deadline. 297 thousand states |
| `AuthCooldown_restart` | RestartKeepsCooldowns | two executions of two models or of none before and after one restart, which may find other models. 4.0 million states |
| `SchedulerSync_current` | ScheduledIsCurrent, RemovedIsUnscheduled, Repairable, FenceMonotonic | one goroutine registers, updates and removes, as the service does; results, late stamps, refresh marks and rebuilds beside it, a restored record before; three calls under way, six writes. 422 thousand states |
| `ModelRegistration_current` | RegistrationsExact, RegisteredIsCurrent, CacheCurrent, UnmarkedIsListed | two clients sharing two models, two inputs of different provider, capability and models, one listed twice; two updates, two catalogs, two registrations, two results; the callback of the catalog may run in the middle of a removal. 3.8 million states |
| `AuthRefresh_merge` | NoPhantomJob, Watched, NewestToken, ChangesKept | a worker and a request refresh (each may be overtaken by the other), three tokens, two registrations, two events of any kind beside them. 4.0 million states |
| `Selection_picks` | PicksBest, RotationFair | three credentials of two providers: two in one view, one elsewhere; one may change priority, weight and websockets, one has a token that expires; round robin and fill first by the scheduler, the weighted selector without it, and requests that may get all, all but one, one or none. Properties are about every pick of every state. 74 thousand states |
| `QuotaAlert_delivery` | AlertAnnounced, DegradedOncePerStreak, DuplicatesExplained, EveryBatchEnds | two instances, an account, three levels (none, below and above the threshold), two settings with and without margin, recovery and reminders, changed once; three cycles (two to confirm or degrade, one more to repeat it); two attempts and one incident. 889 thousand states |

| Run expected to fail | Property |
|---|---|
| `ModelRegistration_removal` | RemovalUnregisters |
| `QuotaAlert_isolation` | ObservedIsRecorded |

Constants not mentioned: LongCooldown 3, ForcedCooldown, QuotaFloor and QuotaBase
1, QuotaMax 2 are the smallest that keep the cooldowns of the code in their order
and let the backoff escalate once and reach its cap; MaxTime 3 lets the shorter
ones run out while the longest lasts.

`CHECK_DEADLOCK FALSE` is set where the bounds or the end of a lifetime stop the
system.

Fairness. In the two Home modules: goroutines are scheduled; a token is resolved
when Home answers or the request's context ends; an execution is ended by its
owner's deferred call; resources close; the publisher's and the flusher's timers
fire. `BeginDispatch`, `Install`, `Bind`, the start of Drain and Close and
timeouts are not fair. The one strong fairness there says that a send that is
retried for ever succeeds at last: a connection that never returns is excused, as
is a lifetime that ended in failure. In QuotaAlert: collectors and sends have
timeouts, so what an instance has begun it ends, unless it dies; delays and leases
run out; and the claim is strongly fair, since the loop's select chooses at random
among timers that are ready, so that collections cannot keep it from delivering
for ever. Nobody has to begin a cycle, and no send has to succeed.

## 5. Findings

With a run:

* `QuotaAlert_isolation`: an account whose collection fails takes every other
  account down with it. Its unknown row is stamped later than the evaluation and
  is malformed (`evaluator.go:214` lacks `evaluationUpdatedAt`), or, where an alert
  was known, keeps its ObservedAt with other contents and conflicts
  (`postgres_quota_alert.go:1234`). The transaction is rolled back: no state, no
  event, no streak, so `monitor_degraded` is not sent either.
  `TestServiceCollectionIsolatesProviderFailure` uses a fake store and a clock that
  stands still.
* `ModelRegistration_removal`: applyCoreAuthRemoval removes the models before the
  credential (`service.go:401`, `403`). The callback of the catalog takes no lock that
  excludes it: in between it finds the credential, registers it, and its check that
  the registration is current still succeeds; after Forget it finds nothing and leaves
  the models to the removal (`service.go:1700`), which has been. The registry keeps
  offering the models of a removed credential. `RegisteredIsCurrent` makes an
  exception of exactly that, through `crossed`.

Met while modelling, without a run of their own.

Credentials:

* A failure with an unlisted status (400, 405, no status) sets a zero deadline over
  a live one, with cooling on (`conductor.go:4086`); the comment at
  `conductor.go:4095` reserves that for disabled cooling. They occur in
  `AuthCooldown_results`, and `FailureNeverShortens` makes the exception explicit: a
  failure that sets no deadline may drop the one of its own model, never of another.
* Without model states, `isAuthBlockedForModel` (`selector.go:904`) accepts a model
  during a credential-wide cooldown and `clientModelProjectionForAuth` hides it;
  `conductor.go:4471` says the two agree.
* An enforced cooldown of an execution without a model does not block when
  transient cooldowns are disabled (`conductor.go:5427`, `5445`), against
  `errors.go:31`. `ForcedCoolsDown` is about executions of a model. Such a failure
  also cuts a longer live cooldown of the credential to a minute: the zero deadline
  passes the extension at `conductor.go:5442`, and the enforced one is set after it.
  For a model the order is the other one (`conductor.go:4091`).
* While cooling is off, a credential-scoped 429 gives its model the backoff level of
  the credential's live quota (`conductor.go:3998`, before disable-cooling is read),
  as if its own window had escalated. `BackoffOncePerWindow` allows for that level.
* A 429 without a model replaces the reason of a live credential-wide quota, which
  then no longer blocks models. `quotaUntil` is reset there.

Scheduler:

* rebuild clears all entries and then refuses a snapshot that an upsert has
  overtaken (`scheduler.go:191`); the credential is missing until its next write.
  `ScheduledIsCurrent` allows for it through `dropped`.
* Forget takes no mutation lock; with the management API beside the update
  goroutine its removal may arrive before the upsert of the registration it
  removes, which is then accepted (`conductor.go:2290`). The run and the three
  theorems about content have `Management` FALSE.
* ReconcileRegistryModelStates and ResetQuota read the clock before `Manager.mu`
  (`conductor.go:586`). If another write overtakes them, their change has an older
  UpdatedAt and the same generation, and the scheduler refuses it however often it
  is told. The properties allow for it through `late`. Reconcile also reads the
  supported models before the lock (`conductor.go:572`), so that a registration in
  between makes it prune states of new models.
* A pick that finds nothing rebuilds the scheduler (`conductor.go:5994`,
  `scheduler.go:192`): the rotation of every model starts again, against
  `selector.go:27` (it "continues from the identity of the previous pick").
  `RotationFair` restarts its history there.
* RestoreCooldownState (`conductor.go:638`) "reapplies durable runtime cooldowns", but
  applyCooldownStateRecords sets UpdatedAt to the time of the record
  (`conductor.go:727`), older than the fence: the scheduler refuses the restored
  snapshot, and a later rebuild drops the credential. `late` covers this write too.

Model registry:

* A mark of a result that was decided before a registration may arrive after it
  (`conductor.go:4147`) and hides a model from the list until a later result or
  the end of the window. `UnmarkedIsListed` is about unmarked models.

Refresh:

* A 401 result makes the credential one that is not to be refreshed, and the loop
  removes it (`auto_refresh_loop.go:383`). A later result makes it one that can be
  refreshed again, but MarkResult does not tell the loop (`conductor.go:4138`), and
  nobody looks at it until an update or a request refreshes it. `Watched` allows
  for it through `revived`.
* A management handler that read a copy before a refresh writes the older token
  back (`auth_files.go:1834`, `1959`; `metadata_merge.go:227`). `NewestToken`
  allows for it through `putBack`.
* After a refresh that succeeded, a live 401 cooldown keeps the credential from
  being refreshed until the cooldown ends.

Quota alerts:

* With a recovery margin, an exhausted window that is above the threshold but
  within the margin stays exhausted with a positive rest, which Normalize refuses
  (`types.go:562`): every cycle fails until the rest is above the margin.
* A reminder is due an interval after the last commit, not after the last message
  (`evaluator.go:288`), and every cycle commits: it is sent only when cycles have
  failed for as long.
* A change of `degraded_failure_threshold` in the middle of a streak may report it
  twice or never; the settings of the run do not change it.
* sanitizeQuotaNotificationFailureCode knows none of the DeliveryFailureCodes that
  `service.go:374` says are persisted.
* A batch may be claimed more often than MaxNotificationAttempts, when its holders
  die before they resolve it.

## 6. Proofs

The theorems hold for every value of the constants: any groups, any number of
dispatches, barriers, sinks, Drains and Closes; any groups and releases; any number
of writes, calls and late stamps; any finite set of clients with any models, offers
and catalogs; any workers, callers, tokens, registrations and events; any finite set of models with
any failures, executions and restarts; any finite set of credentials with any
profiles, providers and sets of credentials tried; any finite set of instances with
any accounts, settings and cycles. They assume the named
assumptions on the constants that TLC evaluates in every run (an unaccounted group
is no group, bounds are naturals, sets whose members are counted are finite), and
four of them a hypothesis of their own: three of the scheduler that `Management` is
FALSE, as in its run, and `DegradationReportedOnce` that no change of settings moves
the threshold of failures (section 5 says what each excludes). `SharesFollowWeights` is
about a row of picks and not about the specification; its hypotheses say what a row is,
and that weights are positive.

Registry:

* `TypeCorrect`: TypeOK is inductive.
* `FreshTokens`: what was not handed out is untouched. It is needed wherever a
  step creates a token: a fresh token has no release captured.
* `NeverRevived` (NoRevival): an action property; the lemmas `PhaseSteps` and
  `StateSteps` give, once for all proofs, the steps a phase and the state can take.
* `DrainLeavesNothing` (DrainedIsQuiet): inductive with TypeOK, since the check
  that ends a Drain and the closed state exclude new tokens.
* `BarriersAreSound` (BarrierSound): the strengthening `BarrierInv` adds that the
  cut that waits is the one observed with the newest barrier and that no cut
  exceeds the tokens handed out; without it a freeze could publish a barrier
  against another barrier's cut.
* `ForgottenWasReported` (ForgottenIsReported): `ReportInv` ties a captured call
  to a counted scope, and says that from the step after the call on the sink has
  heard the sequence; `ReceivedGrows` says sinks never forget.
* `ReleasesAreExact` (ReleaseExact): the set of counted scopes grows by one
  exactly when a sequence does; `ResourceSteps` says a resource that is done stays
  done once the scope is deactivated.

* `LatestReachesSink` (SinkCaughtUp): with `SinkBounds`, no sink is ahead of the
  registry and no captured call is for a later sink, so that the step after the call
  may forget it.
* `NothingLeaks` (NoResourceLeaked): `ShutdownInv` follows a Drain or Close through
  its list: what is still bound is on it, and nothing is bound once the list is
  done; `CloseListed` is the step that takes one off.
* `SinksCountReleases`: for each sink that was ever installed, the registry with what
  that sink has received implements `CumulativeRelease`: the promise made to Home is
  kept by the sink already, in whatever order calls and replays reach it. From
  `SinkBounds`; `DeliveryIsAccepted` is the step that counts.
* `HandsOver` (ImplementsHandOver): every step of the registry is a step or a stutter of
  `ReleaseSource`. Only the step that counts a release adds a call
  (`CountingHandsOver`), only the call of the sink takes one away (`CallingIsACall`),
  and a Drain that ends leaves none, by `DrainedIsQuiet`.

Flusher:

* `TypeCorrect`; `SequencesFollow`: neither Home, nor `latest`, nor a frame or call
  on its way is ahead of the registry, nor `acked` ahead of Home. The other three
  invariants, `TicketsAreTrue` (TicketTruth), `WaitersAreCovered` (WaitersCovered)
  and `FlushCompletes` (FlushComplete), rest on it; the last is proved together
  with `Delivered`: the latest release of a group is known to the flusher,
  acknowledged, or its MarkDirty call is still to come, and none is to come once
  Flush polls.
* `FlushesPromptly` (PromptFlush): `Prompt` adds what holds during a flush: a dirty
  group is covered by a frame still to be sent, or a wake-up is on its way.
* `KeepsPromise`: every step of the flusher is a step or a stutter of
  `CumulativeRelease`; `SendKeepsPromise` is the one step that is not a stutter or
  a release.
* `ReliesOnSource` (ImplementsSource): the registry that the flusher is modelled with is
  a `ReleaseSource`.

Scheduler:

* `TypeCorrect`, and `FenceNeverFalls` (FenceMonotonic): what a fence refuses it
  refuses for ever. Both hold with the management API too.
* `SchedulerFollows` (ScheduledIsCurrent), `RemovalsArrive` (RemovedIsUnscheduled)
  and `AlwaysRepairable` (Repairable), under `~Management`, from one inductive
  invariant: types; `Bounded`, no clone and no fence is ahead of the Manager;
  `Serialized`, at most one call is made under the mutation lock, and it is about
  the present registration or its removal; `InOrder`, clones of the present
  registration compare as their writes do, unless the last one is late; `Follows`,
  what the Manager has is scheduled, on its way, dropped by a rebuild, or late.
  `Follows` alone is not inductive: a call could overtake a newer
  one that the fence does not tell from it.

Model registry:

* Sums. The counts of a model are sums over its clients, which the community modules
  define by recursion. `SumAdds` ties such a sum to a recursive function, whose
  existence, and whose laws (`SumRemove`, `SumSame`, `SumAtLeast`), are proved by
  taking a smallest set for which they fail (`MinSubset`, from the well-foundedness
  of strict inclusion on finite sets).
* `CountsAreExact` (RegistrationsExact) and `TypesCorrect`, inductive together:
  `MembersApart` and `ReplaceExact` say that replacing one client's offer moves each
  sum by that client's share; `ReconciledCounts` and `ReconciledCapable` that the
  registry's adjustments do the same.
* `CacheIsCurrent` (CacheCurrent) and `UnmarkedAreListed` (UnmarkedIsListed) rest on
  those.
* `RegisteredBecomesCurrent` (RegisteredIsCurrent), from `Registering`: `Attempts`,
  what each goroutine knows of the snapshot it took; `Promised`, the registration is
  current or one of the two will make it so; and `Ordered`, if an offer resolved from
  an older catalog is about to be published then the other goroutine is still in its
  first attempt, which that will fail. `Promised` alone is not inductive: the stale
  offer would be published last.

Refresh of a credential:

* `TypesCorrect`: one lemma per action, which also says what the action changes, for
  the theorems below.
* `EditsAndQuotasStay` (ChangesKept) with the bound of a quota by the credential's own
  deadline, in the credential and in the copy that an edit holds.
* `TokenIsNewest` (NewestToken) from `TokenInv`: only the holder of the refresh lock
  is beyond it, bases are of registrations there have been, and the token in hand is
  the newest the provider gave out.
* `JobsAreHeld` (NoPhantomJob) from `Lives` (which loops still run) and `JobInv`: a
  job is with its own loop, in hand, or in that loop's queue.
* `LoopLooksInTime` (Watched) from `WatchInv`: where a dispatcher is in its round, and
  that the mark outlasts the round over the queue.

Quota alerts:

* `DuplicatesHaveReasons` (DuplicatesExplained): `LeaseInv`, a lease is held by one
  instance and is no newer than the attempts of its batch; `SentInv`, what was sent
  without need, plus those who may still send, plus one if the batch may be claimed
  again, never exceeds one. Each step moves a unit from one term to another.
* `AlarmsAreAnnounced` (AlertAnnounced): `CycleInv`, whoever holds the lock began its
  cycle after every cycle that was written, and `WorseIsAnnounced`, a window whose
  alarm gets worse has an event in the same cycle.
* `DegradationReportedOnce` (DegradedOncePerStreak): an event of a streak needs as many
  failures as the threshold, so that a second would need the count to fall back.

Cooldowns:

* Operators first: `AggregateFacts`, `FailModelFacts`, `FailAuthFacts`,
  `SucceedFacts`, `ResetFacts` and `ReconcileFacts` say what each function of
  `AuthState` keeps, raises and clears, whatever its arguments; `BackoffPositive` is
  about the recursive `Backoff`.
* `QuotaBlocksCredential` (CredentialQuotaHolds) and `TypesCorrect`, from `IInv`:
  `QuotaRecorded`, a window that was announced is in the credential until it ends,
  since nothing replaces a live credential quota but a longer one, and `Watermarked`,
  an unavailable model is stamped with its last failure or a later one.
* `StaleSuccessesAreHarmless` (StaleSuccessHarmless) from `Watermarked`;
  `ForcedFailuresCool` (ForcedCoolsDown), `BackoffEscalatesOnce`
  (BackoffOncePerWindow) and `FailuresOnlyExtend` (FailureNeverShortens) from the
  lemmas on failures.
* `CooldownsOutliveRestarts` (RestartKeepsCooldowns): Restore applies the records one
  by one, so `RestoreFacts` is an induction over sets of records (`AppliesExists`
  gives the function, `ApplyFacts` the step): whatever has been applied is cooling
  off, and so the aggregation after each record never sees an available model.

Selection:

* A shard need not be up to date, since time passes without it. `IInv` says what it is:
  the views are made from the entries (`Indexed`), every entry was right when it was
  made (`Entered`), and in every view whoever was picked while another was waiting is
  behind that other, going round from the last pick (`InTurn`).
* `PicksTheBest` (PicksBest): `EnsureFacts` says that promotions and demotions bring
  such a shard up to date; `ReadyFacts` and `OffersFacts` that its views and priorities
  are then those of the credentials, so that `PickSingleFacts` and `PickMixedFacts`
  can say which one is picked, round robin or fill first. `ScheduledFacts` adds the
  second pick after a rebuild, and `LegacyFacts` is about the weighted selector, which
  reads the credentials themselves. That a slot of the mixed rotation exists rests on sums over the
  providers (`AddsExists`, `SumFacts`, as in the registry).
* `RotationIsFair` (RotationFair): `SuccessorFacts`, the next pick passes nobody who may
  be picked, so whom a view owes a turn is never passed twice; `RestoredFacts`, a
  rebuilt view keeps its place.
* `SharesFollowWeights`: of n picks of the weighted selector in a row among the same
  credentials, from a state without credits, a credential of weight w out of W gets
  fewer than n w / W + 1 and at least n w / W less the number of the credentials. The
  invariant is `Balanced`, the credits add up to nothing and nobody owes as much as W,
  which `PaysBalances` shows a pick to keep: everyone gains its weight, so the richest
  has more than nothing before it pays W (`TotalPositive`). `StaysSettled` adds that a
  credit is what was gained less what was paid, and `TotalBounds` gives the other
  bound. W times the number of credentials bounds every credit after any number of
  picks: while that product and one more W fit in 64 bits, the code's saturating
  additions never saturate. The theorem does not cover candidates that change between
  picks, nor weights that do.

The type invariants are proved, not run, and so are `ImplementsHandOver`,
`ImplementsSource` and the promise of each sink, which TLC finds to hold on the
instances of `ExecutionRegistry_safety` and `ReleaseFlusher_delivery` as well but which
no listed run repeats. Model-checked only: liveness, which is beyond the prover
(DrainTerminates, CloseTerminates, BarrierAnswered, TicketsClose, EveryBatchEnds), and
the two runs that are expected to fail. Recursive definitions over data are within
reach where a smallest counterexample can be taken, as above; the induction theorems of
the library, which take an operator, are not used.

## 7. Running

    tlc -workers 2 -config ExecutionRegistry_safety.cfg MCExecutionRegistry
    tlapm ExecutionRegistryProofs.tla

Each `.cfg` belongs to the MC module whose name it begins with.
