# Formal models of GoModel

TLA+ specifications of the concurrent parts of GoModel (the AI gateway in
`internal/`), checked with TLC on small instances and, where a theorem is named
below, proved with TLAPS for every value of the constants. All paths are relative
to the repository's `src/` root. `PROJECT.json` holds the machine-readable form of
what follows: components, runs, mutants, the map from definitions to source lines,
findings, hazards and theorems.

Contents: [1 The system](#1-the-system) · [2 The models](#2-the-models) ·
[3 Runs](#3-what-is-checked) · [4 Proofs](#4-what-is-proved) ·
[5 Findings](#5-findings) · [6 Not modelled](#6-what-is-not-modelled) ·
[7 Plan](#7-plan)

## 1 The system

A request enters through `server`, is authenticated against the **auth keys**,
matched with a **workflow** (a versioned policy), rewritten by **aliases**, checked
against **model access overrides** and **budgets**, passed through **guardrails**,
looked up in the **response cache**, and executed by `gateway` through the provider
router, which consults the **model registry** and calls a provider adapter over one
**llmclient** per provider, with its **circuit breaker**. Usage and audit records go
to two **asynchronous loggers**. The admin API edits the same services while
requests run, background goroutines refresh them, and `app` starts and stops it all.

### Inventory

| Component | State it keeps | Operations | Interacts with | What is hard | What makes it correct |
|---|---|---|---|---|---|
| Circuit breaker, client (`llmclient`) | breaker state, failure and success counts, half-open permit, last failure; per request: attempt, probe flag | `acquire`, `RecordSuccess`, `RecordFailure`, `IsHalfOpen`; `DoRaw`, `DoStream`, `DoPassthrough`, retry and backoff | providers over HTTP; metrics hooks | requests admitted in one state report in another; early returns that must still settle the permit and the hook; two critical sections for a 429 | the permit always has an owner; one probe at a time; transitions are earned; hooks balance; it closes again after an outage |
| Loggers (`usage`, `auditlog`) | channel, batch, `closed`, two WaitGroups, store | `Write`, `Close`, `flushLoop` | every request; the store; `app.Shutdown` | `Write` racing `Close`; full channel; failing batch | an accepted entry is handed over once, before the store closes; `Close` ends |
| Auth keys (`authkeys`) | store table, snapshot under an RWMutex | `Create`, `Deactivate`, `ImportRecords`, `Refresh`, ticker, `Authenticate` | admin handlers, runtime refresh | unlocked `List` before the swap; writes patched into the snapshot by hand | the snapshot lags only for a known reason and catches up |
| Aliases (`aliases`) | the same | `Upsert`, `Delete`, `Refresh`, `Resolve` | registry, admin | validation against the snapshot only; an error returned after the store has changed | no alias of an alias; refresh repairs |
| Overrides (`modeloverrides`, `pricingoverrides`) | the same, plus `refreshMu` | `Upsert`, `Delete`, `Refresh` | registry, admin | rollback of the store when a snapshot cannot be built; rollback that fails | snapshot and store agree outside a write, or the failure was reported |
| Workflows (`workflows`) | version table, active version per scope, compiled snapshot | `Create`, `Deactivate`, `EnsureDefaultGlobal`, `Refresh`, `Match`, `PipelineForWorkflow` | guardrails, requests | candidate compiled before the lock; a request holds a version that is then removed | one active version per scope; a global one always exists |
| Guardrails (`guardrails`) | definitions, executor, compiled registry | `UpsertDefinitions`, `SetExecutor`, `Refresh`, `BuildPipeline` | workflows, gateway | a definition deleted while a workflow references it | a compiled pipeline is of one definition set |
| Budgets (`budget`) | budgets, settings, reset times | `Upsert`, `Delete`, `Replace`, `Check`, resets | usage store | checks read usage that is still buffered; period bounds | a budget reported as exceeded was exceeded |
| Batches (`batch`, `gateway`) | stored batch records | `Create`, `Get`, `Cancel`, `Results` | provider batch API, usage logger, file store | read, remote call, whole-record write with no version | usage of an item logged once; a failed create leaves nothing behind |
| Model registry (`providers`) | models by provider, inventory state, cache file, initialization flag | `Initialize`, `Refresh`, `LoadFromCache`, `SaveToCache`, metadata refresh | providers, router | fetch outside the lock, swap later; partial failures | bare and qualified names agree, metadata follows the list, a registry that serves keeps serving |
| OAuth manager (`oauthproxy`, `oauthcreds`) | credentials in memory, in a file and in a store | `UseStore`, `UpsertCredentials`, `GetAccessToken` | token endpoint | a rotated refresh token that fails to persist; restart | the newest refresh token survives |
| Response store (`responsestore`) | map with expiry, sweep time | `Create`, `Get`, `Update`, `Delete`, sweep | server | expiry between sweeps, eviction at the limit | nothing expired is served |
| Response cache (`responsecache`) | write queue, workers, semantic inserts | `enqueueWrite`, `close`, async insert | cache store, embedder | enqueue racing `close` | no send on a closed channel; accepted jobs are written first |
| Lifecycle (`app`) | server handle, `serverDone`, shutdown flag, refresh semaphore | `Start`, `Shutdown`, `RefreshRuntime` | all of the above | shutdown before the server is registered; deadline while requests run | components close after those that use them |
| Request orchestration (`gateway`, `fallback`), `server`, `admin` handlers, provider adapters, `core`, `streaming`, `storage`, `cache`, `modeldata`, helpers, `config`, `cmd`, dashboard | per request, or none | translation, routing, setup | | little concurrency of their own | data correctness, tested directly |

Section 6 says why the rows of the last line are left out; every hazard with its
line is in `PROJECT.json`.

## 2 The models

| Module | Models | Uses |
|---|---|---|
| `CircuitBreaker` | `llmclient/circuit_breaker.go`, one operator per critical section | |
| `LLMClient` | `llmclient/client.go`: concurrent requests over one breaker | extends `CircuitBreaker` |
| `DurableLog` | the abstract promise of a logger | |
| `AsyncLogger` | `usage/logger.go`, and `auditlog/logger.go`, which is the same code | refines `DurableLog` |
| `RefreshedSnapshot` | the List-then-swap refresh the admin services share | |
| `AuthKeyService` | `authkeys/service.go` and the store calls it makes | extends `RefreshedSnapshot` |
| `OverrideService` | `pricingoverrides/service.go`, several instances over one table; `modeloverrides/service.go` is the same code with one step less | |
| `WorkflowMatching` | `matchCompiled` of `workflows/service.go`: which workflow a request finds, with the documented precedence as reference | |
| `GuardrailService` | `guardrails/service.go`: definitions, the snapshot, `refreshMu` | |
| `WorkflowService` | `workflows/service.go`: versions, the snapshot, `refreshMu` | extends the two above |
| `PolicyControl` | both services as one gateway runs them: admin handlers, refreshers, start-up, crashes, requests, other gateways | extends `WorkflowService` |
| `BatchOrchestrator` | `gateway/batch_orchestrator.go` with its preparers, usage logging and the provider | |
| `ModelRegistry` | `providers/registry*.go` with its cache and the goroutines that refresh it | |
| `OAuthManager` | `providers/oauthproxy/manager.go`, several instances over one table | |
| `MC*` | model values for TLC | extends the component |
| `*Proofs` | theorems and proofs | extends the component and `TLAPS` |

### Provider client and breaker

A *slot* of `Requests` is a goroutine that issues one logical request after another.
`pc` says where it is: `starting` (OnRequestStart was called, the breaker not yet
asked), `sending`, `backoff`, `limited` (a 429 found the breaker half-open and is
about to record a failure), `idle`. `attempt` and `probe` are the loop counter and
`scope.halfOpenProbe`; `inFlight` counts hook calls. Every path out of the three
entry points is an action: `Refuse`, `BuildFails`, `Retry`/`Resume`, `CancelWait`,
`CompleteSuccess`, `CompleteFailure`, `CompleteRateLimit`/`RecordRateLimit`.

Abstractions:

- What the provider answers is one of four classes (success, fault, transient, 429);
  the classes are those `completeScope` and the retry conditions distinguish.
- `DoRaw`, `DoStream` and `DoPassthrough` differ in the number of attempts only, so
  a request is free to end at its first or at its `MaxAttempts`-th attempt.
- `failures` saturates at the threshold: the code compares it with `>=` and
  otherwise only adds one or resets it.
- `lastFailure` is only compared with the timeout: `timedOut` is the result of the
  comparison, cleared by each recorded failure and set by `TimeoutElapses`.
- `healthy` is the environment: while it holds, calls succeed, fail to be built or
  are cancelled in a backoff. It may change at any time.
- `fresh`, `straggled`, `unsent`, `bad` and `good` are history variables; no action's
  guard reads them.

### Asynchronous logger

One entry per `Write` call. The call's four steps (look at `closed`, `writes.Add`,
look again, send or drop) are actions of their own, since `Close` may come between
any two of them; so are the three steps of `Close` and each case of `flushLoop`'s
select. The channel and the batch are sets, so the loop may receive any buffered
entry: more behaviours than the code's FIFO, which is sound for properties that
do not mention the order. A failing `WriteBatch` may have kept any part of the
batch, as an insert split in chunks or an unordered bulk insert may; the code logs
the error and drops the batch, which is `lost` here. The retries inside the stores,
and the prometheus counter of dropped entries, are left out.

`DurableLog` is the abstract specification: an entry is refused only by a log that is
closing or has `Capacity` entries pending; an accepted one is pending, then handed over
exactly once; and the log is sealed only when nothing is pending. The refinement maps
pending to `buffer ∪ batch`, refused to the dropped calls, closing to `closed`, sealed
to `storeClosed`, and `Capacity` to `BufferSize`: since flushLoop holds entries outside
the channel, a full channel means at least that many pending ones.

### Auth keys

A task is an admin handler or the refresher; a record is its status (absent, active
or inactive). `CreateKey`, `DeactivateKey` and `ImportRecord` are the store call;
`ApplyUpsert` and `ApplyDeactivate` the patch of the snapshot that follows in a
critical section of its own; `List`, `Swap` and `ListFails` are the best-effort
refresh after it. `WriteFails` is a store call that took effect and reported an
error. The store is one table of atomic, unversioned rows, modelled from
`store_sqlite.go`. `dated` and `missed` are history variables that say which copies
were overtaken by a write; `issued` are the keys a successful `Create` published.

Left out: expiry (compared with the clock at each use, whatever the snapshot's age),
token generation and hashing, and the `updatedAt` of a record. An import may also
change fields other than the status; those follow the same path.

### Overrides

`OverrideService` has several gateway instances over one table (the Helm chart runs
two replicas), each with its own snapshot and its own `refreshMu`. A task is an admin
handler or a background refresher; `Home` says in which instance it runs. A call
that waits for `refreshMu` has read nothing, so `Enter` takes the lock at once. Then
come the store call (`Write`, or `WriteFails`, or `WriteUnsure` when it took effect
and reported an error), `List`, and `Swap`; a failed list leads to `Undo` or, if that
fails too, `UndoFails` and one more `List`. Between any two of these steps another
instance may write the table. `modeloverrides` has no last refresh: its behaviours
are those in which that refresh fails, so the safety properties hold for it too, and
`Converges` relies on its refresher only. `owner`, `served`, `before` and `sameHome` are history
variables.

The record an undo restores comes from the snapshot, not from the table. When another
instance has stored the record since, the undo restores the older one:
`OwnRecordsRestored` is therefore about records that the same instance wrote last
(`sameHome`). Left out: the validation of the next snapshot (it rebuilds records that
are already normalized and cannot fail), timestamps, and stored rows that no
longer parse.

### Guardrails and workflows

`GuardrailService` and `WorkflowService` hold the state and the critical sections of
the two services; `PolicyControl` says who runs them. A task of `Admins` is an admin
request (`UpsertGuardrail`, `DeleteGuardrail`, `CreateWorkflow`, `DeactivateWorkflow`);
`pc` is the call it is about to make. It holds `mutationMu` from its first read of
state to its answer, and a request that waits for it has not begun. Each `refreshMu`
is a variable with its holder, so that the background loops can run between any two
steps and block where the code blocks. `Refresh` compiles the listed rows one at a
time (`CompileRow`), since the guardrails may be swapped between two of them.

The start-up task walks `app.New`: configured guardrails are upserted, the default
workflow is compiled and ensured, the workflows are loaded, or the process is `down`.
`Restart` may happen at any moment and takes everything but the tables. The second
round of start-up (`SetExecutor`, then `Refresh`, `app/app.go:565-577`) and
`RefreshRuntime` do what the background loops do and are among their rounds.

Abstractions: a guardrail definition is its revision, and a compiled workflow the
revisions of the guardrails it runs (hashes are functions of these). A workflow's
payload is the set of guardrails it names. `UnseenWrite` is any write the gateway is
not told of: another instance's, or its own whose call reported an error after it
took effect. `created`, `retired`, `acked` and `unseen` are history variables.
Feature flags, names, views and the validation of a scope against the registry are
left out.

`WorkflowMatching` is the lookup as the code does it (for each ancestor of the path,
then for none, up to three scopes in order, and the first that has a workflow) next to
`MoreSpecific`, the precedence `docs/advanced/workflows.mdx:40` gives.

### Batches

One batch: batches share nothing. `create` is the request that creates it, through
the chain of preparers (each may upload a rewritten input file and deletes the one
before), the submission, the store, or the rollback of whichever of these fails.
`task` is a request about it: it reads the record, calls the provider, perhaps
deletes the rewritten file and writes its whole copy back. Every call may fail, with
or without effect. The provider (`upstream`, `output`, `files`) moves on its own.
Statuses are those the code tells apart: running, cancelling, and `ended` for every
terminal one; an answer may also name none, and then the record keeps its own.

Results arrive one by one (`Produce`) and only at the end of what is there, so that an
item keeps its index and with it the id of its usage entry. `Results` does not ask
whether the batch has ended: it logs what there is and sets `UsageLoggedAt`
(`record.logged` remembers what that request logged), and what the provider adds later is
never logged. That is what the code does (`gateway/batch_usage.go:132-134`), and no
property here says otherwise. The entries go to the usage logger: `queue` is what it
holds, `FlushUsage` the write of a batch, which may fail after a part, and `usage` the
table, in which of two entries with one id the second is ignored. `AsyncLogger` is the
inside of that logger. `lost` are the items an entry of which the logger dropped, or a
failed write or a restart lost; since `UsageLoggedAt` is stored without waiting for the
logger, such an item stays unlogged although the record says otherwise.

`told`, `lost` and `excused` are history variables. What is left at the provider is
excused, since the code has no record to find it by, when a deletion or a cancellation
of `Create` or its rollback failed, when an upload, the submission or the store call of
`Create` took effect and reported an error, and when the process ended inside `Create`.

### Model registry

`inventory` and `bare` are `r.modelsByProvider` and `r.models`, two maps over shared
entries. `Initialize` fills them side by side (`FirstEntries`): of a model that a
provider's answer lists twice, `r.models` keeps the first entry and
`r.modelsByProvider` the last. Enrichment replaces entries of the second map and carries
the replacements over to the first (`CarryOver`), so it does not reach an entry that
only the first map has: the bare name of such a model has no metadata until the next
fetch or start. `same` says whether an entry is shared. `LoadFromCache` builds the
bare names from the other map (`rebuildGlobalModelMap`), and all are. A model's metadata
is the generation of the list it came from. The three refreshers (`boot`, `ticker`, `admin`)
run the steps their callers run, in their order, and hold `refreshCh` around a fetch;
`startup` is the goroutine of `providers.Init` that sets the list and enriches in two
critical sections without taking `refreshCh`, although `registry.go:38` says that it
"serializes provider/model-list refresh cycles". `overtaken` remembers that it came between an
`Initialize`'s read of the list and its swap: the published inventory then has the
metadata of the list before, until the next enrichment. `SaveToCache` copies under
the lock and writes later; the write is not delayed here, because an older copy
that lands on a newer one leaves what a crash before the newer save would have left.

Left out: metadata that operators configure (a layer applied after each enrichment),
the runtime state shown in the dashboard, and lookups.

### OAuth manager

Each instance has a token file and a map in memory, all share the table. `Construct`
is `SetInitial` (the environment merged into the file), `UseStore` copies the file to
the table; requests may run in between, as the first listing of models does. A
handler holds the manager's mutex from its first read to its last write, over the
call of the provider. The provider numbers its tokens and may rotate the refresh
token with each refresh, in which case the old one is consumed. A token file can be
torn by a crash or a failed write. `excuses` names the events that may cost a session:
`lost` (a rotated token that was never stored), `raced` (two instances refreshed at
once: no lock spans them) and `reverted` (a start put an older token in the place of
a newer one). The last is a finding, the first two nothing this code can prevent.

## 3 What is checked

| Run | Instance | Checks | Shows |
|---|---|---|---|
| `llm_client` | 3 slots, thresholds 2/2, 2 attempts; 48 678 states | `TypeOK`, `InFlightMatches`, `PermitAccounted`, `SingleProbe`, `EarnedTransitions`, `Recovers` | hooks balance on every path; a missing permit has an owner or was lost by `BuildFails`; probes exclude each other unless an older request reported in the same half-open period; the breaker trips and closes only on the configured streaks; it closes for good once the provider answers |
| `one_request_in_half_open` | 3 slots, thresholds 1/2, 1 attempt | `OneRequestInHalfOpen` | violated, see 5 |
| `idle_half_open_can_probe` | the same | `IdleHalfOpenCanProbe` | violated, see 5 |
| `async_logger` | 4 `Write` calls, channel of 2, flush at 2; 29 943 states | `TypeOK`, `DrainIsFinal`, `ImplementsDurableLog`, `AcceptedIsFlushed`, `CloseEnds` | nothing is sent behind the drain; a call drops its entry only if the channel is full or the logger is being closed; each accepted entry reaches the store once, before it is closed; it does so whether or not the logger is closed; `Close` ends |
| `auth_keys` | 2 handlers and the refresher, 1 key; 12 336 states | `TypeOK`, `LagAccounted`, `NoPhantomKeys`, `Converges` | the snapshot differs from the store only for a reason the code knows; it never holds a key the store does not; it converges once writes stop |
| `override_service` | 2 instances, each a handler and a refresher, 1 selector, 1 value or none; 31 984 states | `TypeOK`, `OwnWritesServed`, `OwnRecordsRestored`, `Converges`, `LockReleased` | what an instance wrote and reported is what it serves until the record is written again; an undo restores a record of the same instance; every instance converges; `refreshMu` is always released |
| `issued_keys_stay` | as `auth_keys` | `IssuedKeysStay` | violated, see 5 |
| `workflows` | 2 admins, 1 request, both loops, 1 guardrail with 2 revisions, 2 scopes, 3 versions, 1 unseen write; 1 647 323 states | `TypeOK`, `AckedRevisionServed`, `OwnVersionsServed`, `UnguardedOnlyIfRetired`, `RefsResolvable`, `MostSpecificMatched` | a guardrail change that was answered is in every pipeline requests can get; what was created or retired stays so whatever was listed before; a request loses its guardrails only with its version; without unseen writes the gateway never fails to start; requests match as documented |
| `batches` | 2 handlers, 1 item, 2 preparers; 6 693 200 states | `TypeOK`, `UsageAccounted`, `NothingOrphaned`, `InputKeptWhileRunning`, `FreshAnswers` | an item has one row of usage, and what is said to be logged is in the table or the logger unless that lost it, however copies of the record overwrite each other; a failed create leaves nothing behind; the input is kept while it is needed; statuses do not go back |
| `registry` | 2 providers, 1 model, 2 generations of the list; 4 330 600 states | `TypeOK`, `BareNamesFirstProvider`, `MetadataAccounted`, `ListingCurrent`, `ServedStays` | a bare name finds the first provider that has the model, with current metadata where the maps share the entry; metadata lags only in two named windows, listings are current, refreshes never empty a registry that served |
| `oauth` | 2 instances, 3 handlers, 3 tokens; 1 461 758 states | `TypeOK`, `OwnWritesRead`, `SessionHeld`, `NotReplayed` | no instance overwrites a write of its own it has not read; an accepted refresh token is kept somewhere unless an excuse took it; consumed tokens are not presented again |
| `session_survives_restart` | the same | `SessionSurvivesRestart` | violated, see 5 |

**Bounds.** Three slots are a probe, a straggler from before the trip, and a third
request that the straggler's success lets through; a threshold of two tells one
recorded outcome from a streak, and two attempts give a first, a final and a
retried one. Four entries fill a channel of two, trip the flush threshold of two
and leave one for the drain and one to be dropped. Two handlers and the refresher
give every overlap of a write, another write and a refresh; keys do not interact
but through `List`, which copies the table key by key, so one key shows every
order of events on a record. For the overrides a record that is there or not is
enough to tell a stale copy from a current one, and two instances to have one
behind the other. Two admins are one that acts and one that waits or
overtakes; three versions let a scope be replaced, retired and created again, and
two scopes have a request fall back from one to the other. Two preparers tell one file
from the one it supersedes; items meet only in the mark that usage is logged, so one
shows every order of events on an item and its entry. Two
providers of one model compete for its bare name; two generations of the list have
one overtake the other. Three tokens are a login, its rotation, and one more. Where
a theorem is proved the instance size does not matter.

Nothing is capped by a state constraint. Most variables are bounded by the code's
own comparisons (`successes` stops below its threshold because reaching it closes the
breaker); what the code does not bound is bounded in the guards by `MaxRevision`
(writes of definitions), `MaxVersions` (rows), `MaxUnseen`, `MaxList` (generations of
the model list) and `MaxToken` (tokens issued).

**Deadlock** is checked except for `async_logger`: a logger that was closed, with
every `Write` call returned, has nothing left to do.

**Fairness.** `LLMClient`: a begun request is carried on (the HTTP client and the
backoff have timeouts), time passes, and callers keep calling; only `Recovers`
needs the last. `AsyncLogger`: a begun `Write` or `Close` proceeds, and `flushLoop`
runs, since its ticker fires and `WriteBatch` has a context with a timeout; nothing
forces `Write` or `Close` to be called. `AuthKeyService`: a handler that was entered
goes on and the refresher's ticker fires; no handler has to start and the store may
stay down for ever, in which case `Converges` promises nothing. `OverrideService`: an
operation that holds the lock goes on, and the refreshers get the lock infinitely
often if it is free infinitely often (strong fairness: a `sync.Mutex` hands itself to
a waiter that starves). The safety
properties are checked under the same specifications and proved without fairness.
`PolicyControl`, `BatchOrchestrator`, `ModelRegistry` and `OAuthManager` claim safety only and
assume none: the provider, an admin or the network may stop for good.

**Mutants.** Each property of a passing run is shown to depend on the code by a
mutant that TLC must find violating it: a backoff that is cancelled without
`OnRequestEnd`, a 429 that is never charged, a probe that does not take the permit,
a close of the breaker that keeps the old failure count, a full channel that takes
one more, a `Write` without the second look at `closed`, or whose early return skips
`writes.Done`, a batch that is flushed twice, a loop that stops without draining, a
`Create` that ignores the store's error, a `Deactivate` that leaves the snapshot
alone, a refresh that skips a list with no new keys, a refresh without the lock or
with the error of `List` ignored, an undo that always deletes, a swap that keeps
vanished records, an early return that keeps the lock, an admin handler that forgets
`mutationMu`, a deactivation that unmatches nothing, an activation that drops the other
versions, a delete without the look at the references, providers tried before models,
usage entries with fresh ids, a record that forgets a file it could not delete, a file
deleted whatever the status, a status that is not merged, an enrichment of one map of
two, a list stored and not applied, a swap that keeps the sorted slices, an empty
inventory published, a login that does not wait for a refresh, a rotated token used
though it was not stored, the file read before the table.

## 4 What is proved

With TLAPS, for every value of the constants that the modules' assumptions allow
(`BreakerAssumption`, `ClientAssumption`, `LoggerAssumption`, `RefresherAssumption`,
`OverrideAssumption`, `BatchAssumption`, `RegistryAssumption`, `OAuthAssumption`, `ValueAssumption`,
`GuardrailAssumption`, `WorkflowAssumption`, `PolicyAssumption`: finite sets of requests and
entries, positive sizes, any natural success threshold, values told apart from the markers,
selectors made of strings and a sequence of strings).
Each is an invariance proof: an inductive invariant, one lemma per part of it, a
step per action, and a temporal step last.

- `LLMClientProofs`, invariant `IInv`. `PermitAccounted` and `SingleProbe` are not
  inductive: a step that records an outcome needs to know that the requests in
  `fresh` are probes that wait for nothing (`Slots`), that the permit is only
  missing in the half-open state (`Permit`), and that as long as no straggler has
  reported, the free permit and the running probe exclude each other (`Exclusive`).
  `EarnedTransitions` needs `Streaks`: the breaker's own counters agree with the
  streaks in the states that use them. `InFlightMatches` rests on the cardinality
  of the set of busy slots. Theorems `TypeCorrect`, `HooksBalanced`, `PermitSafe`,
  `ProbesExclusive`, `ThresholdsRespected`.
- `AsyncLoggerProofs`, invariant `LInv`: an entry is in one place (`Places`), and how
  far `Close` has come bounds where `Write` and `flushLoop` can be (`Phases`): the
  heart is that once `close(done)` has happened no call is between its second look
  at `closed` and its send. Theorems `LoggerTypeCorrect`, `DrainSeesEverything`, and
  `LoggerImplementsDurableLog`, the refinement: every step maps to a `DurableLog`
  step or a stutter.
- `AuthKeyServiceProofs`, invariant `KInv`: a copy a task holds is the stored row
  unless a later write outdated it (`Copies`), and every row known anywhere is
  stored (`Stored`). Theorems `KeyTypesCorrect`, `SnapshotLagAccounted`,
  `SnapshotGrounded`.
- `OverrideServiceProofs`, invariant `OInv`: the lock excludes the tasks of one
  instance from each other (part of `TypeOK`), so the record an operation read first
  is still the one it serves (`PreviousCurrent`), a list is current on the records
  the instance wrote last (`ListCurrent`), and what a write found is what its undo
  restores (`BeforeIsPrevious`). Theorems `OverrideTypesCorrect`,
  `ReportedIsServed`, `UndoRestores`.
- `BatchOrchestratorProofs`, invariant `BInv`. The heart is `CopiesGood`: whatever copy
  of the record a handler holds, and whatever is stored, is *good*, and goodness is
  stable under everything the provider and other handlers do: a status is not ahead
  of the provider's, each item said to be logged has a row, is in the queue or was lost
  (`Accounted`), a file forgotten is deleted. So it does not matter which copy is written last. `OwnIDs`, `Stages`,
  `Unexcused` and `Deciding` tie the stages of `Create` to the files, hints and batch at the
  provider. Theorems `BatchTypeOK`, `UsageOnce`, `NoOrphans`, `InputKept`,
  `AnswersFresh`.
- `ModelRegistryProofs`, invariant `RInv`: `refreshCh` has one holder (`LockHeld`), a
  list read for an inventory is the one in force unless the start-up goroutine set
  one (`ListRead`), a fetched inventory has models (`FetchedServes`), and the bare names
  an `Initialize` is about to publish are those of its inventory (`TaskNames`). Theorems
  `RegistryTypeOK`, `BareNames`, `MetadataInStep`, `ListingNeverStale`, and the action
  property `ModelsStay`.
- `OAuthManagerProofs`. `OInv`: one handler per instance is inside the manager
  (`Mutex`), so nobody of the same instance writes between its read and its write.
  `OSteady` adds what holds whatever fails: tokens are numbered as they are issued
  (`Counted`), no handler runs at an instance that is down (`Quiet`), what a handler
  writes is no older than what it has read there (`Ordered`), and the token of a login
  that is being stored is known to nobody else (`Secret`), so no other instance can
  have the provider consume it. `OFull` adds what holds until something costs the
  session. `Newest`: among the tokens that are stored, or about to be by the request
  that rotated them, the largest is one the provider accepts. `SessionHeld` alone is
  not inductive, since the provider may consume any one token and a write may replace
  any one copy; the largest survives both, because a rotation issues a larger one and
  a write that is neither raced nor a revert never replaces a larger by a smaller one.
  A login does not count until it is stored: it may still fail, and that excuses
  nothing. `Remembered`: an instance that could not write its file knows no token but
  the environment's when it attaches the table. `Used`: a token an instance has
  consumed is behind the table, behind the file the instance has yet to attach, or
  behind the rotation it is about to store, so its next read cannot return it, after a
  restart either. TLC has checked each part on the instance of run `oauth`. Theorems
  `OAuthTypeOK`, `NoLostUpdate`, `SessionKept`, `NoReplay`.
- `PolicyControlProofs`, five invariants, each used by the next. `IInv`: an old
  definition of a guardrail could sit in the table, the snapshot, a snapshot that is
  being built, a candidate, or the pipelines of a refresh or of the service. Each has,
  for each guardrail, nothing or at least the acknowledged revision (`Fresh`,
  `Rebuilding`, `Candidate`), and what an admin is about to be told of is in place
  before it is told (`Publishing`). `OInv`: at most one active row per scope
  (`OneActive`), a refresh under way has listed each version a client was told of
  (`Listed`), and who edits the snapshot has written its row first (`Editing`).
  `RInv`, while nobody else writes: the table and the two snapshots agree on which
  guardrails exist, but for what the task at work is about to write or to publish
  (`Backed`, `Complete`), no such write leaves an active row without a guardrail
  (`Sound`), and the refresh of the start-up finds a global row and no two of one
  scope (`Loading`). Lemmas name the steps that touch each variable (`Frames`) and the
  lock each task holds (`LocksNext`); the locks and `mutationMu` are what makes the
  rest inductive. Theorems `AckedServed`, `OwnServed`, `Resolvable`.

  The last two are about requests. `UInv`: while requests are served the global scope
  has a workflow, and none of its versions is being deactivated (`Defaulted`); the maps
  lead to versions whose pipelines are held (`Mapped`); a pipeline that is held, built
  or about to be activated has a revision of every guardrail its version names, because
  a row compiles only if all of them can be built (`Guarded`); and a version a request
  matched is held as long as it is active, since a refresh under way has listed or
  compiled it and an activation replaces none that is active (`Kept`). `Shaped` is
  what is left of the types and the locks. The lookup is by position, so that it can be
  reasoned about: `MatchedFirst` finds a first candidate in the order of positions,
  which is well-founded, `CandidateCovers` and `CoveringTried` say that the candidates
  are the scopes that cover the request, more specific ones earlier. Theorems `MatchIsMostSpecific` (for
  paths of any length and every set of scopes), `SpecificServed`,
  `GuardedUnlessRetired`, `TypeCorrect`.

Every invariant and every action property of the passing runs is a theorem, and so is the
refinement of `DurableLog`. Only model-checked: the liveness properties `Recovers`,
`AcceptedIsFlushed`, `CloseEnds`, `LockReleased` and the two `Converges` (liveness under
fairness is out of the prover's reach).

## 5 Findings

1. *A probe that cannot be built keeps the permit* (`llmclient/client.go:372`, and
   436, 515). `acquire` has cleared `halfOpenAllowed`; the path out of a build error
   skips the breaker on purpose (`client.go:742-744`), and nothing else gives the
   permit back unless an older request reports: from then on a half-open breaker
   refuses every request. `IdleHalfOpenCanProbe`.
2. *A straggler hands out a second permit* (`llmclient/circuit_breaker.go:85`). A
   request admitted before the trip that succeeds in the half-open state frees the
   permit of the running probe, against `circuit_breaker.go:60` and
   `client_test.go:1012-1013`. `OneRequestInHalfOpen`. `SingleProbe` states what
   holds: without stragglers there is one probe.
3. *A created key vanishes* (`authkeys/service.go:99`). A refresh that listed before
   the insert swaps its list in after `Create` returned; the key is unknown until
   the next refresh, against `service.go:199-200` and `service_test.go:217`.
   `IssuedKeysStay`. `LagAccounted` and `Converges` state what holds, and the
   overrides, which hold `refreshMu` across the list and the swap, do not have this
   problem (`OwnWritesServed`).
4. *A restart gives up a rotated session* (`providers/oauthproxy/manager.go:130`). Once a
   table is attached, credentials are written to it alone (`manager.go:257-262`) and
   the token file keeps what it had; at the next start `UseStore` copies the file,
   merged with the environment, over the table (`app/app.go:384`). A login or a
   rotated token is replaced by an older one, which the provider may no longer
   accept, against `README.md:127-133` ("one proxy session can serve multiple
   machines without repeated logins") and `manager.go:43-45`. `SessionSurvivesRestart`;
   `SessionHeld` states what holds when no start reverts a token.

## 6 What is not modelled

- Provider adapters, `core`, `streaming`, `server` translation, `modeldata`, helpers:
  transformations of one request's data by one goroutine; large, and better tested
  by example.
- `gateway` execution and fallback: a sequential pipeline whose concurrency is that
  of the services it calls.
- Storage and cache connections, configuration, process entry points, dashboard,
  packaging: I/O and static assets.
- Readers, pricing, recalculation and extraction of `usage` and `auditlog`: queries.
- `aliases`: the unlocked list and swap that `auth_keys` checks, without the patches.
- `budget`: a query over the usage table and calendar arithmetic.
- `responsestore`: one map under one mutex, nothing interleaves.
- The components of section 7, which are planned.

## 7 Plan

1. **Response cache**: the write queue and its close, as a second refinement of
   `DurableLog`: several workers, `enqueueWrite` under a read lock, jobs drained by the
   close; then the asynchronous inserts of the semantic cache.
2. **Application lifecycle**: `Start` against `Shutdown`, and the order in which
   components close, over abstract components.
