# A TLA+ model of quantsaas

quantsaas is a server (Go, PostgreSQL) for quantitative research and live
trading, with an agent on the user's machine that places orders. This directory
holds TLA+ modules for the parts of it whose correctness depends on what happens
at the same time, the TLC configurations that check them on small instances, and
theorems checked by TLAPS. The source is the reference; `PROJECT.json` maps every
definition to the lines it stands for.

## The system

| Component | Source | State it keeps | Operations |
|---|---|---|---|
| Compute-task service | `internal/saas/computetask` | tables `compute_tasks`, `compute_task_items`, `compute_cache_entries`, `compute_task_dependencies`; in memory the cancel registry, semaphore, `started`, `stopping` | Create, CreateComposite, StartTask, Cancel, Retry; scheduler, claims, cache reservation, heartbeat, completion, error path; Start with recovery, Shutdown |
| Compute lifecycle | `internal/compute` | none | status derivation, counters, plan building, hashing, layered keys |
| Instance manager | `internal/saas/instance` | instances, runtime state, portfolios, lots, pending executions | Tick, Start, Stop, Delete, MarkError |
| Agent hub | `internal/saas/ws` | map user → connection; executions, trades, portfolios | connect, reconnect, SendToAgent, processDeltaReport, CloseAll |
| Agent | `internal/agent`, `cmd/agent`, `internal/protocol` | one connection, orders on the exchange | connect with back-off, executeCommand, report |
| Cron scheduler | `internal/saas/cron` | none | a tick per running instance each minute, market data every six hours |
| Backup tool and scripts | `cmd/backup-tool`, `scripts/backup` | a full dump, incremental archives, the marker of the last one | full and incremental backup, verification and restore, audit and purge of gene observations |
| Backtest results | `internal/saas/backtestresult`, `internal/saas/backtest` | `backtest_specs`, `backtest_results` with summary and path blocks, `backtest_runs` | Reserve, MarkRunning, Complete, Fail, Cancel, Invalidate, Archive, VerifyResult, DeletePathDetail; Create, EnsureStandardResult, EnsureNoCashFlowResult |
| Epoch service, trace buffer | `internal/saas/epoch` | `evolution_tasks`; in memory the current task and cancel functions; a ring of trace events | CreateAndRunTask, CancelTask, runEpoch, runContinuousEpochs, recoverInterruptedTasks |
| Genetic search | `internal/saas/ga` | population of an epoch, `gene_observations`, `gene_records` | RunEpoch, ReserveCandidates, SaveChallenger |
| Parameter library | `internal/saas/api/handler_evolution.go`, `parameterresearch/analysis_candidate.go` | roles of `gene_records`, the cached champion | Promote, PromoteCandidate, DeleteGenome, GetChampion, ListTasks |
| Research runs | `internal/saas/parameterresearch` | `research_runs`, `research_stages`, `research_points` | StartRun, StartStage, PauseRun, ResumeRun, GetRun with its synchronisation |
| Other research services | `internal/saas/{controlresearch,geometry,klineinverse,…}` | immutable results | compute-task executors and result validation |
| Numerical code | `internal/quant`, `internal/strategies`, `internal/backtestcore`, … | floating-point computations | – |
| Market data | `internal/saas/marketdata`, `internal/marketversion` | `k_lines`, `dataset_metadata`; recomposition plans, `market_series`, versions with their rows, generations | Import, UpdateLatest, RepairMaintenance; preview, CreateRecompositionGeneration with its stages expand, audit and publish, archiving |
| Perturbation tests | `internal/saas/perturbation` | `perturbation_test_batches`, `perturbation_test_runs`, `perturbation_analysis_snapshots` | PlanBatch, StartBatch, GetTest with syncTest, RunExecutor, createAnalysisSnapshot |
| Emergency signal | `cmd/emergency-signal`, `internal/saas/emergency` | snapshots | publish, read |
| API, store, auth, config, frontend, deployment | `internal/saas/{api,store,auth,config}`, `web-frontend`, `deploy`, `scripts` | – | – |

How they interact. API handlers and research services create compute tasks and
pass user requests on; the compute-task service calls research services back as
*executors* and as validators of cached results. Research runs read what their
compute tasks have become. The cron scheduler calls `Manager.Tick` in a goroutine
per instance; the tick commits pending executions and sends commands through the
hub; agents answer with reports that the hub books. An evolution task runs the
genetic search in a goroutine and saves gene records, which the parameter library
promotes. The cron scheduler also updates market data every six hours. Recompositions
and tests on perturbed prices run as compute tasks: a version is published by the last of
three stages, and a test asks what its tasks have become whenever somebody looks at
it. The backup scripts read the database while all of this goes on.
`cmd/saas/main.go` stops, in this order, the cron scheduler, the compute-task
service, the hub's connections and the HTTP server.

What is hard, per component, and what would make it right:

* **Compute-task service.** Leases lapse under running workers; four kinds of
  goroutines and any number of requests read first and write later without
  locking what they read; the process crashes at any point; one cache key is
  needed by several items. Right means: a task that says *completed* has a valid
  result for each item; a result once given is never taken back; one computation
  per key at a time; a result is stored together with its cache entry, handed
  out only after validation; dependent stages wait; a shutdown is no
  cancellation; cancelled executions are told; owed work gets done.
* **Live trading** (manager, hub, agent). A tick overlaps with the next one, with
  the user's requests and with reports; connections break and are replaced while
  orders are under way. Right means: an order is placed once and booked at most
  once, only fills are booked, what was booked stays in the holdings, and a
  connected agent can be reached.
* **Backups.** An export reads table by table while transactions commit. Right
  means: an archive can be imported, and all archives together give the database
  back as it was settled before them.
* **Backtest results.** Two clients ask for the same backtest; one computes, the
  other waits, adopts or fails. Right means: one computation per key, immutable
  results, runs that agree with them.
* **Evolution and genetic search.** One task at a time; an end is final; the best
  of a cancelled task is kept; no candidate is evaluated twice.
* **Parameter library.** One champion per research scope.
* **Market data.** Imports, updates and repairs of one dataset overlap and may stop
  between deleting and storing. Right means: a label tells the truth about the bars
  under it, and the updates bring the dataset up to date whatever happened.
* **Recomposition.** Requests race for a series, its next number and a key; executions
  whose lease has lapsed go on. Right means: each request ends with its generation,
  an audited version never changes, and what is published is what was audited.
* **Perturbation tests.** Batches share runs, fail, are cancelled and tried again while
  others count them. Right means: *completed* and *complete* are said of tests that are.
* **Research runs.** Stages share out the Sobol sequence whoever appends them;
  a completed stage has its points.

`PROJECT.json` lists the hazards at their lines, those without a property too.

## Plan

| Step | Module | Status |
|---|---|---|
| 1 | `Lifecycle`, `LifecycleCounts`: status algebra | done |
| 2 | `ComputeTask`, `ResultLedger`, `ComputeTaskProofs` | done |
| 3 | `Trading` with `TradingProofs`: tick, hub and agent | done |
| 4 | `BackupTables`, `Backup` with `BackupProofs`: export, restore, purge | done |
| 5 | `Backtests`, `Evolution`, `GeneSearch`, `Champions`, `ResearchRuns` with `BacktestsProofs`, `EvolutionProofs`, `ResearchProofs` | done |
| 6 | `MarketData`, `Recomposition`, `PerturbationTests` with `MarketProofs` | done |
| 7 | every safety property of the runs stated as a theorem, except `ImportAccepted` of `Backup` and `CompleteMeansComplete` of `PerturbationTests` | done |
| – | these two as theorems | open |
| – | emergency snapshots, stage-dependency validation of `compute/composite.go` | open |

## Modules

### Lifecycle and LifecycleCounts

`Lifecycle` holds `DeriveTaskStatus`, `DeriveCompositeStatus` and `CanRetry` of
`internal/compute/lifecycle.go`. The code decides on counters of items per
status; `Lifecycle` decides on the *set* of statuses that occur. This is what
keeps `ComputeTask` small, and `LifecycleCounts` justifies it: it has the
counting functions line by line, TLC compares both forms on every histogram of
four items and three stages, and the theorems `CountedTaskStatusIsDerived` and
`CountedCompositeStatusIsDerived` prove them equal for all numbers of items and
stages.

### ComputeTask

State and its counterpart in the code:

| Variable | Code |
|---|---|
| `task[r]` | row of `compute_tasks`: `status` (or `absent`), `started_at` set, `cancel_requested_at` set |
| `item[i]` | row of `compute_task_items`: `status`, `lease_owner`, `live` (the lease has not expired), `result` (number of the result copied into it, 0 for none) |
| `cache[c]` | the entry of `compute_cache_entries` that holds `c` as its unique `active_key`: status, lease, `source_task_item_id`, `good` (it would pass `validCompletedCache`), `version` (how many results were ever stored under the key) |
| `sound[t]` | whether `runtimeExecutor`, the input hash check and `validateStoredTask` accept the task |
| `proc` | process `down`, `starting` (in Start, recovering), `up`, `stopping` (in Shutdown), `stopped` (Shutdown has returned) |
| `run[k]` | one goroutine of `executeClaim`: where it is, its item, whether its context is cancelled, the error it returned and the verdict on it |
| `reg[i]` | the cancel registry, keyed by item |
| `call[c]` | a request (or the scheduler in `resolveBlockedDependencies`) between its reads and its writes, with what it has read |
| `todo`, `snap` | the refreshes a thread still owes, and what the one in progress has read and derived |
| `left` | remaining budgets of the environment's hazards |

One action stands for one transaction, or for one decision made on rows read
outside a transaction; where the code reads, goes away and writes, there are two
actions and anything may happen in between:

* `Claim`, `ClaimInvalid`: `claimNext` and the goroutine started for the claim.
* `Register`, `Reserve*`, `Release*`, `ExecuteReturns`, `Complete*`,
  `FinishRead`, `FinishWrite`, `FinishFails`: the body of `executeClaim`.
  `Heartbeat*` and `ReportProgress` run beside it.
* `RefreshBegins`, `RefreshRead`, `RefreshWrite`, `RefreshFails`: the refresh
  transactions every path ends in, statement by statement: the SELECT of the row
  with its flags, the SELECT of its items or stages, the UPDATE. Under READ
  COMMITTED each statement sees what others committed before it, and none locks
  what the next one uses. Leaf rows are refreshed before their composite.
* `CreateLooks`/`CreateWrites`, `StartDecides`/`StartWrites`/`AdoptWrites`,
  `CancelDecides`/`CancelWrites`/`CancelSignals`, `RetryDecides`/`RetryWrites`,
  `InvalidateWrites`, `RequestFails`: the API calls.
* `ResolveLooks`/`ResolveWrites`: `resolveBlockedDependencies`, which lists all
  blocked tasks and then gives each of them up in a transaction of its own,
  followed by its refreshes.
* `Recover`, `RecoverCancelled`, `RecoverInvalid`, `Start`: `Start` of the
  service. `recoverExpired` settles items, entries and tasks in one transaction
  and then refreshes the cancelled tasks one by one; `validateRecoverableTasks`
  invalidates what matches no executor. The process may crash, and a refresh may
  fail and end it, between any two of these steps; the next start begins anew.
* `Shutdown`, `ShutdownEnds`, `Exit`, `Crash`: the end of the process.
* `ItemLeaseLapses`, `EntryLeaseLapses`, `EntryRots`, `TaskCorrupted`: time and
  the outside world.

Abstractions, and why they are faithful:

* A lease is a Boolean. Every query treats an expired, an absent and a cleared
  lease alike, and the only thing time does is let a lease expire. A lease that
  some live execution renews lapses only on the budget `stall`; any other lapses
  freely.
* A cache key has at most one entry with the unique `active_key`; entries that
  gave it up are never read again except as history, so the key's row is reset
  to `none`.
* The three statements of a heartbeat tick are one step. Since a lease may lapse
  at any time and the item and the entry are renewed by separate statements, the
  states between them are also reached by a tick and a lapse. Heartbeats during
  the error path only prolong leases that are about to be given up and are left
  out.
* The SELECTs on which a request decides are read at one moment; what matters is
  that its writing half comes later, on what they returned.
* `SKIP LOCKED` may pass over any row, so a claim takes any claimable item.
* The four attempts of `reserveCache` are as many `ReserveDropped` steps as it
  takes; the bound is not modelled.
* `computeTasks.Shutdown` runs before the HTTP server is stopped, so requests may
  still be served while `proc` is `stopped`; `Cancel` and `Create` do not look at
  the service's state, `StartTask` and `Retry` do. `Shutdown` gives up after its
  deadline, so `Exit` may come while executions still run.
* `Create` with a parent id has no caller in the repository and is left out:
  stages are created with their composite.

### ResultLedger

What the service promises about results, and nothing else: a key's result is
*committed* only while the key has no usable one; an item receives at most one
result, either the one it commits or one that was found usable; a result spoils
only through the outside world. `LedgerSpec` in `ComputeTask` is `ResultLedger`
under a refinement mapping that forgets workers, leases, requests and
processes. `quoted` stands for results `Create` has looked up and not yet handed
out: such a result may have spoiled when the task is written, and the ledger
says so.

### Trading

The rows of one user's instances (`status`, `portfolio`, `macro`, `execution`,
`trades`), the goroutines of ticks with what they have read (`tick`), the hub's
map (`registered`), its handlers (`serving`, `handler`), the agent (`agent`,
`orders`, `outbox`) and which connections still carry messages (`up`). The
actions follow `Tick` statement by statement: it reads the instance, the bar, the
portfolio and the runtime state, commits state and pending executions in one
transaction, sends the commands one by one, each of which may fail, writes the
processed bar and perhaps transfers lots; an error on the way ends in
`MarkError`. Reports are read and written by two actions of a connection's
handler, so that ticks, other reports and user requests come in between.
`History` variables count what the exchange filled (`placed`) and what was booked
(`booked`); `excused` and `moved` note the instances to which a fault or a
transfer applies that the code does not survive (below).

Abstractions: which orders a bar leads to is free (`Intents`; the strategy is
arithmetic), except that the monthly order comes once a month, which its runtime
state decides; holdings are the set of fills booked into them; time is the open
time of the newest bar; the exchange is external, fills an order or refuses it,
and may lose the answer.

`TradingProofs` proves the type invariant, the three safety properties that the
run `desk` checks, and that nothing is booked that was not filled.

### BackupTables and Backup

`BackupTables` is the table of facts of the tool, as it is written in the code:
which tables an incremental archive has, in which order the export queries them,
by which time stamp each is selected, which families are read whole, which
references are followed, and in which order the import writes them. `Backup` runs
an export query by query against a database in which transactions of the
application stamp rows, commit later and are seen only then; it models the
scripts with their marker, the loss of the machine, and the restore of the dump
and the archives with the checks of the import (every reference resolves), the
audit and the purge of gene observations. The queries of an export are numbered:
first each table by its time stamp, then the references, family by family. A query
that cannot find a row of the scene is no step: `Following` gives the next position
that can. `BackupProofs` proves `RestoreComplete` and `PurgeOnlyAudited`.

`MCBackup` chooses *scenes*: eight to ten rows of related tables, two or three
transactions of kinds the application has, and one or two archives. Scenes keep
the instance small: the tables of one scene are those that reference each other.

### Backtests

Rows of results (with their blocks), runs, and calls that go through `Reserve`,
`MarkRunning`, the computation, `Complete`, `VerifyResult` and the update of the
linked runs, each statement a step, with maintenance (Archive, Invalidate,
DeleteFailed, DeletePathDetail), damaged rows, crashes and failing statements in
between. A content is *good*, *rotten* or absent: hashes are only compared. The
computation is an engine that returns, fails or is cancelled. `BacktestsProofs`
proves the four safety properties.

### Evolution and GeneSearch

`Evolution` is the epoch service: rows, `currentTask` and `cancelFuncs` under the
mutex, the goroutine of the task (`job`), requests (`reqs`), the server that dies
and starts again (`mishap` counts what went wrong). A parameter pack is named by
the iteration that found it. `EvolutionProofs` proves the four safety properties.
`GeneSearch` is the search that such a goroutine runs, generation by generation,
for one search configuration over several tasks: the candidates known to it, the
population with fitness, the tracked best with `EarlyStopMinDelta`, patience and
mutation ramps, and the record that is saved. A gene is its fingerprint with a
fixed score; which genes are proposed is free, as long as they are new.
`ResearchProofs` proves that no candidate is evaluated twice, that the fittest is
the one saved and that reports of progress are not far behind it.

### Champions

The roles of gene records under the two promotion paths and deletion.
Transactions are READ COMMITTED: an UPDATE takes the rows it finds when it
begins, waits for those another transaction has changed, and looks again. The
cache holds one champion per strategy; `answer` is what GetChampion returned.
`ResearchProofs` holds the theorems about this module and the next, too.

### ResearchRuns

A run, its stages, the compute tasks of the stages as far as a run can see them
(external; they are `ComputeTask`), the evaluated points, and requests, each of
which first synchronises the stages, one task after the other, and then does what
was asked: plan, create a task, commit the stage, start the task; pause; resume.
A point is an index of the Sobol sequence.

### MarketData

The bars of one instrument (`kline`), the rows of `dataset_metadata` (`label`) and
the imports, updates and repairs in progress (`update`), statement by statement: the
bounds are read, the source is asked, perhaps the dataset is deleted, the bars are
stored (Binance page by page), the old label is read and the new one written. Time
is counted in days; a bar is the set of finished days it contains, so that a bar
stored before its day was over is seen to be unfinished, together with the *basis*
of its prices: current, or from before datasets had labels. Weeks come from the source, from Yahoo's
days or, in a repair, from stored days. What a source answers follows from the days
that are over: Yahoo's rows of unfinished periods are dropped, Binance's are not. Queries whose error the
code drops answer *nothing* on the budget `fault`.

### Recomposition

A plan is named by the content of the source it was made from; `content` counts how
often imports have changed it. `generation` holds a generation with its version
(one transaction creates both): key, plan, series, number, the rows written so far
(`rows` counts how often expand has written them), the audit's verdict and the rows
that were published (`klines`). `request` is a preview or a reservation between its
statements, `execution` a stage under way: what it has read of generation and version
and whether its lease still holds (`owner`). Of `ComputeTask` there is what it
promises: stages in order, one owner per stage, a stored result is handed out. The row of a series is
locked from reading to writing (`Locked`), a lost race is a violated unique index.

### PerturbationTests

One test with one subject, so that runs are named by their dataset: the source or a
variant. `batch`, `testRun` and `snapshot` are rows, `workItem` is the item of a run in the
batch's compute task, `exec` its execution, `visit` a StartBatch or GetTest between
its statements. The task's status is derived from the items by `Lifecycle`; `testRun`
and `workItem` are separate because the code ends them separately.

### Hosts of independent parts

Three configurations check several modules that share nothing: `MCDesk` (Trading,
GeneSearch, Champions, ResearchRuns), `MCServices` (LifecycleCounts, Backtests,
Evolution, MarketData) and `MCStore` (Backup with the scenes of `MCBackup`,
Recomposition, PerturbationTests). The variable `part` says which of them a behaviour is
about; the others keep their initial state, so the state space is the sum of the
parts, not their product, and every property is about one part only. The hosts
EXTEND their modules, so that TLC evaluates the assumptions of the proofs too; the
constants are given in the configurations. Init, Next and the type invariants carry
the name of their part (`SearchInit`, `RolesNext`, …).

## Runs

The `MC*.cfg` of the compute tasks instantiate `MCComputeTask`, which holds the
shapes (which item belongs to which task and key, which task to which composite)
and the budgets `Limits`: how many crashes or shutdowns, lapses of an attended
lease (`stall`), failing statements, results going bad, corrupted tasks and user
requests a behaviour may contain. The other modules have such budgets too
(`Faults`, `Bounds` of `Evolution`, `RunLimits` of `ResearchRuns`): a set of
records, of which a behaviour must stay within one. Every counter of the models is
bounded through them. Lease owners and callers are symmetric and used as symmetry sets where only safety is checked; so
are, in `lease`, the two tasks together with their items, which no table tells
apart (`SharedSymmetry`).
Deadlock is not an error in these runs: once all work is done and the budgets
are spent, nothing is left to happen.

| Run | Instance | Shows |
|---|---|---|
| `lease` | 2 tasks sharing a key, 2 workers, 3 lease owners; 1 crash or shutdown with 1 stall and 1 corruption, or 1 failing statement with 1 request, or 1 failing statement with 1 crash and the recovery | `SingleFlight`, `CancelledOnRequest`, `ResultKept`, `LedgerSpec` |
| `stages` | a composite of 2 dependent stages, 1 crash, 3 requests | `StageOrder` |
| `create` | a task and a one-stage composite sharing a key, created by 2 callers with 4 requests, 1 spoiled result, 1 corruption | `TypeOK`, `CompletedMeansAllValid` |
| `cancel_live` | 1 item, 2 lease owners, 1 crash, 1 stall, 1 request | `CancelReaches` |
| `work_live` | 2 tasks sharing a key, 3 lease owners, 1 crash | `WorkGetsDone` |
| `desk` | 1 instance, 2 ticks, 2 connections, 2 bars, one fault of each kind; 7 genes with ties and small gains, populations of 2, 2 epochs, 1 crash or fault; 3 records in 2 scopes, 2 clients, 4 requests; 3 stages, 2 clients, 2 requests or 1 request and a result gone bad | trading: `BookedOnce`, `PlacedOnce`, `HoldingsComplete`; search: `EvaluatedOnce`, `BestIsSaved`; library: `OneChampionInTurn`, `ChampionIsReplaced`; research: `SobolContiguous`, `CheckpointHasPoints` |
| `services` | counters of 4 items and 3 stages; 2 clients with one backtest key, 3 rows, 1 fault of one kind; 2 evolution tasks of any mode, 1 other request at a time, 1 crash and 1 failing statement; 3 days in weeks of 2, the scheduler's update and 1 request of a user, 1 crash or 1 fault | counters: `TaskStatusAgrees`, `CompositeStatusAgrees`; backtests: `SingleExecution`, `AuditPasses`, `RunsAgree`, `StoredIsImmutable`, `CallsReturn`; evolution: `OneKnownRun`, `RunningHasRun`, `CancelledKeepsBest`, `EndIsFinal`, `CancelEnds`; bars: `LabelHonest`, `CatchesUp` |
| `store` | the scenes of `MCBackup`; 2 requests for versions of 1 series with 2 keys and 1 crash, 1 changed source or 1 archiving, or 1 request with 2 lapsed leases and a retry; 2 batches on a source and 1 variant with a failure and a retry or a refused task, or 1 batch with a cancellation and a retry or restart, or with a variant that goes bad | archives: `ImportAccepted`, `RestoreComplete`, `PurgeOnlyAudited`; versions: `TriesSuffice`, `PublishedAsAudited`, `AuditedIsFrozen`; tests: `CompleteMeansComplete`, `SyncTellsTruth` |

The bounds are small and chosen so that each hazard can meet each other: two
items of one key are the least that can compete for it, a third lease owner is
needed for an item to be claimed again while a first, lost execution and the
other item's execution are both alive; one crash is enough because recovery
leaves a state a fresh process could be in; three requests allow start, cancel
and retry to overlap. Two ticks and two connections are the least that overlap,
and two bars the least of which the second can come while the first is worked on.
Two clients are the least that compete for a backtest, a scope or a stage; three
rows of results allow a computation, its replacement and a derived one. Two
evolution tasks are the least for a listing to hit the wrong one. Three finished days
in weeks of two have a whole week and a begun one, and a page of two bars makes an
import of Binance take a second page; Binance starts without bars, to keep the
instance small. Two
requests are the least that race for a series; two lapses let two old executions go
on beside their successor (the second worker is used for those only). One variant
gives batches that share the source and differ. The genes are
chosen so that gains below, at and above the threshold and ties occur.

Each property has its place in the run where it can most easily go wrong. TLC has
checked them on the other instances, too, and five more that the theorems settle and
no run keeps: `CountsAddUp`, `BookedWasFilled`, `ReportIsClose`, `OneAttempt` and
`RunBehindItem`.

Four runs end in a violation, each of something a comment, a document or a test
of the repository says:

| Run | Property | What happens |
|---|---|---|
| `cancel_erased` | `CancelledIsShown` | StartTask decides, Cancel cancels all pending items, StartTask's update by id clears the cancellation: queued, with nothing to run. |
| `refresh_race` | `TaskSettles` | Two workers finish together; the refresh that read first writes last; the task stays running with every item completed. |
| `backup_window` | `NothingLost` | A row that changes after its table was exported and before the marker is written is in neither this archive nor the next. |
| `reconnect` | `Reachable` | The agent reconnects before the handler of its old connection has noticed; the old handler's deferred delete removes the new connection. |

### Further counterexamples

Statements the modules define, TLC refutes, and no run keeps (adding one to the
configuration of its module shows the behaviour):

* `ShutdownReturnsItems` (`ComputeTask`; comment at runner.go:57): an execution
  waiting for another one's entry is released with its own, already cancelled
  context; the update fails, the error is logged, and the item stays running when
  Shutdown returns.
* `CompositeFollowsStages` (`ComputeTask`): a composite over a full cache is
  created completed while its stage waits, planned, for confirmation. In
  `ResearchRuns` the same makes a run show *completed* before there are points,
  which is why `CheckpointHasPoints` looks at `completed_at`.
* `OneChampion` (`Champions`; docs/進化計算引擎.md:229): two promotions of one
  scope overlap; each retires what it sees and raises its own, and the scope has
  two champions. `OneChampionInTurn` says that this is the only way.
* `OwnScope` (`Champions`; docs/研究功能後續開發指導.md:76): the champion of one
  scope is cached under the strategy's key and answers the request for another.
* In `Evolution`, a listing that saw no current task and sweeps after a task was
  created fails the new task's row while it runs; the row shows the run's own end
  later. `EndIsFinal` allows this and nothing else.
* In `ResearchRuns`, a request that began to synchronise before PauseRun writes
  *running* over *paused*; and PauseRun cancels only the newest stage's task.
* In `Backtests`, a reservation whose owner died or whose settling statement
  failed is never freed; later calls for its key wait for their own deadline.
* In `Trading`, fills booked while the same tick transfers lots are lost from the
  holdings (`moved`), and a tick cut short by a crash or an error places the
  orders of its bar again (`excused`). A report lost with its connection is never
  sent again, so a filled order may stay pending.

* `FreshIsFinal` (`MarketData`): Binance's bar of today is stored unfinished; the next
  day's update starts after its opening time and the bar stays as it was.
* `WeeksHonest` and `WeeksWhole` (`MarketData`): a repair that cannot import the days
  puts weeks together from old ones and labels them current and complete; an update
  of Yahoo's weeks that starts in the middle of one stores what it was given of it.
* `TaskFits` (`Recomposition`): two requests with one idempotency key and different
  plans; the one that loses the race is given the other's generation after the
  conflict, without the comparison of plans made before it, and links a task of its
  own plan to it. That task fails (`ReadGeneration`), and the generation stays linked to it.
* `PreviewIsOfSource` (`Recomposition`): the fingerprint is compared and then the rows
  are read; a plan may be made of rows imported in between, under the old name.
* `ArchivedOffersNone` (`Recomposition`): publish looks at the series before its
  transaction; a version is published in a series archived meanwhile.
* `CompletedBatchHasResults` (`PerturbationTests`): a second StartBatch of one manifest
  finds the batch, has no new runs, and marks it completed while the first has not
  created its task yet. `SyncTellsTruth` is about the other way to be completed.
* `RunsStayReadable` (`PerturbationTests`): snapshot keys count statuses, set hashes
  name runs; two different sets with the same counts (a failed run and, after a retry, a
  cancelled one) collide, and GetTest answers with the error of the unique index
  until the counts change.
* `WholeMeansComplete` (`PerturbationTests`): a dataset in two manifests is planned
  twice, so a test whose every run is completed may never be called complete.

The documents disagree on one point: docs/進化計算引擎.md:133 lets a cancelled
task keep its current best as a challenger, docs/研究功能後續開發指導.md:189 forbids
it. The code keeps it, and so does `Evolution` (`CancelledKeepsBest`).

### Fairness

`FairSpec` assumes what the code's scheduling gives: the scheduler polls on a
ticker, so a claimable item is claimed eventually (`WF` on `Schedule`) and blocked
tasks are looked for; goroutines and requests that were started make progress;
heartbeats tick; a process that is down is started again (the container's restart
policy); a lease nobody renews expires. It does *not* assume that an executor
returns: `WorkSpec` adds that where work must get done, and `CancelReaches` holds
without it. No fairness is put on user requests, failures, crashes or progress
reports. `services` assumes that a call of the backtest store that has begun
makes progress (`WF` per call: it is a goroutine that waits for nothing but
statements, its own deadline and a polling ticker) and that the goroutine of an
evolution task does; not that tasks are created, cancelled or listed, and not
that a server that died comes back. For the bars it assumes that an update that has begun makes
progress and that the scheduler starts one again and again, as its cron entry does
every six hours; no fairness is put on users, on the passing of days or on faults.
A server that dies is, in this part, one step with its restart.

## Proofs

Every safety property of the passing runs is also a theorem, for every value of the
constants, except `ImportAccepted` of `Backup` and `CompleteMeansComplete` of
`PerturbationTests`. TLC found the inductive invariants
to hold on the instances of the runs before they were proved. What is assumed of
the constants is named in the modules and evaluated by TLC:

| Assumption | Module | Says |
|---|---|---|
| `StructureAssumption` | `ComputeTask` | items belong to tasks and have keys, tasks may have a parent and prerequisites, every task has an item, the items of one task have different keys |
| `IdentityAssumption`, `LimitsAssumption` | `ComputeTask` | tasks, composites, lease owners, callers and the scheduler are told apart; capacities and budgets are natural numbers |
| `SizeAssumption` | `LifecycleCounts` | a task has a number of items, a composite a number of stages |
| `SomeBar`, `MonthsCount` | `Trading` | the market data hold a bar and every bar has a month |
| `ScenesAssumption` | `Backup` | the transactions of a scene write rows of the scene |
| `RestoreOrderKeepsKeys` | `Backup` | the import writes the tables that are exported, each once, and referenced ones first: a fact of the tool's tables, which TLC evaluates |
| `IterationsAssumption` | `Evolution` | an evolution task has at least one iteration, which the service demands |
| `SearchAssumption` | `GeneSearch` | scores are comparable, there is an elite, the threshold is positive |
| `ResearchAssumption` | `ResearchRuns` | a batch has at least one point, and the Sobol sequence is long enough for one batch |
| `SeriesAssumption` | `Recomposition` | a reservation is tried at least twice (the code: three times) |
| `VariantsAssumption` | `PerturbationTests` | a test has finitely many variants |

None bounds how often hazards strike: crashes, failing statements, lapsed leases,
lost reports and corrupted rows are part of the theorems.

### Status algebra (`LifecycleCounts`)

`CountedTaskStatusIsDerived` and `CountedCompositeStatusIsDerived` are the two
agreement theorems (above). The counts are functions from statuses to naturals and
the total is their sum, which is what the `GROUP BY` of a refresh yields for the
items of one task. `TaskStatusesAgree`, `CompositeStatusesAgree` and `CountsDoAddUp`
state the same of every reachable histogram; the invariant `Balanced` says that the
counters and the total stay one histogram.

### Compute tasks (`ComputeTaskProofs`)

* `TypeCorrect`: `TypeOK` always holds. It is not inductive: the writing half of
  a request relies on what its deciding half has put into `call`, `FinishWrite`
  on the verdict `FinishRead` has left in `run`, a refresh on the row in `snap`.
  `TypeInv` adds that goroutines, requests and snapshots make sense (`GoodRun`,
  `GoodCall`, `GoodSnap`). The row lemmas say what one update makes of one row;
  one lemma per group of actions lifts them to the tables.
* `CompletedIsHonest`: a row that says completed has a valid result for every
  item it answers for. It is not inductive either, because a status is written
  on what was read before other actors stepped in. `Honest` adds that what was
  read is still good: a snapshot that would write *completed* (`SnapHonest`) and
  a start that would adopt a cached task (`AdoptHonest`) are about rows whose
  items are all valid now; a task that does not exist yet has no items that
  exist (`AbsentTogether`), so a creation cannot disturb a row that is counted
  already; and valid items carry no lease (`Unleased`), so that time cannot
  change them. Recovery settles, requeues and invalidates, but calls no leaf task
  completed: that is left to the refresh after it. Each action is shown to keep
  items, tasks, snapshots and calls in the sense of `ItemsKept`, `TasksKept`,
  `SnapsKept` and `CallsKept`, and `HonestNext` concludes. The heart of the
  argument is that a valid item stays valid, so an old view that saw all items
  valid is never wrong, while an old view that missed some may be written late
  and only understates (this is the stuck status of `refresh_race`).
* `ResultsAreKept`: the action property `ResultKept`, from the same invariant
  (`ItemsKept` is shown for every action on the way).
* `StagesInOrder`: an item of a stage is busy or done only if the prerequisites of
  the stage have all their results. Each action is shown to satisfy
  `ItemsStartInOrder`: an item that it makes busy has its prerequisites completed
  now. With `ItemsKept` they stay so, whatever is retried, invalidated or rots.
* `OneFlightPerKey`: one computation per key. The invariant `FlightsGuarded`
  says, until an attended lease lapses, that an execution at work (`Flying`)
  holds a lease on its key's entry that has not expired; an entry has one holder.
  `StillDown` says that a process that is not up has no executions, so that what
  recovery releases has no one at work. Each action either keeps the leases of an
  execution (`LeasesStay`) and starts none (`NoTakeoff`), or is the reservation
  that gets one.
* `CancelledOnlyOnRequest`: without requests, lapses under an execution and failing
  statements nothing is ever cancelled. `CancelFree` says why a shutdown, which
  cancels the same contexts as a cancellation, is told from one: an execution that
  still has its item is interrupted only while the process is stopping
  (`Excused`), and no row asks for a cancellation (`NoneCancelled`).
* `ImplementsLedger`: `ComputeTask` implements `ResultLedger`. `ResultFree` says
  that an item without a valid result carries none. Most actions are stutters of
  the ledger, shown by `QuietRefines` from four facts: versions and offered results
  of entries stay, results of items stay, quotes only shrink, and nothing rots. The
  others are mapped one by one: completing commits, adopting and creating hand out,
  looking up quotes, an entry that goes bad spoils.

### Trading (`TradingProofs`)

* `TradingTypeCorrect`: the typing of tables, ticks, reports and handlers.
* `FillsAreBookedOnce`: `BookingInv` says that an order was booked once if it has a
  trade record and never otherwise, that a handler about to book has found none, and
  that only one handler is about to book an order, since its transaction has updated
  the execution and holds that row's lock.
* `NothingBookedUnfilled`: `FilledInv` follows the answer of the exchange
  (`Vouched`) through outboxes and handlers.
* `HoldingsKeepEveryTrade`: `HoldInv`. While only one connection is used and no lots
  of the instance are transferred, there is one handler that writes holdings, and
  what it has read is not older than the row (`ReadsAll`); ticks and users write
  other columns.
* `OrdersArePlacedOnce`: `TurnInv` is the conjunction of what orders the ticks of an
  instance to which nothing happened that the code does not survive (`excused`):
  one tick at a time is past its reads (`Alone`), the bar it works on is not marked
  yet (`Unmarked`) and no handler is about to bring an older mark back (`NoNewer`);
  an order is under way or placed once (`SentOnce`), for a bar not newer than any
  tick's (`NotAhead`); the tick of its bar has no such command left (`NotAgain`),
  and the next tick will not ask for it, because of the mark, the month, or the tick
  that is about to mark (`NotDue`).

### Backups (`BackupProofs`)

The clock gives every write a stamp of its own, and a write becomes visible when
its transaction commits. `ArchivesRestoreTheDatabase` (`RestoreComplete`) rests on
`BackupInv`, which compares copies with the rows of now:

* `Faithful`: a dump, an export at work and an archive agree with the database about
  each row whose last write was visible when the export started, since every later
  write becomes visible later: a dump has it, an export or an archive has it or has
  no copy. Nothing is said of rows written since.
* `Marked`, `Selected`, `Covers`: after the dump an export goes back to the last
  marker. An archive after the dump therefore has each row settled at its start and
  written after the markers before it. `SelectsFirst` is the lemma on the program of
  queries: every table is selected by its time stamp before any reference is
  followed, and the positions of an export pass over none that can find a row of the
  scene (`Advances`).
* `BroughtBack`, `Restored`: the archives are imported in the order they were
  written, so a row that was brought back is not set back by a later one. A row that
  was settled before an archive and is in no window is in the first of those archives
  that started after its write.

`OnlyAuditedArePurged` (`PurgeOnlyAudited`) follows from the guard of the purge and
from the fact that nothing else deletes rows: a commit leaves every row present,
because the stamps of open transactions are never 0. `Typed`, which says so, is part
of `BackupInv`.

### Backtest results (`BacktestsProofs`)

`IInv` proves `OneExecutionPerKey`, `EveryRowPassesTheAudit`,
`RunsAgreeWithResults` and the action property `StoredStaysStored`. Its parts: what
the columns of a row say together (`RowOK`); active rows have different keys
(`KeysUnique`, the unique index); the call that inserted a row is the only one to
compute it and to change it while it is open (`Owns`, `Computes`); what a call saw
stored is still stored, though perhaps no longer completed (`Verifies`); a run's
link and status fit the row (`Links`, `RunOK`). `Moves` says what any step may do
to a row, `Acts` what a step of one call leaves alone, `SparedKeeps` that the
others keep what they know.

### Evolution and genetic search (`EvolutionProofs`, `ResearchProofs`)

* `OneRunIsKnown`, `RunningTasksRun`, `EndsAreFinal`: `IInv` says that a goroutine
  is known to `currentTask` and `cancelFuncs` until its last step (`RunKnown`),
  that it ends with a closing outcome, that a row that says running has a goroutine
  (`RunningIsRun`), and that a request which is going to write a row has one without
  goroutine that gets none (`CallKnown`).
* `BestOfCancelledIsKept`: `BestInv` follows the best pack through the row, the
  goroutine and the requests that may save it: a row marked as saved has its record
  (`RowKept`), and whoever is about to close a row as cancelled has saved what was
  worth it, or a statement has failed (`RunKept`, `CallKept`).
* `NeverEvaluatedTwice`: `OnceInv` says that what was evaluated is in `observed`, the genes still to be
  evaluated are reserved and not yet counted, and what an epoch has reserved covers
  what it proposes; the reservation is made before the evaluation, which is why a
  crash between them loses a candidate and repeats none.
* `FittestIsSaved`, `ReportsAreClose`: the tracked best is less than
  `EarlyStopMinDelta` below the highest fitness seen, and the elites always keep one
  of the genes of that fitness, so the final sort finds it (`Peak`, `FittestInv`).

### Parameter library and research runs (`ResearchProofs`)

* `PromotionsInTurn`, `RetiredIsReplaced`: `RolesInv`. What a transaction has retired
  or raised is locked and keeps its role (`Guarded`), two transactions lock nothing
  in common (`LocksApart`), and one that is alone in its scope has retired every
  champion but its own (`Sweeps`); hence at most one, if no two overlapped
  (`AtMostOne`).
* `StagesAreContiguous`, `CheckpointsHavePoints`: `ResearchInv` says that stages take
  up where the one before ended (`StageSound`), that a task's points are evaluated
  when it is completed and usable (`TaskSound`), that a checkpoint has a completed
  first stage (`FirstIsDone`), and that what a request has seen before its writes
  still holds (`SyncSound`, `PlanSound`; `Grows` says of each step that it takes
  nothing of it back). `SobolGoesOn` needs that a batch has a least end:
  `LeastExists`, by well-foundedness, as the naturals below a bound are finite.

### Market data, versions and tests (`MarketProofs`)

* `LabelIsHonest`: `LabelInv`. An import of days stores current bars only, so old
  bars that are gone are gone for good (`NoLegacy` is stable). An update whose bounds
  say that it covers the dataset has deleted it before it stores, and from then on
  until it writes the label there are current bars only (`UpdateSound`), whatever
  other imports store meanwhile; an import that covers less either finds the label
  already current, and then `NoLegacy` holds, or says *legacy* or nothing.
* `TriesAreEnough`: `ReservationInv`. A reservation that finds its series holds the
  row's lock until it has written, so nobody takes its number (`NumberFree`) and it
  loses only to its own key, which it finds afterwards. One that does not find the series
  loses it at its first try at most (`Lost`), since series are never deleted; hence
  the second try succeeds and the third of the code is never needed.
* `AttemptsAreUnique`: a task is created only where there is none for the same
  generation and plan.
* `PublicationsAreAudited`, `AuditedRowsAreFrozen`: `PublishInv`. Rows are written
  only while a version is not audited, whichever execution writes them; an execution
  that is going to publish has seen the version audited (`PublishSound`), and from
  the audit on its rows are those it has read.
* `CompletedItemsHaveRuns`: a saved execution has its completed run, no action takes
  a completed run whose item is completed, and `EndItem` completes saved ones only.
* `SyncsTellTruth`: `TestsInv`. A run belongs to one batch for good and keeps its
  result (`TestsGrow`). The hits of a batch are datasets of its manifest that had a
  result when the batch was planned, in runs of other batches (`FromOthers`); the runs
  counted by a synchronisation are the batch's own with a result (`OwnResults`). The
  two are disjoint subsets of a finite manifest, so as many of them as were planned
  are all of it. This is where a count of runs instead of the planned hits would go
  wrong: it may count runs of other batches that have failed.

The numbers of these counts are cardinalities; the lemmas about them are cited from
the library. No assumption is made about the source, the length of weeks and pages
or how many requests, workers and batches there are.

## Only model-checked

* Liveness: `WorkGetsDone`, `CancelReaches`, `CallsReturn`, `CancelEnds` and
  `CatchesUp`. The prover handles no fairness.
* `CompleteMeansComplete` of `PerturbationTests`. What is planned is a sum over all
  batches, and that a sum is the number of its parts is an induction over data.
* `ImportAccepted` of `Backup`. Whether every reference of an archive resolves
  depends on the catalogue of the tool, query by query, and on which references the
  rows of each table may have. TLC visits the families scene by scene; an invariant
  would have to state, for each position of the program, which references of which
  rows are already closed.

## Not modelled

The components marked so in `PROJECT.json`, with the reason there. Within those
that are modelled:

* compute-task service: progress values, checkpoints, attempts, error messages,
  timestamps and the counters of a task other than through its status; the soft
  and hard limits of plans; user identity (all rows of a run belong to one user);
  the live compute monitor; the read-only calls;
* trading: amounts, prices and fees, the strategy's decisions, the audit log and
  heartbeats of connections, and whether anything is eventually traded;
* backups: encryption, upload, the reset of sequences, and rows deleted by the
  application. `ImportAccepted` leaves out rows that name a user or an instance
  created after the dump (those tables are in no incremental archive), and
  `RestoreComplete` excuses what fell into the window of `backup_window`, changes
  of tables selected by creation time only, and rows of tables no incremental
  archive has;
* backtests: the reading of market data, report queries and permissions.
  `internal/saas/performancereport` stores its reports by the same protocol;
* evolution: building the search and its data, trace events;
* genetic search: crossover, mutation, decoding and scoring;
* parameter library: filters, links, the display of genomes;
* research runs: the arithmetic of the Sobol sequence, anchors, full enumeration,
  how a surrogate proposes its points, landscape queries;
* market data: prices and volumes, FRED, the snapshots before the close, how segments
  and calendars are put together; one instrument and one series at a time;
* perturbation tests: generation of variants, metrics and statistics, tests with
  several subjects, the links of candidates;
* numerical code throughout, which is floating-point arithmetic.
