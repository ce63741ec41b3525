# A TLA+ verification of the Tvchan pipeline

Tvchan keeps A-share K-lines in PostgreSQL, computes Chan structures ("Module C") over them, publishes the result of every
scope (symbol, level, mode) as a *head*, and pushes new heads to charts in browsers. Nearly every part of it is several
processes that share tables, leases and counters. This directory models the parts where the order of their steps matters,
checks the models with TLC on small instances, and proves their main invariants for every instance with TLAPS.

Source paths below are relative to `services/collector/collector/` unless they name another service; `PROJECT.json`
gives for every definition the lines it stands for.

1. [The system](#1-the-system) · 2. [The modules](#2-the-modules) · 3. [What the runs show](#3-what-the-runs-show) ·
4. [What is proved](#4-what-is-proved) · 5. [Disagreements found](#5-disagreements-found) ·
6. [Not modelled](#6-what-is-not-modelled-and-why) · 7. [Plan](#7-plan)

To repeat: `tlc -config TailWorkers.cfg MCTailStream`, `tlapm TailStreamProofs.tla`, and so on.

## 1. The system

```
 providers ──pages──> history backfill ─┐                        ┌─> lifecycle observer ─> events
 (pytdx ...)                            v                        │   (head history outbox)   ^
 importers, realtime ───────────> K-lines + ingest watermark     │                           │
   deletions, audits            (+ scope catalog)                │            historical replay, repair
                                        │ stale heads            │
                                        v                        │
              tail tasks <──claim── Chan stream workers ──CAS──> published heads <── full recompute batch
                                        │ INCR, PUBLISH                 │
                                        v                               v overlay reads
                                      Redis ───────> websocket producer ───> browser bridge <── HTTP overlay
                                        │
 collector fills trading-day cache ─────┴──> sidebar relay and aggregator ───> sidebar store <── HTTP bootstrap
```

| Component | State it keeps | Operations | Interacts by | Correct when |
|---|---|---|---|---|
| K-line storage (`storage/postgres.py`, `kline_scope_catalog.py`, `storage/scheme2_postgres.py`) | bars; per scope a watermark `last_bar_end`, `change_version`; per catalog generation the exact bounds of a scope | upsert, staged import, delete, audit repair, bootstrap and switch of generations, backfill page commit, window read | transactions of several statements under READ COMMITTED | a change of a bar and the version that announces it commit together; a complete catalog row is exact |
| Published heads (`storage/chan_postgres.py`) | per scope and mode: run, bar reached, input version consumed, anchor | online publication (compare-and-swap), replacement by a recompute | transactions of both publishers | a head never goes back; what it says it consumed it contains |
| Chan stream worker (`chan_c_stream.py`, `storage/chan_c_stream_postgres.py`) | tail tasks with status, lease, claim token, frozen target and version | normalize, discover, claim, read, publish, complete, report | tail tasks, heads, Redis | one holder per claim; nothing asked for is forgotten; heads catch up |
| Full recompute (`chan_module_c_recompute.py`, `module_c_batch_control.py`) | a batch and a task per scope, with frozen heads and target, lease and attempts | prepare, activate, claim, recompute, publish, fail, finalize, seal | heads, outbox | publishes a scope once, replaces nobody else's head, attests what is there |
| Head announcements (`realtime_publisher.py`) | a Redis counter per stream | INCR, PUBLISH, three attempts | Redis channel | a lost or crossed event does no harm |
| Websocket producer (`services/api/app/routes/chart_ws.py`) | per subscription: last version sent, sequence, last event per stream, pending heads; a bounded queue | accept event, build overlay, resync, snapshot, delta, fall back to polling | Redis, overlay reads, socket | the newest overlay is sent in the end |
| Browser bridge (`apps/web/src/api/chanRealtimeOverlayBridge.ts`, `ChartWorkspace.tsx`, `chartDataManager.ts`) | shown version and objects, last sequence, pending resync, fetch in flight | apply message, request resync, hydrate, reconnect, poll | socket, HTTP | objects shown are those of the version shown |
| History backfill (`history_backfill.py`, `storage/backfill_postgres.py`) | tasks with lease, token, offset, attempts, proven newest bar | ensure, reset, release, claim, page loop, heartbeat, commit, yield, fail | provider, K-lines | the checkpoint never passes a bar that is not stored; every run ends |
| Lifecycle observer (`lifecycle_observer.py`) | head history outbox, watermark, append-only events, a projection of them | claim, plan, persist and acknowledge, fail, rebuild | heads | every publication observed at most once and in order; the projection says what the heads show |
| Historical replay (`historical_replay.py`, `historical_replay_worker.py`, `historical_replay_prefix_repair.py`) | a batch with a task per cutoff, heads with the run they follow, events | prepare, claim, publish, observe, finalize; apply, verify and roll back a repair | outbox, observer | a sealed batch is a chain without a gap, and its events say so |
| Importers (`storage/scheme2_postgres.py`, `*_import.py`) | member checkpoints | stage, upsert, checkpoint | K-lines, catalog | a member is imported once and completely |
| Provider pool, market fill (`providers/`, `market_fill.py`) | health of providers | fetch with failover | providers | no gap is taken for the end |
| Sidebar market data (`apps/web/src/api/marketSidebar*.ts`, `services/api/app/routes/realtime.py`, `market_sidebar/service.py`, `market_data_provider.py`) | the browser's store and cursor; per connection a stream with sequence, hashes and fences; a trading-day cache | bootstrap, set context, relay, delta or resync, fill and publish | HTTP, websocket, Redis stream and channels | what is shown is the current symbol's, and current once nothing is on its way |
| Screener, operations, authentication, strategy service, charting front end | see `PROJECT.json` | mostly single statements or pure computations | | |

**What is hard here.** Workers read K-lines and compute for seconds outside any transaction, while writers correct the bars
they read, a rival publishes, their lease runs out, or they die between the commit and its report. Discovery upserts tasks
that others hold. A provider is paged by offset from its *newest* bar, so every new bar moves every page. Redis events are
numbered in one step and sent in another. The websocket accepts an event before the query that may fail, and uses up sequence
numbers for messages a full queue drops. The browser applies deltas from one channel and full overlays from another. Outbox ids
are taken before their transactions commit. A batch freezes heads hours before it publishes over them. Statements of one transaction
see different commits.
`hazards` in `PROJECT.json` lists 40 of these with the line where each bites and the properties that would notice it.

## 2. The modules

| Module | Models | Abstract specification | Proofs |
|---|---|---|---|
| `TailStream` | stream workers, tail tasks, and a recompute as a rival | `PublishedHead` | `TailStreamProofs` |
| `HistoryBackfill` | the backfill's task store and page loop | | `HistoryBackfillProofs` |
| `ChartStream` | announcements, websocket producer, browser bridge | | `ChartStreamProofs` |
| `FullRecompute` | a batch from its preparation to its seal | | `FullRecomputeProofs` |
| `LifecycleObserver` | outbox, observers, projection | `HeadFeed` | `LifecycleObserverProofs` |
| `KlineStore` | writers, watermark and catalog of K-lines | | `KlineStoreProofs` |
| `HistoricalReplay` | a replay batch, its observation, seal and repair | | `HistoricalReplayProofs` |
| `MarketSidebar` | the sidebar from the collector to the browser | | `MarketSidebarProofs` |

Every system module has an `MC...` module with the definitions its `.cfg` files substitute for constants. The content of a bar is the
version of its last write, and what a computation made of bars is the bars it saw. The modules meet at tables: `KlineStore` is
where the bars and versions of `TailStream` come from, a publication of `TailStream` or `FullRecompute` is an outbox row of `LifecycleObserver`
and an announcement of `ChartStream`. They are composed where the interaction is the point (the stream and a recompute over one head, replay and its
observer, the three processes of the chart and of the sidebar), and abstracted to one action of the environment elsewhere.

### PublishedHead: what a head promises

The abstract specification. One scope, one head per mode. `CommitBars(S)` is a committed write: its bars get the new
`change_version`. `TailPublish(m)` reads the K-lines, computes and publishes in *one* step: bars after `from` come from the
K-lines as they are now, the others are inherited from the run that is replaced (`Combine`). `ReplaceHeads` is a
full recompute, which may use bars it read earlier, provided it missed nothing the head had consumed.

### TailStream: how it is kept

`TailStream` spreads `TailPublish` over the life of a worker (`pc`), with the tables of PostgreSQL as shared variables:

| `pc` | Action | Code |
|---|---|---|
| idle | `Normalize`: targets of 1w/1m set back to the closed period | `normalize_higher_timeframe_targets` |
| discover, ensure | `Discover` reads stale heads, `Ensure` upserts their tasks; the rows may be old by then | `ensure_tail_tasks_for_stale_heads` |
| claim | `Claim` freezes target and version under a fresh token; `NothingToClaim` | `claim_tail_tasks` |
| read | `ReadBars`: at most `TailBarLimit` rows from the oldest anchor of the batch | `process_symbol_tail`, `get_bars_chunk` |
| compute | `CheckHead`: head and watermark compared with the claim, prefix copied | `replace_incremental_analysis` before its transaction |
| publish | `Publish` (task fence, compare-and-swap, completion in one transaction) or `PublishRejected` | `_lock_tail_publication_task`, `_publish_heads_cas`, `_complete_tail_publication_task` |
| announce | `Announce`: next job, or the end of the pass | `process_symbol_tail` |
| failing | `ReportError`: every job of the batch, fenced by its token | `process_tail_tasks`, `complete_tail_task` |

The environment: `WriteBars`, `ClosePeriod` (a week or month ends), `Expire` (`lease_until` passes; a fault if the holder is
still at it), `BecomeDue` (back-off passes), `Fault` (an exception anywhere, also after the commit), `Crash`, and a full recompute
(`PlanRecompute`, `ReadRecompute`, `PublishRecompute`, `AbandonRecompute`). Clock values are abstracted to what the code asks of
them (a lease is live or not). A transaction is one action; two statements of different transactions are two.

### HistoryBackfill

Worker processes (`pc`) run passes: `StartPass`, `ResetPass` (`--reset`), `ReleasePass` (`--reset-running`), `Claim`, `EndBatch`.
The kind of run is chosen at the start. Without `--symbols-file` a process is a loop, which goes back to `off` after a pass. A scoped run fills exactly
`(StopAt, Through]`; its process is one-shot and goes to `ended`, where only an operator starts it again (`Rerun`). When it is resumed, the catalog must agree with the tasks
(`CatalogAgrees`); if it does not, `RefusePass` is the error that ends the process.
The jobs of a batch (`job`) run side by side behind a semaphore: `Enter`, `Fetch` (one provider page; `top` is the newest bar the
provider had then) or `FetchNothing` (the answer is missing and becomes an empty page), `PageRefused`, `CommitPage` / `CommitLost`, `Yield`, `RecordFailure`.
The environment: `NewBar` shifts all offsets, `Expire`, `HeartbeatLost`, `Fault` (an exception, or a commit whose acknowledgement is lost), `Crash`.
`Kept(t)` says whose heartbeat renews a lease: only jobs that are past the semaphore have one. The history variable `cut` names the tasks that were marked success because of a missing answer.

### ChartStream

One chart with one subscription. `Publish`/`Incr`/`Announce`/`AnnounceFails` are the stream's side (publication, INCR and PUBLISH
are three steps, so announcements cross, are lost or doubled); `PublishQuietly` is a full recompute, which announces nothing; `Ingest`
writes K-lines that hide a head until it catches up. `TakeEvent` → `Build` → `Send` is the producer (`_send_chan_subscription_updates`,
cut where it awaits), with `BuildFails`, `SendTimesOut`, `Fallback` (Redis lost: it polls; lost while polling: it ends,
`conn = "off"`). `Receive` is `bridge.apply`; `Fetch`/`HttpRead`/`HttpAnswer`/`HttpFails` the HTTP resync, read and answered in different
steps; `Disconnect` and `Reconnect` the transport. A version is the run shown of each stream; `Shape` says what a run shows in the
window, so that two runs can show the same (the empty delta of the code). Deltas are computed (`Diff`) and applied (`Applied`), not assumed.

### FullRecompute

A scope is a symbol and a level. `Prepare` freezes for each eligible one the runs its heads show, `Activate` refuses when one has moved since. A worker
(`pc`) goes from `Start` to `Claim` (the task of its shard with the fewest attempts), `Computed` (the last heartbeat), `Publish` (both
fences, the heads as frozen, the upsert of the heads that are behind or at the same bar under another configuration (`same`), their outbox rows and the completion, in one transaction) or `RefusePublish`, then
`Fail`, and at last `Finalize`, which ends the batch when nothing is left to do. `Seal` is the gate of `module_c_batch_control.py`: heads covered
and of the batch's configuration, outbox observed. Others: `Expire`, `Raise`, `Die`, `Move` (the tail stream publishes; the batch id is inherited), `Observe`, `Deactivate`.

### LifecycleObserver and HeadFeed

`HeadFeed` is the promise: a publication becomes, at most once, observed or given up, those of one head in their order, and its events are
written in the step that observes it. `LifecycleObserver` keeps it with a table of rows whose ids are taken at the insert and become visible at the commit
(`BeginPublication`, `CommitPublication`), a session lock, a claim of the first unfinished row only if it is due (`Claim`), a plan computed from the heads *of the moment*
(`Plan`), one transaction for events, projection, acknowledgement and watermark (`Persist`), failures with retries and dead letters (`FailRow`), `ComesDue`, `Crash`,
and `Rebuild`. The refinement mapping takes ids that are visible, completed and dead as the sets of `HeadFeed`.

### KlineStore

A transaction is cut into its statements (`tx[p].pc`), each of which sees what is committed when it starts and waits for the rows others hold: `Upsert` and `Record`
(widens the catalog), `BeginImport`/`Import` (the staged importer), `BeginDelete` → `Remove` → `Select` → `Scan` → `Cas` → `Invalidate` (`delete_bars`),
`Audit` (the repairs of `kline_canonical_audit.py`: losers are deleted, and a bar may move to a free timestamp), `Bootstrap` (the first bounds of a generation), then `Commit`, which also makes the watermark, or `Rollback`. Generations are
created, finalized and failed under the control row. Whether a stored bar gives way to a new one is left open: any subset of the offered bars may be written.

### HistoricalReplay

Workers `Claim` cutoffs in order, but finish in any; `BeginPublish` passes the fence, `ReadPrevious` reads the predecessor of each mode in a statement of its own, `Publish` commits.
`Observe`/`Persist`/`ObserverFails`/`ObserverDies` are the observer on replay rows, which it plans from the two runs alone. `Finalize` seals parent and child; `SealParent` is the
state the repair starts from (set by hand, outside the code). `Apply`, `Verify` and `Rollback` are the prefix repair, `Repairable` its rule for version 1: exactly two broken rows, both
without a predecessor.

### MarketSidebar

`Confirm`, `ChangeSymbol`, `ChangeWatchlist` change the browser's context; `AnswerBootstrap`, `AcceptBootstrap`, `FailBootstrap` are the one HTTP bootstrap; `Receive` is the
store's `acceptEvent` with the transport's habit of sending its context after every event. On the server `HandleContext` cancels the sidebar task wherever it is; `TakeNotice`,
`ReadCache`, `ReadLocal`, `Send` are one pass of it, cut at its awaits; `RelayReady`, `RelayTimeout`, `RelayLate` are the Redis relay. `Fill`, `PublishFill`, `StopCollector` are the collector, `LocalCommit`
and `Announce` the published structures. Abstractions: the cached domains are one value (they are filled and published together); two of a stream's five channels stand for all, one carrying both
parts and one the local part; refresh requests that find everything cached are not recorded; the two reads of the bootstrap are one step; local commits are for the chart's symbol; context changes,
local commits and faults share one bound.

## 3. What the runs show

| Run | Question | Instance | States | Properties |
|---|---|---|---|---|
| `tail_workers` | Do two racing workers keep claims exclusive and heads right, and does the head catch up? | 2 workers, 1 mode, 2 bars, 2 versions, 2 faults | 316k | `TypeOK`, `NothingMissed`, `OneClaimant`, `LiveLeaseKept`, `Implements`, `CatchesUp` |
| `tail_recompute` | Does a batch that fails in the middle, beside a full recompute, lose a job? | 1 worker, 2 modes, 1 recompute of the next release, tight bar limit, 1 fault | 2.47M | `SuccessIsDone` |
| `tail_weekly` | Does the head catch up for 1w and 1m, whose targets normalization sets back? | 1 worker, 3 bars in 2 periods, 3 versions, 1 fault | 549k | `CatchesUp` |
| `backfill_race` | Do a shifting provider, lost leases, acknowledgements and answers, and a reset leave gaps, in a loop or in a scoped run? | both kinds, 1 task, 2 workers, 5 bars, any start of the provider, pages of 2, gap (1, 3], 3 faults, 1 reset | 603k | `TypeOK`, `Covered`, `OneOwner`, `SuccessComplete`, `ClaimKept` |
| `backfill_ends` | Does every run end, loops with batches larger than the concurrency and scoped processes whose start may be refused? | both kinds, 2 tasks, 2 workers, concurrency 1, batches of 2 (a loop), gap (1, 2] of 3 bars in pages of 1, 1 fault | 389k | `Finishes` |
| `chart_stream` | Is what is shown right, and does the newest overlay get sent? | 2 streams, 2 publications, queue of 1, 2 upsets | 1.52M | `TypeOK`, `Consistent`, `ResyncUnderWay`, `CatchesUp` |
| `chart_stall` | Does polling recover a lost Redis? | violated, see section 5 | | `PollingRecovers` |
| `recompute` | Does a batch publish each scope once, keep off other heads, attest the truth and end? | 2 eligible scopes (one with heads) and an excluded one, 2 workers of one shard, 2 attempts, 1 move, 1 fault | 624k | `TypeOK`, `PublishedByLastClaim`, `EndIsEnd`, `ForeignHeadKept`, `SealedIsPublished`, `Ends` |
| `lifecycle` | Are publications observed in order, once, and right, whatever commits late, fails or dies? | 2 heads of one level, 1 structure, 3 publications (1 baseline), 2 observers, 2 attempts, 2 faults | 985k | `TypeOK`, `ProjectionExact`, `RebuildAgrees`, `WatermarkSafe`, `FollowsHeads`, `Drains` |
| `kline_store` | Are the catalog and the change version right under statements that overlap? | 1 scope of 3 bars, 2 connections, 3 writing transactions, 2 generations | 4.27M | `TypeOK`, `CatalogExact`, `ChangesCount` |
| `historical_replay` | Is a sealed replay batch a chain, and a repair exact? | 2 modes, 3 cutoffs, 2 workers, 2 attempts, 1 repair | 4.33M | `TypeOK`, `EventsExact`, `SealedChain`, `RepairExact` |
| `market_sidebar` | Is what the sidebar shows fresh? | 2 symbols, 4 events per stream, 2 upsets | 8.46M | `TypeOK`, `ReadyIsFresh`, `RestIsFresh` |

The properties, in words:

- **`NothingMissed`** (no lost update): every bar after the anchor whose last change is at or before the version a head says it consumed
  is in the head as it is in the K-lines. With `NothingNewer` (proved, section 4: nothing newer leaked into the part the stream computed) a
  head's tail is the K-lines *at* its version, although it was read and computed outside any transaction.
- **`Implements`**: claim, read, compute, compare-and-swap, by any number of workers, is `TailPublish` in one step.
- Heads never go back in run, bar or consumed version, whoever publishes: proved (`AlwaysAdvances`, `StreamAdvances`) and not run.
- **`OneClaimant`**, **`LiveLeaseKept`**, **`OneOwner`**, **`ClaimKept`**: a claim has one holder; while its lease is live nobody else
  changes it. Late jobs, resets and discovery passes included.
- **`SuccessIsDone`**: a task left in success has nothing open, although new work may have been asked for while it ran.
- **`Covered`**: every bar the checkpoint `next_offset` has passed is stored. The offset counts from a moving end, so this relates
  three things that change at different times. **`SuccessComplete`**: a finished task has its whole range without a gap;
  outside scoped runs a missing answer is taken for the end of the history, and only the tasks this ended (`cut`) are exempt.
- **`Consistent`**: the objects shown are those of the version shown, whatever deltas, snapshots, HTTP answers and reconnects crossed.
  **`ResyncUnderWay`**: the bridge ignores deltas only while a fetch is on its way or has failed.
- **`PublishedByLastClaim`**, **`EndIsEnd`**: a late worker of a batch neither publishes, nor completes, nor reopens anything. **`ForeignHeadKept`**: a head somebody
  else moved after the freeze is never replaced. **`SealedIsPublished`**: what the seal attests of every eligible scope is true.
- **`FollowsHeads`**: the observer implements `HeadFeed`. **`ProjectionExact`**: a structure whose publications are all observed is visible in the projection exactly when a head shows it, although
  a disappearance is judged by the heads of a later moment. **`RebuildAgrees`**, **`WatermarkSafe`**: unless a row committed late, the projection is the one the events give, and
  the watermark passes nothing unfinished.
- **`CatalogExact`**: a complete row has the bounds of the committed bars. **`ChangesCount`**: an upsert that changed a bar advances `change_version` in the same step, unless a younger import overtook it.
- **`SealedChain`**, **`EventsExact`**, **`RepairExact`**: a sealed batch has one unbroken chain per mode and its events; a repair leaves no break and its rollback no trace.
- **`ReadyIsFresh`**: a ready sidebar shows nothing older than what there was when its symbol was chosen. **`RestIsFresh`**: once nothing is on its way it shows the current data,
  but for five named cases: the bootstrap's answer retired the live stream; a cursor that mismatches was answered before; the stream began after the profile of its batch was refused;
  the update was published while nobody listened; or the error mark has not been replaced.
- **`CatchesUp`** (of the stream and of the chart), **`Finishes`**, **`Ends`**, **`Drains`**: liveness. `Finishes`: the tasks of looping workers end as success or as dead
  letters and stay so, whatever expires, fails or dies; a scoped process ends, with its tasks done or with an error (a refused start, a lost lease, a dead letter, nothing left to claim). `Ends` exempts a worker that died and a task no worker may claim (`Abandoned`).

### Bounds, and why they are enough

Every bound is a constant named *bound* in its module. `MaxEnd`/`MaxBar` = 2..5 bars give an anchor, a bar after it and a new one, or two full
pages and a partial one; `MaxVersion` = 2..3 gives a write before the claim and one at any point after it. `MaxFaults` = 1..3 is the number of
crashes, exceptions and leases that expire *under* a worker; leases that expire with no holder are free. `MaxClaims`, `MaxLeases` and
`MaxRun` stop counters, and no run of the stream or the backfill reaches them (the other bounds end every behaviour before), except `tail_recompute`, where two claims
of a task leave one before the recompute and one after it; in `ChartStream`, `MaxRun` is the number of publications. `OutboxSize` = 1 instead of 64 makes the full queue
a common case. In `backfill_ends`, the first page of a scoped task lies wholly beyond `Through`: it stores nothing and counts as progress, so a process that dies, or is rerun, after it meets the refused
start of section 5; and a loop claims both tasks with one place at the semaphore, so that a claimed job waits without a heartbeat. In `backfill_race`, pages of 2 straddle `Through` and `StopAt`. In `chart_stream`, `MaxUpsets` = 2 covers every pair of a hidden head and a failure (a lost event and then a full queue, say);
`Incr` repeats at most as often as there are upsets, within the three attempts the code makes.

In `recompute`, two attempts give a takeover and a last attempt, one foreign move falls at any point from the freeze to the seal. In `lifecycle`, three publications of two heads
contain a late commit with one on either side, and a structure that leaves one head and stays in, or moves to, the other; one structure suffices because the code treats each fingerprint apart from the others.
In `kline_store`, the clock of three writing transactions gives a first write, a correction or deletion, and a third that overlaps both; bootstraps, reads and rollbacks are free. In `historical_replay`
three cutoffs are the least with a predecessor in the middle that can be missed. In `market_sidebar`, two upsets give A → B → A, a change and a fault, or two updates; four events are two
batches of a stream, or a batch and two resyncs. Four of the five exemptions of `RestIsFresh` were seen to be reached in this instance; the fifth (the profile
refused) takes three upsets. It was found by the attempt to prove the property, which was false without it.

Symmetry (workers, processes) is used in runs whose properties are invariants and action properties only. Deadlock is checked wherever the system must go on; it is off where it may come to rest: publications,
transactions and upsets are bounded, a chart's producer can end, and a batch is over once it is sealed.

### Fairness

- *Stream*: each worker's step is weakly fair (the loop of `main`, with `--loop`), so are `BecomeDue` (the clock) and the expiry of a lease whose holder is gone.
  Writers, faults and recomputes are not fair: nothing needs them to happen.
- *Backfill*: the steps of a pass, each job, and the expiry of leases nobody renews. A loop starts its next pass, and is started again after a crash (`HISTORY_BACKFILL_LOOP` and
  `restart: unless-stopped` of the compose file). A scoped process takes its own steps and is not started again by anyone who must: `Rerun` is not fair, nor are new bars and faults.
- *Recompute*: the worker of each shard is started once after the activation and takes its steps; leases run out. `deploy/docker-compose.backend.yml` runs one-shot workers with
  `restart: "no"`, so nothing obliges an ended worker to run again, and no control command is fair.
- *Observer*: commits, the clock, and the loop of the processes (`restart: unless-stopped`). Neither publications nor faults nor rebuilds are fair.
- *Sidebar*: none. Every event received sends the context again, which may answer itself with resyncs for ever (section 5), so that only what holds at rest is stated.
- *Weekly stream*: liveness is checked for one worker. With two, an unfair interleaving may put the other's `Normalize` between `Ensure` and `Claim` at every pass; real passes are seconds apart.
- *Chart*: the producer's step, reading the socket, and reconnecting. Announcements, HTTP answers and new heads need not come: polling must do without them.

`CatchesUp` of the chart has two exemptions, beyond which the code promises nothing: a producer that ended (`conn = "off"`; nothing restarts
it), and a head the server was told of and does not see (`Owed`), the subject of `chart_stall`.

## 4. What is proved

For every value of the constants, under the `ASSUME`s of the modules (positive sizes, a monotone `Period`, and so on; TLC evaluates them on every run):

| Module | Theorems | Invariant they rest on |
|---|---|---|
| `TailStreamProofs`, on `PublishedHead` | `HeadInvariant`, `NeverMissed`, `NeverNewer`, `AlwaysAdvances` | `HeadInv`: types, `VersionsBehind` (no version is used before it is committed), and the two properties |
| `TailStreamProofs` | `Invariant`, `TypeCorrect`, `ClaimsExclusive`, `StreamImplementsHead`, `StreamNeverMisses`, `StreamNeverNewer`, `StreamAdvances` | `IInv`, below |
| | `WorkInvariant`, `SuccessMeansDone`, `LeasesProtect` | `DoneInv` on top of `IInv`, below |
| `HistoryBackfillProofs` | `BackfillInvariant`, `BackfillTypes`, `ClaimsAreExclusive`, `CheckpointNeverLies`, `SuccessMeansComplete`, `LiveClaimsAreKept` | `IInv`, below |
| `FullRecomputeProofs` | `TypeCorrect`, `PublishesOnce`, `CompletedIsCovered`, `EndedStaysEnded`, `KeepsForeignHeads`, `SealAttests` | `IInv`: shapes of tasks, workers and heads, `CompletedCovered` and the properties |
| `ChartStreamProofs` | `ChartInvariant`, `ChartTypes`, `ShownIsConsistent`, `ResyncIsUnderWay` | `IInv`: `MessagesOK` and the properties |
| `LifecycleObserverProofs` | `TypeCorrect`, `ProjectionIsExact`, `RebuildsAgree`, `WatermarkIsSafe`, `FollowsFeed` | the chain of a head's rows, the lock, what was planned; below |
| `KlineStoreProofs` | `TypeCorrect`, `CatalogIsExact`, `ChangesAreCounted` | what a statement saw and the row's version, below |
| `HistoricalReplayProofs` | `Invariance`, `TypeCorrect`, `EventsAreExact`, `SealedIsChained`, `RepairsAreExact` | what is sealed no longer moves, below |
| `MarketSidebarProofs` | `Invariance`, `TypeCorrect`, `ReadyNeverPast`, `RestShowsPresent` | one content followed from the read to the browser, below |

**The stream.** `NothingMissed` is not inductive: a worker publishes bars it read long ago. What saves it is a rely condition, `WorkerOK`:
as long as `ingest.version` is still the version it claimed, the bars a worker holds after its anchor are the K-lines (`BarsOK`: unless
they were written again *since*, which moves the version), and the prefix it copied is the head's as long as the head is the run it expected (`PlanOK`).
Every step of everybody else keeps these conditions, or makes the compare-and-swap fail. `WindowNoGap` is the lemma on
`get_bars_chunk`: a limited read has no hole. `RecomputeOK` says the same of a recompute, which compares runs but not versions. With `IInv`, `Publish` is a
`TailPublish` (`from` is the claimed anchor), `PublishRecompute` a `ReplaceHeads`, `WriteBars` a `CommitBars`, and every other step a stutter; the
published heads' safety then follows from that of `PublishedHead`.

The second invariant says what task rows promise. `SuccessIsDone` rests on two facts: a claim outside 1w and 1m is for work its head has not done (`ClaimIsBehind`), so that the branch of `CheckHead`
that refuses a job as already done is never taken there (`NoneRefused`; for 1w and 1m, whose targets move back, the property makes no claim), and a publication reaches exactly the claimed
target and version. A row asked for more in the meantime is left pending by the `Completed` expression, which compares the row with what was claimed. `LiveLeaseKept` needs only tokens that are fresh.

**The backfill.** `Covered` speaks of the checkpoint in the table; the next page is computed from a copy. `PageOK` is the missing link: what
a job that still owns its checkpoint has read joins what is stored, for the `top` the provider had when the page was read. `ProviderOK`
(nothing is known of a provider that it does not have) makes shifts harmless: more bars only move the covered range up. `ClaimsOK` bounds tokens by `leases`,
so a new claim is new. A scoped run refuses a short page that does not reach its stop, so there a missing answer never counts as the end.

**The recompute.** That a batch stays as it ended rests on `TaskShape`: every change of a task needs a running batch, and a batch stops running only when no task is left to change. A fence compares
attempts, so a completed task's attempts are the claim that published; `CompletedCovered` says that its heads pass the gate of the seal or were moved by others since the build, and
with the gate itself this gives what the seal attests.

**The chart.** `MessagesOK`: every message in the producer's hands or in the queue carries what it claims to carry. `DiffApplies` is the lemma on
`diff_objects` and `bridge.apply`: the difference of two versions applied to the first gives the second. A delta is applied only if its base is the version shown.

**The observer.** Per head, rows are a chain (`Chained`, `OpenIsLast`): what one replaces an earlier one published. The claim rule and the session lock give `InOrder`: no row that was taken follows
an unfinished one of its head. A plan is computed from the heads of one moment and written at another; `PlansOK` relates the two (`PlanFresh`): what was planned is still right when it is written, or a row
that will correct it is waiting (`WillShow`, `WillRemove`). For `RebuildAgrees` and `WatermarkSafe` the order holds across heads as long as no row committed late.
`FollowsFeed` maps each step to one of `HeadFeed` or to a stutter.

**K-lines.** A deletion writes bounds it scanned in an earlier statement. `ScannedOK` says they are exact as long as the row has the version it read. A writer that finds its bars within the row leaves the
version alone. `WithinOK` says that such a row stays wide enough until the writer commits and that no deletion past its scan of the bars is about to change it, and `BoundsAreBars` that both bounds of a row
are bars in the table (an audit that moved bars forgets the bounds of its scope before it commits); both except for the rows counted in `raced`. The assumption `ScopesAssumption` (there is a scope) is used once, for the scope an idle transaction carries.

**The replay.** A published cutoff is completed and never claimed again (`PublishedDone`); once the parent is sealed nothing is published any more, because all modes have published every cutoff there is (`SealedOK`, `AllPublished`). From then on only rows of the one applied
repair change (`RepairAlone`), its snapshot is what the rows were (`RepairStart`), and what two repairs touched agrees (`RolledBack`).

**The sidebar.** The server sends a content once: its hash keeps it from being sent again. `DeliveryOK` says that the content hashed for the present context is on its way (`Carried`) or shown (`Delivered`), unless a named case
applies; `EventsOK` that events arrive with rising sequence and no older content, so what is accepted never goes back; `CurrentOK` that what was hashed is the data, or another read is due. The hard part is a browser
whose cursor is that of another stream (`Behind`): it refuses what the server sends, and its next context must show the server a mismatch. `BehindOK` says that the server's sequence has then passed the cursor, or
a resync is on its way, which such a browser accepts. `FloorOK` gives `ReadyIsFresh`: whatever is read for the present epoch was read after its symbol was chosen.

**Only model-checked**: liveness (`CatchesUp`, `Finishes`, `Ends`, `Drains`; the prover has no rules for fairness or ENABLED) and the run that finds a violation. Every invariant and every action
property of the passing runs, and both refinements, are proved.

## 5. Disagreements found

With a run that shows it:

- `chart_stall`: `chart_ws.py:550` sends nothing until every announced head is *exactly* contained in the overlay. A head replaced before the overlay was read
  never is; if its successor's announcement came earlier or is lost with Redis, each poll returns before sending, and the chart stays old
  until the stream is announced again. The comment at line 465 says polling recovers Redis loss.

Met while modelling, without a run of their own; each is exempted by name in the property that would contradict it, or stated here:

- *Stream.* `db/sql/050_realtime_input_version_fencing.sql:17` calls `consumed_input_version` the version "exactly consumed". The tail publication copies everything up to the anchor
  from the run it replaces (`storage/chan_postgres.py:1532`), so a corrected bar at or before the anchor counts as consumed and is never recomputed. `NothingMissed` speaks of bars after the anchor.
- *Backfill.* `history_backfill.py:475` reads the proof that the provider has the expected bars from the row as it was claimed: with several pages per claim (help at line 92), the second page of a
  scoped claim (older by construction) fails although the first one proved it. A scoped process interrupted after a page wholly beyond `--expected-through` counts as progressed, and every later
  start raises "scoped backfill catalog progress mismatch" (`storage/backfill_postgres.py:415`), against "Create or resume" at line 173
  (`RefusePass`, which occurs in `backfill_ends`; it ends the process, so `Finishes` holds). A missing answer of pytdx becomes an empty page (`providers/pytdx_provider.py:202`), and an empty page is the end of the history
  of a task outside scoped runs: success with a gap (`FetchNothing`, exempted as `cut` in `SuccessComplete`).
- *K-lines.* `delete_bars` re-reads the bounds so that the catalog "preserves any concurrent writer" (`storage/postgres.py:620`). A writer whose bar lies within the old bounds leaves the row and its
  version alone; when the scan does not see that bar the row may end as exact and empty with the bar committed, and `services/api/app/repositories/postgres.py:312` trusts it (`raced` in `CatalogExact`). An import that
  began later and commits first hides the change of an upsert (`overtaken` in `ChangesCount`); imports and deletions never advance `change_version`.
- *Recompute.* A head published beyond the target between the build and `prepare` makes its task complete and the batch impossible to seal. A tail publication inherits the batch id and so counts
  as covered. A worker run again before its predecessor's lease ran out finds nothing to claim and exits; one that dies on its last attempt leaves the batch open for good.
- *Observer.* A publication committed after one with a larger id is observed in the order of visibility; the rebuilt projection uses `published_at` and may differ, and the watermark may have passed the row.
- *Replay.* Nothing orders publications of different cutoffs: a later one published first leaves a missing or wrong predecessor, and the batch cannot be finalized. The repair
  (version 1) covers exactly two rows without a predecessor; a wrong one, or any other number, stays.
- *Sidebar.* A bootstrap answer that arrives after the live stream's first event retires that stream: its later events, resyncs included, are rejected until the symbol changes or the socket reconnects.
  A batch of *k* events is answered by *k* contexts and *k* - 1 resyncs, each of which is an event again; the design note asks for one bounded resync (`docs/plans/2026-07-11-market-sidebar-aggregation-design.md:257`, `:415`).
  The fence is set before the awaited read, so that a cancelled resync is never repeated for the same cursor. Updates published before the relay has subscribed, for an older revision, or lost between the cache and
  the publication are not announced again. A bootstrap that fails for an obsolete context wipes current data. The events of a batch are judged one by one: a profile refused because another stream was active, followed
  by a bootstrap answer that clears it, lets the chan event of the same batch begin the stream; its cursor tells the server that the profile arrived.

## 6. What is not modelled, and why

The map covers the protocols of the collector, the API's two streams and the browser's two stores. What is left is large: the strategy service and the
rest of the front end alone are about half of the code, and importers, audits, reports and read-only repositories most of the remainder. They hold computation, queries, formatting and rendering, with little state
that outlives a call or that two actors share; a model of them would restate them.

- Chan's algorithm (`chan.py`, outside the repository): a pure function of the bars; a run is represented by the bars it saw.
- The rows of structures, wording of errors, report files, planning of symbol lists: no property here tells them apart.
- Several scopes at once: tables are keyed by scope and workers handle one symbol at a time, so scopes share nothing that the properties mention but the workers' time.
- Several subscriptions of one socket, request/response messages and legacy bundles on it; a browser that changes its range.
- Recompute without a batch (`--symbols`, `--skip-completed`), freeze-canary, hashes of frozen rows other than the configuration of a head; identity checks and contract hashes of the observer and the replay; excluded replay scopes.
- Importers' archive checkpoints and derived timeframes; the values of bars and which source wins (`kline_store` lets any offered bar win or lose).
- The sidebar's turn of the trading day, unavailable answers, the leases of several fillers, demand keys, malformed messages. `coordinator.py` leaves a finished `_quote_inflight` behind when its leader is cancelled.
- Read-only queries (screener, operations), single-statement writes (tokens, configuration), offline reports (strategy service), rendering.
- The profile, namespace and reconciliation checks of the seal (`module_c_batch_control.py:990-1105`): they compare frozen hashes. They can only make sealing rarer, so what `SealedIsPublished` says of a sealed batch is not touched.

## 7. Plan

Built so far: the pipeline from K-lines over heads to events, charts and sidebar, with every safety property of the runs proved. Next, in this order:

1. A chart run in which an HTTP answer older than a delta that was already sent leaves the chart behind the server.
2. The refinement of `TailStream`'s recompute actions by `FullRecompute`.
3. The provider pool; the two session fences of the front end.
