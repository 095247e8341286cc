# LawCast backend: a verification model

The backend collects Korean legislative notices from two sites (PAL and NSM), archives
them with a tamper-evident change history, summarises them and notifies subscribers.
It is one Node.js process: code runs without interruption between two `await`s and
interleaves there with everything else that is in flight. SQLite holds the archive,
Redis a few lists. Most of what is hard to test is in those interleavings, and in
restarts that keep the tables and the Redis entries and lose everything else. That is
what the modules here describe: **one action is the code between two awaits**, a crash
or restart is an action that keeps the persistent variables, and results of calls to
other systems are nondeterministic.

Paths below are relative to `src/src/modules/` unless they begin with `src/`.

## 1. Inventory

| Component | State it keeps | Operations | What is hard |
|---|---|---|---|
| Change chains and archive writers (`notice/notice-archive.service.ts`, `change-tracking/`) | archive rows, isDone rows, events with details, the append queue `sqliteAppendQueue` | upsert, NSM detail update, isDone sync, source deletion, genesis seeding, append with transaction and retry, audit | concurrent writers of one notice, stale baselines, committed transactions that report a failure, crashes between two tables |
| Snapshot integrity (`notice-archive.service.ts`, `notice/utils/notice-archive-artifact-support.ts`) | pages of the rows, verdicts with failure streaks | row made with or without its page, fill by re-crawl or backfill, scan in batches, verdict shown | read, await, write of one verdict by four parties; fills that race |
| Change notification queue (`change-tracking.service.ts:794-1060`) | depth of open collections, queue, timer, `isFlushing`, suppression | begin/end collection, dispatch, timed flush, forced flush | overlapping collections, lost wake-ups of the timer, payloads queued during a flush |
| Browser leases (`crawling/browser-lease-manager.service.ts`) | counter, wait queue, pids per lease, leftovers | runWithLease, closing sequence, shutdown | woken waiters against newcomers, pids of other leases, shutdown at any time |
| Archive sync phases, cron guards (`crawling/archive-sync.service.ts`, `utils/archive-sync-phase-runner.ts`, `scheduling/cronjobs.service.ts`) | a tracker per phase, busy flags, background tasks | bootstrap pipeline, cron handlers, crawl and pending-bill runs | check-then-act across services, skipped phases, waits for workers that respawn |
| Apply queues (`crawling/utils/archive-sync-phase-executors.ts`) | a task list in Redis per queue, running flag, retry count | staging, worker, removal, delayed retry, idle gate | read-modify-write of the list across awaits, end of a run against new tasks, partial batches, retries |
| Crawl cycle and recent-notices cache (`crawling/crawling-scheduler.service.ts`, `cache/cache.service.ts`) | list in Redis and its in-memory snapshot, `isProcessing`, background task names | crawl, fast-path cache update, background archive and notification, start-up crawl, retry of summaries | new notices that reach the cache but not the archive; lost updates |
| Pending bills (`utils/crawling-scheduler-proposal-retry.ts`) | a list in Redis, active run, rerun flag | crawl and task, enqueue, drain, join, seeding cron | a drain that writes back what it read minutes ago |
| Screenshot queue (`utils/archive-orchestrator-screenshot-coordinator.ts`) | a list in Redis, running flag | schedule, capture loop, re-queue, shutdown | re-queue against enqueue, capacity |
| Batch processing and delivery (`shared/batch-processing.service.ts`, `notification/`, `webhook/`) | running batches, timers, rows of webhooks and subscriptions, `permanentlyFailedWebhooks` | job with timeout and retry, fan-out, deactivation, registration, cleanup, shutdown | an attempt that goes on after its timeout, stale saves of rows, cleared timers |
| Audit queue (`cronjobs.service.ts:199-263`) | queued scopes, drain flag | enqueue and drain | a request during the drain |
| Database mirror (`db-mirror/`, `discord-bridge/discord-bridge.service.ts`) | dumps on the disk, chunks at file.kiwi, messages of a channel | runs by cron, start and command; copy, prune, upload, verify, announce | runs that overlap, lost chunks, a private copy left behind, errors nobody awaits |
| Announcements by an admin (`discord-bridge/discord-bridge-admin-announcement-command.service.ts`) | requests in memory, drafts | command, modal, send, cancel, expiry, dispatch | two interactions handled side by side |
| Crawling core, summaries (`crawling-core`, `summary-generation`, `ollama`) | none of its own | fetch pages, generate texts | external input |
| Queries, search, export, controllers; health, configuration, migrations | none that the others depend on | reads, probes, schema | - |

**How they interact.** The cron handlers and the bootstrap pipeline call the phases; a
phase holds its tracker, stages tasks in an apply queue and starts the worker. The worker,
the crawl's background tasks and the drains call the archive writers. A writer takes a turn
in the append queue, commits an event and dispatches a change notification. The
notification queue collects payloads while a collection is open and hands them to the
batch service, which delivers them. Archived notices are put into the screenshot queue; rows
without a page leave a deficit for the backfill. Everything that needs a page takes a browser
lease. The mirror copies the database beside all of it.

**What makes each of them correct.** Chains: linked, append-only, no event twice, an
append that returned is recorded, the audit accepts what the writers wrote, the isDone rows
and the chain agree. Integrity: one page per row, no verdict on a page there is none of.
Notification queue: a first-in first-out outbox, nothing left behind, a collection leaves
together. Leases: never more than the limit, nobody waits for ever, no lease kills another
one's browser. Phases: one call per phase, write-heavy phases exclude each other, the
pipeline ends. Apply queues: one worker applies, no task is stranded or removed unapplied.
Crawl cycle and bills: announced once or for a known reason more or less often, nothing said
ahead of the archive. Screenshots: what is accepted is stored or dropped for a reason.
Delivery: no receiver hears a job twice but after a timeout, rows follow the receivers.
Mirror: a link leads to a complete upload of a pruned copy, no dump stays, the channel
tells of the latest run. Announcements: what was confirmed is sent, once.

## 2. Modules

| Module | Models | Runs |
|---|---|---|
| `ChangeChain` (`MCChangeChain`, `MCChainAudit`, `ChangeChain_proofs`, `ChainAudit_proofs`) | the writers, the append, the audit | `chain_concurrent`, `chain_audit`, `audit_lifecycle` |
| `AuditQueue` (`MCChainAudit`, `ChainAudit_proofs`) | the queue of the audits | `chain_audit` |
| `SnapshotIntegrity` (`MCArchiveSync`, `ArchiveSync_proofs`) | pages and verdicts | `phases` |
| `SyncPhases` (`MCArchiveSync`, `MCSyncPhases`, `ArchiveSync_proofs`) | trackers, bootstrap pipeline, cron guards, busy flags | `phases`, `bootstrap_skips` |
| `ApplyQueue` (`MCApplyQueue`, `ApplyQueue_proofs`) | both apply queues, staging, workers, retries | `apply_queue` |
| `CrawlCycle` (`MCCrawlCycle`, `CrawlCycle_proofs`) | a notice's way over cache and archive to the announcement | `crawl_cycle`, `crawl_forgets` |
| `BrowserLease` (`MCBrowserLease`, `BrowserLease_proofs`) | the lease manager | `lease` |
| `ChangeNotifier` (`MCServices`, `Services_proofs`) | the notification queue, which implements `Outbox` | `services` |
| `Outbox` | abstract specification of the queue | (as a property of `services`) |
| `PendingBills` (`MCServices`, `Services_proofs`) | bills that wait for their reason | `services` |
| `ScreenshotQueue` (`MCServices`, `Services_proofs`) | the screenshot queue | `services` |
| `Delivery` (`MCServices`, `Services_proofs`) | batch service, fan-out, rows of receivers | `services` |
| `DbMirror` (`MCOperations`, `Operations_proofs`) | mirror runs | `operations`, `manual_upload` |
| `AdminAnnouncement` (`MCOperations`, `Operations_proofs`) | announcements by an admin | `operations` |

`MCServices`, `MCArchiveSync`, `MCOperations` and `MCChainAudit` put several components into
one run: a variable `component` says whose behaviour it is, and the variables of the others
keep their initial values, so the state spaces add up and do not multiply. That is a way of
checking them, not a claim about their interaction. Where components do meet they describe
the meeting point at different grain: `SyncPhases` has an apply worker as "running, with or
without backlog, perhaps to be restarted", `ApplyQueue` has the worker's steps and the
bootstrap gate as one caller; `CrawlCycle` has the full sync as somebody who archives;
`SnapshotIntegrity` has the upsert as the making of a row.

Operators that carry the word *Mutant* in their comment are plausible faults of the
definition they name. They are not part of any specification; substituted for the original,
each makes the property it was written for fail. Variables marked *history* are not in the
code; no guard of a code step reads them.

### 2.1 ChangeChain and AuditQueue

`row`, `done` and `chain` are the tables; `pc`, `task`, `turnQueue` are the process.
A writer starts one of five calls and is suspended at the awaits of that call
(`upsertBase` … `genesisNext`), the append's being `dedupe`, `txRead` and `txCommit`.
`HasTurn`/`ReleaseTurn` are the SQLite-only promise queue (`Serialized`; without it
`turnQueue` is `None`, and two writers may meet in `TxHeightConflict`), `TxCommit` the transaction with
its two unique indexes, `RetryOrThrow` the bounded retry. A transaction may commit and
still report a conflict (`TxConflict`). `CallThrows` is a failing database call at any
await, `Crash` a restart.

Data: five tracked fields stand for sixteen; `proposalReason` stands for all text fields,
which the code treats alike. A hash is the hashed payload, so SHA-256 counts as injective.
The change-timeline queries and the full-text index are reads and are left out.

`AuditQueue` has the two cron handlers that ask for an audit: a queue in which a scope
stands once, and one drainer. `owed` remembers who asked and has not seen an audit begin.

### 2.2 SnapshotIntegrity

`html` is the page column abstracted to absent, none, intact or altered; `verdict` the
integrity state with its streak. `MakeRow` and the seed of a deficit (`SeedRead`, `SeedWrite`),
the fills (`Recrawl`, `Capture`, `Fill`, whose UPDATE only touches rows without a page), the
mark for a recheck (`MarkRead`, `MarkWrite`) and the scan (`ScanReads`, `ScanChecks`,
`ScanWrites`, one batch read ahead of its checks) are interleaved per row. `World` alters
pages, closes notices and lets PAL take rows over. `Shown` is what a reader is told.

### 2.3 SyncPhases

`Program` lists the stages of the bootstrap pipeline and of each cron handler, waits
included. A caller is before a stage or inside one. `StageBegins` tests the guards of
`runPhase` and takes the tracker in one tick, `Release` is its `finally` block. Apply
workers, backlog and delayed restarts are the three sets the guards and the waits read.

### 2.4 ApplyQueue

`kind` and `cpu`, fixed by the initial state, choose the full-sync queue, or the summary queue
with or without CPU-friendly mode. `stored` is the Redis entry; `copy[w]` and `view` are what a
worker's and the staging phase's last read returned. Every read and every write is a step of its
own. A worker run goes `loop -> apply -> remove -> pause -> loop` and ends in `final`: the flag is
cleared *before* the last read is awaited, so an ending run and a new one coexist; `Slots` bounds
how many runs are in flight. The full-sync phase stages once after its crawl; the summary phase
drains the queue, then scans pages by offset for each status in `Scans`. `RetryLater` is the
delayed retry, `gaveUp` remembers that the last one was refused. A crawl or a page read may fail
(`StagingFails`): the phase ends without calling its worker, and `abandoned` remembers that tasks
were left with nobody to see to them (`Attended`). The full-sync phase collects its tasks in a
local array and enqueues them once, after its crawl, so that a crawl that fails leaves none of its
own. Not modelled: the pending-recompare worker, which has no producer in this code.

### 2.5 CrawlCycle

Five tasks (start-up, crawl, `process-new-notices`, `retry-unavailable-summaries`, the summary
worker) walk through their awaits. `cached` is the list in Redis, `snap` and `loaded` the
snapshot in memory, `wire` the writes under way: one connection, answered in order. An update
reads (`UpdateGet`), merges (`Merge`, which cuts the list to its size) and writes. `CrawlLaunch`
is the fast path followed by the launch of the background task, which is refused while one
runs. History: `repeats`, `seeded` and `excused` name the reasons the properties accept.

### 2.6 PendingBills

`page` is the site, `billRow` the archive, `retryQueue` the Redis list. `caller` is whoever
enqueues (the task, the cron): read, then write one await later. `drain` is one `activeRun`
with its passes: read, prune, fetch, announce, write back, look at `rerunRequested`, end. A
request for a drain joins the run, asks for a rerun, or starts one (`RequestDrain`). A crawl
(`CrawlFilters`, `CrawlLaunches`) starts up to three tasks in one step: new pending bills are
processed and announced; pending ones that have a row are captured again, and new ones with
another status archived, and of both nobody is told (`QuietCapture`, with the name of the task in
`quiet`). So it is with the backfill of missing artifacts (`ArtifactsBegin`) and with the bootstrap's
pending sync (`SyncScans`, `SyncArchives`). A bill whose reason one of these records, while no
drain waits for it (`Awaited`), is in `unsaid`: its row leaves the candidates of the retry queue.

### 2.7 ScreenshotQueue

`enqueueScreenshots` (`scheduler`) and the capture loop (`capture`) read the list and write it
back whole. `dropped` holds what a last try, a failure, a restart, the shutdown or an
overlapping write took away; the properties say that nothing else is lost.

### 2.8 Delivery

`job` is the batch service's view of a job (timer, attempt, retry delay), `att` each attempt,
which goes on after its timeout with nothing but an abort flag. An attempt sends to webhooks
one after the other, then to push subscriptions, and carries out what it decided: rows set
inactive (`RemoveWrite`), subscriptions marked by a read and a save of the whole row.
Registrations, withdrawals and the cleanup cron change the rows meanwhile.

### 2.9 ChangeNotifier and Outbox

The queue, the depth, the timer and the flush in progress; `inside` is the set of callers
with an open collection, which the code does not keep but the depth must count. Under the
mapping `pending <- batch \o queue` every step is a step of `Outbox` or a stutter. Payloads
dropped while the bootstrap suppresses notifications never enter the queue; payloads whose
hand-over throws leave it without being delivered to anyone: both are what the code does
(lines 815 and 991), and `Outbox` promises no more.

### 2.10 BrowserLease

A job is one `runWithLease` call that launches at most one browser, named after the job.
The labels follow the code: slot, registration, start snapshot, task, observation of the
process list, decision, close, recheck, cleanup, release. `Opaque` jobs have a session that
does not reveal its browser's pid; for those the code adopts strays from a process list it
read one await earlier. Descendant processes and zombies are abstracted away.

### 2.11 DbMirror

A run goes copy, prune, folder, upload, (verify), find, post, trim, remove. `files` and
`pruned` are the dumps on the disk, named by the second of their creation, so that two runs
of one second share a file. `ChunkOrder` is the order of the chunks as the code builds it;
`Verifies` compares what file.kiwi has. The channel is a set of messages; a run finds its
messages, edits or sends one, and deletes the others, an await apart, beside other runs. A search
reads six pages of 50 messages (`maxScanBatches`, `pageSize`). What else is written to the channel
is not modelled, so a search goes back to any message (`oldest` in `Finds`); `buried` holds those
of the kind that the last search for it did not reach.
`ProcessAfter` is what a run's failure does to the process: caught (cron), reported and
waited for (start), or unhandled (command). A failing Discord call is taken to have had no
effect; offsets and sizes of chunks are left out.

### 2.12 AdminAnnouncement

A request, its draft, the message its admin sees, the modal, and interactions on their way
(`PressesSend`, `PressesCancel`) and being handled (`click`). The dispatch lists the webhooks
and sends to one after the other; those that are gone are flagged and removed at the end.

## 3. Runs

All runs finish without error unless they are listed as disagreements in section 5.

| Run | Properties | Instance | States |
|---|---|---|---|
| `chain_concurrent` | `TypeOK`, `ChainLinked`, `AppendsTakeTurns`, `ReturnedIsRecorded`, `History` | 2 writers, 1 notice, all five calls, 3 calls, 1 fault, 1 crash, both drivers | 2,062,702 |
| `chain_audit` | `CallsConsistent`, `AuditsSound`, `ChainSettles` | 2 notices, 4 calls one after the other or 2 that overlap; 2 scopes, 20 requests | 92,509 |
| `lease` | `TypeOK`, `SlotsSound`, `BrowsersOwned`, `NoLeaseAfterShutdown`, `WaitersServed` | 3 jobs, 1 opaque, 2 leases | 415,696 |
| `phases` | `SyncTypeOK`, `PhasesExclude`, `VerdictsHonest`, `SyncSettles` | the pipeline, 1 cron call at a time, both background tasks, both workers; 4 scopes of at most 2 rows | 235,241 |
| `apply_queue` | `TypeOK`, `QueueTended`, `FullSyncTasksApplied`, `QueueDrains` | 2 notices, 2 runs in flight, 1 retry, 1 cron staging, any failing page read, 1 failing command or restart, both kinds | 650,692 |
| `crawl_cycle` | `TypeOK`, `OnceForAReason`, `DurableFirst`, `WritesOnlyLoseByOverlap`, `ListedIsSettled` | 2 notices and a cache of one, or one notice shared with the full sync; 1 failure or restart, or one notice and 2 | 380,403 |
| `services` | `ServicesTypeOK`, `FlushCovered`, `BillsTended`, `ScreenshotsCovered`, `DeliveredTwiceForAReason`, `RowsFollowReceivers`, `CollectedTogether`, `OutboxSpec`, `ServicesSettle` | 2 collectors, 3 payloads; 2 bills, 2 crawls or backfills; 2 screenshots, a list of one; 5 mailings | 472,249 |
| `operations` | `OperationsTypeOK`, `UploadsComplete`, `ChannelTellsLatest`, `DumpsRemoved`, `AnnouncementsSound` | 2 mirror runs and a past one, 3 chunks, 2 seconds, 1 fault; 1 request, 2 clicks, 2 texts, 2 receivers, 1 fault | 2,548,916 |

A property whose name stands for several (`SlotsSound`, `BillsTended`, `RowsFollowReceivers`,
`UploadsComplete`, `AnnouncementsSound`, …) is a conjunction of named parts, each with a
comment of its own in the module.

**Why the bounds suffice for the questions.** Two writers are the least that race; the third call
lets a second race start from a non-empty chain, and two retries let a transaction fail, be
retried and run out. One waiter more than leases makes a newcomer overtake a woken waiter; two
leases make one lease adopt another's browser. Three payloads let one be in flight, one queued and
one arrive. Two full-sync notices in one batch make a batch partial; summary batches of one make
the scan advance its offset while a worker removes a task. Two runs in flight is the least that
lets a run start before the previous one has read the queue for the last time; a run that would
need a third slot is not taken. Caches, lists and windows are one shorter than what wants to be in
them, so that each overflows. One bill is pending and the other may be listed beside it, or one
bill is crawled twice with a sync before it, so that each quiet run meets the drain, the task and
the sync; `crawls` counts crawls and backfills, because nothing bounds how often a cron begins
one. Two webhooks and two attempts make a failing webhook stand between a delivered and a waiting
one; two jobs share a receiver, and three attempts of one job let two late ones save the same
subscription. Two overlapping mirror runs over what past runs left in the channel, in the same
second or not; three chunks are the least that have a first, a last and a middle. A search reaches
back to any of the messages or to none, whatever the number of others between them. Two clicks and
a cancel are what one request can be raced by. The audit is asked about four calls in a row,
enough for a notice to be seen, taken over, deleted and changed again; that calls end is asked of
two that overlap as well, one of which waits for the other's turn. The 20 requests of `AuditQueue`
exceed its state space: only the counter grows.

**Symmetry.** Only `operations` uses it: runs, clicks, texts and receivers differ by nothing
but their names, no definition orders or chooses among them beyond that, and the run
checks no liveness property.

**Fairness.** Specifications used for liveness assume weak fairness only of steps the
runtime takes by itself: due timers fire and settled promises continue, database, Redis and
browser calls return (all have timeouts or are local), stages of a pipeline end because
their waits have timeouts, tasks holding a lease end, the timers of the batch service fire
(`Delivery`: the receivers need not answer), an audit and an integrity scan end, a cron that
fires for ever fires (`CrawlStart`, `CronSeeds`, the rescan of the cron). Nothing is assumed of
callers, failures or restarts. `DbMirror` and `AdminAnnouncement` have no fairness and no
liveness property: their calls to file.kiwi and Discord have no timeout of their own.
In `ApplyQueue` fairness is per worker run, and for the staging phase and the timers as a
whole; the gate of the bootstrap is fair as well, since `safeRun` catches what a phase throws and
the pipeline goes on to `waitForAsyncApplyIdle` (`archive-sync.service.ts:298-317`). `QueueDrains`
there excuses a queue whose retries were given up, after a failed Redis command, or abandoned by a
staging of the cron. `QueueTended` and `FullSyncTasksApplied` make the same exceptions, because the
code takes a failed read for an empty queue and because nobody calls the worker then (section 5).
In `PendingBills` crawls and backfills begin at will, but a bounded number of times: a task that
runs keeps the drain's cron out (`SchedulerIdle`), and crawls that never stop would keep it out for
ever. What a quiet run has begun it ends (`QuietCapture`).

`CHECK_DEADLOCK FALSE` is set throughout: with the calls, payloads or jobs of an instance
used up the system has nothing left to do.

## 4. Proofs

| Theorem | Module | Property |
|---|---|---|
| `ChainsAreLinked`, `TypeCorrect`, `TurnsAreTaken`, `HistoryIsKept`, `ReturnsAreRecorded` | `ChangeChain_proofs` | `ChainLinked`, `TypeOK`, `AppendsTakeTurns`, `History`, `ReturnedIsRecorded` |
| `TypeCorrect`, `SlotsAreSound`, `ShutdownStopsLeases`, `BrowsersAreOwned` (and `OwnersAreExclusive`) | `BrowserLease_proofs` | `TypeOK`, `SlotsSound`, `NoLeaseAfterShutdown`, `BrowsersOwned` |
| `PhasesAreExclusive` | `ArchiveSync_proofs` | `PhasesExclude` |
| `TypeCorrect`, `QueueIsTended`, `TasksLeaveWhenArchived` | `ApplyQueue_proofs` | `TypeOK`, `QueueTended`, `FullSyncTasksApplied` |
| `VerdictsAreHonest` | `ArchiveSync_proofs` | `VerdictsHonest` |
| `TypeCorrect`, `NoticesAreTold`, `SummariesAreDurable`, `MergesLoseNothing` | `CrawlCycle_proofs` | `TypeOK`, `OnceForAReason`, `DurableFirst`, `WritesOnlyLoseByOverlap` |
| `PayloadsAreCovered`, `BatchesAreCollected`, `ImplementsOutbox` | `Services_proofs` | `FlushCovered`, `CollectedTogether`, `OutboxSpec` |
| `ReceiversHearOnce`, `RowsAreTrue` (and `DeliveryTypeCorrect`) | `Services_proofs` | `DeliveredTwiceForAReason`, `RowsFollowReceivers` |
| `ScreenshotsAreCovered` (and `ScreenshotTypeCorrect`, `ScreenshotQueueIsBounded`) | `Services_proofs` | `ScreenshotsCovered` |
| `BillsAreTended` (and `BillTypeCorrect`, `RetryQueueIsBounded`) | `Services_proofs` | `BillsTended` |
| `UploadsAreComplete`, `DumpsAreRemoved`, `ChannelIsTrue` | `Operations_proofs` | `UploadsComplete`, `DumpsRemoved`, `ChannelTellsLatest` |
| `AnnouncementsAreSound` (and `AnnounceTypeCorrect`) | `Operations_proofs` | `AnnouncementsSound` |
| `AuditsAreSound` (and `AuditsAreOwed`) | `ChainAudit_proofs` | `AuditsSound` |
| `CallsAreConsistent` (and `SerialCallsAgree`) | `ChainAudit_proofs` | `CallsConsistent` |
| `SyncTypeCorrect`, `ServicesTypeCorrect`, `OperationsTypeCorrect` | `ArchiveSync_proofs`, `Services_proofs`, `Operations_proofs` | `SyncTypeOK`, `ServicesTypeOK`, `OperationsTypeOK` |

Each holds for every value of the constants that satisfies the named assumption of the
module: any number of writers, notices, payloads, jobs, cron firings, worker runs, rows,
mirror runs, chunks, receivers and clicks, any size of a list or cache, and any bound on faults
and crashes. The assumptions only give the constants their types (finiteness where the code
counts, a positive limit where it has one, receivers that are either webhooks or subscriptions,
at least one request); TLC evaluates each in a run. Two results have hypotheses of their own:

- `BrowsersAreOwned` assumes `~PsMayFail`, that the process list can be read.
- `CallsAreConsistent` and `SerialCallsAgree` assume `Flawless` (no failing database call, no crash:
  what both do to a chain is in section 5), `OwnIdentities` (no identity is reported for two
  notices, so that nothing is renumbered: a renumbered chain begins with `updated`, which the audit
  flags) and `NullIsNothing` (null is neither a snapshot nor a value of isDone). All three hold in
  the run. Overlapping calls violate the property, so the first is about the behaviours of one
  writer and the second about any number of writers of which one at a time is in a call
  (`OneAtATime`).

**Along which argument.**

- *Chains are linked.* `ChainLinked` alone is not inductive: a transaction links its event to
  a head it read earlier. The invariant adds `LinkRead`: what `txRead` found is still *in*
  the chain, if no longer its head. Then either the head did not move and the new event
  links to it, or its height is taken and the unique index refuses the commit. The append
  queue is not used: the theorem also covers drivers without it.
- *Appends take turns, once.* `Turns` says who is inside an append stands in the promise queue and
  its head is the only one that works; `Once` that an append which has committed finds its
  hash in the chain for good, so that a retry is refused by the unique index
  (`HashStaysTaken`). `DataInv` types what a suspended writer will append. `History` and
  `ReturnedIsRecorded` are action properties: each writer's step is classified as staying outside
  an append, entering one, or holding the turn (`Outside`, `Enters`, `Turn`), and a chain changes
  in the third kind only, by the commit of a sound event (`Committable`, `Commit`).
- *Notification queue.* The promises hang on each other: the timer is exclusive, the depth
  counts the open collections, and a non-empty queue outside a collection has a timer or a
  flush. `BatchInFlight` (a batch exists only during a flush) makes the conjunction
  inductive. The refinement has one lemma per kind of step: accepting, flushing (a stutter),
  settling (`Deliver`).
- *Leases.* `SlotsSound` counts: free slots are matched by woken waiters. It needs that the
  wait queue holds a job once (`QueueInjective`) and that it stays empty after the shutdown
  began (`QueueClosed`).
- *Browsers.* `Ownership`: a lease owns its own browser and those of jobs that are done; the
  adoption of strays keeps it because it only happens while one job is registered
  (`AdoptedIsDone`). It needs nothing of the process list and gives `OwnersAreExclusive`.
  `Tracking` follows a browser from the observation to the shutdown's list, and needs the list.
- *Phases.* A tracker is a plain flag; what makes it a lock is `TrackerHeld`, that a set flag
  has exactly one call inside its phase. `IsDoneFirst` says an isDone handler is inside its
  only stage from the tick that evaluated its guard.
- *Apply queue.* The flag is cleared while a run still awaits its last read, so the property does
  not follow from the flag. `IInv` says: while the phase stages, the worker is yet to be called;
  once the phase awaits the worker or is over, somebody covers the queue (a run, a retry timer, or
  an ending run whose last read returned the tasks), or nobody does and the history says so
  (`abandoned`). A staging that fails in the bootstrap is followed by the gate, which calls the
  worker. For `FullSyncTasksApplied` two more: `Staged` (the full-sync phase stages only while no
  worker can run) and `Removes` (a run about to write the queue back holds what is stored, and
  archived what it takes off).
- *Crawl cycle.* Every copy of the list of recent notices is part of the invariant: the entry in
  Redis, the snapshot, the lists the tasks hold and the writes on the wire. `Lasting` says of each
  that it holds only notices somebody has seen or will see to, and only persisted summaries; the
  crawl's own copies may hold what it found new as well. `Merged`: a write is a merge with the
  list it was made from. `RepeatInv`: nobody has a notice in hand that was announced, unless for
  a named reason. Lemmas about `Merge` say what the cut to the newest entries keeps. Attempting the
  proof showed that a failed write has to excuse the notices of the list it carried also when a
  second failure follows; the model's `WriteFails` and the bounds of its run were corrected.
- *Delivery.* `OneByOne` and `FirstAttempt`: until an attempt times out one attempt of a job is
  under way, and whom it has told is not on its list. `Decided`: who is about to be switched off,
  or saved as it was read, was rejected or read then, unless a late decision came between. Three
  attempts of one job may save the same subscription: the proof failed on that, TLC showed it
  with a fifth mailing, and the exception of the property (`late`) now covers it.
- *Screenshots.* `Handed`/`Hands`: an item of the batch the loop is done with is stored, dropped
  or to be queued again. `Sizes`: while a batch is in hand the list and its copy keep to the
  capacity, so that what is queued again exceeds it by a batch at most.
- *Bills.* `CopyKept` is the heart: while a drain works, what it has read is in the list still,
  unless a write overlapped, and what it took off its copy is announced, about to be announced or
  never had a reason; so its write at the end loses nobody. `RowsFit` and `HandsFit` relate the
  rows to the pages and to what each actor has in hand (nobody enqueues or announces a bill that
  is not archived), `DrainFits` the drain's own lists to each other. `Once` says, for a bill there
  is no reason to tell again: whoever found it finds it new, who is about to announce it is the
  first, and what is still listed was not announced with its reason. A quiet run that records a
  reason either meets a drain that waits for the bill, and will announce it, or puts it into
  `unsaid` (`SilentOnes`). `Heard` follows a request
  through the passes, `Capacity` the sizes of the list and of every copy of it.
- *Announcements.* `OneDispatch`: but for requests two clicks overlapped on, one click at most deals
  with a request, and who has heard is not on its list. `Drafted` and `Asked` say what was confirmed
  when; `RequestsGoOn` is the step relation that keeps them, shared by all actions.
- *Verdicts.* Everybody writes a verdict read an await earlier, so the copies are part of the
  invariant: `Captured` (a page was written once), `Founded` (a verdict on a page means there
  is one, a mismatch stays one), `Streaks` (streaks count failed checks, in the copies too),
  `Behind` (what the scan read is not ahead of what is stored) and `Counted` (a failed check
  was counted before its verdict is written).
- *Mirror.* `Held`: the dump of a run in work is on the disk, nobody else's, and pruned once
  the run is past the prune. `Tended`: every file is held or was left behind. `Verified`: a run
  about to announce its link has a public upload and every chunk. `Linked`: what is announced
  belongs to a run that uploads no more. `Chunked`: chunks stored and still to send make up the
  dump, once each; it starts from the lemma `ChunkOrderIsPermutation`, proved for every total.
- *Channel.* `AloneThere`: a run counts as undisturbed only while it is the one run in the
  channel. `Aware`: such a run knows what the channel shows of the kind it looks for, minus what it
  has edited or deleted itself, down to where its search ended; what it missed is older than what it
  saw (`Reached`), so that the message it edits or sends is the newest, and everything beside it is
  either on its list or buried (`Outlives`). `IdsTell` (an id names one message and a new one is
  larger) makes the deletion by id do no more than that; `BoundedMax`, that the newest message seen
  exists, comes by well-founded minimality.
- *Audits.* The queue holds a scope once (`ScopesOnce`), hence never more than there are scopes;
  `OwedIsQueued`: whose request was not served yet still has its scope in the queue, and
  `AuditsOneByOne` gives a non-empty queue a drainer.
- *Archive and chain.* `ArchiveConsistent` compares the end of a chain with columns written by other
  steps, and each event with a replay of the events before it, so the invariant `Serial` says what
  relates them between any two awaits. `Retold`: an event's hash was taken of what its predecessors
  tell (`RetoldStays`: whatever is appended later). `Loaded`: a row that was read holds nothing but
  null where the chain is silent, so that the diff baseline, the row overlaid with the chain, is
  what the chain says (`BaselineSays`). `Genuine`: the event an append carries was built on just
  that, so that its commit makes the chain say what the event says (`StoryBecomes`, `CommitTells`),
  and neither the duplicate check nor the unique indexes can swallow it and lose a change of isDone.
  `Owed` names the notices of which a call has written the column and not yet the event, or the
  event and not yet the column; of all others the two agree. TLC checked `Serial` first.
- *Side by side.* The runs that put components together check one type invariant for all of them;
  the three theorems about it follow from the components' own invariants, a step of one being a
  stutter of the others.

**Only model-checked.** Liveness (`ChainSettles`, `WaitersServed`, `SyncSettles`, `QueueDrains`,
`ListedIsSettled`, `ServicesSettle`): the proof system has no rules for fairness here. Every
invariant and every action property of a passing run is stated by a theorem.

## 5. Disagreements and observations

Shown by a run that ends in a counterexample:

| Run | Property | What happens |
|---|---|---|
| `audit_lifecycle` | `AuditClean` | a detail update after a deletion insists on the event type `updated`, the audit expects `invalidated` and reports a mismatch on an untampered chain |
| `bootstrap_skips` | `BootstrapRunsEveryPhase` | an isDone cron that fires between two bootstrap stages makes the pipeline skip a phase until the next start |
| `crawl_forgets` | `NothingForgotten` | `process-new-notices` is refused while an earlier one runs, but its notices are in the cache already: they are never announced, and archived by the next full sync at best |
| `manual_upload` | `ManualFailureReported` | a mirror run by command is not awaited: its failure is unhandled, shuts the process down, and the admin has read that it was triggered successfully |

Met while modelling, each a behaviour of the modules without a run of its own:

*Chains.*
- Two overlapping upserts diff against the same baseline, which is read before the append's
  turn; the audit then flags the second event of an untampered chain
  (`notice-archive.service.ts:3179`).
- A crash between the isDone rows and their events loses the events for good, since the next
  sync selects only rows that are not done (`notice-archive.service.ts:941`).
- A renumbered bill starts its new chain with `updated`, because the new number has no chain
  but the event is not `created` (`notice-archive.service.ts:778-809`); so does a notice
  whose process crashed before its first event.

*Notifications.* Payloads handed over are gone when the batch service throws
(`change-tracking.service.ts:991`). The flush that follows a deletion
(`archive-orchestrator.service.ts:978-998`) does nothing inside a collection or during a flush,
and the payload leaves later. Change notifications are suppressed, not postponed, while the
bootstrap runs.

*Sync.* The bootstrap and the integrity check may overlap with a crawl that starts later; only the
isDone cron is protected by the crawl's own guard. The staging scan does not see a stable database
as the comments at `archive-sync-phase-executors.ts:1381` and `:1476` say: a running worker or a
delayed retry changes rows while pages are read by offset; skipped rows are found by the next
scan. A page read that throws after earlier pages were enqueued ends the staging phase before its
worker is called (`:1387`, `:1449`, `:1476`): after the cron's staging the tasks wait for the next
staging or the next start, after the bootstrap's the gate finds them. A failed read of a queue
entry is taken for an empty queue, and the following write replaces the entry (`:186`, and
`cache.service.ts:389`). One full-sync notice that always fails keeps its batch at the head of the
queue until the retries are used up (`:423`). The pending-recompare queue has a worker and no
producer.

*Integrity.* After a fill a stale `skipped` verdict may be shown until the next scan, and a mark
or a seed may overwrite `passed` by a stale read ("Never downgrade",
`notice-archive-artifact-support.ts:67`). A unique conflict between a seed and the scan aborts the
scan. A row PAL has taken over without a page is never a target again and occupies the window
of the backfill, as do rows whose page is gone.

*Crawl cycle.* Overlapping updates of the cache can lose a summary there until the notice's
next update. A notice the full sync archives first is never announced. A notification goes
out although archiving failed. The start-up crawl caches summaries that were not persisted, by
design. `retryUnavailableSummaries…` returns only persisted notices, so summaries of the others
miss the cache.

*Bills.* Bills beyond the first window that never resolve starve later ones
(`notice-archive.service.ts:3439`); at capacity each cron announces queued bills again;
`retryCount` is never incremented; a request for a drain in the last moments of a run waits
for the next cron (`crawling-scheduler-proposal-retry.ts:132`). The re-compare of a crawl, its
sync-only task (`crawling-scheduler-pending-support.ts:400-449`), the backfill of artifacts
(`archive-orchestrator.service.ts:234`) and the sync at the start may be the ones that find a
bill's reason: they announce nothing, and `notice-archive-maintenance-support.ts:56-68` then takes
the row out of the candidates, so that subscribers who were told of the bill without a reason, or
not at all, never hear of it, unless it was in the retry queue already.

*Screenshots.* "Items are appended to the queue and will be processed automatically"
(`archive-orchestrator.service.ts:757-759`) fails for items an overlapping write replaces, and
after a crash until the next enqueue that adds something. The shutdown clears the list while
the loop may queue again.

*Delivery.* The memory flag of a failed webhook may outlive its deactivation, and a new
registration does not clear it: the webhook is then removed without a try. `markFailure` saves
a row it read earlier and may undo a withdrawal or a renewal. Web push gets no abort signal.
The cleanup deletes by ids it selected earlier. After a shutdown began, a batch in a retry
delay does not settle (`batch-processing.service.ts:426`).

*Mirror and announcements.* When the prune fails, `dump` is still null and the unpruned copy
stays on the disk (`db-mirror.service.ts:181`). An upload that hangs at the start keeps the
process from starting. A link or a failure that has sunk below the newest 300 messages of the
channel (`discord-bridge.service.ts:542`, `:597`) is neither edited nor deleted: the next link is a
second one, and a cleared failure stays. A second click on send, while the first is handled, sends the
announcement again, and a cancel is confirmed while a dispatch goes on
(`discord-bridge-admin-announcement-command.service.ts:234`, `:177`); `AnnouncementsSound` says that
this is all there is. A text submitted between a click and the read of the draft is sent
although the admin's click was on the older summary (`:230`).

## 6. Not modelled, and why

Message layout, HTML and PDF handling, search, export, statistics and logging change no state that
a property here is about. Crawling and text generation are external input. Migrations and
configuration appear as the unique indexes and the constants they define. Within modelled
components: the limit on concurrent batch jobs and the waiting times of the rate limiter (they
delay sends and do not reorder them), captcha and statistics of webhooks, the dry run of an
announcement, log forwarding, restored backups in the integrity check, the tracker status shown to
operators; the TTL of the screenshot list in Redis, which ends a list that nobody drained; push
subscriptions being sent to two at a time (`Delivery` sends to one after the other, each outcome
is still written beside other jobs and attempts); a `markSuccess` that fails after the push
arrived, in the same `try` (`web-push-notification.service.ts:280`): the delivery is then sent
again if the error looks like one of the network, and counted as a failure if not; a failing
`VACUUM INTO` that leaves a part of a file behind (`Copies` takes it to leave none); the detail
update of the artifact backfill as a third filler in `SnapshotIntegrity`, where `Fill` stands for
it as for the others; and the merge of sync-only bills into the cache of recent notices, one more
writer of the kind `CrawlCycle` has three of. Rows are assumed to be inserted in the order of
their numbers where a scan goes by id.

The shutdown of the process as a whole is not modelled: `src/src/main.ts:33` lets the framework
close cache, Discord client and database on a signal while `gracefulShutdown` (`:134`) still waits
for idle phases; what happens then depends on the framework. Each component's own shutdown is.

## 7. What is left

1. Composition in earnest: `ApplyQueue` under the trackers of `SyncPhases`, its worker
   implementing the abstract worker there; `CrawlCycle` over `ChangeNotifier` and `Delivery`;
   an abstract inbox from which each notice is taken once, up to the named reasons.
2. Audits under crashes and concurrent writers, once the code takes its baseline inside the
   append's turn.
