----------------------------- MODULE ApplyQueue -----------------------------
(***************************************************************************)
(* An asynchronous apply queue of the archive sync: a phase stages tasks   *)
(* in a cache entry, a worker applies them in batches, takes them off the  *)
(* entry and retries after a delay when a batch failed.                    *)
(*                                                                         *)
(* The entry is read and written as a whole, each time across an await, by *)
(* the staging phase and the worker alike.  A cache command takes effect   *)
(* when it is issued (one connection carries them in order); what it       *)
(* returns is used by the issuer's next step.                              *)
(*                                                                         *)
(* The full-sync and the summary queue share the skeleton; which of them   *)
(* the module describes is fixed by the initial state.                     *)
(***************************************************************************)
EXTENDS Naturals, Sequences, SequencesExt, FiniteSets

CONSTANTS
  Slots,        \* bound: worker runs that are under way at a time
  Count,        \* number of notices
  Archives,     \* the rows the process may find, for either kind of queue
  Scans,        \* the statuses the summary phase scans for, in order
  BatchSize,    \* fullSyncApplyBatchSize and summaryBackfillBatchSize
  PageUnit,     \* crawlerPageUnit
  MaxRetries,   \* MAX_ERROR_AUTO_RETRY_ATTEMPTS
  MaxTimers,    \* bound: retry timers told apart
  MaxStagings,  \* bound: cron-triggered stagings
  MaxFailures   \* bound: failing cache commands and restarts of the process

None == "none"
Notices == 1 .. Count

\* What a notice's row says: not archived, archived without PAL data, archived;
\* or the status of its AI summary.
FullStatuses == {"missing", "nsm", "pal"}
SummaryStatuses == {"not_requested", "not_supported", "unavailable", "ready"}
Statuses == FullStatuses \cup SummaryStatuses
Kinds == {"fullSync", "summaryBackfill"}

\* A task's key is made of the scan that staged it and its notice.
TaskOf(n, scan) == [num |-> n, scan |-> scan]
Tasks == [num : Notices, scan : Statuses]

AtMost(a, b) == IF a < b THEN a ELSE b

\* The elements of s that are not in keys, in order.
Without(s, keys) ==
  LET kept[i \in 0 .. Len(s)] ==
        IF i = 0 THEN <<>>
        ELSE IF s[i] \in keys THEN kept[i - 1] ELSE Append(kept[i - 1], s[i])
  IN kept[Len(s)]

\* The notices of a set by number.
InOrder(nums) == Without([n \in Notices |-> n], Notices \ nums)

ASSUME ApplyAssumption ==
  /\ Count \in Nat /\ {PageUnit, MaxRetries, MaxTimers} \subseteq Nat \ {0}
  /\ BatchSize \in [Kinds -> Nat \ {0}]
  /\ {MaxStagings, MaxFailures} \subseteq Nat
  /\ Scans \in Seq({"not_requested", "not_supported", "unavailable"}) /\ Scans # <<>>
  /\ Archives \in [Kinds -> SUBSET [Notices -> Statuses]]
  /\ None \notin Slots

VARIABLES
  kind,      \* "fullSync" or "summaryBackfill"
  cpu,       \* summaryBackfillCpuFriendlyMode
  status,    \* the rows
  stored,    \* the queue in the cache
  running,   \* isFullSyncApplyWorkerRunning, isSummaryBackfillApplyWorkerRunning
  retries,   \* fullSyncErrorRetryCount, summaryBackfillErrorRetryCount
  timers,    \* delayed retries pending
  gaveUp,    \* the last retry was refused and no worker started since (history)
  abandoned, \* a staging broke off with nobody else to see to the queue, and no
             \* worker started since (history)
  pc,        \* where each worker run is
  copy,      \* what its last read of the queue returned
  batch,     \* its batch
  done,      \* succeededKeys
  failed,    \* hadError
  stage,     \* where the staging phase is
  at,        \* which scan or page it is at, and its offset
  list,      \* the tasks it is about to stage
  view,      \* what its last read of the queue returned
  awaited,   \* the worker run it awaits
  boot,      \* how far the bootstrap pipeline is with this queue
  stagings, faults, crashes

mode == <<kind, cpu>>
history == <<gaveUp, abandoned>>
retry == <<retries, timers, history>>
runs == <<pc, copy, batch, done, failed>>
phase == <<stage, at, list, view, awaited, boot, stagings>>
vars == <<mode, status, stored, running, retry, runs, phase, faults, crashes>>

Init ==
  /\ kind \in Kinds
  /\ cpu \in IF kind = "fullSync" THEN {FALSE} ELSE BOOLEAN
  /\ status \in Archives[kind]
  /\ stored = <<>>
  /\ running = FALSE
  /\ retries = 0 /\ timers = 0 /\ gaveUp = FALSE /\ abandoned = FALSE
  /\ pc = [w \in Slots |-> "idle"]
  /\ copy = [w \in Slots |-> <<>>]
  /\ batch = [w \in Slots |-> <<>>]
  /\ done = [w \in Slots |-> {}]
  /\ failed = [w \in Slots |-> FALSE]
  /\ stage = "idle" /\ at = [scan |-> 1, skip |-> 0]
  /\ list = <<>> /\ view = <<>> /\ awaited = None
  /\ boot = "down"
  /\ stagings = 0 /\ faults = 0 /\ crashes = 0

-----------------------------------------------------------------------------
(* The cache                                                               *)

\* One more cache command fails.
Fault == faults + crashes < MaxFailures /\ faults' = faults + 1

\* readApplyQueue returns v: getObject answers a failing read with null, which
\* is taken for an empty queue.
Read(v) ==
  \/ v = stored /\ UNCHANGED faults
  \/ v = <<>> /\ Fault

-----------------------------------------------------------------------------
(* The worker: runFullSyncApplyWorker, runSummaryBackfillApplyWorker       *)

Goto(w, l) == pc' = [pc EXCEPT ![w] = l]

\* The flag is set before the first read is awaited.
Start(w) ==
  /\ running' = TRUE
  /\ gaveUp' = FALSE /\ abandoned' = FALSE
  /\ Goto(w, "loop")
  /\ \E v \in {stored, <<>>} : Read(v) /\ copy' = [copy EXCEPT ![w] = v]
  /\ batch' = [batch EXCEPT ![w] = <<>>]
  /\ done' = [done EXCEPT ![w] = {}]
  /\ failed' = [failed EXCEPT ![w] = FALSE]

\* A call of the worker returns at once when one is running.
Kick(w) ==
  IF running THEN UNCHANGED <<running, history, runs, faults>>
  ELSE pc[w] = "idle" /\ Start(w)

\* The finally block: the flag is cleared, then the queue is read once more.
Finish(w, hadError) ==
  /\ running' = FALSE
  /\ Goto(w, "final")
  /\ \E v \in {stored, <<>>} : Read(v) /\ copy' = [copy EXCEPT ![w] = v]
  /\ failed' = [failed EXCEPT ![w] = hadError]
  /\ batch' = [batch EXCEPT ![w] = <<>>]
  /\ done' = [done EXCEPT ![w] = {}]

TakeBatch(w) ==
  /\ pc[w] = "loop"
  /\ IF copy[w] = <<>>
     THEN Finish(w, FALSE)
     ELSE /\ Goto(w, "apply")
          /\ batch' = [batch EXCEPT ![w] =
                         SubSeq(copy[w], 1, AtMost(Len(copy[w]), BatchSize[kind]))]
          /\ UNCHANGED <<running, copy, done, failed, faults>>
  /\ UNCHANGED <<mode, status, stored, retry, phase, crashes>>

\* removeApplyTasksByKeys: the queue is read, ...
ReadForRemoval(w, keys) ==
  /\ done' = [done EXCEPT ![w] = keys]
  /\ Goto(w, "remove")
  /\ \E v \in {stored, <<>>} : Read(v) /\ copy' = [copy EXCEPT ![w] = v]
  /\ UNCHANGED <<running, batch, failed>>

\* Mutant of ApplyFull: a batch leaves the queue when part of it is archived.
ApplyFullPartially(w) ==
  LET tasks == Range(batch[w]) IN
  /\ pc[w] = "apply"
  /\ kind = "fullSync"
  /\ \E saved \in SUBSET {t.num : t \in tasks} :
       /\ status' = [n \in Notices |-> IF n \in saved THEN "pal" ELSE status[n]]
       /\ IF saved # {} THEN ReadForRemoval(w, tasks) ELSE Finish(w, TRUE)
  /\ UNCHANGED <<mode, stored, retry, phase, crashes>>

\* archiveNotices archives some of the batch; the batch is removed only whole.
ApplyFull(w) ==
  LET tasks == Range(batch[w])
      nums == {t.num : t \in tasks}
  IN
  /\ pc[w] = "apply"
  /\ kind = "fullSync"
  /\ \E saved \in SUBSET nums :
       /\ status' = [n \in Notices |-> IF n \in saved THEN "pal" ELSE status[n]]
       /\ IF saved = nums THEN ReadForRemoval(w, tasks) ELSE Finish(w, TRUE)
  /\ UNCHANGED <<mode, stored, retry, phase, crashes>>

\* What generating a summary leads to.
Generated == {"ready", "unavailable"} \cup (Range(Scans) \cap {"not_supported"})

\* A retry that throws is dropped with its row as it is.
Outcomes(t) == Generated \cup IF t.scan = "unavailable" THEN {"kept"} ELSE {}

\* The statuses generated for notice n that are to be persisted.
Updates(out, n) == {out[t] : t \in {u \in DOMAIN out : u.num = n /\ out[u] # "kept"}}

\* The batch's summaries are generated and their states upserted, but for the
\* notices of lost, whose rows cannot be written.
ApplySummary(w) ==
  LET tasks == Range(batch[w]) IN
  /\ pc[w] = "apply"
  /\ kind = "summaryBackfill"
  /\ \E out \in [tasks -> Generated \cup {"kept"}],
        lost \in SUBSET {t.num : t \in tasks} :
       LET keys == {t \in tasks : out[t] = "kept" \/ t.num \notin lost} IN
       /\ \A t \in tasks : out[t] \in Outcomes(t)
       /\ status' \in [Notices -> SummaryStatuses]
       /\ \A n \in Notices :
            status'[n] \in IF n \in lost \/ Updates(out, n) = {} THEN {status[n]}
                           ELSE Updates(out, n)
       /\ IF keys # {} THEN ReadForRemoval(w, keys)
          ELSE /\ Goto(w, "pause")
               /\ failed' = [failed EXCEPT ![w] = TRUE]
               /\ UNCHANGED <<running, copy, batch, done, faults>>
  /\ UNCHANGED <<mode, stored, retry, phase, crashes>>

\* ... and, an await later, written back without the keys.
RemoveTasks(w) ==
  /\ pc[w] = "remove"
  /\ \/ /\ stored' = Without(copy[w], done[w])
        /\ UNCHANGED <<failed, faults>>
     \/ /\ Fault
        /\ failed' = [failed EXCEPT ![w] = TRUE]
        /\ UNCHANGED stored
  /\ Goto(w, "pause")
  /\ UNCHANGED <<mode, status, running, retry, copy, batch, done, phase, crashes>>

\* After the batch: the loop goes on, or the worker ends on an error.
Resume(w) ==
  /\ pc[w] = "pause"
  /\ IF failed[w] THEN Finish(w, TRUE)
     ELSE /\ Goto(w, "loop")
          /\ \E v \in {stored, <<>>} : Read(v) /\ copy' = [copy EXCEPT ![w] = v]
          /\ batch' = [batch EXCEPT ![w] = <<>>]
          /\ done' = [done EXCEPT ![w] = {}]
          /\ UNCHANGED <<running, failed>>
  /\ UNCHANGED <<mode, status, stored, retry, phase, crashes>>

\* The run is over; whoever awaited it goes on.
EndRun(w) ==
  /\ Goto(w, "idle")
  /\ copy' = [copy EXCEPT ![w] = <<>>]
  /\ failed' = [failed EXCEPT ![w] = FALSE]
  /\ UNCHANGED <<running, batch, done, faults>>

\* The queue is empty at the end of the run.
Settled(w) ==
  /\ copy[w] = <<>>
  /\ retries' = 0
  /\ EndRun(w)
  /\ UNCHANGED <<timers, history>>

\* One more delayed retry; beyond the bound it is merged with another one.
OneMoreTimer == IF timers < MaxTimers THEN timers + 1 ELSE timers

\* Mutant of RetryLater: the attempts are not limited.
RetryAlways(w) ==
  /\ copy[w] # <<>> /\ failed[w]
  /\ retries' = retries + 1
  /\ timers' = OneMoreTimer
  /\ EndRun(w)
  /\ UNCHANGED history

\* Mutant of RetryLater: the attempts are not counted.
RetryUncounted(w) ==
  /\ copy[w] # <<>> /\ failed[w]
  /\ timers' = OneMoreTimer
  /\ EndRun(w)
  /\ UNCHANGED <<retries, history>>

\* After an error the worker is started again later, at most MaxRetries times
\* in a row.
RetryLater(w) ==
  /\ copy[w] # <<>> /\ failed[w]
  /\ IF retries >= MaxRetries
     THEN /\ retries' = MaxRetries + 1
          /\ gaveUp' = ~running
          /\ UNCHANGED <<timers, abandoned>>
     ELSE /\ retries' = retries + 1
          /\ timers' = OneMoreTimer
          /\ UNCHANGED history
  /\ EndRun(w)

\* Mutant of RunAgain: tasks that arrived while the run ended are left alone.
LeaveLateTasks(w) ==
  /\ copy[w] # <<>> /\ ~failed[w]
  /\ retries' = 0
  /\ EndRun(w)
  /\ UNCHANGED <<timers, history>>

\* Tasks arrived while the run ended: the worker is called again at once.
RunAgain(w) ==
  /\ copy[w] # <<>> /\ ~failed[w]
  /\ retries' = 0
  /\ IF running THEN EndRun(w) /\ UNCHANGED history ELSE Start(w)
  /\ UNCHANGED timers

Settle(w) ==
  /\ pc[w] = "final"
  /\ Settled(w) \/ RetryLater(w) \/ RunAgain(w)
  /\ awaited' = IF awaited = w THEN None ELSE awaited
  /\ UNCHANGED <<mode, status, stored, stage, at, list, view, boot, stagings, crashes>>

\* A delayed retry calls the worker.
TimerFires(w) ==
  /\ timers > 0
  /\ timers' = timers - 1
  /\ Kick(w)
  /\ UNCHANGED <<mode, status, stored, retries, phase, crashes>>

\* Somebody will look at the queue: a run, a delayed retry, or a run that ends
\* and has seen the tasks.
Attended ==
  \/ running \/ timers > 0
  \/ \E w \in Slots : pc[w] = "final" /\ copy[w] # <<>>

WorkerStep(w) ==
  TakeBatch(w) \/ ApplyFull(w) \/ ApplySummary(w) \/ RemoveTasks(w) \/ Resume(w) \/ Settle(w)

-----------------------------------------------------------------------------
(* The staging phase: executeFullSyncPhase, executeSummaryBackfillPhase    *)

\* The phase is over; the bootstrap pipeline goes on to the drain gate.
LeavePhase ==
  /\ stage' = "idle"
  /\ at' = [scan |-> 1, skip |-> 0]
  /\ list' = <<>> /\ view' = <<>>
  /\ boot' = IF boot = "staging" THEN "gate" ELSE boot

\* The phase starts; any pre-existing summary queue is drained first, unless a
\* worker runs.
BeginStaging(w) ==
  /\ stage = "idle"
  /\ IF kind = "fullSync"
     THEN stage' = "crawl" /\ UNCHANGED <<awaited, running, history, runs, faults>>
     ELSE stage' = "drain" /\ Kick(w) /\ awaited' = IF running THEN None ELSE w
  /\ UNCHANGED <<mode, status, stored, retries, timers, at, list, view, crashes>>

BootstrapStages(w) ==
  /\ boot = "down"
  /\ boot' = "staging"
  /\ BeginStaging(w)
  /\ UNCHANGED stagings

\* The proposal-reason cron runs the summary phase.
CronStages(w) ==
  /\ kind = "summaryBackfill"
  /\ stagings < MaxStagings
  /\ stagings' = stagings + 1
  /\ BeginStaging(w)
  /\ UNCHANGED boot

\* The bootstrap pipeline finds the phase already running and skips it.
SkipStaging ==
  /\ boot = "down"
  /\ stage # "idle"
  /\ boot' = "gate"
  /\ UNCHANGED <<mode, status, stored, running, retry, runs, stage, at, list, view, awaited,
                 stagings, faults, crashes>>

\* The notices of full-sync source page k that are new, or known without PAL data.
CrawlPage ==
  LET fresh == InOrder({n \in Notices : /\ n > at.skip /\ n <= at.skip + PageUnit
                                        /\ status[n] # "pal"})
  IN
  /\ stage = "crawl"
  /\ at.skip < Count
  /\ list' = list \o [i \in 1 .. Len(fresh) |-> TaskOf(fresh[i], status[fresh[i]])]
  /\ at' = [at EXCEPT !.skip = @ + PageUnit]
  /\ UNCHANGED <<mode, status, stored, running, retry, runs, stage, view, awaited, boot,
                 stagings, faults, crashes>>

\* enqueueUniqueApplyTasks reads the queue, ...
ReadToEnqueue ==
  /\ stage' = "enqueue"
  /\ \E v \in {stored, <<>>} : Read(v) /\ view' = v

CrawlEnds(w) ==
  /\ stage = "crawl"
  /\ at.skip >= Count
  /\ IF list = <<>>
     THEN LeavePhase /\ Kick(w)
     ELSE ReadToEnqueue /\ UNCHANGED <<at, list, boot, running, history, runs>>
  /\ UNCHANGED <<mode, status, stored, retries, timers, awaited, stagings, crashes>>

\* One page of the rows with the status of scan s, by offset.
RowsPage(s, skip) ==
  LET rows == InOrder({n \in Notices : status[n] = Scans[s]})
      page == SubSeq(rows, skip + 1, AtMost(Len(rows), skip + BatchSize[kind]))
  IN [i \in 1 .. Len(page) |-> TaskOf(page[i], Scans[s])]

ReadPage(s, skip) ==
  /\ stage' = "page"
  /\ at' = [scan |-> s, skip |-> skip]
  /\ list' = RowsPage(s, skip)
  /\ view' = <<>>
  /\ UNCHANGED <<awaited, boot, running, history, runs, faults>>

Drained ==
  /\ stage = "drain"
  /\ awaited = None
  /\ ReadPage(1, 0)
  /\ UNCHANGED <<mode, status, stored, retries, timers, stagings, crashes>>

\* The staging is complete: the worker is called, and awaited in CPU-friendly mode.
CallWorker(w) ==
  /\ Kick(w)
  /\ IF cpu /\ ~running
     THEN /\ stage' = "working" /\ awaited' = w
          /\ UNCHANGED <<at, list, view, boot>>
     ELSE LeavePhase /\ UNCHANGED awaited

\* The page is staged: on to the next one, the next scan or the worker.
NextPage(w) ==
  IF kind = "fullSync" \/ (Len(list) < BatchSize[kind] /\ at.scan = Len(Scans))
  THEN CallWorker(w)
  ELSE IF Len(list) < BatchSize[kind] THEN ReadPage(at.scan + 1, 0)
  ELSE ReadPage(at.scan, at.skip + BatchSize[kind])

PageRead(w) ==
  /\ stage = "page"
  /\ IF list = <<>> THEN NextPage(w)
     ELSE ReadToEnqueue /\ UNCHANGED <<at, list, awaited, boot, running, history, runs>>
  /\ UNCHANGED <<mode, status, stored, retries, timers, stagings, crashes>>

\* ... and writes it back with the tasks it does not hold; a failing write
\* ends the phase.
Enqueue(w) ==
  LET additions == Without(list, Range(view)) IN
  /\ stage = "enqueue"
  /\ \/ additions = <<>> /\ NextPage(w) /\ UNCHANGED stored
     \/ /\ additions # <<>>
        /\ stored' = view \o additions
        /\ stage' = "enqueued"
        /\ UNCHANGED <<at, list, view, awaited, boot, running, history, runs, faults>>
     \/ /\ additions # <<>>
        /\ Fault
        /\ LeavePhase
        /\ UNCHANGED <<stored, awaited, running, history, runs>>
  /\ UNCHANGED <<mode, status, retries, timers, stagings, crashes>>

Enqueued(w) ==
  /\ stage = "enqueued"
  /\ NextPage(w)
  /\ UNCHANGED <<mode, status, stored, retries, timers, stagings, crashes>>

WorkerReturned ==
  /\ stage = "working"
  /\ awaited = None
  /\ LeavePhase
  /\ UNCHANGED <<mode, status, stored, running, retry, runs, awaited, stagings, faults, crashes>>

\* A source page, a page of rows or another read of the phase throws: the phase
\* ends without its call of the worker, whatever it has staged so far.  After a
\* phase of the bootstrap pipeline the drain gate still calls it; after one of
\* the cron nobody does.
StagingFails ==
  /\ stage \in {"crawl", "page"}
  /\ LeavePhase
  /\ abandoned' = (stored # <<>> /\ ~Attended /\ boot' \notin {"down", "gate"})
  /\ UNCHANGED <<mode, status, stored, running, retries, timers, gaveUp, runs, awaited,
                 stagings, faults, crashes>>

\* waitForAsyncApplyIdle, run by the bootstrap pipeline after the phase: it
\* calls the worker, again whenever it finds tasks and no running worker, ...
GateKicks(w) ==
  /\ \/ boot = "gate" /\ boot' = "waiting"
     \/ boot = "waiting" /\ ~running /\ stored # <<>> /\ UNCHANGED boot
  /\ Kick(w)
  /\ UNCHANGED <<mode, status, stored, retries, timers, stage, at, list, view, awaited,
                 stagings, crashes>>

\* ... and returns when the queue is drained, or times out.
GateEnds ==
  /\ boot = "waiting"
  /\ boot' = "up"
  /\ UNCHANGED <<mode, status, stored, running, retry, runs, stage, at, list, view, awaited,
                 stagings, faults, crashes>>

\* The process restarts: the rows and the queue survive.
Restart ==
  /\ faults + crashes < MaxFailures
  /\ crashes' = crashes + 1
  /\ running' = FALSE
  /\ retries' = 0 /\ timers' = 0 /\ gaveUp' = FALSE /\ abandoned' = FALSE
  /\ pc' = [w \in Slots |-> "idle"]
  /\ copy' = [w \in Slots |-> <<>>]
  /\ batch' = [w \in Slots |-> <<>>]
  /\ done' = [w \in Slots |-> {}]
  /\ failed' = [w \in Slots |-> FALSE]
  /\ stage' = "idle" /\ at' = [scan |-> 1, skip |-> 0]
  /\ list' = <<>> /\ view' = <<>> /\ awaited' = None
  /\ boot' = "down"
  /\ UNCHANGED <<mode, status, stored, stagings, faults>>

StagingStep(w) ==
  \/ CrawlPage \/ CrawlEnds(w) \/ Drained \/ PageRead(w) \/ Enqueue(w) \/ Enqueued(w)
  \/ WorkerReturned \/ StagingFails \/ BootstrapStages(w) \/ SkipStaging

Next ==
  \/ \E w \in Slots :
       WorkerStep(w) \/ TimerFires(w) \/ CronStages(w) \/ StagingStep(w) \/ GateKicks(w)
  \/ GateEnds
  \/ Restart

Spec == Init /\ [][Next]_vars

\* Awaited cache commands, reads, writes and delays come to an end, timers fire,
\* the bootstrap pipeline reaches the phase and then the drain gate, and its wait
\* for the queue times out.
FairSpec ==
  /\ Spec
  /\ \A w \in Slots : WF_vars(WorkerStep(w))
  /\ WF_vars(\E w \in Slots : TimerFires(w))
  /\ WF_vars(\E w \in Slots : StagingStep(w))
  /\ WF_vars(\E w \in Slots : GateKicks(w))
  /\ WF_vars(GateEnds)

-----------------------------------------------------------------------------
(* Properties                                                              *)

Stages == {"idle", "drain", "crawl", "page", "enqueue", "enqueued", "working"}

TypeOK ==
  /\ kind \in Kinds /\ cpu \in BOOLEAN
  /\ status \in [Notices -> Statuses]
  /\ stored \in Seq(Tasks)
  /\ running \in BOOLEAN
  /\ retries \in 0 .. MaxRetries + 1 /\ timers \in 0 .. MaxTimers
  /\ gaveUp \in BOOLEAN /\ abandoned \in BOOLEAN
  /\ pc \in [Slots -> {"idle", "loop", "apply", "remove", "pause", "final"}]
  /\ copy \in [Slots -> Seq(Tasks)]
  /\ batch \in [Slots -> Seq(Tasks)]
  /\ done \in [Slots -> SUBSET Tasks]
  /\ failed \in [Slots -> BOOLEAN]
  /\ stage \in Stages
  /\ at \in [scan : 1 .. Len(Scans), skip : Nat]
  /\ list \in Seq(Tasks) /\ view \in Seq(Tasks)
  /\ awaited \in Slots \cup {None}
  /\ boot \in {"down", "staging", "gate", "waiting", "up"}
  /\ stagings \in 0 .. MaxStagings /\ faults \in 0 .. MaxFailures /\ crashes \in 0 .. MaxFailures

\* The runs that apply tasks.
Applying == {w \in Slots : pc[w] \in {"loop", "apply", "remove", "pause"}}

\* At most one run applies tasks, and the flag is set exactly then, although a
\* new run starts while older ones still await their last read.
OneWorker == \A v, w \in Slots : /\ v \in Applying => running
                                 /\ {v, w} \subseteq Applying => v = w

\* Tasks in the queue are never left without somebody to apply them, however the
\* staging, the end of a run and the retries interleave: a run or a retry will
\* look at the queue, the staging phase or the drain gate is about to call the
\* worker, the retries were given up, or a staging phase of the cron broke off on
\* a failing read while nobody else was at work. A failing cache command may
\* strand the queue.
NoStrandedTasks ==
  stored # <<>> /\ faults = 0 =>
    \/ Attended \/ gaveUp \/ abandoned
    \/ stage # "idle" \/ boot \in {"down", "gate"}

\* Somebody sees to the queue, and nobody else does at the same time.
QueueTended == OneWorker /\ NoStrandedTasks

\* A full-sync task leaves the queue only when its notice is archived with its
\* PAL data, whatever part of its batch failed and wherever the process restarted.
FullSyncTasksApplied ==
  [][\A t \in Range(stored) \ Range(stored') :
       kind = "fullSync" /\ faults' = 0 => status'[t.num] = "pal"]_vars

\* The queue drains again and again, although reads, batches and whole staging
\* phases fail, unless its retries were given up, a staging phase of the cron
\* broke off and nobody has called the worker since, or a cache command failed.
QueueDrains == []<>(stored = <<>> \/ gaveUp \/ abandoned \/ faults > 0)
=============================================================================
