---------------------------- MODULE PendingBills ----------------------------
(***************************************************************************)
(* Bills of the NSM system: the crawl that finds them, the background task *)
(* process-pending-bills, and the retry queue for those whose page has no  *)
(* proposal reason yet (CrawlingSchedulerProposalRetry), with the cron     *)
(* that seeds and drains it; and the runs that archive bills or fill rows  *)
(* and tell nobody: the pending sync, the refresh of known bills, the      *)
(* sync-only bills of a crawl, the backfill of missing snapshots.          *)
(*                                                                         *)
(* The queue is one list in Redis.  enqueue reads it and writes it back    *)
(* one await later; a drain reads it, works for minutes and writes back    *)
(* what is left of its copy.  A step runs from one await to the next.      *)
(***************************************************************************)
EXTENDS Naturals, FiniteSets

CONSTANTS
  Bills,        \* bill numbers
  BillScopes    \* bounds: the bills there are, those listed at the start,
                \* the size of the list (PROPOSAL_REASON_RETRY_QUEUE.MAX_SIZE),
                \* the candidates a cron seeds, whether the sync at the start is
                \* still to run, whether bills are taken over or withdrawn, the
                \* bills a crawl may list with another status than pending, how
                \* often a crawl or a backfill begins and something fails

\* A row is missing its reason, has it, was taken over from PAL, or is closed.
Rows == {"none", "missing", "known", "moved", "deleted"}
Pages == {"unlisted", "empty", "reason", "gone"}
Callers == {"bills", "cron"}  \* process-pending-bills, the drain cron

\* refresh-existing-pending-bills, process-new-nsm-sync-only-bills, and
\* backfillMissingSnapshotArtifacts.
QuietRuns == {"refresh", "syncOnly", "artifacts"}

ASSUME BillAssumption ==
  /\ Bills \subseteq Nat /\ IsFiniteSet(Bills)
  /\ BillScopes \subseteq [bills : SUBSET Bills, listed : SUBSET Bills,
                           size : Nat \ {0}, window : Nat \ {0}, syncs : BOOLEAN, leave : BOOLEAN,
                           aside : SUBSET Bills, crawls : Nat, failures : Nat]

VARIABLES
  billScope,    \* the bounds of this behaviour
  page,         \* what the site shows of each bill
  billRow,      \* what the archive knows of it
  retryQueue,   \* the list in Redis
  sync,         \* the pending sync of the bootstrap: pc, and the bills it found new
  crawl,        \* the crawl: pc, the bills it found new, those it found new and
                \* not pending (aside), the pending ones that have a row (old),
                \* and how many crawls and backfills there were
  quiet,        \* of each quiet run, the bills it still has to capture
  caller,       \* who enqueues: pc, bills to come, copy of the list, and of the
                \* task the bills it archived with a reason
  drain,        \* activeRun: pc, rerunRequested, the list as read (base) and as it
                \* is now (list), bills to fetch, fetched, to be announced
  asked,        \* a drain was asked for during a run, or after its end (history)
  bare,         \* how often a bill was announced without a summary (history)
  full,         \* and with one (history)
  again,        \* bills there is a reason to announce again (history)
  excused,      \* bills that were dropped on a failure (history)
  unsaid,       \* bills whose reason a run that tells nobody recorded (history)
  failures

site == <<billScope, page>>
local == <<sync, crawl, quiet, caller, drain>>
toldVars == <<bare, full, again, excused, unsaid>>
billVars == <<site, billRow, retryQueue, local, asked, toldVars, failures>>

Idle == [pc |-> "idle", left |-> {}, base |-> {}, bill |-> 0, known |-> {}]
Reading == [pc |-> "read", rerun |-> FALSE, base |-> {}, list |-> {}, dirty |-> FALSE,
            left |-> {}, known |-> {}, tell |-> {}]

NoCrawl == [pc |-> "idle", found |-> {}, aside |-> {}, old |-> {}, count |-> 0]
Quiet == [r \in QuietRuns |-> {}]
Scanning == [pc |-> "scan", left |-> {}]
Synced == [pc |-> "done", left |-> {}]

\* The start of the process begins a sync and asks for a drain.
BillInit ==
  /\ billScope \in BillScopes
  /\ page = [b \in Bills |-> IF b \in billScope.listed THEN "empty" ELSE "unlisted"]
  /\ billRow = [b \in Bills |-> "none"]
  /\ retryQueue = {}
  /\ sync = (IF billScope.syncs THEN Scanning ELSE Synced) /\ crawl = NoCrawl /\ quiet = Quiet
  /\ caller = [c \in Callers |-> Idle]
  /\ drain = Reading /\ asked = "no"
  /\ bare = [b \in Bills |-> 0] /\ full = [b \in Bills |-> 0]
  /\ again = {} /\ excused = {} /\ unsaid = {} /\ failures = 0

Fails == failures < billScope.failures /\ failures' = failures + 1
FailsUnless(ok) == IF ok THEN UNCHANGED failures ELSE Fails

\* f with one more announcement for each of the bills; two are as good as many.
Told(f, bills) == [b \in Bills |-> IF b \in bills /\ f[b] < 2 THEN f[b] + 1 ELSE f[b]]

-----------------------------------------------------------------------------
(* The crawl: performPendingBillsCrawlInternal                             *)

Listed == {b \in billScope.bills : page[b] \in {"empty", "reason"}}

\* filterAlreadyArchivedNotices
NewBills == {b \in Listed : billRow[b] = "none"}

\* The bills a crawl has found new and nobody has archived since.
Finding == crawl.found \cup (IF caller["bills"].pc = "archive" THEN caller["bills"].left ELSE {})

\* The cron leaves the crawl out while a write-heavy phase such as the sync runs.
\* A bill is pending, or listed with another status (aside).  A crawl that fails
\* is repeated and has changed nothing.
CrawlFilters ==
  /\ sync.pc = "done" /\ crawl.pc = "idle" /\ Listed # {} /\ crawl.count < billScope.crawls
  /\ \E aside \in SUBSET (Listed \cap billScope.aside) :
       crawl' = [pc |-> "launch", found |-> NewBills \ aside, aside |-> NewBills \cap aside,
                 old |-> Listed \ (NewBills \cup aside), count |-> crawl.count + 1]
  /\ UNCHANGED <<site, billRow, retryQueue, sync, quiet, caller, drain, asked, toldVars, failures>>

\* runBackgroundTask forgets a request for a task that is running.
Launch(running, bills) == IF running # {} THEN running ELSE bills

\* More queries, then three tasks are started in one step: the known bills that PAL
\* has not taken over are captured again, those aside are archived, and the new
\* ones are processed.
CrawlLaunches ==
  /\ crawl.pc = "launch"
  /\ crawl' = [NoCrawl EXCEPT !.count = crawl.count]
  /\ quiet' = [quiet EXCEPT !["refresh"] = Launch(@, {b \in crawl.old : billRow[b] # "moved"}),
                            !["syncOnly"] = Launch(@, crawl.aside)]
  /\ caller' = IF caller["bills"].pc # "idle" \/ crawl.found = {} THEN caller
               ELSE [caller EXCEPT !["bills"] = [Idle EXCEPT !.pc = "archive",
                                                             !.left = crawl.found]]
  /\ UNCHANGED <<site, billRow, retryQueue, sync, drain, asked, toldVars, failures>>

-----------------------------------------------------------------------------
(* process-pending-bills                                                   *)

\* The row after an upsert or a detail update that has a reason or has not.
RowWith(row, hasReason) ==
  IF row \in {"none", "missing"}
  THEN IF hasReason THEN "known" ELSE "missing"
  ELSE row

\* archiveNsmBillItems, one bill.  A page that cannot be captured is archived
\* without a reason; a bill whose row cannot be written is skipped.  base
\* collects those without a reason.
BillArchive ==
  LET task == caller["bills"] IN
  /\ task.pc = "archive"
  /\ \E b \in task.left, captured, written \in BOOLEAN :
       LET hasReason == captured /\ page[b] = "reason" IN
       /\ FailsUnless(written /\ (captured \/ page[b] = "gone"))
       /\ billRow' = IF written THEN [billRow EXCEPT ![b] = RowWith(@, hasReason)] ELSE billRow
       /\ caller' = [caller EXCEPT !["bills"].left = @ \ {b},
                       !["bills"].known = IF written /\ hasReason THEN @ \cup {b} ELSE @,
                       !["bills"].base = IF written /\ ~hasReason THEN @ \cup {b} ELSE @]
       /\ again' = again \cup (crawl.found \cap {b})
  /\ UNCHANGED <<site, retryQueue, sync, crawl, quiet, drain, asked, bare, full, excused, unsaid>>

\* The bills without a reason are announced as they are, and will be enqueued.
BillSplit ==
  LET task == caller["bills"] IN
  /\ task.pc = "archive" /\ task.left = {}
  /\ bare' = Told(bare, task.base)
  /\ caller' = [caller EXCEPT !["bills"].pc = IF task.base = {} THEN "tell" ELSE "read",
                              !["bills"].left = task.base, !["bills"].base = {}]
  /\ UNCHANGED <<site, billRow, retryQueue, sync, crawl, quiet, drain, asked, full, again,
                 excused, unsaid, failures>>

\* The others are summarized; only those whose summary was persisted are
\* announced, and nobody comes back to the rest.
BillTell ==
  LET task == caller["bills"] IN
  /\ task.pc = "tell"
  /\ \E saved \in SUBSET task.known :
       /\ FailsUnless(saved = task.known)
       /\ full' = Told(full, saved)
       /\ excused' = excused \cup (task.known \ saved)
  /\ caller' = [caller EXCEPT !["bills"] = Idle]
  /\ UNCHANGED <<site, billRow, retryQueue, sync, crawl, quiet, drain, asked, bare, again, unsaid>>

-----------------------------------------------------------------------------
(* The pending sync: executePendingSyncPhase                               *)

\* The bills that are listed and not archived yet.  A page that cannot be
\* fetched ends the phase.
SyncScans ==
  /\ sync.pc = "scan"
  /\ \/ sync' = [pc |-> IF NewBills = {} THEN "done" ELSE "archive", left |-> NewBills]
        /\ UNCHANGED failures
     \/ Fails /\ sync' = Synced
  /\ UNCHANGED <<site, billRow, retryQueue, crawl, quiet, caller, drain, asked, toldVars>>

\* The bills of the list that a drain still announces once they have a reason.
Awaited == retryQueue \ (drain.base \ drain.list)

\* One bill is archived, or its row filled, and nobody is told.
Archived(b, captured, written) ==
  LET hasReason == captured /\ page[b] = "reason" IN
  /\ FailsUnless(written /\ (captured \/ page[b] = "gone"))
  /\ billRow' = IF written THEN [billRow EXCEPT ![b] = RowWith(@, hasReason)] ELSE billRow
  /\ again' = again \cup (Finding \cap {b})
  /\ unsaid' = IF written /\ hasReason /\ billRow[b] \in {"none", "missing"} /\ b \notin Awaited
               THEN unsaid \cup {b} ELSE unsaid

SyncArchives ==
  /\ sync.pc = "archive"
  /\ \E b \in sync.left, captured, written \in BOOLEAN :
       /\ Archived(b, captured, written)
       /\ sync' = [pc |-> IF sync.left = {b} THEN "done" ELSE "archive", left |-> sync.left \ {b}]
  /\ UNCHANGED <<site, retryQueue, crawl, quiet, caller, drain, asked, bare, full, excused>>

-----------------------------------------------------------------------------
(* The quiet runs                                                          *)

\* backfillMissingSnapshotArtifacts, after the sync and by cron, one at a time: rows
\* of bills whose page could not be captured before.
ArtifactsBegin ==
  /\ sync.pc = "done" /\ quiet["artifacts"] = {} /\ crawl.count < billScope.crawls
  /\ \E bills \in SUBSET {b \in Bills : billRow[b] = "missing"} \ {{}} :
       quiet' = [quiet EXCEPT !["artifacts"] = bills]
  /\ crawl' = [crawl EXCEPT !.count = @ + 1]
  /\ UNCHANGED <<site, billRow, retryQueue, sync, caller, drain, asked, toldVars, failures>>

QuietCapture ==
  /\ \E r \in QuietRuns : \E b \in quiet[r], captured, written \in BOOLEAN :
       /\ Archived(b, captured, written)
       /\ quiet' = [quiet EXCEPT ![r] = @ \ {b}]
  /\ UNCHANGED <<site, retryQueue, sync, crawl, caller, drain, asked, bare, full, excused>>

-----------------------------------------------------------------------------
(* enqueue                                                                 *)

AtCapacity(list) == Cardinality(list) >= billScope.size

\* The next bill, and the list as it is now; a failed read is an empty list.
\* A full list sends a fallback announcement, even for a bill that is in it.
EnqueueRead(c) ==
  /\ caller[c].pc = "read"
  /\ \E b \in caller[c].left, ok \in BOOLEAN :
       LET list == IF ok THEN retryQueue ELSE {}
           dropped == AtCapacity(list)
       IN /\ FailsUnless(ok)
          /\ bare' = IF dropped THEN Told(bare, {b}) ELSE bare
          /\ again' = IF dropped THEN again \cup {b} ELSE again
          /\ caller' = IF dropped \/ b \in list
                       THEN [caller EXCEPT ![c].left = @ \ {b}]
                       ELSE [caller EXCEPT ![c].pc = "write", ![c].bill = b, ![c].base = list]
  /\ UNCHANGED <<site, billRow, retryQueue, sync, crawl, quiet, drain, asked, full, excused, unsaid>>

\* The list is replaced by the copy with the bill.  Entries added meanwhile are
\* lost, entries removed meanwhile come back.
EnqueueWrite(c) ==
  LET b == caller[c].bill  list == caller[c].base \cup {b} IN
  /\ caller[c].pc = "write"
  /\ \/ /\ retryQueue' = list /\ UNCHANGED failures
        /\ excused' = excused \cup (retryQueue \ list)
        /\ again' = again \cup (caller[c].base \ retryQueue)
                          \cup (IF billRow[b] = "missing" THEN {} ELSE {b})
     \/ Fails /\ UNCHANGED <<retryQueue, again, excused>>
  /\ caller' = [caller EXCEPT ![c].pc = "read", ![c].left = @ \ {b}, ![c].bill = 0, ![c].base = {}]
  /\ UNCHANGED <<site, billRow, sync, crawl, quiet, drain, asked, bare, full, unsaid>>

-----------------------------------------------------------------------------
(* runDrainOnceOrJoin, drainLoop                                           *)

\* Mutant of RequestDrain: only a run under way is joined.
JoinOnly ==
  /\ drain' = IF drain.pc = "off" THEN drain ELSE [drain EXCEPT !.rerun = TRUE]
  /\ UNCHANGED asked

\* Starts a run, or joins the one there is and asks for another pass.  A run
\* that is over but still set as activeRun does not hear it.
RequestDrain ==
  IF drain.pc = "off"
  THEN drain' = Reading /\ asked' = "no"
  ELSE /\ drain' = [drain EXCEPT !.rerun = TRUE]
       /\ asked' = IF drain.pc = "ended" THEN "late" ELSE "during"

\* All are enqueued: the task asks for a drain and goes on, the cron waits for it.
EnqueueDone(c) ==
  /\ caller[c].pc = "read" /\ caller[c].left = {}
  /\ RequestDrain
  /\ caller' = [caller EXCEPT ![c].pc = IF c = "bills" THEN "tell" ELSE "idle"]
  /\ UNCHANGED <<site, billRow, retryQueue, sync, crawl, quiet, toldVars, failures>>

\* Mutant of AfterPass: nobody looks at rerunRequested.
EndAfterPass(run) == [Reading EXCEPT !.pc = "ended"]

\* The end of a pass: another one, or the end of the run.
AfterPass(run) ==
  IF run.rerun THEN Reading ELSE [Reading EXCEPT !.pc = "ended"]

\* The finally block clears activeRun.
DrainReset ==
  /\ drain.pc = "ended"
  /\ drain' = [Reading EXCEPT !.pc = "off"]
  /\ UNCHANGED <<site, billRow, retryQueue, sync, crawl, quiet, caller, asked, toldVars, failures>>

-----------------------------------------------------------------------------
(* drainQueue                                                              *)

DrainRead ==
  /\ drain.pc = "read"
  /\ asked' = "no"
  /\ \E ok \in BOOLEAN :
       LET list == IF ok THEN retryQueue ELSE {} IN
       /\ FailsUnless(ok)
       /\ drain' = IF list = {} THEN AfterPass(drain)
                   ELSE [drain EXCEPT !.pc = "check", !.base = list, !.list = list]
  /\ UNCHANGED <<site, billRow, retryQueue, sync, crawl, quiet, caller, toldVars>>

\* A pass that throws ends the run, whatever was asked for.
DrainThrows ==
  /\ drain.pc = "check" /\ Fails
  /\ drain' = [Reading EXCEPT !.pc = "ended"] /\ asked' = "no"
  /\ UNCHANGED <<site, billRow, retryQueue, sync, crawl, quiet, caller, toldVars>>

\* getArchivedNullContentIdNums, getSourceDeletedNoticeNumSet
StillNsm(list) == {b \in list : billRow[b] # "moved"}
NotDeleted(list) == {b \in list : billRow[b] # "deleted"}

\* The copy without the bills that PAL has taken over; then without those
\* that were deleted, and without those too old, which are announced as they are.
DrainCheck ==
  /\ drain.pc = "check"
  /\ LET list == StillNsm(drain.list) IN
     drain' = [drain EXCEPT !.pc = "prune", !.list = list, !.dirty = list # drain.list]
  /\ UNCHANGED <<site, billRow, retryQueue, sync, crawl, quiet, caller, asked, toldVars, failures>>

DrainPrune ==
  /\ drain.pc = "prune"
  /\ LET active == NotDeleted(drain.list) IN
     \E old \in SUBSET active :
       LET list == active \ old  dirty == drain.dirty \/ list # drain.list IN
       /\ FailsUnless(old = {})
       /\ bare' = Told(bare, old) /\ again' = again \cup old /\ excused' = excused \cup old
       /\ drain' = IF list # {}
                   THEN [drain EXCEPT !.pc = "fetch", !.list = list, !.left = list, !.dirty = dirty]
                   ELSE IF dirty THEN [drain EXCEPT !.pc = "write", !.list = {}]
                   ELSE AfterPass(drain)
  /\ UNCHANGED <<site, billRow, retryQueue, sync, crawl, quiet, caller, asked, full, unsaid>>

\* fetchAndUpdateProposalReason: a bill whose page is gone is closed, unless the
\* page cannot be fetched or nothing confirms that it is gone.
FetchedRow(b, ok) ==
  IF ok /\ page[b] = "gone" THEN "deleted" ELSE RowWith(billRow[b], ok /\ page[b] = "reason")

\* The bills are fetched one by one; one that has no reason, is deleted or
\* cannot be fetched leaves the copy.
DrainFetch ==
  /\ drain.pc = "fetch"
  /\ \E b \in drain.left, ok \in BOOLEAN :
       LET hasReason == ok /\ page[b] = "reason" IN
       /\ FailsUnless(ok)
       /\ billRow' = [billRow EXCEPT ![b] = FetchedRow(b, ok)]
       /\ excused' = IF ok THEN excused ELSE excused \cup {b}
       /\ drain' = IF hasReason
                   THEN [drain EXCEPT !.left = @ \ {b}, !.known = @ \cup {b}]
                   ELSE [drain EXCEPT !.left = @ \ {b}, !.list = @ \ {b}, !.dirty = TRUE]
  /\ UNCHANGED <<site, retryQueue, sync, crawl, quiet, caller, asked, bare, full, again, unsaid>>

\* What stays in the copy once the summaries were persisted.
Unresolved(list, known, saved) == list \ saved

\* The summaries are persisted; those that are leave the copy.
DrainPersist ==
  /\ drain.pc = "fetch" /\ drain.left = {}
  /\ \E saved \in SUBSET drain.known :
       LET list == Unresolved(drain.list, drain.known, saved)
           dirty == drain.dirty \/ list # drain.list
       IN /\ FailsUnless(saved = drain.known)
          /\ drain' = IF dirty
                      THEN [drain EXCEPT !.pc = "write", !.list = list, !.dirty = dirty,
                                         !.known = {}, !.tell = saved]
                      ELSE AfterPass(drain)
  /\ UNCHANGED <<site, billRow, retryQueue, sync, crawl, quiet, caller, asked, toldVars>>

\* The copy replaces the list, with all that was added to it since it was read.
DrainWrite ==
  /\ drain.pc = "write"
  /\ \/ /\ retryQueue' = drain.list /\ UNCHANGED <<again, failures>>
        /\ excused' = excused \cup (retryQueue \ drain.base)
     \/ /\ Fails /\ again' = again \cup drain.tell
        /\ UNCHANGED <<retryQueue, excused>>
  /\ drain' = IF drain.tell = {} THEN AfterPass(drain) ELSE [drain EXCEPT !.pc = "tell"]
  /\ UNCHANGED <<site, billRow, sync, crawl, quiet, caller, asked, bare, full, unsaid>>

\* The cache is updated and the resolved bills are announced.
DrainTell ==
  /\ drain.pc = "tell"
  /\ full' = Told(full, drain.tell)
  /\ drain' = AfterPass(drain)
  /\ UNCHANGED <<site, billRow, retryQueue, sync, crawl, quiet, caller, asked, bare, again,
                 excused, unsaid, failures>>

-----------------------------------------------------------------------------
(* The drain cron                                                          *)

\* getNsmProposalReasonRetryCandidates: the first rows without a reason.
Candidates ==
  LET missing == {b \in Bills : billRow[b] = "missing"} IN
  {b \in missing : Cardinality({d \in missing : d < b}) < billScope.window}

\* shouldSkipProposalReasonBackfillCron: no phase and no background task runs.
SchedulerIdle ==
  /\ sync.pc = "done" /\ caller["bills"].pc = "idle" /\ crawl.pc = "idle"
  /\ quiet["refresh"] = {} /\ quiet["syncOnly"] = {}

\* handleProposalReasonBackfillCron
CronSeeds ==
  /\ SchedulerIdle /\ caller["cron"].pc = "idle"
  /\ caller' = [caller EXCEPT !["cron"].pc = "read", !["cron"].left = Candidates]
  /\ UNCHANGED <<site, billRow, retryQueue, sync, crawl, quiet, drain, asked, toldVars, failures>>

-----------------------------------------------------------------------------
(* What happens around it                                                  *)

\* A bill is listed, its page gets the reason or is withdrawn.
PageChanges ==
  /\ \E b \in billScope.bills :
       page' \in {[page EXCEPT ![b] = p] : p \in
                    CASE page[b] = "unlisted" -> {"empty", "reason"}
                      [] page[b] = "empty" -> {"reason"} \cup (IF billScope.leave THEN {"gone"} ELSE {})
                      [] OTHER -> {}}
  /\ UNCHANGED <<billScope, billRow, retryQueue, local, asked, toldVars, failures>>

\* upgradePendingNoticeByBillNumber: PAL publishes the bill.
PalTakesOver ==
  /\ billScope.leave
  /\ \E b \in Bills : billRow[b] \in {"missing", "known"} /\ billRow' = [billRow EXCEPT ![b] = "moved"]
  /\ UNCHANGED <<site, retryQueue, local, asked, toldVars, failures>>

\* The process stops and starts; the list stays.
BillRestart ==
  /\ Fails
  /\ sync' = Scanning /\ crawl' = [NoCrawl EXCEPT !.count = crawl.count] /\ quiet' = Quiet
  /\ caller' = [c \in Callers |-> Idle]
  /\ drain' = Reading /\ asked' = "no"
  /\ excused' = excused \cup caller["bills"].known
                        \cup (IF drain.pc = "tell" THEN drain.tell ELSE {})
  /\ UNCHANGED <<site, billRow, retryQueue, bare, full, again, unsaid>>

CallerStep(c) == EnqueueRead(c) \/ EnqueueWrite(c) \/ EnqueueDone(c)

SyncStep == SyncScans \/ SyncArchives

BillStep ==
  \/ BillArchive \/ BillSplit \/ BillTell \/ CallerStep("bills")

DrainStep ==
  \/ DrainRead \/ DrainCheck \/ DrainPrune \/ DrainFetch \/ DrainPersist \/ DrainWrite
  \/ DrainTell \/ DrainReset

BillNext ==
  \/ SyncStep \/ CrawlFilters \/ CrawlLaunches \/ ArtifactsBegin \/ QuietCapture
  \/ BillStep \/ DrainStep \/ DrainThrows \/ CronSeeds \/ CallerStep("cron")
  \/ PageChanges \/ PalTakesOver \/ BillRestart

BillSpec == BillInit /\ [][BillNext]_billVars

\* Calls return, and the cron fires for ever.
BillFairness ==
  /\ WF_billVars(SyncStep) /\ WF_billVars(CrawlLaunches) /\ WF_billVars(QuietCapture)
  /\ WF_billVars(BillStep) /\ WF_billVars(DrainStep)
  /\ WF_billVars(CronSeeds) /\ WF_billVars(CallerStep("cron"))
-----------------------------------------------------------------------------
(* Properties                                                              *)

\* Type invariant.
BillTypeOK ==
  /\ billScope \in BillScopes
  /\ page \in [Bills -> Pages] /\ billRow \in [Bills -> Rows]
  /\ retryQueue \subseteq Bills
  /\ sync \in [pc : {"scan", "archive", "done"}, left : SUBSET Bills]
  /\ crawl \in [pc : {"idle", "launch"}, found : SUBSET Bills, aside : SUBSET Bills,
                old : SUBSET Bills, count : 0 .. billScope.crawls]
  /\ quiet \in [QuietRuns -> SUBSET Bills]
  /\ caller \in [Callers -> [pc : {"idle", "archive", "read", "write", "tell"},
                             left : SUBSET Bills, base : SUBSET Bills,
                             bill : Bills \cup {0}, known : SUBSET Bills]]
  /\ \A c \in Callers : caller[c].pc = "idle" => caller[c] = Idle
  /\ drain \in [pc : {"off", "read", "check", "prune", "fetch", "write", "tell", "ended"},
                rerun : BOOLEAN, base : SUBSET Bills, list : SUBSET Bills, dirty : BOOLEAN,
                left : SUBSET Bills, known : SUBSET Bills, tell : SUBSET Bills]
  /\ asked \in {"no", "during", "late"}
  /\ bare \in [Bills -> 0 .. 2] /\ full \in [Bills -> 0 .. 2]
  /\ again \subseteq Bills /\ excused \subseteq Bills /\ unsaid \subseteq Bills
  /\ failures \in Nat /\ failures <= billScope.failures

\* The list never outgrows its capacity, though everyone who writes it writes
\* a copy that is minutes old.
RetryQueueBounded == Cardinality(retryQueue) <= billScope.size

\* A drain asked for while a pass is under way is followed by another pass: the
\* bills enqueued before it was asked for need not wait for the next cron.
DrainRequestsHeard == drain.pc \in {"ended", "off"} => asked # "during"

\* A bill whose reason the archive knows was announced with it, or is still on
\* the way; unless a run that tells nobody recorded it while no drain waited for
\* it, or a failure or a restart dropped it, or a write of the list that knew
\* nothing of it.
KnownIsAnnounced ==
  \A b \in Bills \ (excused \cup unsaid) : billRow[b] = "known" =>
    \/ full[b] > 0
    \/ b \in retryQueue \cup drain.known \cup drain.tell \cup caller["bills"].known

\* Nobody is told twice of a bill, unless a crawl's outdated look or a late
\* enqueue brought it back, its removal was not written, or the list was full.
ToldTwiceForAReason ==
  \A b \in Bills : bare[b] > 1 \/ full[b] > 1 => b \in again

\* A bill is announced with its reason once; if it is not, there is a reason.
BillsToldOnce == KnownIsAnnounced /\ ToldTwiceForAReason

\* Neither a request for a drain nor a bill that waits for its reason is lost.
BillsTended == DrainRequestsHeard /\ BillsToldOnce

\* The bills that belong to those a cron seeds and whose page shows the reason
\* get it in the end.
WindowServed == []<>(\A b \in Candidates : page[b] # "reason")
=============================================================================
