----------------------------- MODULE SyncPhases -----------------------------
(***************************************************************************)
(* The archive-sync phases, the bootstrap pipeline and the cron jobs that  *)
(* run them, and the crawls and background workers they must keep out of   *)
(* each other's way of.                                                    *)
(*                                                                         *)
(* A call is the bootstrap pipeline or one firing of a cron handler; it    *)
(* goes through the stages of its program.  A stage that is a phase claims *)
(* the phase's tracker, or is skipped.  A handler runs without interruption up to the first await of  *)
(* its first stage, so a cron guard and that stage's start are one action. *)
(* The initial state is the one after the modules' onModuleInit hooks.     *)
(***************************************************************************)
EXTENDS Naturals, Sequences, FiniteSets

CONSTANTS
  Calls,        \* firings of cron handlers under way at a time
  PalTasks,     \* background tasks a PAL crawl launches
  NsmTasks      \* background tasks a pending-bills crawl launches

ASSUME CallsAssumption == "bootstrap" \notin Calls

WriteHeavy == {"fullSync", "isDoneSync", "integrityCheck", "pendingSync", "legacyGenesisSeed"}
Phases == WriteHeavy \cup {"chainIntegrityAudit", "summaryBackfill"}

\* Phases that hand work to an apply worker of the same name.
ApplyWorkers == {"fullSync", "summaryBackfill"}

Callers == Calls \cup {"bootstrap"}

\* What each kind of call does, in order.
Program ==
  [bootstrap |-> <<"pendingSync", "waitPending", "legacyGenesisSeed", "fullSync", "waitFull",
                   "summaryBackfill", "waitSummary", "artifacts", "integrityCheck",
                   "chainIntegrityAudit", "isDoneSync">>,
   isDone    |-> <<"isDoneSync">>,
   integrity |-> <<"artifacts", "integrityCheck">>,
   backfill  |-> <<"retryDrain", "summaryBackfill">>,
   vacuum    |-> <<"vacuum">>]

CronKinds == {"isDone", "integrity", "backfill", "vacuum"}
Kinds == CronKinds \cup {"bootstrap"}

VARIABLES
  tracker,      \* isRunning of each phase's tracker
  call,         \* how far each call is
  initialized,  \* the recent cache is initialized
  crawl,        \* isProcessing: the fast path of a PAL crawl runs
  pending,      \* isPendingProcessing: the fast path of a pending-bills crawl runs
  background,   \* activeBackgroundTasks
  backlog,      \* apply queues that are not empty
  applying,     \* apply workers that run
  restarts      \* apply workers that will start again, at once or after a delay

scheduler == <<initialized, crawl, pending, background>>
apply == <<backlog, applying, restarts>>
vars == <<tracker, call, scheduler, apply>>

NoCall == [kind |-> "none", at |-> 0, inside |-> FALSE]

Init ==
  /\ tracker = [p \in Phases |-> p = "pendingSync"]
  /\ call = [c \in Callers |->
               IF c = "bootstrap" THEN [kind |-> "bootstrap", at |-> 1, inside |-> TRUE]
               ELSE NoCall]
  /\ initialized = FALSE
  /\ crawl = FALSE
  /\ pending = FALSE
  /\ background = {}
  /\ backlog \in SUBSET ApplyWorkers
  /\ applying = {}
  /\ restarts = {}

Active(c) == call[c].kind \in Kinds
Stage(c) == Program[call[c].kind][call[c].at]
Runs(c, p) == Active(c) /\ call[c].inside /\ Stage(c) = p

-----------------------------------------------------------------------------
(* Stages                                                                  *)

\* Mutant of Guards: the guard list leaves out the integrity check.
GuardsWithoutIntegrity(p) ==
  IF p = "chainIntegrityAudit" THEN Phases ELSE WriteHeavy \ {"integrityCheck"}

\* The entries runPhase looks at: every phase for the chain audit, the
\* write-heavy ones otherwise.
Guards(p) == IF p = "chainIntegrityAudit" THEN Phases ELSE WriteHeavy

\* runPhase returns null: the tracker is taken or the cross-phase guard bites.
Blocked(p) == tracker[p] \/ \E q \in Guards(p) : tracker[q]

\* The workers a wait of the bootstrap pipeline kicks and waits for.
Selected(stage) ==
  CASE stage = "waitFull" -> {"fullSync"}
    [] stage = "waitSummary" -> {"summaryBackfill"}
    [] OTHER -> {}

\* Mutant of Following: the end of the program is missed by one.
FollowingPastEnd(kind, k) ==
  IF k > Len(Program[kind]) THEN NoCall ELSE [kind |-> kind, at |-> k + 1, inside |-> FALSE]

\* The call after its stage k: at the next one, or over.
Following(kind, k) ==
  IF k = Len(Program[kind]) THEN NoCall ELSE [kind |-> kind, at |-> k + 1, inside |-> FALSE]

\* Call c comes to stage k of its program.
Enter(c, kind, k) ==
  LET stage == Program[kind][k] IN
  IF stage \in Phases /\ Blocked(stage)
  THEN /\ call' = [call EXCEPT ![c] = Following(kind, k)]
       /\ UNCHANGED <<tracker, applying>>
  ELSE /\ call' = [call EXCEPT ![c] = [kind |-> kind, at |-> k, inside |-> TRUE]]
       /\ tracker' = [p \in Phases |-> tracker[p] \/ p = stage]
       /\ applying' = applying \cup Selected(stage)

StageBegins(c) ==
  /\ Active(c)
  /\ ~call[c].inside
  /\ Enter(c, call[c].kind, call[c].at)
  /\ UNCHANGED <<scheduler, backlog, restarts>>

\* finally { tracker.isRunning = false }
Release(c) == [p \in Phases |-> tracker[p] /\ p # Stage(c)]

\* Mutant of StageEnds: a wait has no timeout.
StageEndsUntimed(c) ==
  /\ Active(c)
  /\ call[c].inside
  /\ Selected(Stage(c)) \cap (backlog \cup applying) = {}
  /\ tracker' = Release(c)
  /\ call' = [call EXCEPT ![c] = Following(call[c].kind, call[c].at)]
  /\ UNCHANGED <<scheduler, apply>>

\* The stage is over: done, failed and caught by safeRun or execute, or, for a
\* wait, timed out.
StageEnds(c) ==
  /\ Active(c)
  /\ call[c].inside
  /\ tracker' = Release(c)
  /\ call' = [call EXCEPT ![c] = Following(call[c].kind, call[c].at)]
  /\ UNCHANGED <<scheduler, apply>>

\* The drain throws out of the task it shares with the summary backfill.
BackfillThrows(c) ==
  /\ Runs(c, "retryDrain")
  /\ call' = [call EXCEPT ![c] = NoCall]
  /\ UNCHANGED <<tracker, scheduler, apply>>

\* A full sync or a summary backfill stages tasks and kicks its worker.
PhaseStages(c) ==
  \E k \in ApplyWorkers :
    /\ Runs(c, k)
    /\ backlog' \in {backlog, backlog \cup {k}}
    /\ applying' = applying \cup {k}
    /\ UNCHANGED <<tracker, call, scheduler, restarts>>

\* waitForAsyncApplyIdle kicks a worker that stopped with its queue not empty.
WaitKicks(c) ==
  /\ Active(c)
  /\ call[c].inside
  /\ LET selected == Selected(Stage(c)) IN
     /\ selected \cap backlog # {}
     /\ selected \cap applying = {}
     /\ applying' = applying \cup selected
  /\ UNCHANGED <<tracker, call, scheduler, backlog, restarts>>

\* An apply worker stops: its queue is drained, or tasks remain and it starts
\* again at once, after a delay, or, with its retries exhausted, not at all.
ApplyEnds(k) ==
  /\ k \in applying
  /\ applying' = applying \ {k}
  /\ \/ backlog' = backlog \ {k} /\ UNCHANGED restarts
     \/ k \in backlog /\ restarts' \in {restarts, restarts \cup {k}} /\ UNCHANGED backlog
  /\ UNCHANGED <<tracker, call, scheduler>>

ApplyRestarts(k) ==
  /\ k \in restarts
  /\ restarts' = restarts \ {k}
  /\ applying' = applying \cup {k}
  /\ UNCHANGED <<tracker, call, scheduler, backlog>>

-----------------------------------------------------------------------------
(* Cron handlers                                                           *)

\* isSchedulerBusy({ includeBackground: true })
Busy == crawl \/ pending \/ background # {}

\* getExecutionState().isWriteHeavyPhaseRunning counts the apply workers too.
WriteHeavyActivity == applying # {} \/ \E p \in WriteHeavy : tracker[p]

\* shouldSkipArchiveSyncCron, shouldSkipProposalReasonBackfillCron and
\* shouldSkipDatabaseMaintenanceCron, negated.
MayTrigger(kind) ==
  /\ ~Busy
  /\ kind \in {"backfill", "vacuum"} => ~WriteHeavyActivity

Trigger(c, kind) ==
  /\ ~Active(c)
  /\ MayTrigger(kind)
  /\ Enter(c, kind, 1)
  /\ UNCHANGED <<scheduler, backlog, restarts>>

\* initializeCacheInBackground ends.
CacheInitialized ==
  /\ ~initialized
  /\ initialized' = TRUE
  /\ UNCHANGED <<tracker, call, crawl, pending, background, apply>>

\* shouldSkipCrawlingCron, negated, and the handlers' own initialization check.
MayCrawl == initialized /\ ~WriteHeavyActivity

CrawlStarts ==
  /\ MayCrawl
  /\ ~crawl
  /\ crawl' = TRUE
  /\ UNCHANGED <<tracker, call, initialized, pending, background, apply>>

\* The crawl launches its background tasks, those that do not run yet, and
\* returns in the same tick; a crawl that fails launches none.
CrawlEnds ==
  /\ crawl
  /\ crawl' = FALSE
  /\ \E launched \in SUBSET PalTasks : background' = background \cup launched
  /\ UNCHANGED <<tracker, call, initialized, pending, apply>>

PendingStarts ==
  /\ MayCrawl
  /\ ~pending
  /\ pending' = TRUE
  /\ UNCHANGED <<tracker, call, initialized, crawl, background, apply>>

PendingEnds ==
  /\ pending
  /\ pending' = FALSE
  /\ \E launched \in SUBSET NsmTasks : background' = background \cup launched
  /\ UNCHANGED <<tracker, call, initialized, crawl, apply>>

TaskEnds(t) ==
  /\ t \in background
  /\ background' = background \ {t}
  /\ UNCHANGED <<tracker, call, initialized, crawl, pending, apply>>

Next ==
  \/ \E c \in Callers :
       StageBegins(c) \/ StageEnds(c) \/ BackfillThrows(c) \/ PhaseStages(c) \/ WaitKicks(c)
  \/ \E k \in ApplyWorkers : ApplyEnds(k) \/ ApplyRestarts(k)
  \/ \E c \in Calls, kind \in CronKinds : Trigger(c, kind)
  \/ CacheInitialized
  \/ CrawlStarts \/ CrawlEnds \/ PendingStarts \/ PendingEnds
  \/ \E t \in PalTasks \cup NsmTasks : TaskEnds(t)

Spec == Init /\ [][Next]_vars

\* Every stage ends: requests and waits have timeouts.
FairSpec ==
  Spec /\ \A c \in Callers : WF_vars(StageBegins(c)) /\ WF_vars(StageEnds(c))

-----------------------------------------------------------------------------
(* Properties                                                              *)

\* Type invariant.
TypeOK ==
  /\ tracker \in [Phases -> BOOLEAN]
  /\ call \in [Callers -> [kind : Kinds \cup {"none"}, at : Nat, inside : BOOLEAN]]
  /\ \A c \in Callers : Active(c) => call[c].at \in DOMAIN Program[call[c].kind]
  /\ initialized \in BOOLEAN
  /\ crawl \in BOOLEAN
  /\ pending \in BOOLEAN
  /\ background \subseteq PalTasks \cup NsmTasks
  /\ backlog \subseteq ApplyWorkers
  /\ applying \subseteq ApplyWorkers
  /\ restarts \subseteq ApplyWorkers

\* A tracker is set exactly while one call executes its phase, though two
\* entry points share the integrity check and calls are skipped and fail.
TrackerHeld ==
  \A p \in Phases :
    /\ tracker[p] <=> \E c \in Callers : Runs(c, p)
    /\ \A c, d \in Callers : Runs(c, p) /\ Runs(d, p) => c = d

\* Two write-heavy phases never execute at the same time, whichever of the
\* bootstrap pipeline and the cron handlers run them.
WriteHeavyExclusive ==
  \A c, d \in Callers : \A p, q \in WriteHeavy : Runs(c, p) /\ Runs(d, q) => p = q

\* An isDone sync started by cron never overlaps a crawl, nor the background
\* work of one: each looks at the other, in two services, before it starts.
CronSyncExcludesCrawl ==
  \A c \in Callers : call[c].kind = "isDone" /\ call[c].inside => ~Busy

\* Phases exclude each other and the crawl where they are meant to.
PhasesExclude == TrackerHeld /\ WriteHeavyExclusive /\ CronSyncExcludesCrawl

\* The bootstrap pipeline comes to its end (and lifts the suppression of
\* notifications), whatever the phases, the workers and the cron jobs do.
BootstrapCompletes == <>(call["bootstrap"] = NoCall)

\* No phase stays claimed for ever.
PhasesReleased == \A p \in Phases : []<>~tracker[p]

\* Whatever starts ends: the pipeline and every phase of it.
EveryPhaseEnds == BootstrapCompletes /\ PhasesReleased

\* "Phases execute sequentially on module init": the pipeline skips none.
BootstrapRunsEveryPhase ==
  [][Active("bootstrap") /\ call'["bootstrap"].at # call["bootstrap"].at
       /\ Stage("bootstrap") \in Phases
     => call["bootstrap"].inside]_vars
=============================================================================
