------------------------------ MODULE Delivery ------------------------------
(***************************************************************************)
(* Delivery of notifications: the batch service with its timeouts and      *)
(* retries, the jobs that send to Discord webhooks and to web push         *)
(* subscriptions, and the rows of both, which registrations, the cleanup   *)
(* cron and the jobs themselves change.  A receiver is a row, known by its *)
(* id: who is deleted and registers again is another one.                  *)
(*                                                                         *)
(* A timeout aborts an attempt but does not end it: what is in flight goes *)
(* on beside the next attempt.  A step runs from one await to the next.    *)
(***************************************************************************)
EXTENDS Naturals, FiniteSets

CONSTANTS
  Hooks, Subs,      \* Discord webhooks, web push subscriptions
  Jobs,             \* notification jobs: one per notice, digest or group of changes
  DeliveryScopes    \* bounds: the rows at first, ids yet to be given, jobs, BATCH.RETRY_COUNT,
                    \* and how often somebody registers or leaves and how often a
                    \* database call fails or the process restarts

ASSUME DeliveryAssumption ==
  /\ IsFiniteSet(Hooks) /\ IsFiniteSet(Subs) /\ IsFiniteSet(Jobs)
  /\ Hooks \cap Subs = {}
  /\ DeliveryScopes \subseteq [hooks : SUBSET Hooks, subs : SUBSET Subs,
                               spare : SUBSET (Hooks \cup Subs), jobs : SUBSET Jobs,
                               retries : Nat, changes : Nat, faults : Nat]

States == {"absent", "active", "inactive"}    \* of a row

VARIABLES
  scope,        \* the bounds of this behaviour
  job,          \* each job: pc, number of the attempt, timer set, lists it was given
  att,          \* each attempt: pc, webhooks left, the one in hand, those to be removed,
                \* subscriptions left, copy of the row it read, aborted
  hook, push,   \* the rows
  flagged,      \* permanentlyFailedWebhooks
  doomed,       \* webhooks the cleanup has selected for deletion
  stage,        \* of the batch service: up, closing, closed
  sent,         \* how often a job reached a receiver, 2 for more than once (history)
  timedOut,     \* jobs one of whose attempts timed out (history)
  registered,   \* the rows there ever were: an id is not given twice
  rejected,     \* webhooks rejected for good since they were registered (history)
  off,          \* subscriptions withdrawn or reported gone since they were made (history)
  late,         \* receivers that were changed while an older decision about
                \* them was still to be carried out (history)
  changes, faults

rowVars == <<hook, push, flagged, doomed>>
pastVars == <<sent, timedOut, registered, rejected, off, late>>
deliveryVars == <<scope, job, att, rowVars, stage, pastVars, changes, faults>>

Waiting == [pc |-> "idle", attempt |-> 0, timer |-> FALSE, hooks |-> {}, subs |-> {}]
None == [pc |-> "none", left |-> {}, cur |-> "none", perm |-> {}, subs |-> {},
         copy |-> "absent", aborted |-> FALSE]
Attempts == {<<j, k>> : j \in Jobs, k \in UNION {1 .. 1 + s.retries : s \in DeliveryScopes}}

DeliveryInit ==
  /\ scope \in DeliveryScopes
  /\ job = [j \in Jobs |-> Waiting] /\ att = [a \in Attempts |-> None]
  /\ hook = [h \in Hooks |-> IF h \in scope.hooks THEN "active" ELSE "absent"]
  /\ push = [s \in Subs |-> IF s \in scope.subs THEN "active" ELSE "absent"]
  /\ flagged = {} /\ doomed = {} /\ stage = "up"
  /\ sent = [j \in Jobs |-> [r \in Hooks \cup Subs |-> 0]]
  /\ timedOut = {} /\ registered = scope.hooks \cup scope.subs /\ rejected = {} /\ off = {} /\ late = {}
  /\ changes = 0 /\ faults = 0

Fault == faults < scope.faults /\ faults' = faults + 1
Change == changes < scope.changes /\ changes' = changes + 1

\* The attempts that still have to carry out a decision about a receiver.
Holding(r) ==
  {a \in Attempts : r \in att[a].perm \/ (att[a].cur = r /\ att[a].pc = "mark")}

Sent(j, r) == [sent EXCEPT ![j][r] = IF @ < 2 THEN @ + 1 ELSE @]

-----------------------------------------------------------------------------
(* executeBatch, executeJobWithRetry                                       *)

\* runJobWithTimeout, the k-th time: a new attempt with the lists of the batch.
Running(j, k) ==
  /\ job' = [job EXCEPT ![j].pc = "running", ![j].attempt = k, ![j].timer = TRUE]
  /\ att' = [att EXCEPT ![<<j, k>>] = [None EXCEPT !.pc = "hooks", !.left = job'[j].hooks,
                                                   !.subs = job'[j].subs]]

\* executeBatch refuses jobs after the shutdown began.
Accepting == stage = "up"

\* findAll, findAllActive
ActiveHooks == {h \in Hooks : hook[h] = "active"}
ActiveSubs == {s \in Subs : push[s] = "active"}

\* The jobs of a batch: one for new notices, one for each of up to three groups of
\* changes (periods that ended, bills that moved to PAL, all others).
JobsOfBatch == {js \in SUBSET {j \in scope.jobs : job[j].pc = "idle"} : Cardinality(js) \in 1 .. 3}

\* The active rows are read, and the jobs run at once; without the webhooks there
\* is no job, without the subscriptions only half of one.
StartBatch ==
  /\ Accepting
  /\ \E js \in JobsOfBatch, subs \in {ActiveSubs, {}} :
       LET hooks == ActiveHooks IN
       /\ IF subs = ActiveSubs THEN UNCHANGED faults ELSE Fault
       /\ job' = [j \in Jobs |-> IF j \in js
                                 THEN [pc |-> "running", attempt |-> 1, timer |-> TRUE,
                                       hooks |-> hooks, subs |-> subs]
                                 ELSE job[j]]
       /\ att' = [a \in Attempts |->
                    IF a[1] \in js /\ a[2] = 1
                    THEN [None EXCEPT !.pc = "hooks", !.left = hooks, !.subs = subs]
                    ELSE att[a]]
  /\ UNCHANGED <<scope, rowVars, stage, pastVars, changes>>

\* Mutant of AfterFailure: off by one.
OneMoreAttempt(j) ==
  [job EXCEPT ![j].pc = IF job[j].attempt <= scope.retries + 1 THEN "delay" ELSE "failed",
              ![j].timer = FALSE]

\* An attempt that fails is followed by another after a delay, or the job fails.
AfterFailure(j) ==
  [job EXCEPT ![j].pc = IF job[j].attempt <= scope.retries THEN "delay" ELSE "failed",
              ![j].timer = FALSE]

\* What the promise of runJobWithTimeout makes of the end of an attempt: one that
\* was aborted has been rejected already.
Ended(a, ok) ==
  IF att[a].aborted THEN job
  ELSE IF ok THEN [job EXCEPT ![a[1]].pc = "done", ![a[1]].timer = FALSE] ELSE AfterFailure(a[1])

TimeoutFires(j) ==
  /\ job[j].pc = "running" /\ job[j].timer
  /\ att' = [att EXCEPT ![<<j, job[j].attempt>>].aborted = TRUE]
  /\ job' = AfterFailure(j)
  /\ timedOut' = timedOut \cup {j}
  /\ UNCHANGED <<scope, rowVars, stage, sent, registered, rejected, off, late, changes, faults>>

NextAttempt(j) ==
  /\ job[j].pc = "delay"
  /\ Running(j, job[j].attempt + 1)
  /\ UNCHANGED <<scope, rowVars, stage, pastVars, changes, faults>>

\* gracefulShutdown: new batches are refused; when those under way have settled,
\* or after SHUTDOWN_TIMEOUT, all timers are cleared, the delays among them.
Close ==
  /\ stage = "up" /\ stage' = "closing" /\ Fault
  /\ UNCHANGED <<scope, job, att, rowVars, pastVars, changes>>

ClearTimers ==
  /\ stage = "closing" /\ stage' = "closed"
  /\ job' = [j \in Jobs |-> IF job[j].pc = "delay" THEN [job[j] EXCEPT !.pc = "stuck"]
                            ELSE [job[j] EXCEPT !.timer = FALSE]]
  /\ UNCHANGED <<scope, att, rowVars, pastVars, changes, faults>>

\* The process ends and another one starts.
Reboot ==
  /\ Fault \/ (stage = "closed" /\ UNCHANGED faults)
  /\ stage' = "up" /\ flagged' = {} /\ doomed' = {}
  /\ job' = [j \in Jobs |-> IF job[j].pc = "idle" THEN Waiting ELSE [Waiting EXCEPT !.pc = "lost"]]
  /\ att' = [a \in Attempts |-> None]
  /\ late' = late \cup flagged \cup UNION {att[a].perm : a \in Attempts}
  /\ UNCHANGED <<scope, hook, push, sent, timedOut, registered, rejected, off, changes>>

-----------------------------------------------------------------------------
(* sendDiscordEmbedBatch                                                   *)

\* An attempt is over; it may have failed.
Over(a, ok) == att' = [att EXCEPT ![a] = [None EXCEPT !.pc = "over"]] /\ job' = Ended(a, ok)

\* Looked at before each webhook and all through the wait for the rate limit.
Aborted(a) == att[a].aborted

\* The next webhook: an aborted attempt throws, before the wait for the rate
\* limit or in it; one that was flagged is not tried; the others are sent to.
HookNext(a) ==
  /\ att[a].pc = "hooks"
  /\ \E h \in att[a].left :
       IF Aborted(a) THEN Over(a, FALSE)
       ELSE /\ att' = IF h \in flagged
                      THEN [att EXCEPT ![a].left = @ \ {h}, ![a].perm = @ \cup {h}]
                      ELSE [att EXCEPT ![a].left = @ \ {h}, ![a].cur = h, ![a].pc = "sending"]
            /\ UNCHANGED job
  /\ UNCHANGED <<scope, rowVars, stage, pastVars, changes, faults>>

\* The message is delivered: the webhook is not flagged any more.
HookDelivered(a) ==
  LET h == att[a].cur IN
  /\ att[a].pc = "sending"
  /\ att' = [att EXCEPT ![a].pc = "hooks", ![a].cur = "none"]
  /\ sent' = Sent(a[1], h)
  /\ flagged' = flagged \ {h}
  /\ rejected' = IF hook[h] = "active" THEN rejected \ {h} ELSE rejected
  /\ late' = IF Holding(h) # {} THEN late \cup {h} ELSE late
  /\ UNCHANGED <<scope, job, hook, push, doomed, stage, timedOut, registered, off, changes, faults>>

\* Mutant of HookFails: a failure of one webhook fails the attempt.
HookFailsAll(a) ==
  /\ att[a].pc = "sending"
  /\ Over(a, FALSE)
  /\ UNCHANGED <<scope, rowVars, stage, pastVars, changes, faults>>

\* It fails for now; nobody tries this webhook again.
HookFails(a) ==
  /\ att[a].pc = "sending"
  /\ att' = [att EXCEPT ![a].pc = "hooks", ![a].cur = "none"]
  /\ UNCHANGED <<scope, job, rowVars, stage, pastVars, changes, faults>>

\* It is rejected for good (401, 403, 404): shouldDeleteWebhook.
HookRejected(a) ==
  LET h == att[a].cur IN
  /\ att[a].pc = "sending"
  /\ att' = [att EXCEPT ![a].pc = "hooks", ![a].cur = "none", ![a].perm = @ \cup {h}]
  /\ flagged' = flagged \cup {h} /\ rejected' = rejected \cup {h}
  /\ UNCHANGED <<scope, job, hook, push, doomed, stage, sent, timedOut, registered, off, late, changes,
                 faults>>

-----------------------------------------------------------------------------
(* dispatchToWebhooks, dispatchToWebPush                                   *)

\* The next of the rejected webhooks is looked up; one whose row is gone throws,
\* and its flag stays.
RemoveRead(a) ==
  /\ att[a].pc = "hooks" /\ att[a].left = {}
  /\ \E h \in att[a].perm :
       \/ /\ hook[h] # "absent"
          /\ att' = [att EXCEPT ![a].pc = "off", ![a].cur = h]
          /\ UNCHANGED faults
       \/ /\ IF hook[h] = "absent" THEN UNCHANGED faults ELSE Fault
          /\ att' = [att EXCEPT ![a].perm = @ \ {h}]
  /\ UNCHANGED <<scope, job, rowVars, stage, pastVars, changes>>

\* Mutant of RemoveWrite: the flag goes even when the row could not be saved.
RemoveForgets(a) ==
  LET h == att[a].cur IN
  /\ att[a].pc = "off"
  /\ \/ hook' = [hook EXCEPT ![h] = "inactive"] /\ UNCHANGED faults
     \/ Fault /\ UNCHANGED hook
  /\ flagged' = flagged \ {h}
  /\ att' = [att EXCEPT ![a].pc = "hooks", ![a].cur = "none", ![a].perm = @ \ {h}]
  /\ UNCHANGED <<scope, job, push, doomed, stage, pastVars, changes>>

\* clearPermanentFailureFlag
Unflagged(h) == flagged \ {h}

\* Its row is saved as inactive (a row deleted meanwhile comes back) and the flag
\* is cleared; or the call fails and the flag stays.
RemoveWrite(a) ==
  LET h == att[a].cur IN
  /\ att[a].pc = "off"
  /\ \/ /\ hook' = [hook EXCEPT ![h] = "inactive"]
        /\ flagged' = Unflagged(h)
        /\ UNCHANGED faults
     \/ Fault /\ UNCHANGED <<hook, flagged>>
  /\ att' = [att EXCEPT ![a].pc = "hooks", ![a].cur = "none", ![a].perm = @ \ {h}]
  /\ UNCHANGED <<scope, job, push, doomed, stage, pastVars, changes>>

\* Then the subscriptions; nothing aborts this part.
PushNext(a) ==
  /\ att[a].pc = "hooks" /\ att[a].left = {} /\ att[a].perm = {}
  /\ IF att[a].subs = {} THEN Over(a, TRUE)
     ELSE /\ \E s \in att[a].subs :
               att' = [att EXCEPT ![a].pc = "pushing", ![a].cur = s, ![a].subs = @ \ {s}]
          /\ UNCHANGED job
  /\ UNCHANGED <<scope, rowVars, stage, pastVars, changes, faults>>

\* markSuccess: one UPDATE, which also sets isActive.
Marked(s) == [push EXCEPT ![s] = "active"]

\* sendSingleWithRetry: at last it is delivered, and a row that is there is marked ...
PushDelivered(a) ==
  LET s == att[a].cur IN
  /\ att[a].pc = "pushing"
  /\ sent' = Sent(a[1], s)
  /\ IF push[s] = "absent" THEN UNCHANGED <<push, off>>
     ELSE push' = Marked(s) /\ off' = off \ {s}
  /\ late' = IF push[s] # "absent" /\ \E a2 \in Holding(s) : att[a2].copy # "active"
             THEN late \cup {s} ELSE late
  /\ att' = [att EXCEPT ![a].pc = "hooks", ![a].cur = "none"]
  /\ UNCHANGED <<scope, job, hook, flagged, doomed, stage, timedOut, registered, rejected,
                 changes, faults>>

\* ... or it fails, for now or because the subscription is gone (404, 410), and
\* markFailure reads the row.
PushFails(a) ==
  LET s == att[a].cur IN
  /\ att[a].pc = "pushing"
  /\ att' = IF push[s] = "absent" THEN [att EXCEPT ![a].pc = "hooks", ![a].cur = "none"]
            ELSE [att EXCEPT ![a].pc = "mark", ![a].copy = push[s]]
  /\ UNCHANGED <<scope, job, rowVars, stage, pastVars, changes, faults>>

\* One await later the whole row is saved, whatever became of it meanwhile: one
\* that was deleted is inserted again.
MarkFailure(a) ==
  LET s == att[a].cur IN
  /\ att[a].pc = "mark"
  /\ \E gone \in BOOLEAN :
       /\ push' = [push EXCEPT ![s] = IF gone THEN "inactive" ELSE att[a].copy]
       /\ off' = IF gone THEN off \cup {s} ELSE off
       /\ late' = IF gone /\ Holding(s) # {a} THEN late \cup {s} ELSE late
  /\ att' = [att EXCEPT ![a].pc = "hooks", ![a].cur = "none", ![a].copy = "absent"]
  /\ UNCHANGED <<scope, job, hook, flagged, doomed, stage, sent, timedOut, registered, rejected,
                 changes, faults>>

-----------------------------------------------------------------------------
(* Registrations and the cleanup                                           *)

\* create
Activated(h) == [hook EXCEPT ![h] = "active"]

\* registerWebhook: a row that is active is a duplicate; otherwise a test message
\* is sent, and the row is created or activated again.  No flag is looked at.
RegisterHook(h) ==
  /\ hook[h] # "active" /\ Change
  /\ hook' = Activated(h)
  /\ registered' = registered \cup {h} /\ rejected' = rejected \ {h}
  /\ late' = IF h \in flagged \cup doomed \/ Holding(h) # {} THEN late \cup {h} ELSE late
  /\ UNCHANGED <<scope, job, att, push, flagged, doomed, stage, sent, timedOut, off, faults>>

\* createOrReactivate
RegisterPush(s) ==
  /\ push[s] # "absent" \/ s \notin registered
  /\ Change
  /\ push' = [push EXCEPT ![s] = "active"]
  /\ registered' = registered \cup {s} /\ off' = off \ {s}
  /\ late' = IF Holding(s) # {} THEN late \cup {s} ELSE late
  /\ UNCHANGED <<scope, job, att, hook, flagged, doomed, stage, sent, timedOut, rejected, faults>>

\* deleteByEndpoint
Unregister(s) ==
  /\ push[s] # "absent" /\ Change
  /\ push' = [push EXCEPT ![s] = "absent"]
  /\ off' = off \cup {s}
  /\ late' = IF Holding(s) # {} THEN late \cup {s} ELSE late
  /\ UNCHANGED <<scope, job, att, hook, flagged, doomed, stage, sent, timedOut, registered, rejected,
                 faults>>

\* The cleanup crons, one at a time, select inactive webhooks ...
CleanupSelect ==
  /\ doomed = {}
  /\ doomed' \in SUBSET {h \in Hooks : hook[h] = "inactive"} \ {{}}
  /\ UNCHANGED <<scope, job, att, hook, push, flagged, stage, pastVars, changes, faults>>

\* ... and delete them by id an await later, whatever they are by then.
CleanupDelete ==
  /\ doomed # {} /\ doomed' = {}
  /\ hook' = [h \in Hooks |-> IF h \in doomed THEN "absent" ELSE hook[h]]
  /\ UNCHANGED <<scope, job, att, push, flagged, stage, pastVars, changes, faults>>

\* cleanupInactiveSubscriptions: one statement.
CleanupPush ==
  /\ \E old \in SUBSET {s \in Subs : push[s] = "inactive"} \ {{}} :
       push' = [s \in Subs |-> IF s \in old THEN "absent" ELSE push[s]]
  /\ UNCHANGED <<scope, job, att, hook, flagged, doomed, stage, pastVars, changes, faults>>

-----------------------------------------------------------------------------
AttemptStep(a) ==
  \/ HookNext(a) \/ RemoveRead(a) \/ RemoveWrite(a) \/ PushNext(a) \/ MarkFailure(a)

\* What Discord and the push services answer, if they do.
Answer(a) ==
  \/ HookDelivered(a) \/ HookFails(a) \/ HookRejected(a) \/ PushDelivered(a) \/ PushFails(a)

Timers == \E j \in Jobs : TimeoutFires(j) \/ NextAttempt(j)

DeliveryNext ==
  \/ StartBatch \/ Close \/ ClearTimers \/ Reboot
  \/ Timers
  \/ \E a \in Attempts : AttemptStep(a) \/ Answer(a)
  \/ \E h \in Hooks \cap (scope.hooks \cup scope.spare) : RegisterHook(h)
  \/ \E s \in Subs \cap (scope.subs \cup scope.spare) : RegisterPush(s) \/ Unregister(s)
  \/ CleanupSelect \/ CleanupDelete \/ CleanupPush

DeliverySpec == DeliveryInit /\ [][DeliveryNext]_deliveryVars

\* Timers fire.  Nothing is assumed of Discord, of the push services and of the
\* database: they may never answer.
DeliveryFairness == WF_deliveryVars(Timers)

-----------------------------------------------------------------------------
(* Properties                                                              *)

\* Type invariant.
DeliveryTypeOK ==
  /\ scope \in DeliveryScopes
  /\ job \in [Jobs -> [pc : {"idle", "running", "delay", "done", "failed", "stuck", "lost"},
                       attempt : 0 .. 1 + scope.retries, timer : BOOLEAN,
                       hooks : SUBSET Hooks, subs : SUBSET Subs]]
  /\ att \in [Attempts -> [pc : {"none", "hooks", "sending", "off", "pushing", "mark", "over"},
                           left : SUBSET Hooks, cur : Hooks \cup Subs \cup {"none"},
                           perm : SUBSET Hooks, subs : SUBSET Subs, copy : States,
                           aborted : BOOLEAN]]
  /\ hook \in [Hooks -> States] /\ push \in [Subs -> States]
  /\ flagged \subseteq Hooks /\ doomed \subseteq Hooks
  /\ stage \in {"up", "closing", "closed"}
  /\ sent \in [Jobs -> [Hooks \cup Subs -> 0 .. 2]]
  /\ timedOut \subseteq Jobs
  /\ registered \subseteq Hooks \cup Subs /\ rejected \subseteq Hooks /\ off \subseteq Subs
  /\ late \subseteq Hooks \cup Subs
  /\ changes \in Nat /\ faults \in Nat

\* A job reaches a receiver a second time only after one of its attempts timed
\* out: a webhook that fails does not make the others hear it again.
DeliveredTwiceForAReason ==
  \A j \in Jobs, r \in Hooks \cup Subs : sent[j][r] = 2 => j \in timedOut

\* What is registered stays, unless it was rejected or withdrawn since, or the
\* registration met a removal decided before it.
RegisteredStays ==
  \A r \in registered \ (rejected \cup off \cup late) :
    IF r \in Hooks THEN hook[r] = "active" ELSE push[r] = "active"

\* A webhook that Discord rejected is remembered until its row is inactive, also
\* when the attempt times out or the row cannot be saved.
RejectedRemembered ==
  \A h \in rejected \ late : hook[h] = "active" => h \in flagged

\* A subscription that was withdrawn or is gone is not sent to again, unless a
\* write of its row that began before brought it back.
NoPushToTheGone == \A s \in off \ late : push[s] # "active"

\* The rows say of each receiver what was last known of it.
RowsFollowReceivers == RegisteredStays /\ RejectedRemembered /\ NoPushToTheGone

\* A batch settles though no receiver ever answers, unless the shutdown takes its
\* timers.
BatchSettles == []<>(stage # "up" \/ \A j \in Jobs : job[j].pc \notin {"running", "delay"})
=============================================================================
