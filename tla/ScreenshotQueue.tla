--------------------------- MODULE ScreenshotQueue ---------------------------
(***************************************************************************)
(* The queue of archived notices that still need a screenshot              *)
(* (ArchiveOrchestratorScreenshotCoordinator): archive runs and the        *)
(* backfill enqueue, one loop drains.  The queue is one list in Redis that *)
(* everyone reads and writes back as a whole one await later.              *)
(*                                                                         *)
(* A step runs from one await to the next.                                 *)
(***************************************************************************)
EXTENDS Naturals, Sequences, FiniteSets, Functions

CONSTANTS
  Shots,          \* notice numbers
  Schedulers,     \* calls of enqueueScreenshots that may overlap
  ShotMax,        \* SCREENSHOT.QUEUE.MAX_SIZE
  ShotBatch,      \* drainBatchSize
  ShotRetries,    \* SCREENSHOT.MAX_RETRIES
  ShotRequests,   \* bound: how often something is scheduled
  ShotFailures    \* bound: how often a command fails or the process restarts

ASSUME ShotAssumption ==
  /\ IsFiniteSet(Shots)
  /\ ShotMax \in Nat \ {0} /\ ShotBatch \in Nat \ {0}
  /\ ShotRetries \in Nat /\ ShotRequests \in Nat /\ ShotFailures \in Nat

VARIABLES
  shotQueue,    \* the list in Redis
  stored,       \* the notices that have a screenshot
  scheduler,    \* each scheduler: pc, the notices it wants, its copy of the list
  capture,      \* the drain loop: pc, its copy of the list, its batch, what is
                \* left of it, and what it will queue again
  accepted,     \* notices that were ever written into the list (history)
  dropped,      \* those given up after the last try, or by a failure, a restart,
                \* the shutdown or a write that overlapped (history)
  stalled,      \* the loop was stopped by a failure or a restart (history)
  requested, shotFailures

shotVars == <<shotQueue, stored, scheduler, capture, accepted, dropped, stalled, requested,
              shotFailures>>

Items == [num : Shots, tries : 0 .. ShotRetries]
NumsOf(list) == {list[i].num : i \in DOMAIN list}

Resting == [pc |-> "idle", wanted |-> {}, copy |-> <<>>]
Off == [pc |-> "off", copy |-> <<>>, batch |-> <<>>, left |-> {}, retry |-> <<>>]
Looping == [Off EXCEPT !.pc = "read"]

ShotInit ==
  /\ shotQueue = <<>> /\ stored = {}
  /\ scheduler = [s \in Schedulers |-> Resting] /\ capture = Off
  /\ accepted = {} /\ dropped = {} /\ stalled = FALSE
  /\ requested = 0 /\ shotFailures = 0

ShotFails == shotFailures < ShotFailures /\ shotFailures' = shotFailures + 1

\* What getScreenshotQueue returns: a command that fails is an empty list.
ReadList(list) ==
  \/ list = shotQueue /\ UNCHANGED shotFailures
  \/ list = <<>> /\ ShotFails

\* What is in the list but not in the copy that replaces it.
Overlapped(copy) == NumsOf(shotQueue) \ NumsOf(copy)

-----------------------------------------------------------------------------
(* enqueueScreenshots                                                      *)

\* Active rows without a screenshot, PAL and NSM.
Missing == Shots \ stored

\* An archive run asks for the notices it archived, the backfill for those that
\* have no screenshot.
Schedule(s) ==
  /\ scheduler[s].pc = "idle" /\ requested < ShotRequests
  /\ \E wanted \in SUBSET Missing \ {{}} :
       scheduler' = [scheduler EXCEPT ![s] = [Resting EXCEPT !.pc = "read", !.wanted = wanted]]
  /\ requested' = requested + 1
  /\ UNCHANGED <<shotQueue, stored, capture, accepted, dropped, stalled, shotFailures>>

FreeSlots(list) == IF Len(list) < ShotMax THEN ShotMax - Len(list) ELSE 0

\* Those in the list already are left out, those beyond the capacity dropped;
\* with nothing to add the call is over, whether a loop runs or not.
EnqueueShotsRead(s) ==
  /\ scheduler[s].pc = "read"
  /\ \E list \in {shotQueue, <<>>} :
       LET fresh == scheduler[s].wanted \ NumsOf(list)
           slots == FreeSlots(list)
       IN /\ ReadList(list)
          /\ scheduler' =
               [scheduler EXCEPT ![s] =
                  IF fresh = {} \/ slots = 0 THEN Resting
                  ELSE [pc |-> "write", copy |-> list, wanted |-> fresh]]
  /\ UNCHANGED <<shotQueue, stored, capture, accepted, dropped, stalled, requested>>

StartLoop ==
  /\ capture' = IF capture.pc = "off" THEN Looping ELSE capture
  /\ stalled' = (stalled /\ capture.pc # "off")

\* The list is replaced by the copy and what fits in; the loop is started unless
\* it runs.
EnqueueShotsWrite(s) ==
  LET copy == scheduler[s].copy  fresh == scheduler[s].wanted IN
  /\ scheduler[s].pc = "write"
  /\ \/ /\ \E k \in 1 .. Cardinality(fresh) :
             /\ k = Cardinality(fresh) \/ k = FreeSlots(copy)
             /\ k <= FreeSlots(copy)
             /\ \E add \in Injection(1 .. k, fresh) :
                  /\ shotQueue' = copy \o [i \in 1 .. k |-> [num |-> add[i], tries |-> 0]]
                  /\ accepted' = accepted \cup {add[i] : i \in 1 .. k}
                  /\ dropped' = dropped \cup Overlapped(copy)
        /\ StartLoop
        /\ UNCHANGED shotFailures
     \/ ShotFails /\ UNCHANGED <<shotQueue, accepted, dropped, capture, stalled>>
  /\ scheduler' = [scheduler EXCEPT ![s] = Resting]
  /\ UNCHANGED <<stored, requested>>

-----------------------------------------------------------------------------
(* drainScreenshotQueue                                                    *)

\* The loop ends and clears isCaptureRunning in the same tick.
Break == capture' = Off /\ stalled' = (shotQueue' # <<>>)

\* The next batch, or the end.
CaptureRead ==
  /\ capture.pc = "read"
  /\ UNCHANGED shotQueue
  /\ \E list \in {shotQueue, <<>>} :
       /\ ReadList(list)
       /\ IF list = <<>> THEN Break
          ELSE /\ capture' = [capture EXCEPT !.pc = "dequeue", !.copy = list]
               /\ UNCHANGED stalled
  /\ UNCHANGED <<stored, scheduler, accepted, dropped, requested>>

\* The rest replaces the list.
CaptureDequeue ==
  LET n == IF Len(capture.copy) < ShotBatch THEN Len(capture.copy) ELSE ShotBatch
      taken == SubSeq(capture.copy, 1, n)
  IN
  /\ capture.pc = "dequeue"
  /\ \/ /\ shotQueue' = SubSeq(capture.copy, n + 1, Len(capture.copy))
        /\ capture' = [capture EXCEPT !.pc = "capture", !.copy = <<>>, !.batch = taken,
                                      !.left = DOMAIN taken]
        /\ dropped' = dropped \cup Overlapped(capture.copy)
        /\ UNCHANGED <<stalled, shotFailures>>
     \/ ShotFails /\ UNCHANGED <<shotQueue, dropped>> /\ Break
  /\ UNCHANGED <<stored, scheduler, accepted, requested>>

MayRetry(item) == item.tries < ShotRetries

Retried(item) == [item EXCEPT !.tries = @ + 1]

\* The column is filled once, while it is empty.
WithScreenshot(n) == stored \cup {n}

\* One item of the batch: stored, skipped because it is too large, or failed
\* and kept for another try.
CaptureOne ==
  /\ capture.pc = "capture"
  /\ \E i \in capture.left :
       LET item == capture.batch[i]  rest == [capture EXCEPT !.left = @ \ {i}] IN
       \/ stored' = WithScreenshot(item.num) /\ capture' = rest /\ UNCHANGED dropped
       \/ dropped' = dropped \cup {item.num} /\ capture' = rest /\ UNCHANGED stored
       \/ /\ MayRetry(item) /\ UNCHANGED <<stored, dropped>>
          /\ capture' = [rest EXCEPT !.retry = Append(@, Retried(item))]
  /\ UNCHANGED <<shotQueue, scheduler, accepted, stalled, requested, shotFailures>>

\* The batch is done; what failed is to be queued again, before what is there.
CaptureNext ==
  /\ capture.pc = "capture" /\ capture.left = {}
  /\ IF capture.retry = <<>>
     THEN capture' = Looping /\ UNCHANGED shotFailures
     ELSE \E list \in {shotQueue, <<>>} :
            ReadList(list) /\ capture' = [capture EXCEPT !.pc = "requeue", !.copy = list]
  /\ UNCHANGED <<shotQueue, stored, scheduler, accepted, dropped, stalled, requested>>

\* Mutant of Requeued: what is in the list is forgotten.
RequeuedAlone(items, list) == items

Requeued(items, list) == items \o list

CaptureRequeue ==
  /\ capture.pc = "requeue"
  /\ \/ /\ shotQueue' = Requeued(capture.retry, capture.copy)
        /\ capture' = Looping
        /\ dropped' = dropped \cup Overlapped(capture.copy)
        /\ UNCHANGED shotFailures
     \/ ShotFails /\ capture' = [capture EXCEPT !.pc = "restore"] /\ UNCHANGED <<shotQueue, dropped>>
  /\ UNCHANGED <<stored, scheduler, accepted, stalled, requested>>

\* That failed: one attempt to put back the whole batch, and the loop ends.
CaptureRestore ==
  /\ capture.pc = "restore"
  /\ \/ /\ shotQueue' = Requeued(capture.batch, capture.copy)
        /\ dropped' = dropped \cup Overlapped(capture.copy)
        /\ UNCHANGED shotFailures
     \/ ShotFails /\ UNCHANGED shotQueue /\ dropped' = dropped \cup NumsOf(capture.batch)
  /\ Break
  /\ UNCHANGED <<stored, scheduler, accepted, requested>>

-----------------------------------------------------------------------------
\* handleShutdown: the list is cleared, a loop that runs goes on.
ShotShutdown ==
  /\ ShotFails
  /\ shotQueue' = <<>> /\ dropped' = dropped \cup NumsOf(shotQueue)
  /\ UNCHANGED <<stored, scheduler, capture, accepted, stalled, requested>>

\* The process stops and starts; the list stays, and nothing looks at it.
ShotRestart ==
  /\ ShotFails
  /\ scheduler' = [s \in Schedulers |-> Resting] /\ capture' = Off
  /\ dropped' = dropped \cup NumsOf(capture.batch)
  /\ stalled' = (shotQueue # <<>>)
  /\ UNCHANGED <<shotQueue, stored, accepted, requested>>

EnqueueStep(s) == EnqueueShotsRead(s) \/ EnqueueShotsWrite(s)

CaptureStep ==
  CaptureRead \/ CaptureDequeue \/ CaptureOne \/ CaptureNext \/ CaptureRequeue \/ CaptureRestore

ShotNext ==
  \/ \E s \in Schedulers : Schedule(s) \/ EnqueueStep(s)
  \/ CaptureStep \/ ShotShutdown \/ ShotRestart

ShotSpec == ShotInit /\ [][ShotNext]_shotVars

\* Calls return.
ShotFairness == WF_shotVars(CaptureStep)

-----------------------------------------------------------------------------
(* Properties                                                              *)

\* Type invariant; no item is tried more often than allowed.
ShotTypeOK ==
  /\ shotQueue \in Seq(Items)
  /\ stored \subseteq Shots
  /\ scheduler \in [Schedulers -> [pc : {"idle", "read", "write"}, wanted : SUBSET Shots,
                                   copy : Seq(Items)]]
  /\ capture \in [pc : {"off", "read", "dequeue", "capture", "requeue", "restore"},
                  copy : Seq(Items), batch : Seq(Items), left : SUBSET Nat, retry : Seq(Items)]
  /\ capture.left \subseteq DOMAIN capture.batch
  /\ accepted \subseteq Shots /\ dropped \subseteq Shots
  /\ stalled \in BOOLEAN /\ requested \in Nat /\ shotFailures \in Nat

\* The list holds at most one batch more than its capacity: what is queued again
\* is not counted.
ShotQueueBounded ==
  /\ Len(shotQueue) <= ShotMax + ShotBatch
  /\ \A s \in Schedulers : Len(scheduler[s].copy) <= ShotMax

\* "Items are appended to the queue and will be processed automatically": while
\* there are any the loop runs, unless a failure or a restart stopped it.
ScreenshotsNotStranded == shotQueue # <<>> /\ ~stalled => capture.pc # "off"

\* An accepted notice has its screenshot, is queued or in the loop's hands, or
\* there is a reason that it was dropped.
ScreenshotsAccounted ==
  \A n \in accepted \ dropped :
    n \in stored \cup NumsOf(shotQueue) \cup NumsOf(capture.batch)

\* What is accepted is in somebody's hands until it is stored or dropped.
ScreenshotsCovered == ScreenshotsNotStranded /\ ScreenshotsAccounted

\* Every accepted notice gets its screenshot or is dropped, unless the loop was
\* stopped.
ScreenshotsSettle == []<>(stalled \/ accepted \subseteq stored \cup dropped)
=============================================================================
