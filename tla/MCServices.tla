----------------------------- MODULE MCServices -----------------------------
(***************************************************************************)
(* Instances of ChangeNotifier, PendingBills, ScreenshotQueue and Delivery *)
(* for TLC, side by side in one run: a behaviour belongs to one of them,   *)
(* and the variables of the others stay as they are.                       *)
(***************************************************************************)
EXTENDS ChangeNotifier, PendingBills, ScreenshotQueue, Delivery, TLC

CONSTANTS a1, a2, p1, p2, p3, s1, s2, h1, h2, w1, j1, j2

VARIABLE component    \* whose behaviour this is

all == <<component, vars, billVars, shotVars, deliveryVars>>

\* Two bills, one of which fits into the queue and one of which is seeded, while
\* nothing fails; one bill that may be withdrawn, taken over or listed aside, after
\* a sync, with two crawls or backfills and a failure.
TwoBills ==
  {[bills |-> {1, 2}, listed |-> {1}, size |-> 1, window |-> 1, syncs |-> FALSE,
    leave |-> FALSE, aside |-> {2}, crawls |-> 1, failures |-> 0],
   [bills |-> {1}, listed |-> {}, size |-> 1, window |-> 1, syncs |-> TRUE,
    leave |-> TRUE, aside |-> {1}, crawls |-> 2, failures |-> 1]}

\* Two webhooks and a retry; a webhook and a subscription and a retry; two jobs
\* that share a webhook; two jobs that share a subscription; three attempts of one
\* job at one subscription.
Mailings ==
  {[hooks |-> {h1, h2}, subs |-> {}, spare |-> {},
    jobs |-> {j1}, retries |-> 1, changes |-> 0, faults |-> 1],
   [hooks |-> {h1}, subs |-> {w1}, spare |-> {h2},
    jobs |-> {j1}, retries |-> 1, changes |-> 1, faults |-> 0],
   [hooks |-> {h1}, subs |-> {}, spare |-> {},
    jobs |-> {j1, j2}, retries |-> 0, changes |-> 1, faults |-> 1],
   [hooks |-> {}, subs |-> {w1}, spare |-> {},
    jobs |-> {j1, j2}, retries |-> 0, changes |-> 2, faults |-> 0],
   [hooks |-> {}, subs |-> {w1}, spare |-> {},
    jobs |-> {j1}, retries |-> 2, changes |-> 0, faults |-> 0]}

ServicesInit ==
  /\ component \in {"notifier", "bills", "screenshots", "delivery"}
  /\ Init /\ ShotInit
  /\ BillInit /\ (component # "bills" => billScope = CHOOSE s \in TwoBills : TRUE)
  /\ DeliveryInit /\ (component # "delivery" => scope = CHOOSE s \in Mailings : TRUE)

NotifierSteps == component = "notifier" /\ Next
BillSteps == component = "bills" /\ BillNext
ScreenshotSteps == component = "screenshots" /\ ShotNext
DeliverySteps == component = "delivery" /\ DeliveryNext

NotifierRest == <<billVars, shotVars, deliveryVars>>
BillRest == <<vars, shotVars, deliveryVars>>
ScreenshotRest == <<vars, billVars, deliveryVars>>
DeliveryRest == <<vars, billVars, shotVars>>

ServicesNext ==
  /\ UNCHANGED component
  /\ \/ NotifierSteps /\ UNCHANGED NotifierRest
     \/ BillSteps /\ UNCHANGED BillRest
     \/ ScreenshotSteps /\ UNCHANGED ScreenshotRest
     \/ DeliverySteps /\ UNCHANGED DeliveryRest

\* An action of a component, with all else unchanged.
Of(name, A, rest) == component = name /\ A /\ UNCHANGED <<component, rest>>

ServicesFairness ==
  /\ WF_all(Of("notifier", TimerFires, NotifierRest))
  /\ WF_all(Of("notifier", FlushSettles, NotifierRest))
  /\ WF_all(Of("bills", SyncStep, BillRest)) /\ WF_all(Of("bills", QuietCapture, BillRest))
  /\ WF_all(Of("bills", CrawlLaunches, BillRest)) /\ WF_all(Of("bills", BillStep, BillRest))
  /\ WF_all(Of("bills", DrainStep, BillRest)) /\ WF_all(Of("bills", CronSeeds, BillRest))
  /\ WF_all(Of("bills", CallerStep("cron"), BillRest))
  /\ WF_all(Of("screenshots", CaptureStep, ScreenshotRest))
  /\ WF_all(Of("delivery", Timers, DeliveryRest))

ServicesSpec == ServicesInit /\ [][ServicesNext]_all /\ ServicesFairness
-----------------------------------------------------------------------------
\* The type invariants of all components, and the bounds of the two queues that
\* are cut to their maximal size.
ServicesTypeOK ==
  /\ TypeOK /\ BillTypeOK /\ ShotTypeOK /\ DeliveryTypeOK
  /\ RetryQueueBounded /\ ShotQueueBounded

\* Nothing waits for ever: queued payloads leave, the bills a cron seeds get their
\* reason, screenshots are taken or given up, and a batch settles.
ServicesSettle == QueueDrains /\ WindowServed /\ ScreenshotsSettle /\ BatchSettles
=============================================================================
