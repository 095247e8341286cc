---------------------------- MODULE BrowserLease ----------------------------
(***************************************************************************)
(* The leases that bound how many headless browsers run at once, and the   *)
(* cleanup of the browser processes a lease leaves behind.                 *)
(*                                                                         *)
(* A job is one call of runWithLease; its session launches at most one     *)
(* browser, which is named after the job.  An action is the code between   *)
(* two awaits.  The process list is read by a child process: a snapshot is *)
(* taken in one step and used in a later one.                              *)
(***************************************************************************)
EXTENDS Integers, Sequences, FiniteSets

CONSTANTS
  Jobs,         \* calls of runWithLease, and the browsers they launch
  Opaque,       \* jobs whose session does not reveal its browser's pid
  Max,          \* maxConcurrentLeases
  PsMayFail     \* reading the process list may fail

ASSUME LeaseAssumption ==
  /\ IsFiniteSet(Jobs)
  /\ Opaque \subseteq Jobs
  /\ Max \in Nat \ {0}
  /\ PsMayFail \in BOOLEAN

VARIABLES
  active,       \* activeLeases
  waitQueue,    \* leaseWaitQueue
  woken,        \* waiters taken off the queue that have not run again yet
  pc,           \* where each job is suspended
  launched,     \* jobs that launched their browser
  alive,        \* browsers alive in the operating system
  leasePids,    \* activeLeasePids: the pids each registered lease owns
  startPids,    \* leaseStartPids of each job
  observed,     \* the last process list each job has read
  left,         \* owned pids a closing job has still to look at
  tracked,      \* trackedBrowserPids
  shuttingDown,
  shutdownPc    \* where onApplicationShutdown is suspended

slots == <<active, waitQueue, woken>>
pids == <<leasePids, startPids, observed, left, tracked>>
os == <<launched, alive>>
stop == <<shuttingDown, shutdownPc>>
vars == <<slots, pc, pids, os, stop>>

Elems(s) == {s[i] : i \in DOMAIN s}

\* Labels at which a job is past waitForLeaseSlot and before releaseLease.
Holding == {"acquired", "starting", "task", "observing", "deciding", "closing",
            "rechecking", "cleanup"}

Holders == {j \in Jobs : pc[j] \in Holding}

\* Jobs with an entry in activeLeasePids.
Registered == {j \in Jobs : pc[j] \in Holding \ {"acquired"}}

Init ==
  /\ active = 0
  /\ waitQueue = <<>>
  /\ woken = {}
  /\ pc = [j \in Jobs |-> "idle"]
  /\ launched = {}
  /\ alive = {}
  /\ leasePids = [j \in Jobs |-> {}]
  /\ startPids = [j \in Jobs |-> {}]
  /\ observed = [j \in Jobs |-> {}]
  /\ left = [j \in Jobs |-> {}]
  /\ tracked = {}
  /\ shuttingDown = FALSE
  /\ shutdownPc = "idle"

Goto(j, label) == pc' = [pc EXCEPT ![j] = label]

-----------------------------------------------------------------------------
(* Slots                                                                   *)

\* Mutant of SlotLoop: the bound is off by one.
SlotLoopOffByOne(j) ==
  IF shuttingDown
  THEN Goto(j, "done") /\ UNCHANGED <<active, waitQueue>>
  ELSE IF active <= Max
  THEN Goto(j, "acquired") /\ active' = active + 1 /\ UNCHANGED waitQueue
  ELSE Goto(j, "waiting") /\ waitQueue' = Append(waitQueue, j) /\ UNCHANGED active

\* Mutant of SlotLoop: a waiter that wakes up does not look at the shutdown.
SlotLoopBlindToShutdown(j) ==
  IF active < Max
  THEN Goto(j, "acquired") /\ active' = active + 1 /\ UNCHANGED waitQueue
  ELSE Goto(j, "waiting") /\ waitQueue' = Append(waitQueue, j) /\ UNCHANGED active

\* One round of waitForLeaseSlot's loop; a woken job queues again at the tail
\* when a newcomer took the slot it was woken for.
SlotLoop(j) ==
  IF shuttingDown
  THEN Goto(j, "done") /\ UNCHANGED <<active, waitQueue>>
  ELSE IF active < Max
  THEN Goto(j, "acquired") /\ active' = active + 1 /\ UNCHANGED waitQueue
  ELSE Goto(j, "waiting") /\ waitQueue' = Append(waitQueue, j) /\ UNCHANGED active

Request(j) ==
  /\ pc[j] = "idle"
  /\ SlotLoop(j)
  /\ UNCHANGED <<woken, pids, os, stop>>

WakeUp(j) ==
  /\ j \in woken
  /\ woken' = woken \ {j}
  /\ SlotLoop(j)
  /\ UNCHANGED <<pids, os, stop>>

\* Mutants of ReleaseLease: the next waiter is not woken; the slot is freed twice.
SilentRelease == active' = active - 1 /\ UNCHANGED <<waitQueue, woken>>
DoubleRelease == active' = active - 2 /\ UNCHANGED <<waitQueue, woken>>

\* releaseLease: free the slot and wake the first waiter.
ReleaseLease ==
  /\ active' = IF active > 0 THEN active - 1 ELSE 0
  /\ IF waitQueue = <<>>
     THEN UNCHANGED <<waitQueue, woken>>
     ELSE waitQueue' = Tail(waitQueue) /\ woken' = woken \cup {Head(waitQueue)}

-----------------------------------------------------------------------------
(* A lease                                                                 *)

\* collectBrowserDescendants: an empty list when ps fails.
Snapshot(list) == list = alive \/ (PsMayFail /\ list = {})

Register(j) ==
  /\ pc[j] = "acquired"
  /\ leasePids' = [leasePids EXCEPT ![j] = {}]
  /\ Goto(j, "starting")
  /\ UNCHANGED <<slots, startPids, observed, left, tracked, os, stop>>

SnapshotAtStart(j) ==
  /\ pc[j] = "starting"
  /\ \E list \in {alive, {}} :
       Snapshot(list) /\ startPids' = [startPids EXCEPT ![j] = list]
  /\ Goto(j, "task")
  /\ UNCHANGED <<slots, leasePids, observed, left, tracked, os, stop>>

Launch(j) ==
  /\ pc[j] = "task"
  /\ j \notin launched
  /\ launched' = launched \cup {j}
  /\ alive' = alive \cup {j}
  /\ UNCHANGED <<slots, pc, pids, stop>>

\* closeBrowserSession starts: the session's own pid is owned when it is known.
EndTask(j) ==
  /\ pc[j] = "task"
  /\ leasePids' = [leasePids EXCEPT ![j] = IF j \in launched \ Opaque THEN @ \cup {j} ELSE @]
  /\ Goto(j, "observing")
  /\ UNCHANGED <<slots, startPids, observed, left, tracked, os, stop>>

Observe(j) ==
  /\ pc[j] = "observing"
  /\ \E list \in {alive, {}} :
       Snapshot(list) /\ observed' = [observed EXCEPT ![j] = list]
  /\ Goto(j, "deciding")
  /\ UNCHANGED <<slots, leasePids, startPids, left, tracked, os, stop>>

\* Mutant of Adopted: strays are adopted whoever else holds a lease.
AdoptedRegardless(j) == IF j \in Opaque THEN observed[j] \ startPids[j] ELSE {}

\* The pids closeBrowserSession adds: without a pid of its own the lease takes
\* the strays seen since it started, when no other lease can own them.
Adopted(j) ==
  IF j \notin launched \ Opaque /\ Cardinality(Registered) <= 1
  THEN observed[j] \ startPids[j]
  ELSE {}

\* What it read is not used any more afterwards, and is reset to keep the state
\* space small.
Decide(j) ==
  LET owned == leasePids[j] \cup Adopted(j) IN
  /\ pc[j] = "deciding"
  /\ leasePids' = [leasePids EXCEPT ![j] = owned]
  /\ tracked' = tracked \cup owned
  /\ startPids' = [startPids EXCEPT ![j] = {}]
  /\ observed' = [observed EXCEPT ![j] = {}]
  /\ Goto(j, "closing")
  /\ UNCHANGED <<slots, left, os, stop>>

\* closeBrowser resolves, fails or times out: the browser may survive it.
CloseBrowser(j) ==
  /\ pc[j] = "closing"
  /\ alive' \in {alive, alive \ {j}}
  /\ Goto(j, "rechecking")
  /\ UNCHANGED <<slots, pids, launched, stop>>

Recheck(j) ==
  /\ pc[j] = "rechecking"
  /\ \E list \in {alive, {}} :
       Snapshot(list) /\ observed' = [observed EXCEPT ![j] = list]
  /\ left' = [left EXCEPT ![j] = leasePids[j]]
  /\ Goto(j, "cleanup")
  /\ UNCHANGED <<slots, leasePids, startPids, tracked, os, stop>>

\* One owned pid: gone from the list or dead, it is released; otherwise it is
\* killed, and stays owned and tracked when it survives.
CleanUp(j) ==
  /\ pc[j] = "cleanup"
  /\ \E p \in left[j] :
       /\ left' = [left EXCEPT ![j] = @ \ {p}]
       /\ IF p \in observed[j] THEN alive' \in {alive, alive \ {p}} ELSE UNCHANGED alive
       /\ IF p \in observed[j] /\ p \in alive'
          THEN UNCHANGED <<leasePids, tracked>>
          ELSE /\ leasePids' = [leasePids EXCEPT ![j] = @ \ {p}]
               /\ tracked' = tracked \ {p}
  /\ UNCHANGED <<slots, pc, startPids, observed, launched, stop>>

EndLease(j) ==
  /\ pc[j] = "cleanup"
  /\ left[j] = {}
  /\ leasePids' = [leasePids EXCEPT ![j] = {}]
  /\ observed' = [observed EXCEPT ![j] = {}]
  /\ ReleaseLease
  /\ Goto(j, "done")
  /\ UNCHANGED <<startPids, left, tracked, os, stop>>

-----------------------------------------------------------------------------
(* Shutdown and the operating system                                       *)

\* onApplicationShutdown: every waiter is woken, and will throw.
Shutdown ==
  /\ ~shuttingDown
  /\ shuttingDown' = TRUE
  /\ woken' = woken \cup Elems(waitQueue)
  /\ waitQueue' = <<>>
  /\ shutdownPc' = "settling"
  /\ UNCHANGED <<active, pc, pids, os>>

\* waitForIdle has seen the manager idle or has timed out.
KillTracked ==
  /\ shutdownPc = "settling"
  /\ tracked' = {}
  /\ \E survivors \in SUBSET (alive \cap tracked) : alive' = (alive \ tracked) \cup survivors
  /\ shutdownPc' = "sweeping"
  /\ UNCHANGED <<slots, pc, leasePids, startPids, observed, left, launched, shuttingDown>>

KillDescendants ==
  /\ shutdownPc = "sweeping"
  /\ alive' \in SUBSET alive
  /\ shutdownPc' = "done"
  /\ UNCHANGED <<slots, pc, pids, launched, shuttingDown>>

\* A browser dies on its own, or a closeBrowser that timed out ends late.
BrowserDies(p) ==
  /\ p \in alive
  /\ alive' = alive \ {p}
  /\ UNCHANGED <<slots, pc, pids, launched, stop>>

LeaseStep(j) ==
  \/ WakeUp(j) \/ Register(j) \/ SnapshotAtStart(j) \/ EndTask(j) \/ Observe(j) \/ Decide(j)
  \/ CloseBrowser(j) \/ Recheck(j) \/ CleanUp(j) \/ EndLease(j)

Next ==
  \/ \E j \in Jobs : Request(j) \/ Launch(j) \/ LeaseStep(j) \/ BrowserDies(j)
  \/ Shutdown \/ KillTracked \/ KillDescendants

Spec == Init /\ [][Next]_vars

\* Tasks end and the closing sequence is bounded by timeouts.
FairSpec == Spec /\ \A j \in Jobs : WF_vars(LeaseStep(j))

-----------------------------------------------------------------------------
(* Properties                                                              *)

Labels == Holding \cup {"idle", "waiting", "done"}

\* Type invariant.
TypeOK ==
  /\ active \in Nat
  /\ waitQueue \in Seq(Jobs)
  /\ woken \subseteq Jobs
  /\ pc \in [Jobs -> Labels]
  /\ launched \subseteq Jobs
  /\ alive \subseteq Jobs
  /\ leasePids \in [Jobs -> SUBSET Jobs]
  /\ startPids \in [Jobs -> SUBSET Jobs]
  /\ observed \in [Jobs -> SUBSET Jobs]
  /\ left \in [Jobs -> SUBSET Jobs]
  /\ tracked \subseteq Jobs
  /\ shuttingDown \in BOOLEAN
  /\ shutdownPc \in {"idle", "settling", "sweeping", "done"}

\* The counter counts the leases held, and never more than the limit allows,
\* whatever newcomers and woken waiters do between a release and a wake-up.
LeaseBound == active = Cardinality(Holders) /\ active <= Max

\* The waiting jobs are those in the queue and those on their way back from it,
\* each in one place.
WaitersAccounted ==
  /\ Elems(waitQueue) \cap woken = {}
  /\ Elems(waitQueue) \cup woken = {j \in Jobs : pc[j] = "waiting"}

\* No lost wake-up: while a job waits in the queue every free slot has a woken
\* job coming for it.
NoLostWakeup == waitQueue # <<>> => active + Cardinality(woken) >= Max

\* The slots and those who wait for them are accounted for.
SlotsSound == LeaseBound /\ WaitersAccounted /\ NoLostWakeup

\* "A lease may only clean up pids it owns": no lease owns, and so none kills,
\* the browser of another lease that is still running.
OwnershipExclusive ==
  \A j, k \in Jobs : k \in leasePids[j] /\ k # j => pc[k] \notin Holding

\* A lease that ends has its browser closed, or tracked for the shutdown to
\* kill, when the session reveals its pid.
NoUntrackedLeftover ==
  \A j \in Jobs \ Opaque :
    pc[j] = "done" /\ j \in alive /\ shutdownPc \in {"idle", "settling"} => j \in tracked

\* Every browser has one owner while its lease lasts, and somebody to see to it
\* afterwards.
BrowsersOwned == OwnershipExclusive /\ NoUntrackedLeftover

\* No lease starts once the shutdown has begun, not even for a waiter woken before.
NoLeaseAfterShutdown ==
  [][shuttingDown => \A j \in Jobs : pc[j] \in {"idle", "waiting"} => pc'[j] \notin Holding]_vars

\* Every waiting job gets its lease or is turned away: nobody waits for ever.
WaitersServed == \A j \in Jobs : pc[j] = "waiting" ~> pc[j] # "waiting"
=============================================================================
