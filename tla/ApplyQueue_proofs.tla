------------------------- MODULE ApplyQueue_proofs -------------------------
(***************************************************************************)
(* Proofs about ApplyQueue: the types, that one worker run applies at a    *)
(* time, that no task in the queue is left without somebody to apply it,   *)
(* and that a task of the full sync leaves the queue only once its notice  *)
(* is archived.                                                            *)
(***************************************************************************)
EXTENDS ApplyQueue, SequenceTheorems, FiniteSetTheorems, WellFoundedInduction, TLAPS

Running == {"loop", "apply", "remove", "pause"}

\* What the argument needs of the types.
Control ==
  /\ running \in BOOLEAN
  /\ pc \in [Slots -> Running \cup {"idle", "final"}]
  /\ DOMAIN copy = Slots
  /\ timers \in Nat
  /\ faults \in Nat

\* Somebody will look at the queue, the retries were given up, or a staging phase
\* of the cron broke off.
Covered == stored # <<>> /\ faults = 0 => Attended \/ gaveUp \/ abandoned

\* While the staging phase is at work the worker is yet to be called, and after a
\* phase of the bootstrap the drain gate is about to call it; once the phase has
\* called the worker, or is over, the queue is covered.
IInv ==
  /\ Control
  /\ OneWorker
  /\ stage = "working" => Covered
  /\ stage = "idle" => Covered \/ boot \in {"down", "gate"}

-----------------------------------------------------------------------------
(* The worker                                                              *)

\* What a step keeps of the control state.
Sound == Control /\ OneWorker

\* A run that starts when none is running covers the queue.
LEMMA StartCovers ==
  ASSUME Sound, NEW w \in Slots, ~running, Start(w), timers' \in Nat
  PROVE  Sound' /\ running'
<1>1. \A v \in Slots : v \notin Applying
  BY DEF Sound, OneWorker
<1>2. /\ running' = TRUE
      /\ pc' = [pc EXCEPT ![w] = "loop"]
      /\ DOMAIN copy' = Slots
      /\ faults' \in Nat
  BY DEF Sound, Control, Start, Goto, Read, Fault
<1>3. \A v \in Slots : v \in Applying' => v = w
  BY <1>1, <1>2 DEF Sound, Control, Applying
<1> QED
  BY <1>2, <1>3 DEF Sound, Control, Running, OneWorker

LEMMA KickCovers ==
  ASSUME Sound, NEW w \in Slots, Kick(w), timers' \in Nat
  PROVE  Sound' /\ running'
<1>1. CASE running
  BY <1>1 DEF Sound, Control, Kick, runs, OneWorker, Applying
<1>2. CASE ~running
  BY <1>2, StartCovers DEF Kick
<1> QED
  BY <1>1, <1>2

\* A run that ends takes the tasks it sees along.
LEMMA FinishCovers ==
  ASSUME Sound, NEW w \in Slots, w \in Applying, NEW e, Finish(w, e),
         UNCHANGED <<stored, timers>>
  PROVE  Sound' /\ Covered'
<1>1. \A v \in Slots : v \in Applying => v = w
  BY DEF Sound, OneWorker
<1>2. /\ running' = FALSE
      /\ pc' = [pc EXCEPT ![w] = "final"]
      /\ DOMAIN copy' = Slots
      /\ faults' \in Nat
      /\ faults' = 0 => copy'[w] = stored
  BY DEF Sound, Control, Finish, Goto, Read, Fault
<1>3. pc'[w] = "final" /\ Applying' = {}
  BY <1>1, <1>2 DEF Sound, Control, Applying
<1> QED
  BY <1>2, <1>3 DEF Sound, Control, Running, OneWorker, Covered, Attended

\* A run goes on to another of its steps.
LEMMA RunGoesOn ==
  ASSUME Sound, NEW w \in Slots, w \in Applying, NEW l \in Running, Goto(w, l),
         UNCHANGED <<running, timers>>, faults' \in Nat, DOMAIN copy' = Slots
  PROVE  Sound' /\ Covered'
<1>1. running /\ \A v \in Slots : v \in Applying => v = w
  BY DEF Sound, OneWorker
<1>2. pc' = [pc EXCEPT ![w] = l]
  BY DEF Goto
<1>3. \A v \in Slots : v \in Applying' => v = w
  BY <1>1, <1>2 DEF Sound, Control, Applying
<1> QED
  BY <1>1, <1>2, <1>3 DEF Sound, Control, Running, OneWorker, Covered, Attended

LEMMA ReadForRemovalCovers ==
  ASSUME Sound, NEW w \in Slots, w \in Applying, NEW keys, ReadForRemoval(w, keys),
         UNCHANGED timers
  PROVE  Sound' /\ Covered'
<1>1. /\ Goto(w, "remove") /\ running' = running
      /\ DOMAIN copy' = Slots /\ faults' \in Nat
  BY DEF Sound, Control, ReadForRemoval, Read, Fault
<1> QED
  BY <1>1, RunGoesOn DEF Running

LEMMA TakeBatchCovers ==
  ASSUME Sound, NEW w \in Slots, TakeBatch(w)
  PROVE  Sound' /\ Covered'
<1>1. w \in Applying /\ UNCHANGED <<stored, timers>>
  BY DEF TakeBatch, Applying, retry, history
<1>2. CASE Finish(w, FALSE)
  BY <1>1, <1>2, FinishCovers
<1>3. CASE Goto(w, "apply") /\ UNCHANGED <<running, copy, faults>>
  BY <1>1, <1>3, RunGoesOn DEF Sound, Control, Running
<1> QED
  BY <1>2, <1>3 DEF TakeBatch

LEMMA ApplyFullCovers ==
  ASSUME Sound, NEW w \in Slots, ApplyFull(w)
  PROVE  Sound' /\ Covered'
<1>1. w \in Applying /\ UNCHANGED <<stored, timers>>
  BY DEF ApplyFull, Applying, retry, history
<1>2. ReadForRemoval(w, Range(batch[w])) \/ Finish(w, TRUE)
  BY DEF ApplyFull
<1> QED
  BY <1>1, <1>2, ReadForRemovalCovers, FinishCovers

LEMMA ApplySummaryCovers ==
  ASSUME Sound, NEW w \in Slots, ApplySummary(w)
  PROVE  Sound' /\ Covered'
<1>1. w \in Applying /\ UNCHANGED <<stored, timers>>
  BY DEF ApplySummary, Applying, retry, history
<1>2. (\E keys : ReadForRemoval(w, keys))
        \/ (Goto(w, "pause") /\ UNCHANGED <<running, copy, faults>>)
  BY Zenon DEF ApplySummary
<1>3. CASE \E keys : ReadForRemoval(w, keys)
  BY <1>1, <1>3, ReadForRemovalCovers
<1>4. CASE Goto(w, "pause") /\ UNCHANGED <<running, copy, faults>>
  BY <1>1, <1>4, RunGoesOn DEF Sound, Control, Running
<1> QED
  BY <1>2, <1>3, <1>4

LEMMA RemoveTasksCovers ==
  ASSUME Sound, NEW w \in Slots, RemoveTasks(w)
  PROVE  Sound' /\ Covered'
<1>1. /\ w \in Applying /\ Goto(w, "pause") /\ UNCHANGED <<running, timers, copy>>
      /\ faults' \in Nat
  BY DEF RemoveTasks, Applying, retry, history, Fault, Sound, Control
<1> QED
  BY <1>1, RunGoesOn DEF Sound, Control, Running

LEMMA ResumeCovers ==
  ASSUME Sound, NEW w \in Slots, Resume(w)
  PROVE  Sound' /\ Covered'
<1>1. w \in Applying /\ UNCHANGED <<stored, timers>>
  BY DEF Resume, Applying, retry, history
<1>2. CASE Finish(w, TRUE)
  BY <1>1, <1>2, FinishCovers
<1>3. CASE ~failed[w]
  <2>1. /\ Goto(w, "loop") /\ running' = running
        /\ DOMAIN copy' = Slots /\ faults' \in Nat
    BY <1>3 DEF Resume, Sound, Control, Read, Fault
  <2> QED
    BY <1>1, <2>1, RunGoesOn DEF Running
<1> QED
  BY <1>2, <1>3 DEF Resume

-----------------------------------------------------------------------------
(* The end of a run                                                        *)

\* A run that is over leaves the flag to the others.
LEMMA EndRunKeeps ==
  ASSUME Sound, NEW w \in Slots, pc[w] = "final", EndRun(w), timers' \in Nat
  PROVE  /\ Sound'
         /\ \A v \in Slots \ {w} : pc'[v] = pc[v] /\ copy'[v] = copy[v]
<1>1. /\ pc' = [pc EXCEPT ![w] = "idle"]
      /\ copy' = [copy EXCEPT ![w] = <<>>]
      /\ UNCHANGED <<running, faults>>
  BY DEF EndRun, Goto
<1>2. Applying' = Applying
  BY <1>1 DEF Sound, Control, Applying
<1> QED
  BY <1>1, <1>2 DEF Sound, Control, OneWorker

LEMMA MoreTimers == Control => OneMoreTimer \in Nat \ {0}
BY ApplyAssumption DEF Control, OneMoreTimer

LEMMA SettleCovers ==
  ASSUME Sound, NEW w \in Slots, Settle(w)
  PROVE  Sound' /\ (Covered => Covered')
<1>1. pc[w] = "final" /\ stored' = stored /\ timers \in Nat
  BY DEF Settle, Sound, Control
<1>2. CASE Settled(w)
  <2>1. EndRun(w) /\ copy[w] = <<>> /\ UNCHANGED <<timers, gaveUp, abandoned>>
    BY <1>2 DEF Settled, history
  <2>2. UNCHANGED <<running, faults>>
    BY <2>1 DEF EndRun
  <2> QED
    BY <1>1, <2>1, <2>2, EndRunKeeps DEF Covered, Attended
<1>3. CASE RetryLater(w)
  <2>1. EndRun(w) /\ UNCHANGED <<running, faults>>
    BY <1>3 DEF RetryLater, EndRun
  <2>2. timers' \in Nat
    BY <1>1, <1>3, MoreTimers DEF RetryLater, Sound
  <2>3. running \/ gaveUp' \/ timers' > 0
    <3>1. (gaveUp' = ~running) \/ timers' = OneMoreTimer
      BY <1>3 DEF RetryLater
    <3>2. OneMoreTimer > 0
      BY MoreTimers DEF Sound
    <3>3. CASE gaveUp' = ~running
      BY <3>3, Zenon
    <3>4. CASE timers' = OneMoreTimer
      BY <3>2, <3>4
    <3> QED
      BY <3>1, <3>3, <3>4
  <2> QED
    BY <1>1, <2>1, <2>2, <2>3, EndRunKeeps DEF Covered, Attended
<1>4. CASE RunAgain(w)
  <2>1. timers' \in Nat
    BY <1>1, <1>4 DEF RunAgain
  <2>2. CASE running
    BY <1>1, <1>4, <2>1, <2>2, EndRunKeeps DEF RunAgain, EndRun, history, Covered, Attended
  <2>3. CASE ~running
    BY <1>4, <2>1, <2>3, StartCovers DEF RunAgain, Covered, Attended
  <2> QED
    BY <2>2, <2>3
<1> QED
  BY <1>2, <1>3, <1>4 DEF Settle

LEMMA WorkerCovers ==
  ASSUME Sound, NEW w \in Slots, WorkerStep(w)
  PROVE  Sound' /\ (Covered => Covered') /\ UNCHANGED <<stage, boot>>
<1>1. UNCHANGED <<stage, boot>>
  BY DEF WorkerStep, TakeBatch, ApplyFull, ApplySummary, RemoveTasks, Resume, Settle, phase
<1> QED
  BY <1>1, TakeBatchCovers, ApplyFullCovers, ApplySummaryCovers, RemoveTasksCovers,
     ResumeCovers, SettleCovers DEF WorkerStep

-----------------------------------------------------------------------------
(* The staging phase                                                       *)

\* A step of the staging phase that touches neither the worker nor the retries.
LEMMA QuietStaging ==
  ASSUME Sound, UNCHANGED <<running, pc, copy, timers>>, faults' \in Nat
  PROVE  Sound'
BY DEF Sound, Control, OneWorker, Applying

\* The phase ends or awaits the worker only after it has called it, or because
\* a cache command failed.
LEMMA CallWorkerCovers ==
  ASSUME Sound, NEW w \in Slots, CallWorker(w), UNCHANGED timers
  PROVE  Sound' /\ Covered'
<1>1. Kick(w)
  BY DEF CallWorker
<1> QED
  BY <1>1, KickCovers DEF Sound, Control, Covered, Attended

LEMMA NextPageCovers ==
  ASSUME Sound, NEW w \in Slots, NextPage(w), UNCHANGED timers
  PROVE  Sound' /\ (Covered' \/ stage' = "page")
<1>1. CASE CallWorker(w)
  BY <1>1, CallWorkerCovers
<1>2. CASE \E s, k : ReadPage(s, k)
  BY <1>2, QuietStaging DEF ReadPage, runs, Sound, Control
<1> QED
  BY <1>1, <1>2 DEF NextPage

\* The staging phase is at work: the worker is yet to be called.
AtWork == stage \notin {"idle", "working"}

LEMMA StagingCovers ==
  ASSUME IInv, NEW w \in Slots, StagingStep(w)
  PROVE  IInv'
<1>1. Sound /\ timers \in Nat /\ faults \in Nat
  BY DEF IInv, Sound, Control
<1> SUFFICES Sound' /\ (Covered' \/ AtWork' \/ (stage' = "idle" /\ boot' \in {"down", "gate"}))
  BY DEF IInv, Sound, AtWork
<1>2. CASE CrawlPage
  BY <1>1, <1>2, QuietStaging DEF CrawlPage, retry, history, runs, AtWork
<1>3. CASE CrawlEnds(w)
  <2>1. timers' = timers
    BY <1>3 DEF CrawlEnds
  <2>2. CASE Kick(w)
    BY <1>1, <2>1, <2>2, KickCovers DEF Covered, Attended
  <2>3. CASE ReadToEnqueue /\ UNCHANGED <<running, runs>>
    BY <1>1, <2>1, <2>3, QuietStaging DEF ReadToEnqueue, runs, Read, Fault, AtWork
  <2> QED
    BY <1>3, <2>2, <2>3 DEF CrawlEnds
<1>4. CASE Drained
  BY <1>1, <1>4, QuietStaging DEF Drained, ReadPage, runs, AtWork
<1>5. CASE PageRead(w)
  <2>1. timers' = timers
    BY <1>5 DEF PageRead
  <2>2. CASE NextPage(w)
    BY <1>1, <2>1, <2>2, NextPageCovers DEF AtWork
  <2>3. CASE ReadToEnqueue /\ UNCHANGED <<running, runs>>
    BY <1>1, <2>1, <2>3, QuietStaging DEF ReadToEnqueue, runs, Read, Fault, AtWork
  <2> QED
    BY <1>5, <2>2, <2>3 DEF PageRead
<1>6. CASE Enqueue(w)
  <2>1. timers' = timers
    BY <1>6 DEF Enqueue
  <2>2. CASE NextPage(w)
    BY <1>1, <2>1, <2>2, NextPageCovers DEF AtWork
  <2>3. CASE stage' = "enqueued" /\ UNCHANGED <<running, runs, faults>>
    BY <1>1, <2>1, <2>3, QuietStaging DEF runs, AtWork
  <2>4. CASE Fault /\ UNCHANGED <<running, runs>>
    BY <1>1, <2>1, <2>4, QuietStaging DEF runs, Fault, history, Covered, Attended
  <2> QED
    BY <1>6, <2>2, <2>3, <2>4 DEF Enqueue
<1>7. CASE Enqueued(w)
  BY <1>1, <1>7, NextPageCovers DEF Enqueued, AtWork
<1>8. CASE WorkerReturned
  BY <1>1, <1>8, QuietStaging DEF WorkerReturned, IInv, retry, history, runs, Covered, Attended
<1>9. CASE BootstrapStages(w)
  <2>1. timers' = timers
    BY <1>9 DEF BootstrapStages, BeginStaging
  <2>2. CASE Kick(w)
    BY <1>1, <2>1, <2>2, KickCovers DEF Covered, Attended
  <2>3. CASE stage' = "crawl" /\ UNCHANGED <<running, runs, faults>>
    BY <1>1, <2>1, <2>3, QuietStaging DEF runs, AtWork
  <2> QED
    BY <1>9, <2>2, <2>3 DEF BootstrapStages, BeginStaging
<1>10. CASE SkipStaging
  BY <1>1, <1>10, QuietStaging DEF SkipStaging, IInv, retry, history, runs, Covered, Attended,
         AtWork
<1>11. CASE StagingFails
  BY <1>1, <1>11, QuietStaging DEF StagingFails, LeavePhase, runs, Covered, Attended
<1> QED
  BY <1>2, <1>3, <1>4, <1>5, <1>6, <1>7, <1>8, <1>9, <1>10, <1>11 DEF StagingStep

-----------------------------------------------------------------------------
(* The inductive invariant                                                 *)

LEMMA InitIInv == Init => IInv
<1> SUFFICES ASSUME Init PROVE IInv
  OBVIOUS
<1>1. /\ pc = [w \in Slots |-> "idle"]
      /\ copy = [w \in Slots |-> <<>>]
      /\ running = FALSE /\ timers = 0 /\ faults = 0
      /\ stage = "idle" /\ boot = "down"
  BY Zenon DEF Init
<1>2. Applying = {}
  BY <1>1 DEF Applying
<1> QED
  BY <1>1, <1>2 DEF IInv, Control, OneWorker

LEMMA NextIInv == IInv /\ [Next]_vars => IInv'
<1> SUFFICES ASSUME IInv, [Next]_vars PROVE IInv'
  OBVIOUS
<1>1. Sound /\ timers \in Nat
  BY DEF IInv, Sound, Control
<1>2. ASSUME NEW w \in Slots, WorkerStep(w) PROVE IInv'
  BY <1>1, <1>2, WorkerCovers DEF IInv, Sound
<1>3. ASSUME NEW w \in Slots, TimerFires(w) PROVE IInv'
  <2>1. timers' \in Nat /\ Kick(w) /\ UNCHANGED phase
    BY <1>1, <1>3 DEF TimerFires
  <2> QED
    BY <1>1, <2>1, KickCovers DEF IInv, Sound, Covered, Attended
<1>4. ASSUME NEW w \in Slots, CronStages(w) PROVE IInv'
  <2>1. timers' = timers /\ kind = "summaryBackfill"
    BY <1>4 DEF CronStages, BeginStaging
  <2>2. Kick(w)
    BY <1>4, <2>1 DEF CronStages, BeginStaging
  <2> QED
    BY <1>1, <2>1, <2>2, KickCovers DEF IInv, Sound, Covered, Attended
<1>5. ASSUME NEW w \in Slots, GateKicks(w) PROVE IInv'
  <2>1. timers' = timers /\ Kick(w)
    BY <1>5 DEF GateKicks
  <2> QED
    BY <1>1, <2>1, KickCovers DEF IInv, Sound, Covered, Attended
<1>6. CASE GateEnds
  BY <1>1, <1>6, QuietStaging DEF GateEnds, IInv, Sound, Control, retry, history, runs,
         Covered, Attended
<1>7. CASE Restart
  BY <1>7 DEF Restart, IInv, Control, OneWorker, Applying
<1>8. CASE UNCHANGED vars
  BY <1>1, <1>8, QuietStaging
     DEF vars, IInv, Sound, Control, retry, history, runs, phase, Covered, Attended
<1> QED
  BY <1>2, <1>3, <1>4, <1>5, <1>6, <1>7, <1>8, StagingCovers DEF Next

\* The inductive invariant holds in every reachable state.
THEOREM Invariance == Spec => []IInv
BY InitIInv, NextIInv, PTL DEF Spec

\* However the kicks of the staging phase, the gate, the cron and the retries
\* meet, and for any number of runs under way, one run applies tasks
\* (isFullSyncApplyWorkerRunning, isSummaryBackfillApplyWorkerRunning).
THEOREM OneRunApplies == Spec => []OneWorker
<1>1. IInv => OneWorker
  BY DEF IInv
<1> QED
  BY <1>1, Invariance, PTL

\* No task in the queue is left without a run, a retry or a staging phase to see to it
\* (the second look at the queue in the finally block), but for given up retries, a
\* failed cache command and tasks a staging phase of the cron abandoned when it threw.
THEOREM TasksAreCovered == Spec => []NoStrandedTasks
<1>1. IInv => NoStrandedTasks
  BY DEF IInv, Covered, Attended, NoStrandedTasks
<1> QED
  BY <1>1, Invariance, PTL

\* Both together: somebody sees to the queue, with the exceptions of TasksAreCovered,
\* and nobody else at the same time.
THEOREM QueueIsTended == Spec => []QueueTended
<1>1. IInv => QueueTended
  BY DEF IInv, Covered, Attended, OneWorker, NoStrandedTasks, QueueTended
<1> QED
  BY <1>1, Invariance, PTL

-----------------------------------------------------------------------------
(* Taking elements off a sequence                                          *)

\* A finite set of numbers that is not empty has a least one: a smallest subset
\* without one would have one.
LEMMA LeastOfFinite ==
  ASSUME NEW S \in SUBSET Nat, S # {}, IsFiniteSet(S)
  PROVE  \E m \in S : \A y \in S : m <= y
<1> DEFINE Open == {X \in SUBSET S : X # {} /\ ~\E m \in X : \A y \in X : m <= y}
<1>1. CASE Open = {}
  BY <1>1
<1>2. CASE Open # {}
  <2>1. FiniteSubsetsOf(S) = SUBSET S
    BY FS_FiniteSubsetsOfFinite
  <2>2. IsWellFoundedOn(StrictSubsetOrdering(S), SUBSET S)
    BY <2>1, FS_StrictSubsetOrderingWellFounded
  <2>3. PICK X \in Open : \A Y \in Open : ~(<<Y, X>> \in StrictSubsetOrdering(S))
    BY <1>2, <2>2, WFMin
  <2>4. PICK x \in X : TRUE
    BY <2>3
  <2>5. X \ {x} \notin Open
    BY <2>3, <2>4 DEF StrictSubsetOrdering
  <2>6. X \ {x} # {}
    BY <2>3, <2>4
  <2>7. PICK m \in X \ {x} : \A y \in X \ {x} : m <= y
    BY <2>5, <2>6
  <2>8. CASE m <= x
    BY <2>3, <2>4, <2>7, <2>8
  <2>9. CASE ~(m <= x)
    <3>1. \A y \in X : x <= y
      BY <2>3, <2>4, <2>7, <2>9
    <3> QED
      BY <2>3, <2>4, <3>1
  <2> QED
    BY <2>8, <2>9
<1> QED
  BY <1>1, <1>2

\* Any set of numbers that is not empty has a least one.
LEMMA LeastNumber ==
  ASSUME NEW S \in SUBSET Nat, S # {}
  PROVE  \E m \in S : \A y \in S : m <= y
<1>1. PICK n \in S : TRUE
  OBVIOUS
<1> DEFINE T == {i \in 0 .. n : i \in S}
<1>2. IsFiniteSet(T)
  <2>1. IsFiniteSet(0 .. n)
    BY FS_Interval
  <2> QED
    BY <2>1, FS_Subset
<1>3. T \in SUBSET Nat /\ n \in T
  BY <1>1
<1>4. PICK m \in T : \A y \in T : m <= y
  <2> HIDE DEF T
  <2> QED
    BY <1>2, <1>3, LeastOfFinite
<1>5. ASSUME NEW y \in S PROVE m <= y
  <2>1. CASE y <= n
    BY <1>4, <2>1
  <2>2. CASE ~(y <= n)
    BY <1>1, <1>4, <2>2
  <2> QED
    BY <2>1, <2>2
<1> QED
  BY <1>4, <1>5

\* How Without goes through the first n elements.
Keeps(f, n, s, keys) ==
  f = [i \in 0 .. n |->
         IF i = 0 THEN <<>>
         ELSE IF s[i] \in keys THEN f[i - 1] ELSE Append(f[i - 1], s[i])]

LEMMA KeepsExists ==
  ASSUME NEW s, NEW keys, NEW n \in Nat
  PROVE  \E f : Keeps(f, n, s, keys)
<1> DEFINE Missing == {i \in Nat : ~\E f : Keeps(f, i, s, keys)}
<1> SUFFICES ASSUME Missing # {} PROVE FALSE
  OBVIOUS
<1>1. PICK m \in Missing : \A y \in Missing : m <= y
  BY LeastNumber
<1>2. m # 0
  <2> DEFINE f == [i \in 0 .. 0 |-> <<>>]
  <2>1. Keeps(f, 0, s, keys)
    BY DEF Keeps
  <2> QED
    BY <2>1
<1>3. m - 1 \in Nat /\ m - 1 \notin Missing
  BY <1>1, <1>2
<1>4. PICK f : Keeps(f, m - 1, s, keys)
  BY <1>3
<1> DEFINE last == IF s[m] \in keys THEN f[m - 1] ELSE Append(f[m - 1], s[m])
           g == [i \in 0 .. m |-> IF i = m THEN last ELSE f[i]]
<1>5. \A i \in 0 .. m - 1 :
        f[i] = IF i = 0 THEN <<>>
               ELSE IF s[i] \in keys THEN f[i - 1] ELSE Append(f[i - 1], s[i])
  BY <1>4, Zenon DEF Keeps
<1>6. ASSUME NEW i \in 0 .. m
      PROVE  g[i] = IF i = 0 THEN <<>>
                    ELSE IF s[i] \in keys THEN g[i - 1] ELSE Append(g[i - 1], s[i])
  <2>1. CASE i = m
    BY <1>2, <1>3, <2>1
  <2>2. CASE i # m
    <3>1. i \in 0 .. m - 1 /\ (i # 0 => i - 1 \in 0 .. m /\ i - 1 # m)
      BY <1>3, <2>2
    <3>2. g[i] = f[i] /\ (i # 0 => g[i - 1] = f[i - 1])
      BY <2>2, <3>1
    <3> HIDE DEF g
    <3> QED
      BY <1>5, <3>1, <3>2
  <2> QED
    BY <2>1, <2>2
<1>7. g = [i \in 0 .. m |-> g[i]]
  OBVIOUS
<1> HIDE DEF g
<1>8. Keeps(g, m, s, keys)
  BY <1>6, <1>7, Zenon DEF Keeps
<1> QED
  BY <1>8

LEMMA AppendRange ==
  ASSUME NEW T, NEW c \in Seq(T), NEW e \in T
  PROVE  Append(c, e) \in Seq(T) /\ Range(Append(c, e)) = Range(c) \cup {e}
<1> DEFINE d == Append(c, e)
<1>1. /\ d \in Seq(T) /\ Len(c) \in Nat
      /\ DOMAIN c = 1 .. Len(c) /\ DOMAIN d = 1 .. Len(c) + 1
      /\ \A i \in 1 .. Len(c) : d[i] = c[i]
      /\ d[Len(c) + 1] = e
  BY AppendProperties, LenProperties
<1> HIDE DEF d
<1>2. Range(d) = Range(c) \cup {e}
  BY <1>1 DEF Range
<1> QED
  BY <1>1, <1>2 DEF d

\* filter keeps the elements that are not among the keys, and only elements.
LEMMA WithoutKeeps ==
  ASSUME NEW T, NEW s \in Seq(T), NEW keys
  PROVE  /\ Without(s, keys) \in Seq(T)
         /\ Range(Without(s, keys)) = Range(s) \ keys
<1> DEFINE n == Len(s)
           f == CHOOSE g : Keeps(g, n, s, keys)
<1>1. n \in Nat /\ DOMAIN s = 1 .. n /\ \A i \in 1 .. n : s[i] \in T
  BY LenProperties, ElementOfSeq
<1>2. Keeps(f, n, s, keys)
  BY <1>1, KeepsExists
<1>3. Without(s, keys) = f[n]
  BY DEF Without, Keeps
<1> HIDE DEF f
<1>4. \A i \in 0 .. n :
        f[i] = IF i = 0 THEN <<>>
               ELSE IF s[i] \in keys THEN f[i - 1] ELSE Append(f[i - 1], s[i])
  BY <1>2, Zenon DEF Keeps
<1> DEFINE Seen(i) == {s[k] : k \in 1 .. i}
           Wrong == {i \in 0 .. n : ~(/\ f[i] \in Seq(T)
                                      /\ Range(f[i]) = Seen(i) \ keys)}
<1>5. Wrong = {}
  <2> SUFFICES ASSUME Wrong # {} PROVE FALSE
    OBVIOUS
  <2>1. Wrong \in SUBSET Nat
    OBVIOUS
  <2>2. PICK m \in Wrong : \A y \in Wrong : m <= y
    <3> HIDE DEF Wrong
    <3> QED
      BY <2>1, LeastNumber
  <2>3. m \in 0 .. n /\ ~(f[m] \in Seq(T) /\ Range(f[m]) = Seen(m) \ keys)
    BY <2>2
  <2>4. m # 0
    <3>1. f[0] = <<>> /\ 0 \in 0 .. n
      BY <1>1, <1>4
    <3>2. <<>> \in Seq(T) /\ Len(<<>>) = 0
      BY EmptySeq
    <3>3. Range(<<>>) = {}
      BY <3>2, LenProperties DEF Range
    <3>4. Seen(0) = {}
      OBVIOUS
    <3> QED
      BY <2>3, <3>1, <3>2, <3>3, <3>4
  <2>5. m - 1 \in 0 .. n /\ m \in 1 .. n
    BY <1>1, <2>3, <2>4
  <2>6. f[m - 1] \in Seq(T) /\ Range(f[m - 1]) = Seen(m - 1) \ keys
    <3>1. m - 1 \notin Wrong
      <4> HIDE DEF Wrong
      <4> QED
        BY <2>1, <2>2, <2>5
    <3> QED
      BY <2>5, <3>1
  <2>7. Seen(m) = Seen(m - 1) \cup {s[m]}
    BY <2>5
  <2> HIDE DEF Seen, Wrong
  <2>8. CASE s[m] \in keys
    <3>1. f[m] = f[m - 1]
      BY <1>4, <2>3, <2>4, <2>8
    <3> QED
      BY <2>3, <2>6, <2>7, <2>8, <3>1
  <2>9. CASE s[m] \notin keys
    <3>1. f[m] = Append(f[m - 1], s[m]) /\ s[m] \in T
      BY <1>1, <1>4, <2>3, <2>4, <2>5, <2>9
    <3>2. f[m] \in Seq(T) /\ Range(f[m]) = Range(f[m - 1]) \cup {s[m]}
      BY <2>6, <3>1, AppendRange
    <3> QED
      BY <2>3, <2>6, <2>7, <2>9, <3>2
  <2> QED
    BY <2>8, <2>9
<1>6. f[n] \in Seq(T) /\ Range(f[n]) = Seen(n) \ keys
  <2>1. n \in 0 .. n
    BY <1>1
  <2>2. n \notin Wrong
    <3> HIDE DEF Wrong
    <3> QED
      BY <1>5
  <2> HIDE DEF Seen
  <2> QED
    BY <2>1, <2>2
<1>7. Seen(n) = Range(s)
  BY <1>1 DEF Range
<1> QED
  BY <1>3, <1>6, <1>7

-----------------------------------------------------------------------------
(* The types                                                               *)

RunsTyped ==
  /\ running \in BOOLEAN /\ gaveUp \in BOOLEAN /\ abandoned \in BOOLEAN
  /\ pc \in [Slots -> {"idle", "loop", "apply", "remove", "pause", "final"}]
  /\ copy \in [Slots -> Seq(Tasks)]
  /\ batch \in [Slots -> Seq(Tasks)]
  /\ done \in [Slots -> SUBSET Tasks]
  /\ failed \in [Slots -> BOOLEAN]
  /\ faults \in 0 .. MaxFailures

RetriesTyped == retries \in 0 .. MaxRetries + 1 /\ timers \in 0 .. MaxTimers

PhaseTyped ==
  /\ stage \in Stages
  /\ at \in [scan : 1 .. Len(Scans), skip : Nat]
  /\ list \in Seq(Tasks) /\ view \in Seq(Tasks)
  /\ awaited \in Slots \cup {None}
  /\ boot \in {"down", "staging", "gate", "waiting", "up"}

StoreTyped == status \in [Notices -> Statuses] /\ stored \in Seq(Tasks)

ModeTyped ==
  /\ kind \in Kinds /\ cpu \in BOOLEAN
  /\ stagings \in 0 .. MaxStagings /\ crashes \in 0 .. MaxFailures

LEMMA TypedParts ==
  TypeOK <=> ModeTyped /\ StoreTyped /\ RetriesTyped /\ RunsTyped /\ PhaseTyped
BY DEF TypeOK, ModeTyped, StoreTyped, RetriesTyped, RunsTyped, PhaseTyped

LEMMA EmptyQueue == <<>> \in Seq(Tasks)
BY EmptySeq

LEMMA RangeTyped ==
  ASSUME NEW T, NEW s \in Seq(T)
  PROVE  Range(s) \subseteq T
BY LenProperties DEF Range

LEMMA ScansTyped == Len(Scans) \in Nat \ {0} /\ \A s \in 1 .. Len(Scans) : Scans[s] \in Statuses
<1>1. Len(Scans) \in Nat \ {0}
  BY ApplyAssumption, EmptySeq
<1>2. \A s \in 1 .. Len(Scans) : Scans[s] \in {"not_requested", "not_supported", "unavailable"}
  BY ApplyAssumption, ElementOfSeq
<1> QED
  BY <1>1, <1>2 DEF Statuses, SummaryStatuses

LEMMA InOrderTyped ==
  ASSUME NEW nums
  PROVE  InOrder(nums) \in Seq(Notices)
<1> DEFINE all == [n \in Notices |-> n]
<1>1. all \in Seq(Notices)
  BY ApplyAssumption DEF Notices
<1> HIDE DEF all
<1>2. Without(all, Notices \ nums) \in Seq(Notices)
  BY <1>1, WithoutKeeps
<1> QED
  BY <1>2 DEF InOrder, all

LEMMA FaultTyped ==
  ASSUME TypeOK, Fault
  PROVE  faults' \in 0 .. MaxFailures
<1>1. MaxFailures \in Nat
  BY ApplyAssumption
<1> QED
  BY <1>1 DEF TypeOK, Fault

LEMMA ReadTyped ==
  ASSUME TypeOK, NEW v, Read(v)
  PROVE  v \in Seq(Tasks) /\ faults' \in 0 .. MaxFailures
BY EmptyQueue, FaultTyped DEF TypeOK, Read

LEMMA StartTyped ==
  ASSUME TypeOK, NEW w \in Slots, Start(w)
  PROVE  RunsTyped'
<1>1. PICK v : Read(v) /\ copy' = [copy EXCEPT ![w] = v]
  BY DEF Start
<1> QED
  BY <1>1, ReadTyped, EmptyQueue DEF TypeOK, RunsTyped, Start, Goto

LEMMA KickTyped ==
  ASSUME TypeOK, NEW w \in Slots, Kick(w)
  PROVE  RunsTyped'
BY StartTyped, TypedParts DEF Kick, RunsTyped, runs, history

LEMMA FinishTyped ==
  ASSUME TypeOK, NEW w \in Slots, NEW e \in BOOLEAN, Finish(w, e), UNCHANGED history
  PROVE  RunsTyped'
<1>1. PICK v : Read(v) /\ copy' = [copy EXCEPT ![w] = v]
  BY DEF Finish
<1> QED
  BY <1>1, ReadTyped, EmptyQueue DEF TypeOK, RunsTyped, Finish, Goto, history

LEMMA ReadForRemovalTyped ==
  ASSUME TypeOK, NEW w \in Slots, NEW keys \in SUBSET Tasks, ReadForRemoval(w, keys),
         UNCHANGED history
  PROVE  RunsTyped'
<1>1. PICK v : Read(v) /\ copy' = [copy EXCEPT ![w] = v]
  BY DEF ReadForRemoval
<1> QED
  BY <1>1, ReadTyped DEF TypeOK, RunsTyped, ReadForRemoval, Goto, history

LEMMA EndRunTyped ==
  ASSUME TypeOK, NEW w \in Slots, EndRun(w), gaveUp' \in BOOLEAN, abandoned' \in BOOLEAN
  PROVE  RunsTyped'
BY EmptyQueue DEF TypeOK, RunsTyped, EndRun, Goto

\* What a step of the worker leaves alone, and what it may change.
LEMMA TakeBatchTyped ==
  ASSUME TypeOK, NEW w \in Slots, TakeBatch(w)
  PROVE  TypeOK'
<1>1. UNCHANGED <<mode, status, stored, retry, phase, crashes>>
  BY DEF TakeBatch
<1>2. RunsTyped'
  <2>1. CASE Finish(w, FALSE)
    BY <1>1, <2>1, FinishTyped DEF retry, history
  <2>2. CASE /\ Goto(w, "apply")
             /\ batch' = [batch EXCEPT ![w] =
                         SubSeq(copy[w], 1, AtMost(Len(copy[w]), BatchSize[kind]))]
             /\ UNCHANGED <<running, copy, done, failed, faults>>
    <3> DEFINE s == copy[w]
               k == AtMost(Len(s), BatchSize[kind])
    <3>1. s \in Seq(Tasks) /\ Len(s) \in Nat /\ BatchSize[kind] \in Nat \ {0}
      BY ApplyAssumption, LenProperties DEF TypeOK
    <3>2. k \in Nat /\ k <= Len(s)
      BY <3>1 DEF AtMost
    <3> HIDE DEF k
    <3>3. \A i \in 1 .. k : s[i] \in Tasks
      BY <3>1, <3>2, ElementOfSeq
    <3> HIDE DEF s
    <3>4. SubSeq(s, 1, k) \in Seq(Tasks)
      BY <3>2, <3>3, SubSeqProperties
    <3>5. batch' = [batch EXCEPT ![w] = SubSeq(s, 1, k)]
      BY <2>2 DEF k, s
    <3> QED
      BY <1>1, <2>2, <3>4, <3>5 DEF TypeOK, RunsTyped, Goto, retry, history
  <2> QED
    BY <2>1, <2>2 DEF TakeBatch
<1> QED
  BY <1>1, <1>2 DEF RunsTyped, mode, retry, history, phase, TypeOK

LEMMA ApplyFullTyped ==
  ASSUME TypeOK, NEW w \in Slots, ApplyFull(w)
  PROVE  TypeOK'
<1>1. UNCHANGED <<mode, stored, retry, phase, crashes>>
  BY DEF ApplyFull
<1>2. status' \in [Notices -> Statuses]
  BY DEF ApplyFull, TypeOK, Statuses, FullStatuses
<1>3. Range(batch[w]) \subseteq Tasks
  BY RangeTyped DEF TypeOK
<1>4. ReadForRemoval(w, Range(batch[w])) \/ Finish(w, TRUE)
  BY DEF ApplyFull
<1>5. RunsTyped'
  BY <1>1, <1>3, <1>4, ReadForRemovalTyped, FinishTyped DEF retry, history
<1> QED
  BY <1>1, <1>2, <1>5
     DEF RunsTyped, mode, retry, history, phase, TypeOK

LEMMA ApplySummaryTyped ==
  ASSUME TypeOK, NEW w \in Slots, ApplySummary(w)
  PROVE  TypeOK'
<1>1. UNCHANGED <<mode, stored, retry, phase, crashes>>
  BY DEF ApplySummary
<1>2. Range(batch[w]) \subseteq Tasks
  BY RangeTyped DEF TypeOK
<1>3. /\ status' \in [Notices -> SummaryStatuses]
      /\ \/ \E keys \in SUBSET Range(batch[w]) : ReadForRemoval(w, keys)
         \/ /\ Goto(w, "pause")
            /\ failed' = [failed EXCEPT ![w] = TRUE]
            /\ UNCHANGED <<running, copy, batch, done, faults>>
  BY Zenon DEF ApplySummary
<1>4. status' \in [Notices -> Statuses]
  BY <1>3 DEF Statuses
<1>5. RunsTyped'
  <2>1. CASE \E keys \in SUBSET Range(batch[w]) : ReadForRemoval(w, keys)
    BY <1>1, <1>2, <2>1, ReadForRemovalTyped DEF retry, history
  <2>2. CASE /\ Goto(w, "pause")
             /\ failed' = [failed EXCEPT ![w] = TRUE]
             /\ UNCHANGED <<running, copy, batch, done, faults>>
    BY <1>1, <2>2 DEF TypeOK, RunsTyped, Goto, retry, history
  <2> QED
    BY <1>3, <2>1, <2>2
<1> QED
  BY <1>1, <1>4, <1>5
     DEF RunsTyped, mode, retry, history, phase, TypeOK

LEMMA RemoveTasksTyped ==
  ASSUME TypeOK, NEW w \in Slots, RemoveTasks(w)
  PROVE  TypeOK'
<1>1. UNCHANGED <<mode, status, running, retry, copy, batch, done, phase, crashes>>
  BY DEF RemoveTasks
<1>2. stored' \in Seq(Tasks)
  BY WithoutKeeps DEF RemoveTasks, TypeOK
<1>3. /\ pc' = [pc EXCEPT ![w] = "pause"]
      /\ failed' \in [Slots -> BOOLEAN]
      /\ faults' \in 0 .. MaxFailures
  BY FaultTyped DEF RemoveTasks, TypeOK, Goto
<1> QED
  BY <1>1, <1>2, <1>3 DEF mode, retry, history, phase, TypeOK

LEMMA ResumeTyped ==
  ASSUME TypeOK, NEW w \in Slots, Resume(w)
  PROVE  TypeOK'
<1>1. UNCHANGED <<mode, status, stored, retry, phase, crashes>>
  BY DEF Resume
<1>2. RunsTyped'
  <2>1. CASE Finish(w, TRUE)
    BY <1>1, <2>1, FinishTyped DEF retry, history
  <2>2. CASE ~failed[w]
    <3>1. PICK v : Read(v) /\ copy' = [copy EXCEPT ![w] = v]
      BY <2>2 DEF Resume
    <3> QED
      BY <1>1, <2>2, <3>1, ReadTyped, EmptyQueue DEF Resume, TypeOK, RunsTyped, Goto, retry, history
  <2> QED
    BY <2>1, <2>2 DEF Resume
<1> QED
  BY <1>1, <1>2 DEF RunsTyped, mode, retry, history, phase, TypeOK

LEMMA SettleTyped ==
  ASSUME TypeOK, NEW w \in Slots, Settle(w)
  PROVE  TypeOK'
<1>1. /\ UNCHANGED <<mode, status, stored, stage, at, list, view, boot, stagings, crashes>>
      /\ awaited' \in Slots \cup {None}
  BY DEF Settle, TypeOK
<1>2. MaxRetries \in Nat \ {0} /\ MaxTimers \in Nat \ {0}
  BY ApplyAssumption
<1>3. ASSUME Settled(w) PROVE RunsTyped' /\ RetriesTyped'
  BY <1>2, <1>3, EndRunTyped DEF Settled, RetriesTyped, TypeOK, history
<1>4. ASSUME RetryLater(w) PROVE RunsTyped' /\ RetriesTyped'
  <2>1. OneMoreTimer \in 0 .. MaxTimers
    BY <1>2 DEF OneMoreTimer, TypeOK
  <2>2. gaveUp' \in BOOLEAN /\ abandoned' \in BOOLEAN
    BY <1>4 DEF RetryLater, TypeOK, history
  <2>3. RetriesTyped'
    <3>1. retries \in 0 .. MaxRetries + 1 /\ timers \in 0 .. MaxTimers
      BY DEF TypeOK
    <3>2. CASE retries >= MaxRetries
      BY <1>2, <1>4, <3>1, <3>2 DEF RetryLater, RetriesTyped
    <3>3. CASE ~(retries >= MaxRetries)
      BY <1>2, <1>4, <2>1, <3>1, <3>3 DEF RetryLater, RetriesTyped
    <3> QED
      BY <3>2, <3>3
  <2> QED
    BY <1>4, <2>2, <2>3, EndRunTyped DEF RetryLater
<1>5. ASSUME RunAgain(w) PROVE RunsTyped' /\ RetriesTyped'
  <2>1. RetriesTyped'
    BY <1>2, <1>5 DEF RunAgain, RetriesTyped, TypeOK
  <2>2. CASE EndRun(w) /\ UNCHANGED history
    BY <2>1, <2>2, EndRunTyped DEF TypeOK, history
  <2>3. CASE Start(w)
    BY <2>1, <2>3, StartTyped
  <2> QED
    BY <1>5, <2>2, <2>3 DEF RunAgain
<1>6. RunsTyped' /\ RetriesTyped'
  BY <1>3, <1>4, <1>5 DEF Settle
<1> QED
  BY <1>1, <1>6 DEF RunsTyped, RetriesTyped, mode, TypeOK

LEMMA WorkerTyped ==
  ASSUME TypeOK, NEW w \in Slots, WorkerStep(w)
  PROVE  TypeOK'
BY TakeBatchTyped, ApplyFullTyped, ApplySummaryTyped, RemoveTasksTyped, ResumeTyped,
   SettleTyped DEF WorkerStep

LEMMA LeavePhaseTyped ==
  ASSUME TypeOK, LeavePhase, awaited' \in Slots \cup {None}
  PROVE  PhaseTyped'
BY EmptyQueue, ScansTyped DEF LeavePhase, PhaseTyped, TypeOK, Stages

LEMMA TaskTyped ==
  ASSUME NEW n \in Notices, NEW scan \in Statuses
  PROVE  TaskOf(n, scan) \in Tasks
BY DEF TaskOf, Tasks

LEMMA RowsPageTyped ==
  ASSUME TypeOK, NEW s \in 1 .. Len(Scans), NEW skip \in Nat
  PROVE  RowsPage(s, skip) \in Seq(Tasks)
<1> DEFINE rows == InOrder({n \in Notices : status[n] = Scans[s]})
           last == AtMost(Len(rows), skip + BatchSize[kind])
           page == SubSeq(rows, skip + 1, last)
<1>1. rows \in Seq(Notices)
  BY InOrderTyped
<1>2. Len(rows) \in Nat
  BY <1>1, LenProperties
<1>3. last \in Nat /\ last <= Len(rows)
  <2>1. BatchSize[kind] \in Nat
    BY ApplyAssumption DEF TypeOK
  <2> HIDE DEF rows
  <2> QED
    BY <1>2, <2>1 DEF AtMost
<1> HIDE DEF last
<1>4. \A i \in skip + 1 .. last : rows[i] \in Notices
  BY <1>1, <1>2, <1>3, ElementOfSeq
<1> HIDE DEF rows
<1>5. page \in Seq(Notices)
  BY <1>3, <1>4, SubSeqProperties
<1>6. Len(page) \in Nat /\ \A i \in 1 .. Len(page) : page[i] \in Notices
  BY <1>5, ElementOfSeq, LenProperties
<1> HIDE DEF page
<1>7. \A i \in 1 .. Len(page) : TaskOf(page[i], Scans[s]) \in Tasks
  BY <1>6, ScansTyped, TaskTyped
<1>8. [i \in 1 .. Len(page) |-> TaskOf(page[i], Scans[s])] \in Seq(Tasks)
  BY <1>6, <1>7
<1> QED
  BY <1>8 DEF RowsPage, page, last, rows

LEMMA ReadPageTyped ==
  ASSUME TypeOK, NEW s \in 1 .. Len(Scans), NEW skip \in Nat, ReadPage(s, skip)
  PROVE  PhaseTyped' /\ RunsTyped'
<1>1. list' \in Seq(Tasks)
  BY RowsPageTyped DEF ReadPage
<1>2. at' \in [scan : 1 .. Len(Scans), skip : Nat] /\ stage' \in Stages
  BY DEF ReadPage, Stages
<1> QED
  BY <1>1, <1>2, EmptyQueue DEF ReadPage, PhaseTyped, RunsTyped, TypeOK, runs, history

LEMMA ReadToEnqueueTyped ==
  ASSUME TypeOK, ReadToEnqueue, UNCHANGED <<at, list, awaited, boot, running, history, runs>>
  PROVE  PhaseTyped' /\ RunsTyped'
<1>1. view' \in Seq(Tasks) /\ faults' \in 0 .. MaxFailures
  BY ReadTyped DEF ReadToEnqueue
<1> QED
  BY <1>1 DEF ReadToEnqueue, PhaseTyped, RunsTyped, TypeOK, Stages, runs, history

LEMMA CallWorkerTyped ==
  ASSUME TypeOK, NEW w \in Slots, CallWorker(w)
  PROVE  PhaseTyped' /\ RunsTyped'
<1>1. RunsTyped'
  BY KickTyped DEF CallWorker
<1>2. CASE LeavePhase /\ UNCHANGED awaited
  BY <1>1, <1>2, LeavePhaseTyped DEF TypeOK
<1>3. CASE stage' = "working" /\ awaited' = w /\ UNCHANGED <<at, list, view, boot>>
  BY <1>1, <1>3 DEF TypeOK, PhaseTyped, Stages
<1> QED
  BY <1>2, <1>3 DEF CallWorker

LEMMA NextPageTyped ==
  ASSUME TypeOK, NEW w \in Slots, NextPage(w)
  PROVE  PhaseTyped' /\ RunsTyped'
<1>1. at.scan \in 1 .. Len(Scans) /\ at.skip \in Nat /\ Len(list) \in Nat
      /\ BatchSize[kind] \in Nat \ {0}
  BY ApplyAssumption, LenProperties DEF TypeOK
<1>2. CASE CallWorker(w)
  BY <1>2, CallWorkerTyped
<1>3. CASE at.scan # Len(Scans) /\ ReadPage(at.scan + 1, 0)
  BY <1>1, <1>3, ScansTyped, ReadPageTyped
<1>4. CASE ReadPage(at.scan, at.skip + BatchSize[kind])
  BY <1>1, <1>4, ReadPageTyped
<1> QED
  BY <1>2, <1>3, <1>4 DEF NextPage

LEMMA CrawlPageTyped ==
  ASSUME TypeOK, CrawlPage
  PROVE  TypeOK'
<1> DEFINE fresh == InOrder({n \in Notices : /\ n > at.skip /\ n <= at.skip + PageUnit
                                             /\ status[n] # "pal"})
           more == [i \in 1 .. Len(fresh) |-> TaskOf(fresh[i], status[fresh[i]])]
<1>1. list' = list \o more /\ at' = [at EXCEPT !.skip = @ + PageUnit]
      /\ UNCHANGED <<mode, status, stored, running, retry, runs, stage, view, awaited, boot,
                     stagings, faults, crashes>>
  BY DEF CrawlPage
<1>2. fresh \in Seq(Notices)
  BY InOrderTyped
<1> HIDE DEF fresh
<1>3. Len(fresh) \in Nat /\ \A i \in 1 .. Len(fresh) : fresh[i] \in Notices
  BY <1>2, ElementOfSeq, LenProperties
<1>4. \A i \in 1 .. Len(fresh) : TaskOf(fresh[i], status[fresh[i]]) \in Tasks
  BY <1>3, TaskTyped DEF TypeOK
<1>5. more \in Seq(Tasks)
  BY <1>3, <1>4
<1> HIDE DEF more
<1>6. list' \in Seq(Tasks)
  BY <1>1, <1>5, ConcatProperties DEF TypeOK
<1>7. at' \in [scan : 1 .. Len(Scans), skip : Nat]
  <2>1. PageUnit \in Nat
    BY ApplyAssumption
  <2>2. at \in [scan : 1 .. Len(Scans), skip : Nat]
    BY DEF TypeOK
  <2> HIDE DEF more
  <2>3. at' = [at EXCEPT !.skip = at.skip + PageUnit]
    BY <1>1
  <2>4. at.skip + PageUnit \in Nat
    BY <2>1, <2>2
  <2> QED
    BY <2>2, <2>3, <2>4
<1> QED
  BY <1>1, <1>6, <1>7 DEF TypeOK, mode, retry, history, runs

\* The rest of a staging step's variables.
Aside == UNCHANGED <<mode, status, retries, timers, crashes>>

LEMMA StepTyped ==
  ASSUME TypeOK, Aside, stored' \in Seq(Tasks), stagings' \in 0 .. MaxStagings,
         PhaseTyped', RunsTyped'
  PROVE  TypeOK'
BY DEF Aside, TypeOK, PhaseTyped, RunsTyped, mode

LEMMA BeginTyped ==
  ASSUME TypeOK, NEW w \in Slots, BeginStaging(w), stagings' \in 0 .. MaxStagings,
         boot' \in {"down", "staging", "gate", "waiting", "up"}
  PROVE  TypeOK'
<1>1. Aside /\ UNCHANGED <<stored, at, list, view>>
  BY DEF BeginStaging, Aside
<1>2. CASE stage' = "crawl" /\ UNCHANGED <<awaited, running, history, runs, faults>>
  BY <1>1, <1>2, StepTyped DEF TypeOK, PhaseTyped, RunsTyped, Stages, runs, history
<1>3. CASE stage' = "drain" /\ Kick(w) /\ awaited' = IF running THEN None ELSE w
  <2>1. RunsTyped'
    BY <1>3, KickTyped
  <2>2. PhaseTyped'
    BY <1>1, <1>3 DEF TypeOK, PhaseTyped, Stages
  <2>3. stored' \in Seq(Tasks)
    BY <1>1 DEF TypeOK
  <2> QED
    BY <1>1, <2>1, <2>2, <2>3, StepTyped
<1> QED
  BY <1>2, <1>3 DEF BeginStaging

LEMMA StagingTyped ==
  ASSUME TypeOK, NEW w \in Slots, StagingStep(w)
  PROVE  TypeOK'
<1>1. CASE CrawlPage
  BY <1>1, CrawlPageTyped
<1>2. CASE CrawlEnds(w)
  <2>1. Aside /\ UNCHANGED <<stored, awaited, stagings>>
    BY <1>2 DEF CrawlEnds, Aside
  <2>2. stored' \in Seq(Tasks) /\ awaited' \in Slots \cup {None}
        /\ stagings' \in 0 .. MaxStagings
    BY <2>1 DEF TypeOK
  <2>3. CASE LeavePhase /\ Kick(w)
    BY <2>1, <2>2, <2>3, LeavePhaseTyped, KickTyped, StepTyped
  <2>4. CASE ReadToEnqueue /\ UNCHANGED <<at, list, boot, running, history, runs>>
    BY <2>1, <2>2, <2>4, ReadToEnqueueTyped, StepTyped
  <2> QED
    BY <1>2, <2>3, <2>4 DEF CrawlEnds
<1>3. CASE Drained
  <2>1. Aside /\ ReadPage(1, 0) /\ UNCHANGED <<stored, stagings>>
    BY <1>3 DEF Drained, Aside
  <2>2. 1 \in 1 .. Len(Scans) /\ 0 \in Nat
    BY ScansTyped
  <2> QED
    BY <2>1, <2>2, ReadPageTyped, StepTyped DEF TypeOK
<1>4. CASE PageRead(w)
  <2>1. Aside /\ UNCHANGED <<stored, stagings>>
    BY <1>4 DEF PageRead, Aside
  <2>2. PhaseTyped' /\ RunsTyped'
    BY <1>4, NextPageTyped, ReadToEnqueueTyped DEF PageRead
  <2> QED
    BY <2>1, <2>2, StepTyped DEF TypeOK
<1>5. CASE Enqueue(w)
  <2> DEFINE additions == Without(list, Range(view))
  <2>1. Aside /\ UNCHANGED stagings
    BY <1>5 DEF Enqueue, Aside
  <2>2. additions \in Seq(Tasks) /\ view \in Seq(Tasks)
    BY WithoutKeeps DEF TypeOK
  <2>3. CASE NextPage(w) /\ UNCHANGED stored
    BY <2>1, <2>3, NextPageTyped, StepTyped DEF TypeOK
  <2>4. CASE /\ stored' = view \o additions
             /\ stage' = "enqueued"
             /\ UNCHANGED <<at, list, view, awaited, boot, running, history, runs, faults>>
    <3> HIDE DEF additions
    <3>1. stored' \in Seq(Tasks)
      BY <2>2, <2>4, ConcatProperties
    <3>2. PhaseTyped' /\ RunsTyped'
      BY <2>4 DEF PhaseTyped, RunsTyped, TypeOK, Stages, runs, history
    <3> QED
      BY <2>1, <3>1, <3>2, StepTyped DEF TypeOK
  <2>5. CASE Fault /\ LeavePhase /\ UNCHANGED <<stored, awaited, running, history, runs>>
    <3>1. PhaseTyped'
      BY <2>5, LeavePhaseTyped DEF TypeOK
    <3>2. RunsTyped'
      BY <2>5, FaultTyped DEF RunsTyped, TypeOK, runs, history
    <3> QED
      BY <2>1, <2>5, <3>1, <3>2, StepTyped DEF TypeOK
  <2> QED
    BY <1>5, <2>3, <2>4, <2>5 DEF Enqueue
<1>6. CASE Enqueued(w)
  BY <1>6, NextPageTyped, StepTyped DEF Enqueued, Aside, TypeOK
<1>7. CASE WorkerReturned
  <2>1. PhaseTyped'
    BY <1>7, LeavePhaseTyped DEF WorkerReturned, TypeOK
  <2> QED
    BY <1>7, <2>1, StepTyped DEF WorkerReturned, Aside, RunsTyped, TypeOK, retry, history, runs
<1>8. CASE BootstrapStages(w)
  BY <1>8, BeginTyped DEF BootstrapStages, TypeOK
<1>9. CASE SkipStaging
  BY <1>9 DEF SkipStaging, TypeOK, mode, retry, history, runs
<1>10. CASE StagingFails
  <2>1. PhaseTyped'
    BY <1>10, LeavePhaseTyped DEF StagingFails, TypeOK
  <2>2. abandoned' \in BOOLEAN
    BY <1>10, Zenon DEF StagingFails
  <2> QED
    BY <1>10, <2>1, <2>2, StepTyped DEF StagingFails, Aside, RunsTyped, TypeOK, runs
<1> QED
  BY <1>1, <1>2, <1>3, <1>4, <1>5, <1>6, <1>7, <1>8, <1>9, <1>10 DEF StagingStep

LEMMA InitTypeOK == Init => TypeOK
<1> SUFFICES ASSUME Init PROVE TypeOK
  OBVIOUS
<1>1. kind \in Kinds /\ cpu \in BOOLEAN
  BY DEF Init
<1>2. status \in [Notices -> Statuses]
  BY <1>1, ApplyAssumption DEF Init
<1>3. /\ MaxRetries \in Nat /\ MaxTimers \in Nat /\ MaxStagings \in Nat /\ MaxFailures \in Nat
      /\ Len(Scans) \in Nat \ {0}
  BY ApplyAssumption, ScansTyped
<1>4. /\ stored = <<>> /\ running = FALSE /\ retries = 0 /\ timers = 0 
      /\ gaveUp = FALSE /\ abandoned = FALSE
      /\ pc = [w \in Slots |-> "idle"]
      /\ copy = [w \in Slots |-> <<>>]
      /\ batch = [w \in Slots |-> <<>>]
      /\ done = [w \in Slots |-> {}]
      /\ failed = [w \in Slots |-> FALSE]
      /\ stage = "idle" /\ at = [scan |-> 1, skip |-> 0]
      /\ list = <<>> /\ view = <<>> /\ awaited = None
      /\ boot = "down"
      /\ stagings = 0 /\ faults = 0 /\ crashes = 0
  BY Zenon DEF Init
<1> QED
  <2>1. RunsTyped
    <3>1. copy \in [Slots -> Seq(Tasks)] /\ batch \in [Slots -> Seq(Tasks)]
      BY <1>4, EmptyQueue
    <3>2. /\ done \in [Slots -> SUBSET Tasks] /\ failed \in [Slots -> BOOLEAN]
          /\ pc \in [Slots -> {"idle", "loop", "apply", "remove", "pause", "final"}]
      BY <1>4
    <3>3. faults \in 0 .. MaxFailures
      BY <1>3, <1>4
    <3> QED
      BY <1>4, <3>1, <3>2, <3>3 DEF RunsTyped
  <2>2. PhaseTyped
    BY <1>3, <1>4, EmptyQueue DEF PhaseTyped, Stages
  <2>3. ModeTyped /\ StoreTyped /\ RetriesTyped
    BY <1>1, <1>2, <1>3, <1>4, EmptyQueue DEF ModeTyped, StoreTyped, RetriesTyped
  <2> QED
    BY <2>1, <2>2, <2>3, TypedParts

LEMMA NextTypeOK == TypeOK /\ [Next]_vars => TypeOK'
<1> SUFFICES ASSUME TypeOK, [Next]_vars PROVE TypeOK'
  OBVIOUS
<1>1. ASSUME NEW w \in Slots, TimerFires(w) PROVE TypeOK'
  <2>1. RunsTyped' /\ timers' \in 0 .. MaxTimers
    <3>1. MaxTimers \in Nat
      BY ApplyAssumption
    <3> QED
      BY <1>1, <3>1, KickTyped DEF TimerFires, TypeOK
  <2> QED
    BY <1>1, <2>1 DEF TimerFires, RunsTyped, TypeOK, mode, phase
<1>2. ASSUME NEW w \in Slots, CronStages(w) PROVE TypeOK'
  <2>1. stagings' \in 0 .. MaxStagings
    <3>1. MaxStagings \in Nat
      BY ApplyAssumption
    <3> QED
      BY <1>2, <3>1 DEF CronStages, TypeOK
  <2> QED
    BY <1>2, <2>1, BeginTyped DEF CronStages, TypeOK
<1>3. ASSUME NEW w \in Slots, GateKicks(w) PROVE TypeOK'
  <2>1. RunsTyped' /\ boot' \in {"down", "staging", "gate", "waiting", "up"}
    BY <1>3, KickTyped DEF GateKicks, TypeOK
  <2> QED
    BY <1>3, <2>1 DEF GateKicks, RunsTyped, TypeOK, mode
<1>4. CASE GateEnds
  BY <1>4 DEF GateEnds, TypeOK, mode, retry, history, runs
<1>5. CASE Restart
  <2>1. MaxFailures \in Nat /\ MaxRetries \in Nat /\ MaxTimers \in Nat
    BY ApplyAssumption
  <2>2. crashes' \in 0 .. MaxFailures
    BY <1>5, <2>1 DEF Restart, TypeOK
  <2>3. RunsTyped'
    BY <1>5, EmptyQueue DEF Restart, TypeOK, RunsTyped
  <2>4. PhaseTyped'
    BY <1>5, EmptyQueue, ScansTyped DEF Restart, PhaseTyped, Stages
  <2> QED
    BY <1>5, <2>1, <2>2, <2>3, <2>4 DEF Restart, TypeOK, RunsTyped, PhaseTyped, mode
<1>6. CASE UNCHANGED vars
  BY <1>6 DEF vars, TypeOK, mode, retry, history, runs, phase
<1> QED
  BY <1>1, <1>2, <1>3, <1>4, <1>5, <1>6, WorkerTyped, StagingTyped DEF Next

\* Every step keeps the types: the queue, the copies of it and the batches are
\* sequences of tasks, the retries stay within MAX_ERROR_AUTO_RETRY_ATTEMPTS.
THEOREM TypeCorrect == Spec => []TypeOK
BY InitTypeOK, NextTypeOK, PTL DEF Spec

-----------------------------------------------------------------------------
(* Tasks that leave the queue of the full sync                             *)

\* The phase stages in the bootstrap pipeline only, before anybody has called
\* the worker; a run that takes tasks off the queue holds what is in it, and
\* archived the notices of the tasks it takes.
Staged ==
  /\ ~cpu
  /\ stage # "idle" => boot = "staging"
  /\ boot \in {"down", "staging"} =>
       timers = 0 /\ ~running /\ \A w \in Slots : pc[w] = "idle"
  /\ stage = "enqueue" /\ faults = 0 => view = stored

Removes(w) ==
  pc[w] = "remove" => /\ \A t \in done[w] : status[t.num] = "pal"
                      /\ faults = 0 => copy[w] = stored

FullInv == kind = "fullSync" => Staged /\ \A w \in Slots : Removes(w)

AllInv == TypeOK /\ IInv /\ FullInv

\* A worker's step while no run removes but w.
LEMMA WorkerStaged ==
  ASSUME TypeOK, IInv, FullInv, kind = "fullSync", NEW w \in Slots, WorkerStep(w)
  PROVE  Staged'
<1>1. kind' = kind /\ UNCHANGED <<cpu, stage, boot, view>>
  BY DEF WorkerStep, TakeBatch, ApplyFull, ApplySummary, RemoveTasks, Resume, Settle, phase,
         mode
<1>2. pc[w] # "idle"
  BY DEF WorkerStep, TakeBatch, ApplyFull, ApplySummary, RemoveTasks, Resume, Settle
<1> QED
  BY <1>1, <1>2 DEF FullInv, Staged

\* A run that is elsewhere is not disturbed.
LEMMA OthersRemove ==
  ASSUME TypeOK, FullInv, kind = "fullSync", NEW v \in Slots,
         pc'[v] = pc[v], copy'[v] = copy[v], done'[v] = done[v],
         \A n \in Notices : status[n] = "pal" => status'[n] = "pal",
         faults' \in Nat, faults' = 0 => faults = 0,
         pc[v] = "remove" => stored' = stored
  PROVE  Removes(v)'
<1>1. \A t \in done[v] : t.num \in Notices
  BY DEF TypeOK, Tasks
<1> QED
  BY <1>1 DEF FullInv, Removes

\* Cache commands that have failed stay counted.
LEMMA FaultsGrow ==
  ASSUME TypeOK, Fault
  PROVE  faults' \in Nat /\ faults' # 0
BY DEF TypeOK, Fault

LEMMA WorkerRemoves ==
  ASSUME TypeOK, IInv, FullInv, kind = "fullSync", NEW w \in Slots, WorkerStep(w)
  PROVE  \A v \in Slots : Removes(v)'
<1>1. TypeOK'
  BY WorkerTyped
<1>2. /\ faults \in Nat /\ faults' \in Nat
  BY <1>1 DEF TypeOK
<1>3. faults' = 0 => faults = 0
  BY <1>2, FaultsGrow
     DEF WorkerStep, TakeBatch, Finish, ApplyFull, ReadForRemoval, ApplySummary, RemoveTasks,
         Resume, Settle, Settled, RetryLater, RunAgain, EndRun, Start, Read
<1>4. \A n \in Notices : status[n] = "pal" => status'[n] = "pal"
  BY DEF WorkerStep, TakeBatch, ApplyFull, ApplySummary, RemoveTasks, Resume, Settle
<1>5. ASSUME NEW v \in Slots, v # w PROVE pc'[v] = pc[v] /\ copy'[v] = copy[v] /\ done'[v] = done[v]
  BY <1>5 DEF WorkerStep, TakeBatch, Finish, ApplyFull, ReadForRemoval, ApplySummary, RemoveTasks,
         Resume, Settle, Settled, RetryLater, RunAgain, EndRun, Start, Goto, TypeOK, runs
<1>6. ASSUME NEW v \in Slots, v # w, pc[v] = "remove" PROVE stored' = stored
  <2>1. v \in Applying
    BY <1>6 DEF Applying
  <2>2. pc[w] # "remove"
    BY <1>6, <2>1 DEF IInv, OneWorker, Applying
  <2> QED
    BY <2>2 DEF WorkerStep, TakeBatch, ApplyFull, ApplySummary, RemoveTasks, Resume, Settle
<1>7. ASSUME NEW v \in Slots, v # w PROVE Removes(v)'
  BY <1>2, <1>3, <1>4, <1>5, <1>6, <1>7, OthersRemove
<1>8. Removes(w)'
  <2>1. CASE ApplyFull(w)
    <3> DEFINE tasks == Range(batch[w])
               nums == {t.num : t \in tasks}
    <3>1. PICK saved \in SUBSET nums :
            /\ status' = [n \in Notices |-> IF n \in saved THEN "pal" ELSE status[n]]
            /\ IF saved = nums THEN ReadForRemoval(w, tasks) ELSE Finish(w, TRUE)
      BY <2>1 DEF ApplyFull
    <3>2. tasks \subseteq Tasks
      BY RangeTyped DEF TypeOK
    <3>3. CASE saved = nums
      <4>1. /\ done'[w] = tasks
            /\ faults' = 0 => copy'[w] = stored
        BY <3>1, <3>3, FaultsGrow DEF ReadForRemoval, Read, TypeOK
      <4>2. stored' = stored
        BY <2>1 DEF ApplyFull
      <4>3. \A t \in tasks : status'[t.num] = "pal"
        BY <3>1, <3>2, <3>3 DEF Tasks
      <4> QED
        BY <4>1, <4>2, <4>3 DEF Removes
    <3>4. CASE saved # nums
      BY <3>1, <3>4 DEF Finish, Goto, Removes, TypeOK
    <3> QED
      BY <3>3, <3>4
  <2>2. CASE ~ApplyFull(w)
    <3>1. pc'[w] # "remove"
      BY <2>2 DEF WorkerStep, TakeBatch, Finish, ApplySummary, RemoveTasks,
         Resume, Settle, Settled, RetryLater, RunAgain, EndRun, Start, Goto, TypeOK
    <3> QED
      BY <3>1 DEF Removes
  <2> QED
    BY <2>1, <2>2
<1> QED
  BY <1>7, <1>8

\* Calling the worker starts no removal and disturbs none.
LEMMA KickRemoves ==
  ASSUME TypeOK, FullInv, kind = "fullSync", NEW w \in Slots, Kick(w), UNCHANGED <<status, stored>>
  PROVE  \A v \in Slots : Removes(v)'
<1>1. CASE UNCHANGED <<running, history, runs, faults>>
  BY <1>1 DEF FullInv, Removes, runs
<1>2. CASE Start(w)
  <2>1. faults' \in Nat /\ (faults' = 0 => faults = 0)
    BY <1>2, FaultsGrow DEF Start, Read, TypeOK
  <2>2. ASSUME NEW v \in Slots, v # w PROVE Removes(v)'
    <3>1. pc'[v] = pc[v] /\ copy'[v] = copy[v] /\ done'[v] = done[v]
      BY <1>2, <2>2 DEF Start, Goto, TypeOK
    <3> QED
      BY <2>1, <3>1, OthersRemove
  <2>3. pc'[w] = "loop"
    BY <1>2 DEF Start, Goto, TypeOK
  <2> QED
    BY <2>2, <2>3 DEF Removes
<1> QED
  BY <1>1, <1>2 DEF Kick

LEMMA StagingFull ==
  ASSUME TypeOK, IInv, FullInv, kind = "fullSync", NEW w \in Slots, StagingStep(w)
  PROVE  Staged' /\ \A v \in Slots : Removes(v)'
<1>1. TypeOK' /\ kind' = kind /\ cpu' = cpu /\ timers' = timers /\ status' = status
  BY StagingTyped
     DEF StagingStep, CrawlPage, CrawlEnds, Drained, PageRead, Enqueue, Enqueued,
         WorkerReturned, StagingFails, BootstrapStages, SkipStaging, BeginStaging,
         mode, retry, history
<1>2. Staged /\ \A v \in Slots : Removes(v)
  BY DEF FullInv
<1>3. ASSUME CallWorker(w), stage # "idle", stored' = stored
      PROVE  Staged' /\ \A v \in Slots : Removes(v)'
  <2>1. LeavePhase /\ boot = "staging"
    BY <1>2, <1>3 DEF CallWorker, Staged
  <2>2. stage' = "idle" /\ boot' = "gate"
    BY <2>1 DEF LeavePhase
  <2>3. Kick(w)
    BY <1>3 DEF CallWorker
  <2> QED
    BY <1>1, <1>2, <1>3, <2>2, <2>3, KickRemoves DEF Staged
<1>4. ASSUME NextPage(w), stage # "idle", stored' = stored
      PROVE  Staged' /\ \A v \in Slots : Removes(v)'
  BY <1>3, <1>4 DEF NextPage
<1>5. ASSUME ReadToEnqueue, UNCHANGED <<stored, boot, running, runs>>, stage # "idle"
      PROVE  Staged' /\ \A v \in Slots : Removes(v)'
  <2>1. boot = "staging" /\ \A v \in Slots : pc[v] = "idle"
    BY <1>2, <1>5 DEF Staged
  <2>2. faults' = 0 => view' = stored
    BY <1>5, FaultsGrow DEF ReadToEnqueue, Read
  <2> QED
    BY <1>1, <1>2, <1>5, <2>1, <2>2 DEF Staged, Removes, ReadToEnqueue, runs
<1>6. CASE CrawlPage
  BY <1>1, <1>2, <1>6 DEF CrawlPage, Staged, Removes, retry, history, runs, mode
<1>7. CASE CrawlEnds(w)
  <2>1. stage # "idle" /\ stored' = stored
    BY <1>7 DEF CrawlEnds
  <2>2. CASE LeavePhase /\ Kick(w)
    <3>1. stage' = "idle" /\ boot' = "gate"
      BY <1>2, <2>1, <2>2 DEF LeavePhase, Staged
    <3> QED
      BY <1>1, <1>2, <2>1, <2>2, <3>1, KickRemoves DEF Staged
  <2>3. CASE ReadToEnqueue /\ UNCHANGED <<at, list, boot, running, history, runs>>
    BY <1>5, <2>1, <2>3
  <2> QED
    BY <1>7, <2>2, <2>3 DEF CrawlEnds
<1>8. CASE Drained
  BY <1>1, <1>2, <1>8 DEF Drained, ReadPage, Staged, Removes, retry, history, runs, mode
<1>9. CASE PageRead(w)
  <2>1. stage # "idle" /\ stored' = stored
    BY <1>9 DEF PageRead
  <2> QED
    BY <1>4, <1>5, <1>9, <2>1 DEF PageRead
<1>10. CASE Enqueue(w)
  <2>1. stage # "idle" /\ boot = "staging" /\ \A v \in Slots : pc[v] = "idle"
    BY <1>2, <1>10 DEF Enqueue, Staged
  <2>2. CASE NextPage(w) /\ UNCHANGED stored
    BY <1>4, <2>1, <2>2
  <2>3. CASE stage' = "enqueued" /\ UNCHANGED <<boot, running, runs>>
    BY <1>1, <1>2, <2>1, <2>3 DEF Staged, Removes, runs
  <2>4. CASE LeavePhase /\ UNCHANGED <<running, runs>>
    <3>1. stage' = "idle" /\ boot' = "gate"
      BY <2>1, <2>4 DEF LeavePhase
    <3> QED
      BY <1>1, <1>2, <2>1, <2>4, <3>1 DEF Staged, Removes, runs
  <2> QED
    BY <1>10, <2>2, <2>3, <2>4 DEF Enqueue
<1>11. CASE Enqueued(w)
  BY <1>4, <1>11 DEF Enqueued
<1>12. CASE WorkerReturned
  BY <1>1, <1>2, <1>12 DEF WorkerReturned, LeavePhase, Staged, Removes, retry, history, runs
<1>13. CASE BootstrapStages(w)
  BY <1>1, <1>2, <1>13 DEF BootstrapStages, BeginStaging, Staged, Removes, runs
<1>14. CASE SkipStaging
  BY <1>2, <1>14 DEF SkipStaging, Staged
<1>15. CASE StagingFails
  BY <1>1, <1>2, <1>15 DEF StagingFails, LeavePhase, Staged, Removes, runs
<1> QED
  BY <1>6, <1>7, <1>8, <1>9, <1>10, <1>11, <1>12, <1>13, <1>14, <1>15 DEF StagingStep

LEMMA NextFullInv == AllInv /\ [Next]_vars => FullInv'
<1> SUFFICES ASSUME AllInv, [Next]_vars, kind' = "fullSync"
             PROVE  Staged' /\ \A v \in Slots : Removes(v)'
  BY DEF FullInv
<1>1. TypeOK /\ IInv /\ FullInv
  BY DEF AllInv
<1>2. kind = "fullSync"
  BY DEF Next, WorkerStep, TakeBatch, ApplyFull, ApplySummary, RemoveTasks, Resume, Settle,
         TimerFires, CronStages, StagingStep, CrawlPage, CrawlEnds, Drained, PageRead, Enqueue,
         Enqueued, WorkerReturned, StagingFails, BootstrapStages, SkipStaging, BeginStaging,
         GateKicks, GateEnds,
         Restart, mode, vars
<1>3. Staged /\ \A v \in Slots : Removes(v)
  BY <1>1, <1>2 DEF FullInv
<1>4. ASSUME NEW w \in Slots, TimerFires(w) PROVE Staged' /\ \A v \in Slots : Removes(v)'
  <2>1. Kick(w) /\ boot \notin {"down", "staging"} /\ UNCHANGED <<cpu, status, stored, phase>>
    BY <1>3, <1>4 DEF TimerFires, Staged, mode
  <2> QED
    BY <1>1, <1>2, <1>3, <2>1, KickRemoves DEF Staged, phase
<1>5. ASSUME NEW w \in Slots, GateKicks(w) PROVE Staged' /\ \A v \in Slots : Removes(v)'
  <2>1. /\ Kick(w) /\ boot \notin {"down", "staging"} /\ boot' \notin {"down", "staging"}
        /\ UNCHANGED <<cpu, status, stored, stage>>
    BY <1>5 DEF GateKicks, mode
  <2> QED
    BY <1>1, <1>2, <1>3, <2>1, KickRemoves DEF Staged
<1>6. CASE GateEnds
  BY <1>3, <1>6 DEF GateEnds, Staged, Removes, runs, mode, retry, history
<1>7. CASE Restart
  BY <1>3, <1>7 DEF Restart, Staged, Removes, mode
<1>8. CASE UNCHANGED vars
  BY <1>3, <1>8 DEF Staged, Removes, runs, mode, retry, history, phase, vars
<1>9. ASSUME NEW w \in Slots PROVE ~CronStages(w)
  BY <1>2 DEF CronStages
<1> QED
  BY <1>1, <1>2, <1>4, <1>5, <1>6, <1>7, <1>8, <1>9, WorkerStaged, WorkerRemoves, StagingFull
     DEF Next

LEMMA InitFullInv == Init => FullInv
<1> SUFFICES ASSUME Init, kind = "fullSync" PROVE Staged /\ \A w \in Slots : Removes(w)
  BY DEF FullInv
<1>1. /\ cpu = FALSE /\ running = FALSE /\ timers = 0 /\ stage = "idle" /\ boot = "down"
      /\ pc = [w \in Slots |-> "idle"]
  BY DEF Init
<1> QED
  BY <1>1 DEF Staged, Removes

THEOREM AllInvariance == Spec => []AllInv
<1>1. Init => AllInv
  BY InitTypeOK, InitIInv, InitFullInv DEF AllInv
<1>2. AllInv /\ [Next]_vars => AllInv'
  BY NextTypeOK, NextIInv, NextFullInv DEF AllInv
<1> QED
  BY <1>1, <1>2, PTL DEF Spec

\* Only the worker takes tasks off the queue of the full sync.
LEMMA TasksLeaveApplied ==
  ASSUME AllInv, [Next]_vars, kind = "fullSync", faults' = 0,
         NEW t \in Range(stored) \ Range(stored')
  PROVE  status'[t.num] = "pal"
<1>1. TypeOK /\ FullInv
  BY DEF AllInv
<1>2. ASSUME NEW w \in Slots, RemoveTasks(w) PROVE status'[t.num] = "pal"
  <2>1. /\ pc[w] = "remove" /\ faults' = faults /\ status' = status
        /\ stored' = Without(copy[w], done[w])
    <3>1. stored' # stored
      OBVIOUS
    <3> QED
      BY <1>2, <3>1 DEF RemoveTasks
  <2>2. copy[w] = stored /\ \A u \in done[w] : status[u.num] = "pal"
    BY <1>1, <2>1 DEF FullInv, Removes
  <2>3. Range(stored') = Range(stored) \ done[w]
    BY <1>1, <2>1, <2>2, WithoutKeeps DEF TypeOK
  <2> QED
    BY <2>1, <2>2, <2>3
<1>3. ASSUME NEW w \in Slots, Enqueue(w) PROVE FALSE
  <2> DEFINE additions == Without(list, Range(view))
  <2>1. stored' = view \o additions /\ stage = "enqueue" /\ faults' = faults
    <3>1. stored' # stored
      OBVIOUS
    <3> QED
      BY <1>3, <3>1 DEF Enqueue
  <2>2. view = stored
    BY <1>1, <2>1 DEF FullInv, Staged
  <2>3. additions \in Seq(Tasks) /\ stored \in Seq(Tasks)
    BY <1>1, WithoutKeeps DEF TypeOK
  <2> HIDE DEF additions
  <2>4. Range(stored) \subseteq Range(stored')
    <3>1. /\ Len(stored) \in Nat /\ Len(additions) \in Nat /\ DOMAIN stored = 1 .. Len(stored)
          /\ DOMAIN stored' = 1 .. Len(stored) + Len(additions)
          /\ \A i \in 1 .. Len(stored) : stored'[i] = stored[i]
      BY <2>1, <2>2, <2>3, ConcatProperties, LenProperties
    <3> QED
      BY <3>1 DEF Range
  <2> QED
    BY <2>4
<1>4. \/ stored' = stored
      \/ \E w \in Slots : RemoveTasks(w) \/ Enqueue(w)
  BY DEF Next, WorkerStep, TakeBatch, ApplyFull, ApplySummary, Resume, Settle,
         TimerFires, CronStages, StagingStep, CrawlPage, CrawlEnds, Drained, PageRead,
         Enqueued, WorkerReturned, StagingFails, BootstrapStages, SkipStaging, BeginStaging,
         GateKicks, GateEnds,
         Restart, vars
<1> QED
  BY <1>2, <1>3, <1>4

\* A full-sync task leaves the queue only when its notice is archived with its PAL
\* data: the queue is rewritten as a whole across awaits, but no two of its
\* writers ever overlap (executeFullSyncPhase stages before the first call of
\* the worker, removeApplyTasksByKeys runs in one worker run at a time).
THEOREM TasksLeaveWhenArchived == Spec => FullSyncTasksApplied
<1>1. AllInv /\ [Next]_vars =>
        [\A t \in Range(stored) \ Range(stored') :
           kind = "fullSync" /\ faults' = 0 => status'[t.num] = "pal"]_vars
  BY TasksLeaveApplied
<1> QED
  BY <1>1, AllInvariance, PTL DEF Spec, FullSyncTasksApplied
=============================================================================
