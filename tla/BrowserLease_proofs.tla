------------------------ MODULE BrowserLease_proofs ------------------------
(* Proofs about BrowserLease, for any jobs and any limit: the bookkeeping   *)
(* of slots and waiters, that no wake-up is lost, that no lease has another *)
(* one's browser among its own and every browser has somebody who will      *)
(* close it, and that no lease begins once the shutdown has.                *)
EXTENDS BrowserLease, FiniteSetTheorems, SequenceTheorems, TLAPS

\* A job waits at most once, and nobody waits once the shutdown has begun.
QueueInjective ==
  \A i, k \in DOMAIN waitQueue : waitQueue[i] = waitQueue[k] => i = k

QueueClosed == shuttingDown => waitQueue = <<>>

IInv ==
  /\ TypeOK
  /\ LeaseBound
  /\ WaitersAccounted
  /\ NoLostWakeup
  /\ QueueInjective
  /\ QueueClosed

-----------------------------------------------------------------------------
(* Sequences and sets                                                      *)

LEMMA ElemsOfAppend ==
  ASSUME NEW s \in Seq(Jobs), NEW j \in Jobs
  PROVE  /\ Elems(Append(s, j)) = Elems(s) \cup {j}
         /\ (j \notin Elems(s) /\ \A i, k \in DOMAIN s : s[i] = s[k] => i = k)
              => LET t == Append(s, j) IN \A i, k \in DOMAIN t : t[i] = t[k] => i = k
<1> DEFINE t == Append(s, j)
<1>1. /\ Len(s) \in Nat
      /\ DOMAIN s = 1 .. Len(s)
      /\ DOMAIN t = 1 .. Len(s) + 1
      /\ \A i \in 1 .. Len(s) : t[i] = s[i]
      /\ t[Len(s) + 1] = j
  BY AppendProperties, LenProperties
<1> HIDE DEF t
<1> QED
  BY <1>1 DEF Elems, t

LEMMA ElemsOfTail ==
  ASSUME NEW s \in Seq(Jobs), s # <<>>,
         \A i, k \in DOMAIN s : s[i] = s[k] => i = k
  PROVE  /\ Head(s) \in Jobs
         /\ Tail(s) \in Seq(Jobs)
         /\ Elems(s) = Elems(Tail(s)) \cup {Head(s)}
         /\ Head(s) \notin Elems(Tail(s))
         /\ \A i, k \in DOMAIN Tail(s) : Tail(s)[i] = Tail(s)[k] => i = k
<1> DEFINE t == Tail(s)
<1>1. /\ Len(s) \in Nat \ {0}
      /\ DOMAIN s = 1 .. Len(s)
      /\ t \in Seq(Jobs)
      /\ DOMAIN t = 1 .. Len(s) - 1
      /\ \A i \in 1 .. Len(s) - 1 : t[i] = s[i + 1]
      /\ Head(s) \in Jobs
  BY EmptySeq, HeadTailProperties, LenProperties
<1>2. Head(s) = s[1]
  BY <1>1
<1> HIDE DEF t
<1>3. Elems(s) = Elems(t) \cup {s[1]}
  <2>1. ASSUME NEW x \in Elems(s) PROVE x \in Elems(t) \cup {s[1]}
    <3>1. PICK i \in 1 .. Len(s) : x = s[i]
      BY <1>1, <2>1 DEF Elems
    <3>2. CASE i = 1
      BY <3>1, <3>2
    <3>3. CASE i # 1
      <4>1. i - 1 \in DOMAIN t /\ t[i - 1] = s[i]
        BY <1>1, <3>1, <3>3
      <4> QED
        BY <3>1, <4>1 DEF Elems
    <3> QED
      BY <3>2, <3>3
  <2>2. ASSUME NEW x \in Elems(t) \cup {s[1]} PROVE x \in Elems(s)
    BY <1>1, <2>2 DEF Elems
  <2> QED
    BY <2>1, <2>2
<1>4. s[1] \notin Elems(t)
  BY <1>1 DEF Elems
<1>5. ASSUME NEW i \in DOMAIN t, NEW k \in DOMAIN t, t[i] = t[k] PROVE i = k
  <2>1. /\ i \in 1 .. Len(s) - 1 /\ k \in 1 .. Len(s) - 1
        /\ i + 1 \in DOMAIN s /\ k + 1 \in DOMAIN s
    BY <1>1, <1>5
  <2>2. s[i + 1] = s[k + 1]
    BY <1>1, <1>5, <2>1
  <2>3. i + 1 = k + 1
    BY <2>1, <2>2
  <2> QED
    BY <2>1, <2>3
<1> QED
  BY <1>1, <1>2, <1>3, <1>4, <1>5 DEF t

\* Adding and removing one element of a set of jobs.
LEMMA JobCounts ==
  ASSUME NEW S \in SUBSET Jobs, NEW j \in Jobs
  PROVE  /\ Cardinality(S) \in Nat
         /\ j \notin S => Cardinality(S \cup {j}) = Cardinality(S) + 1
         /\ j \in S => Cardinality(S \ {j}) = Cardinality(S) - 1
         /\ j \in S => Cardinality(S) # 0
<1>1. IsFiniteSet(S)
  BY LeaseAssumption, FS_Subset
<1> QED
  BY <1>1, FS_CardinalityType, FS_AddElement, FS_RemoveElement, FS_EmptySet

-----------------------------------------------------------------------------
(* Steps that leave the slots alone                                        *)

\* What the slot invariants depend on.
SlotView == <<slots, shuttingDown, Holders, {j \in Jobs : pc[j] = "waiting"}>>

LEMMA SlotsUntouched ==
  ASSUME IInv, TypeOK', UNCHANGED SlotView
  PROVE  IInv'
BY DEF IInv, SlotView, slots, LeaseBound, WaitersAccounted, NoLostWakeup, QueueInjective,
       QueueClosed

\* Moving a job between two labels of the same kind.
LEMMA MoveWithinLease ==
  ASSUME TypeOK, NEW j \in Jobs, NEW label \in Holding, pc[j] \in Holding, Goto(j, label)
  PROVE  UNCHANGED <<Holders, {k \in Jobs : pc[k] = "waiting"}>>
BY DEF TypeOK, Goto, Holders, Holding

-----------------------------------------------------------------------------
(* Steps on the slots                                                      *)

\* A job that is idle or woken goes round the loop of waitForLeaseSlot.
LEMMA SlotLoopKeeps ==
  ASSUME IInv, TypeOK', NEW j \in Jobs, SlotLoop(j), UNCHANGED shuttingDown,
         \/ pc[j] = "idle" /\ UNCHANGED woken
         \/ j \in woken /\ woken' = woken \ {j}
  PROVE  IInv'
<1> DEFINE waiting == {k \in Jobs : pc[k] = "waiting"}
<1>1. /\ active \in Nat /\ Max \in Nat
      /\ waitQueue \in Seq(Jobs)
      /\ woken \subseteq Jobs /\ Holders \subseteq Jobs
      /\ pc \in [Jobs -> Labels]
      /\ j \notin Elems(waitQueue)
      /\ j \notin Holders
  BY LeaseAssumption DEF IInv, TypeOK, WaitersAccounted, Holders, Holding
<1>2. pc[j] = "idle" => j \notin woken
  BY DEF IInv, WaitersAccounted
<1>3. /\ Cardinality(woken) \in Nat
      /\ Cardinality(woken') \in Nat
      /\ Cardinality(woken') >= Cardinality(woken) - 1
      /\ j \notin woken => woken' = woken
  <2>1. CASE woken' = woken
    <3>1. woken \in SUBSET Jobs
      BY <1>1
    <3>2. Cardinality(woken) \in Nat
      BY <3>1, JobCounts
    <3> QED
      BY <2>1, <3>2
  <2>2. CASE j \in woken /\ woken' = woken \ {j}
    <3>1. Cardinality(woken) \in Nat /\ Cardinality(woken \ {j}) = Cardinality(woken) - 1
      BY <1>1, <2>2, JobCounts
    <3>2. woken \ {j} \in SUBSET Jobs
      BY <1>1
    <3>3. Cardinality(woken \ {j}) \in Nat
      BY <3>2, JobCounts
    <3> QED
      BY <2>2, <3>1, <3>3
  <2> QED
    BY <1>2, <2>1, <2>2
<1>4. CASE shuttingDown
  <2>1. pc' = [pc EXCEPT ![j] = "done"] /\ UNCHANGED <<active, waitQueue>>
    BY <1>4 DEF SlotLoop, Goto
  <2>2. Holders' = Holders
    BY <1>1, <2>1 DEF Holders, Holding
  <2>3. waiting' = waiting \ {j}
    BY <1>1, <2>1
  <2>4. waitQueue = <<>>
    BY <1>4 DEF IInv, QueueClosed
  <2> QED
    BY <1>1, <1>2, <2>1, <2>2, <2>3, <2>4
       DEF IInv, LeaseBound, WaitersAccounted, NoLostWakeup, QueueInjective, QueueClosed
<1>5. CASE ~shuttingDown /\ active < Max
  <2>1. pc' = [pc EXCEPT ![j] = "acquired"] /\ active' = active + 1 /\ UNCHANGED waitQueue
    BY <1>5 DEF SlotLoop, Goto
  <2>2. Holders' = Holders \cup {j}
    BY <1>1, <2>1 DEF Holders, Holding
  <2>3. waiting' = waiting \ {j}
    BY <1>1, <2>1
  <2>4. LeaseBound'
    BY <1>1, <1>5, <2>1, <2>2, JobCounts DEF IInv, LeaseBound
  <2>5. WaitersAccounted'
    BY <1>1, <1>2, <2>1, <2>3 DEF IInv, WaitersAccounted
  <2>6. NoLostWakeup'
    BY <1>1, <1>3, <2>1 DEF IInv, NoLostWakeup
  <2> QED
    BY <1>5, <2>1, <2>4, <2>5, <2>6 DEF IInv, QueueInjective, QueueClosed
<1>6. CASE ~shuttingDown /\ ~(active < Max)
  <2>1. /\ pc' = [pc EXCEPT ![j] = "waiting"]
        /\ waitQueue' = Append(waitQueue, j)
        /\ UNCHANGED active
    BY <1>6 DEF SlotLoop, Goto
  <2>2. Holders' = Holders
    BY <1>1, <2>1 DEF Holders, Holding
  <2>3. waiting' = waiting \cup {j}
    BY <1>1, <2>1
  <2>4. Elems(waitQueue') = Elems(waitQueue) \cup {j} /\ QueueInjective'
    BY <1>1, <2>1, ElemsOfAppend DEF IInv, QueueInjective
  <2>5. WaitersAccounted'
    BY <1>1, <1>2, <2>3, <2>4 DEF IInv, WaitersAccounted
  <2>6. NoLostWakeup'
    BY <1>1, <1>3, <1>6, <2>1 DEF NoLostWakeup
  <2> QED
    BY <1>6, <2>1, <2>2, <2>4, <2>5, <2>6 DEF IInv, LeaseBound, QueueClosed
<1> QED
  BY <1>4, <1>5, <1>6

LEMMA EndLeaseKeeps ==
  ASSUME IInv, TypeOK', NEW j \in Jobs, EndLease(j)
  PROVE  IInv'
<1> DEFINE waiting == {k \in Jobs : pc[k] = "waiting"}
<1>1. /\ active \in Nat /\ Max \in Nat
      /\ waitQueue \in Seq(Jobs)
      /\ woken \subseteq Jobs /\ Holders \subseteq Jobs
      /\ pc \in [Jobs -> Labels]
      /\ j \in Holders
  BY LeaseAssumption DEF IInv, TypeOK, Holders, Holding, EndLease
<1>2. pc' = [pc EXCEPT ![j] = "done"] /\ pc[j] = "cleanup" /\ UNCHANGED shuttingDown
  BY DEF EndLease, Goto, stop
<1>3. Holders' = Holders \ {j}
  BY <1>1, <1>2 DEF Holders, Holding
<1>4. waiting' = waiting
  BY <1>1, <1>2
<1>5. /\ Cardinality(Holders \ {j}) = Cardinality(Holders) - 1
      /\ Cardinality(Holders) # 0
  BY <1>1, JobCounts
<1>6. active' = active - 1 /\ active # 0
  BY <1>1, <1>5 DEF IInv, LeaseBound, EndLease, ReleaseLease
<1>7. LeaseBound'
  BY <1>1, <1>3, <1>5, <1>6 DEF IInv, LeaseBound
<1>8. CASE waitQueue = <<>>
  <2>1. UNCHANGED <<waitQueue, woken>>
    BY <1>8 DEF EndLease, ReleaseLease
  <2> QED
    BY <1>2, <1>4, <1>7, <1>8, <2>1
       DEF IInv, WaitersAccounted, NoLostWakeup, QueueInjective, QueueClosed
<1>9. CASE waitQueue # <<>>
  <2>1. waitQueue' = Tail(waitQueue) /\ woken' = woken \cup {Head(waitQueue)}
    BY <1>9 DEF EndLease, ReleaseLease
  <2>2. /\ Head(waitQueue) \in Jobs
        /\ Elems(waitQueue) = Elems(waitQueue') \cup {Head(waitQueue)}
        /\ Head(waitQueue) \notin Elems(waitQueue')
        /\ QueueInjective'
    BY <1>1, <1>9, <2>1, ElemsOfTail DEF IInv, QueueInjective
  <2>3. WaitersAccounted' /\ Head(waitQueue) \notin woken
    BY <1>4, <2>1, <2>2 DEF IInv, WaitersAccounted
  <2>4. Cardinality(woken') = Cardinality(woken) + 1 /\ Cardinality(woken) \in Nat
    BY <1>1, <2>1, <2>2, <2>3, JobCounts
  <2>5. NoLostWakeup'
    BY <1>1, <1>6, <1>9, <2>4 DEF IInv, NoLostWakeup
  <2> QED
    BY <1>2, <1>7, <1>9, <2>2, <2>3, <2>5 DEF IInv, QueueClosed
<1> QED
  BY <1>8, <1>9

LEMMA ShutdownKeeps ==
  ASSUME IInv, TypeOK', Shutdown
  PROVE  IInv'
<1>1. /\ waitQueue' = <<>>
      /\ woken' = woken \cup Elems(waitQueue)
      /\ UNCHANGED <<active, pc>>
  BY DEF Shutdown
<1>2. Elems(<<>>) = {} /\ DOMAIN <<>> = {}
  BY DEF Elems
<1>3. WaitersAccounted'
  BY <1>1, <1>2 DEF IInv, WaitersAccounted
<1>4. LeaseBound'
  BY <1>1 DEF IInv, LeaseBound, Holders
<1> QED
  BY <1>1, <1>2, <1>3, <1>4 DEF IInv, NoLostWakeup, QueueInjective, QueueClosed

-----------------------------------------------------------------------------
(* The invariant                                                           *)

LEMMA TypeInit == Init => TypeOK
<1> SUFFICES ASSUME Init PROVE TypeOK
  OBVIOUS
<1> QED
  BY EmptySeq DEF Init, TypeOK, Labels

LEMMA TypeNext == TypeOK /\ [Next]_vars => TypeOK'
<1> SUFFICES ASSUME TypeOK, [Next]_vars PROVE TypeOK'
  OBVIOUS
<1> USE DEF TypeOK, slots, pids, os, stop, Goto, Labels, Holding
<1>1. ASSUME NEW j \in Jobs, SlotLoop(j), woken' \subseteq woken, UNCHANGED <<pids, os, stop>>
      PROVE  TypeOK'
  BY <1>1, AppendProperties, SMTT(30) DEF SlotLoop
<1>2. ASSUME NEW j \in Jobs, Request(j) PROVE TypeOK'
  BY <1>1, <1>2 DEF Request
<1>3. ASSUME NEW j \in Jobs, WakeUp(j) PROVE TypeOK'
  BY <1>1, <1>3 DEF WakeUp
<1>4. ASSUME NEW j \in Jobs, Register(j) PROVE TypeOK'
  BY <1>4 DEF Register
<1>5. ASSUME NEW j \in Jobs, SnapshotAtStart(j) PROVE TypeOK'
  BY <1>5 DEF SnapshotAtStart
<1>6. ASSUME NEW j \in Jobs, Launch(j) PROVE TypeOK'
  BY <1>6 DEF Launch
<1>7. ASSUME NEW j \in Jobs, EndTask(j) PROVE TypeOK'
  BY <1>7 DEF EndTask
<1>8. ASSUME NEW j \in Jobs, Observe(j) PROVE TypeOK'
  BY <1>8 DEF Observe
<1>9. ASSUME NEW j \in Jobs, Decide(j) PROVE TypeOK'
  BY <1>9 DEF Decide, Adopted
<1>10. ASSUME NEW j \in Jobs, CloseBrowser(j) PROVE TypeOK'
  BY <1>10 DEF CloseBrowser
<1>11. ASSUME NEW j \in Jobs, Recheck(j) PROVE TypeOK'
  BY <1>11 DEF Recheck
<1>12. ASSUME NEW j \in Jobs, CleanUp(j) PROVE TypeOK'
  BY <1>12 DEF CleanUp
<1>13. ASSUME NEW j \in Jobs, EndLease(j) PROVE TypeOK'
  <2>1. waitQueue' \in Seq(Jobs) /\ woken' \subseteq Jobs /\ active' \in Nat
    <3>1. active' \in Nat
      <4>1. active' = IF active > 0 THEN active - 1 ELSE 0
        BY <1>13 DEF EndLease, ReleaseLease
      <4> QED
        BY <4>1
    <3>2. CASE waitQueue = <<>>
      BY <1>13, <3>1, <3>2 DEF EndLease, ReleaseLease
    <3>3. CASE waitQueue # <<>>
      <4>1. Head(waitQueue) \in Jobs /\ Tail(waitQueue) \in Seq(Jobs)
        BY <3>3, HeadTailProperties
      <4>2. waitQueue' = Tail(waitQueue) /\ woken' = woken \cup {Head(waitQueue)}
        BY <1>13, <3>3 DEF EndLease, ReleaseLease
      <4> QED
        BY <3>1, <4>1, <4>2
    <3> QED
      BY <3>2, <3>3
  <2> QED
    BY <1>13, <2>1 DEF EndLease
<1>14. CASE Shutdown
  BY <1>14, LenProperties, ElementOfSeq, EmptySeq DEF Shutdown, Elems
<1>15. CASE KillTracked
  BY <1>15 DEF KillTracked
<1>16. CASE KillDescendants
  BY <1>16 DEF KillDescendants
<1>17. ASSUME NEW j \in Jobs, BrowserDies(j) PROVE TypeOK'
  BY <1>17 DEF BrowserDies
<1>18. CASE UNCHANGED vars
  BY <1>18 DEF vars
<1> QED
  BY <1>2, <1>3, <1>4, <1>5, <1>6, <1>7, <1>8, <1>9, <1>10, <1>11, <1>12, <1>13, <1>14,
     <1>15, <1>16, <1>17, <1>18 DEF Next, LeaseStep

LEMMA InitIInv == Init => IInv
<1> SUFFICES ASSUME Init PROVE IInv
  OBVIOUS
<1>1. Holders = {} /\ Elems(waitQueue) = {} /\ DOMAIN waitQueue = {}
  BY DEF Init, Holders, Holding, Elems
<1> QED
  BY <1>1, TypeInit, FS_EmptySet, LeaseAssumption
     DEF Init, IInv, LeaseBound, WaitersAccounted, NoLostWakeup, QueueInjective, QueueClosed

LEMMA NextIInv == IInv /\ [Next]_vars => IInv'
<1> SUFFICES ASSUME IInv, [Next]_vars PROVE IInv'
  OBVIOUS
<1>1. TypeOK /\ TypeOK'
  BY TypeNext DEF IInv
<1> USE DEF SlotView, slots, stop
<1>2. ASSUME NEW j \in Jobs, Request(j) PROVE IInv'
  BY <1>1, <1>2, SlotLoopKeeps DEF Request
<1>3. ASSUME NEW j \in Jobs, WakeUp(j) PROVE IInv'
  BY <1>1, <1>3, SlotLoopKeeps DEF WakeUp
<1>4. ASSUME NEW j \in Jobs, NEW from \in Holding, NEW to \in Holding,
             pc[j] = from, Goto(j, to), UNCHANGED <<slots, shuttingDown>>
      PROVE  IInv'
  BY <1>1, <1>4, MoveWithinLease, SlotsUntouched
<1>5. ASSUME NEW j \in Jobs,
             \/ Register(j) \/ SnapshotAtStart(j) \/ EndTask(j) \/ Observe(j) \/ Decide(j)
             \/ CloseBrowser(j) \/ Recheck(j)
      PROVE  IInv'
  BY <1>4, <1>5 DEF Register, SnapshotAtStart, EndTask, Observe, Decide, CloseBrowser,
                    Recheck, Holding
<1>6. ASSUME UNCHANGED <<slots, pc, shuttingDown>> PROVE IInv'
  BY <1>1, <1>6, SlotsUntouched DEF Holders
<1>7. ASSUME NEW j \in Jobs, Launch(j) \/ CleanUp(j) \/ BrowserDies(j) PROVE IInv'
  BY <1>6, <1>7 DEF Launch, CleanUp, BrowserDies
<1>8. ASSUME NEW j \in Jobs, EndLease(j) PROVE IInv'
  BY <1>1, <1>8, EndLeaseKeeps
<1>9. CASE Shutdown
  BY <1>1, <1>9, ShutdownKeeps
<1>10. CASE KillTracked \/ KillDescendants \/ UNCHANGED vars
  BY <1>6, <1>10 DEF KillTracked, KillDescendants, vars
<1> QED
  BY <1>2, <1>3, <1>5, <1>7, <1>8, <1>9, <1>10 DEF Next, LeaseStep

\* The inductive invariant holds in every reachable state.
THEOREM Invariance == Spec => []IInv
<1> QED
  BY InitIInv, NextIInv, PTL DEF Spec

\* Type correctness of the lease manager, for any jobs and limit.
THEOREM TypeCorrect == Spec => []TypeOK
<1>1. IInv => TypeOK
  BY DEF IInv
<1> QED
  BY <1>1, Invariance, PTL

\* activeLeases counts the leases and never exceeds the limit.
THEOREM LeasesAreBounded == Spec => []LeaseBound
<1>1. IInv => LeaseBound
  BY DEF IInv
<1> QED
  BY <1>1, Invariance, PTL

\* Every waiting job is in the queue or on its way back from it.
THEOREM WaitersAreAccounted == Spec => []WaitersAccounted
<1>1. IInv => WaitersAccounted
  BY DEF IInv
<1> QED
  BY <1>1, Invariance, PTL

\* A free slot never goes unnoticed while a job waits.
THEOREM WakeupIsNeverLost == Spec => []NoLostWakeup
<1>1. IInv => NoLostWakeup
  BY DEF IInv
<1> QED
  BY <1>1, Invariance, PTL

\* The three together: waitForLeaseSlot and releaseLease lose neither a slot nor a
\* waiter.
THEOREM SlotsAreSound == Spec => []SlotsSound
<1>1. IInv => SlotsSound
  BY DEF IInv, SlotsSound
<1> QED
  BY <1>1, Invariance, PTL

-----------------------------------------------------------------------------
(* Whose browser is whose                                                  *)

\* A browser exists once its job's task has launched it; what the jobs have read
\* and own are browsers that exist, and a lease owns no browser but its own and
\* those of jobs that are done.
Ownership ==
  /\ alive \subseteq launched
  /\ \A j \in Jobs :
       /\ observed[j] \subseteq launched
       /\ left[j] \subseteq launched
       /\ leasePids[j] \subseteq launched
       /\ pc[j] \in {"idle", "waiting", "acquired", "starting"} => j \notin launched
  /\ \A j, k \in Jobs : k \in leasePids[j] /\ k # j => pc[k] = "done"

\* The only registered job adopts nobody's running browser: of the other jobs
\* that hold a lease none has launched one.
LEMMA AdoptedIsDone ==
  ASSUME TypeOK, Ownership, NEW j \in Jobs, pc[j] = "deciding",
         NEW k \in Jobs, k \in Adopted(j), k # j
  PROVE  pc[k] = "done"
<1>1. Cardinality(Registered) <= 1 /\ k \in observed[j]
  BY DEF Adopted
<1>2. Registered \in SUBSET Jobs /\ j \in Registered
  BY DEF Registered, Holding
<1>3. k \notin Registered
  <2> SUFFICES ASSUME k \in Registered PROVE FALSE
    OBVIOUS
  <2>1. Registered \ {j} \in SUBSET Jobs /\ k \in Registered \ {j}
    BY <1>2
  <2>2. Cardinality(Registered \ {j}) = Cardinality(Registered) - 1
    BY <1>2, JobCounts
  <2>3. Cardinality(Registered \ {j}) # 0 /\ Cardinality(Registered \ {j}) \in Nat
    BY <2>1, JobCounts
  <2>4. Cardinality(Registered) \in Nat
    BY <1>2, JobCounts
  <2> QED
    BY <1>1, <2>2, <2>3, <2>4
<1>4. k \in launched
  BY <1>1 DEF Ownership
<1> QED
  BY <1>3, <1>4 DEF TypeOK, Labels, Holding, Registered, Ownership

LEMMA OwnershipNext ==
  ASSUME IInv, TypeOK', Ownership, [Next]_vars
  PROVE  Ownership'
<1>1. TypeOK
  BY DEF IInv
<1> USE <1>1 DEF slots, pids, os, stop, Goto
<1>2. ASSUME NEW j \in Jobs, NEW label \in {"acquired", "waiting", "done"},
             pc[j] \in {"idle", "waiting"}, Goto(j, label), UNCHANGED <<pids, os>>
      PROVE  Ownership'
  BY <1>2 DEF TypeOK, Ownership
<1>3. ASSUME NEW j \in Jobs, Request(j) \/ WakeUp(j) PROVE Ownership'
  <2>1. pc[j] \in {"idle", "waiting"}
    BY <1>3 DEF Request, WakeUp, IInv, WaitersAccounted
  <2> QED
    BY <1>2, <1>3, <2>1 DEF Request, WakeUp, SlotLoop
<1>4. ASSUME NEW j \in Jobs, Register(j) PROVE Ownership'
  BY <1>4 DEF Register, TypeOK, Ownership
<1>5. ASSUME NEW j \in Jobs, SnapshotAtStart(j) PROVE Ownership'
  BY <1>5 DEF SnapshotAtStart, TypeOK, Ownership
<1>6. ASSUME NEW j \in Jobs, Launch(j) PROVE Ownership'
  BY <1>6 DEF Launch, TypeOK, Ownership
<1>7. ASSUME NEW j \in Jobs, EndTask(j) PROVE Ownership'
  BY <1>7 DEF EndTask, TypeOK, Ownership
<1>8. ASSUME NEW j \in Jobs, Observe(j) PROVE Ownership'
  BY <1>8 DEF Observe, Snapshot, TypeOK, Ownership
<1>9. ASSUME NEW j \in Jobs, Decide(j) PROVE Ownership'
  <2>1. \A k \in Adopted(j) : k \in launched
    BY DEF Adopted, Ownership
  <2>2. \A k \in Jobs : k \in Adopted(j) /\ k # j => pc[k] = "done"
    BY <1>9, AdoptedIsDone DEF Decide
  <2> HIDE DEF Adopted
  <2> QED
    BY <1>9, <2>1, <2>2 DEF Decide, TypeOK, Ownership
<1>10. ASSUME NEW j \in Jobs, CloseBrowser(j) PROVE Ownership'
  BY <1>10 DEF CloseBrowser, TypeOK, Ownership
<1>11. ASSUME NEW j \in Jobs, Recheck(j) PROVE Ownership'
  BY <1>11 DEF Recheck, Snapshot, TypeOK, Ownership
<1>12. ASSUME NEW j \in Jobs, CleanUp(j) PROVE Ownership'
  BY <1>12 DEF CleanUp, TypeOK, Ownership
<1>13. ASSUME NEW j \in Jobs, EndLease(j) PROVE Ownership'
  BY <1>13 DEF EndLease, TypeOK, Ownership
<1>14. CASE Shutdown
  BY <1>14 DEF Shutdown, Ownership
<1>15. CASE KillTracked \/ KillDescendants
  BY <1>15 DEF KillTracked, KillDescendants, Ownership
<1>16. ASSUME NEW j \in Jobs, BrowserDies(j) PROVE Ownership'
  BY <1>16 DEF BrowserDies, Ownership
<1>17. CASE UNCHANGED vars
  BY <1>17 DEF vars, Ownership
<1> QED
  BY <1>3, <1>4, <1>5, <1>6, <1>7, <1>8, <1>9, <1>10, <1>11, <1>12, <1>13, <1>14, <1>15, <1>16,
     <1>17 DEF Next, LeaseStep

LEMMA OwnershipInit == Init => Ownership
BY DEF Init, Ownership

THEOREM OwnershipInvariance == Spec => []Ownership
<1>1. IInv /\ Ownership /\ [Next]_vars => Ownership'
  BY NextIInv, OwnershipNext DEF IInv
<1> QED
  BY <1>1, OwnershipInit, Invariance, PTL DEF Spec

\* No lease owns, and so none kills, the browser of another lease that is still
\* running, even where strays are adopted and the process list may fail.
THEOREM OwnersAreExclusive == Spec => []OwnershipExclusive
<1>1. Ownership => OwnershipExclusive
  BY DEF Ownership, OwnershipExclusive, Holding
<1> QED
  BY <1>1, OwnershipInvariance, PTL

-----------------------------------------------------------------------------
(* Who sees to a browser that survives its lease                           *)

\* From the end of its task a browser that reveals its pid is owned by its
\* lease, then tracked, and a cleanup that has read the process list finds in it
\* every owned browser that is alive.
Tracking ==
  /\ \A j \in Jobs \ Opaque :
       /\ pc[j] \in {"observing", "deciding"} /\ j \in launched => j \in leasePids[j]
       /\ /\ pc[j] \in {"closing", "rechecking", "cleanup", "done"}
          /\ j \in alive
          /\ shutdownPc \in {"idle", "settling"}
          => j \in tracked
  /\ \A j \in Jobs : pc[j] = "cleanup" => left[j] \cap alive \subseteq observed[j]
  /\ shuttingDown \/ shutdownPc = "idle"

LEMMA TrackingNext ==
  ASSUME ~PsMayFail, IInv, TypeOK', Ownership, Tracking, [Next]_vars
  PROVE  Tracking'
<1>1. TypeOK
  BY DEF IInv
<1> USE <1>1 DEF slots, pids, os, stop, Goto
<1>2. ASSUME NEW j \in Jobs, NEW label \in {"acquired", "waiting", "done"},
             pc[j] \in {"idle", "waiting"}, Goto(j, label), UNCHANGED <<pids, os, stop>>
      PROVE  Tracking'
  BY <1>2 DEF TypeOK, Ownership, Tracking
<1>3. ASSUME NEW j \in Jobs, Request(j) \/ WakeUp(j) PROVE Tracking'
  <2>1. pc[j] \in {"idle", "waiting"}
    BY <1>3 DEF Request, WakeUp, IInv, WaitersAccounted
  <2> QED
    BY <1>2, <1>3, <2>1 DEF Request, WakeUp, SlotLoop
<1>4. ASSUME NEW j \in Jobs, Register(j) PROVE Tracking'
  BY <1>4 DEF Register, TypeOK, Tracking
<1>5. ASSUME NEW j \in Jobs, SnapshotAtStart(j) PROVE Tracking'
  BY <1>5 DEF SnapshotAtStart, TypeOK, Tracking
<1>6. ASSUME NEW j \in Jobs, Launch(j) PROVE Tracking'
  BY <1>6 DEF Launch, TypeOK, Ownership, Tracking
<1>7. ASSUME NEW j \in Jobs, EndTask(j) PROVE Tracking'
  BY <1>7 DEF EndTask, TypeOK, Tracking
<1>8. ASSUME NEW j \in Jobs, Observe(j) PROVE Tracking'
  BY <1>8 DEF Observe, TypeOK, Tracking
<1>9. ASSUME NEW j \in Jobs, Decide(j) PROVE Tracking'
  BY <1>9 DEF Decide, TypeOK, Ownership, Tracking
<1>10. ASSUME NEW j \in Jobs, CloseBrowser(j) PROVE Tracking'
  BY <1>10 DEF CloseBrowser, TypeOK, Tracking
<1>11. ASSUME NEW j \in Jobs, Recheck(j) PROVE Tracking'
  BY <1>11 DEF Recheck, Snapshot, TypeOK, Tracking
<1>12. ASSUME NEW j \in Jobs, CleanUp(j) PROVE Tracking'
  BY <1>12 DEF CleanUp, TypeOK, Tracking
<1>13. ASSUME NEW j \in Jobs, EndLease(j) PROVE Tracking'
  BY <1>13 DEF EndLease, TypeOK, Tracking
<1>14. CASE Shutdown
  BY <1>14 DEF Shutdown, Tracking
<1>15. CASE KillTracked \/ KillDescendants
  BY <1>15 DEF KillTracked, KillDescendants, TypeOK, Tracking
<1>16. ASSUME NEW j \in Jobs, BrowserDies(j) PROVE Tracking'
  BY <1>16 DEF BrowserDies, Tracking
<1>17. CASE UNCHANGED vars
  BY <1>17 DEF vars, Tracking
<1> QED
  BY <1>3, <1>4, <1>5, <1>6, <1>7, <1>8, <1>9, <1>10, <1>11, <1>12, <1>13, <1>14, <1>15, <1>16,
     <1>17 DEF Next, LeaseStep

LEMMA TrackingInit == Init => Tracking
BY DEF Init, Tracking

\* As long as the process list can be read, a browser that outlives its lease is
\* tracked for the shutdown to kill, and every browser has one owner before.
\* (When ps fails the code takes an owned pid for gone, and drops it.)
THEOREM BrowsersAreOwned ==
  ASSUME ~PsMayFail
  PROVE  Spec => []BrowsersOwned
<1>1. IInv /\ Ownership /\ Tracking /\ [Next]_vars => Tracking'
  BY NextIInv, TrackingNext DEF IInv
<1>2. Ownership /\ Tracking => BrowsersOwned
  BY DEF Ownership, Tracking, BrowsersOwned, OwnershipExclusive, NoUntrackedLeftover, Holding
<1> QED
  BY <1>1, <1>2, TrackingInit, OwnershipInvariance, Invariance, PTL DEF Spec

-----------------------------------------------------------------------------
(* Shutdown                                                                *)

LEMMA NobodyStarts ==
  ASSUME IInv, [Next]_vars, shuttingDown, NEW j \in Jobs, pc[j] \in {"idle", "waiting"}
  PROVE  pc'[j] \notin Holding
<1> DEFINE Resting == {"idle", "waiting", "done"}
<1>1. pc \in [Jobs -> Labels] /\ \A label \in Resting : label \notin Holding
  BY DEF IInv, TypeOK, Holding
<1>2. ASSUME NEW k \in Jobs, NEW label, Goto(k, label), k # j \/ label \in Resting
      PROVE  pc'[j] \in Resting
  BY <1>1, <1>2 DEF Goto
<1>3. ASSUME NEW k \in Jobs, Request(k) \/ WakeUp(k) PROVE pc'[j] \in Resting
  BY <1>2, <1>3 DEF Request, WakeUp, SlotLoop
<1>4. ASSUME NEW k \in Jobs,
             \/ Register(k) \/ SnapshotAtStart(k) \/ EndTask(k) \/ Observe(k) \/ Decide(k)
             \/ CloseBrowser(k) \/ Recheck(k) \/ EndLease(k)
      PROVE  pc'[j] \in Resting
  BY <1>2, <1>4 DEF Register, SnapshotAtStart, EndTask, Observe, Decide, CloseBrowser, Recheck,
                    EndLease
<1>5. ASSUME UNCHANGED pc PROVE pc'[j] \in Resting
  BY <1>5
<1>6. ASSUME NEW k \in Jobs, Launch(k) \/ CleanUp(k) \/ BrowserDies(k) PROVE UNCHANGED pc
  BY <1>6 DEF Launch, CleanUp, BrowserDies
<1>7. ASSUME Shutdown \/ KillTracked \/ KillDescendants \/ UNCHANGED vars
      PROVE  pc'[j] \in Resting
  BY <1>5, <1>7 DEF Shutdown, KillTracked, KillDescendants, vars
<1> HIDE DEF Resting
<1> QED
  BY <1>1, <1>3, <1>4, <1>5, <1>6, <1>7 DEF Next, LeaseStep

\* Once the shutdown has begun no job gets a lease, not even one that was woken
\* for a free slot before.
THEOREM ShutdownStopsLeases == Spec => NoLeaseAfterShutdown
<1>1. IInv /\ [Next]_vars =>
        [shuttingDown =>
           \A j \in Jobs : pc[j] \in {"idle", "waiting"} => pc'[j] \notin Holding]_vars
  BY NobodyStarts
<1> QED
  BY <1>1, Invariance, PTL DEF Spec, NoLeaseAfterShutdown
=============================================================================
