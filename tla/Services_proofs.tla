-------------------------- MODULE Services_proofs --------------------------
(* Proofs of the safety properties of ChangeNotifier, and that it           *)
(* implements Outbox, and of those of Delivery, ScreenshotQueue and         *)
(* PendingBills: for any collectors, payloads, jobs, webhooks,              *)
(* subscriptions, notices and bills.                                        *)
EXTENDS MCServices, FiniteSetTheorems, SequenceTheorems, TLAPS

(***************************************************************************)
(* ChangeNotifier                                                          *)
(***************************************************************************)
\* A batch exists only during a flush, so a new flush never overwrites one.
BatchInFlight == batch # <<>> => flushing

IInv ==
  /\ TypeOK
  /\ DepthCountsCollectors
  /\ TimerExclusive
  /\ NoLostWakeup
  /\ BatchInFlight

\* Opening a collection adds one to the number of open ones, closing takes one off.
LEMMA CardinalityOfInside ==
  ASSUME inside \subseteq Collectors, NEW c \in Collectors
  PROVE  /\ Cardinality(inside) \in Nat
         /\ c \notin inside => Cardinality(inside \cup {c}) = Cardinality(inside) + 1
         /\ c \in inside => Cardinality(inside \ {c}) = Cardinality(inside) - 1
         /\ c \in inside => Cardinality(inside) # 0
<1>1. IsFiniteSet(inside)
  BY CollectorsFinite, FS_Subset
<1>2. Cardinality(inside) \in Nat
  BY <1>1, FS_CardinalityType
<1>3. c \in inside => Cardinality(inside) # 0
  BY <1>1, FS_EmptySet
<1> QED
  BY <1>1, <1>2, <1>3, FS_AddElement, FS_RemoveElement

LEMMA InitIInv == Init => IInv
<1> SUFFICES ASSUME Init PROVE IInv
  OBVIOUS
<1>1. TypeOK
  BY EmptySeq DEF Init, TypeOK
<1>2. DepthCountsCollectors
  BY FS_EmptySet DEF Init, DepthCountsCollectors
<1> QED
  BY <1>1, <1>2 DEF Init, IInv, TimerExclusive, NoLostWakeup, BatchInFlight

LEMMA NextIInv == IInv /\ [Next]_vars => IInv'
<1> SUFFICES ASSUME IInv, [Next]_vars PROVE IInv'
  OBVIOUS
<1> USE DEF IInv, TypeOK, DepthCountsCollectors, TimerExclusive, NoLostWakeup, BatchInFlight
<1>1. ASSUME NEW p \in Payloads, Dispatch(p) PROVE IInv'
  <2>1. Append(queue, p) \in Seq(Payloads)
    BY AppendProperties
  <2> QED
    BY <1>1, <2>1 DEF Dispatch, Enqueue, Scheduled
<1>2. ASSUME NEW p \in Payloads, Skip(p) PROVE IInv'
  BY <1>2 DEF Skip
<1>3. ASSUME NEW p \in Payloads, DispatchDeletion(p) PROVE IInv'
  <2>1. CASE suppressed
    BY <1>3, <2>1 DEF DispatchDeletion
  <2>2. CASE ~suppressed
    <3>1. Append(queue, p) \in Seq(Payloads)
      BY AppendProperties
    <3>2. Enqueue(p)
      BY <1>3, <2>2 DEF DispatchDeletion
    <3> QED
      BY <1>3, <3>1, <3>2 DEF DispatchDeletion, Enqueue, Scheduled
  <2> QED
    BY <2>1, <2>2
<1>4. ASSUME NEW p \in Payloads, FlushDeletion(p) PROVE IInv'
  BY <1>4, EmptySeq DEF FlushDeletion, FlushNow, FlushTakesQueue
<1>5. ASSUME NEW c \in Collectors, BeginCollection(c) PROVE IInv'
  <2>1. Cardinality(inside \cup {c}) = depth + 1
    BY <1>5, CardinalityOfInside DEF BeginCollection
  <2>2. depth' = Cardinality(inside')
    BY <1>5, <2>1 DEF BeginCollection
  <2>3. depth' \in Nat /\ depth' # 0 /\ timer' = FALSE /\ inside' \subseteq Collectors
    BY <1>5 DEF BeginCollection
  <2> QED
    BY <1>5, <2>2, <2>3 DEF BeginCollection
<1>6. ASSUME NEW c \in Collectors, EndCollection(c) PROVE IInv'
  <2>1. depth' = Cardinality(inside') /\ depth' \in Nat
    <3>1. Cardinality(inside \ {c}) = depth - 1 /\ depth # 0
      BY <1>6, CardinalityOfInside DEF EndCollection
    <3> QED
      BY <1>6, <3>1 DEF EndCollection
  <2>2. CASE depth = 1
    <3>1. FlushNow(0)
      BY <1>6, <2>2 DEF EndCollection
    <3> QED
      BY <1>6, <2>1, <2>2, <3>1, EmptySeq DEF EndCollection, FlushNow, FlushTakesQueue
  <2>3. CASE depth # 1
    BY <1>6, <2>1, <2>3 DEF EndCollection
  <2> QED
    BY <2>2, <2>3
<1>7. CASE TimerFires
  BY <1>7, EmptySeq DEF TimerFires, FlushNow, FlushTakesQueue
<1>8. CASE FlushSettles
  <2>1. delivered' \in Seq(Payloads)
    BY <1>8, ConcatProperties DEF FlushSettles
  <2> QED
    BY <1>8, <2>1, EmptySeq DEF FlushSettles
<1>9. CASE BootstrapStarts
  BY <1>9 DEF BootstrapStarts
<1>10. CASE BootstrapEnds
  BY <1>10 DEF BootstrapEnds
<1>11. CASE UNCHANGED vars
  BY <1>11 DEF vars
<1> QED
  BY <1>1, <1>2, <1>3, <1>4, <1>5, <1>6, <1>7, <1>8, <1>9, <1>10, <1>11 DEF Next

\* The inductive invariant holds in every reachable state.
THEOREM Invariance == Spec => []IInv
<1> QED
  BY InitIInv, NextIInv, PTL DEF Spec

\* Type correctness of the notifier, for any collectors and payloads.
THEOREM TypeCorrect == Spec => []TypeOK
<1>1. IInv => TypeOK
  BY DEF IInv
<1> QED
  BY <1>1, Invariance, PTL

\* notificationCollectionDepth counts the open collections.
THEOREM DepthIsBalanced == Spec => []DepthCountsCollectors
<1>1. IInv => DepthCountsCollectors
  BY DEF IInv
<1> QED
  BY <1>1, Invariance, PTL

\* The flush timer excludes running flushes and open collections.
THEOREM TimerIsExclusive == Spec => []TimerExclusive
<1>1. IInv => TimerExclusive
  BY DEF IInv
<1> QED
  BY <1>1, Invariance, PTL

\* A waiting payload always has somebody to take it along.
THEOREM WakeupIsNeverLost == Spec => []NoLostWakeup
<1>1. IInv => NoLostWakeup
  BY DEF IInv
<1> QED
  BY <1>1, Invariance, PTL

\* A batch is cut only when no collection is open.
THEOREM BatchesAreCollected == Spec => CollectedTogether
<1> DEFINE Cut == batch = <<>> /\ batch' # <<>> => inside' = {}
<1>1. IInv /\ [Next]_vars => [Cut]_vars
  <2> SUFFICES ASSUME IInv, Next, batch = <<>>, batch' # <<>> PROVE inside' = {}
    BY DEF vars
  <2>1. inside \subseteq Collectors
    BY DEF IInv, TypeOK
  <2>2. ASSUME NEW p \in Payloads, FlushDeletion(p) PROVE depth = 0 /\ inside' = inside
    BY <2>2 DEF FlushDeletion, FlushNow
  <2>3. ASSUME NEW c \in Collectors, EndCollection(c) PROVE inside' = {}
    <3>1. depth = 1
      BY <2>3 DEF EndCollection
    <3>2. Cardinality(inside \ {c}) = Cardinality(inside) - 1
      BY <2>1, <2>3, CardinalityOfInside DEF EndCollection
    <3>3. Cardinality(inside \ {c}) = 0
      BY <3>1, <3>2 DEF IInv, DepthCountsCollectors
    <3>4. IsFiniteSet(inside \ {c})
      BY <2>1, CollectorsFinite, FS_Subset
    <3> QED
      BY <2>3, <3>3, <3>4, FS_EmptySet DEF EndCollection
  <2>4. depth = 0 => inside = {}
    BY <2>1, CollectorsFinite, FS_Subset, FS_EmptySet DEF IInv, DepthCountsCollectors
  <2>5. TimerFires => depth = 0 /\ inside' = inside
    BY DEF TimerFires, IInv, TimerExclusive
  <2> QED
    BY <2>2, <2>3, <2>4, <2>5
       DEF Next, Dispatch, Skip, DispatchDeletion, BeginCollection, FlushSettles,
           BootstrapStarts, BootstrapEnds
<1> QED
  BY <1>1, Invariance, PTL DEF Spec, CollectedTogether

-----------------------------------------------------------------------------
(* The refinement of Outbox                                                *)

\* A payload appended to the queue is a payload accepted by the outbox.
LEMMA EnqueueAccepts ==
  ASSUME TypeOK, NEW p \in Payloads, Enqueue(p), UNCHANGED <<batch, delivered>>
  PROVE  outbox!Accept(p)
<1>1. Append(queue, p) = queue \o <<p>>
  BY AppendIsConcat DEF TypeOK
<1>2. Append(batch \o queue, p) = (batch \o queue) \o <<p>>
  BY AppendIsConcat, ConcatProperties DEF TypeOK
<1>3. <<p>> \in Seq(Payloads)
  OBVIOUS
<1>4. (batch \o queue) \o <<p>> = batch \o (queue \o <<p>>)
  BY <1>3, ConcatAssociative DEF TypeOK
<1> QED
  BY <1>1, <1>2, <1>4 DEF outbox!Accept, Enqueue

\* Starting a flush moves payloads from the queue to the batch: a stutter.
LEMMA FlushNowStutters ==
  ASSUME IInv, NEW d \in Nat, FlushNow(d), UNCHANGED delivered
  PROVE  UNCHANGED <<batch \o queue, delivered>>
<1>1. CASE UNCHANGED <<batch, queue>>
  BY <1>1
<1>2. CASE ~flushing /\ FlushTakesQueue
  <2>1. batch = <<>>
    BY <1>2 DEF IInv, BatchInFlight
  <2>2. batch \o queue = queue
    BY <2>1, ConcatEmptySeq DEF IInv, TypeOK
  <2>3. queue \o <<>> = queue
    BY ConcatEmptySeq DEF IInv, TypeOK
  <2> QED
    BY <1>2, <2>2, <2>3 DEF FlushTakesQueue
<1> QED
  BY <1>1, <1>2 DEF FlushNow

\* A settled flush delivers the front of the outbox, or stutters on an empty batch.
LEMMA SettledFlushDelivers ==
  ASSUME TypeOK, FlushSettles
  PROVE  outbox!Deliver \/ UNCHANGED <<batch \o queue, delivered>>
<1> DEFINE k == Len(batch)
           s == batch \o queue
<1>1. s' = queue
  BY ConcatEmptySeq DEF TypeOK, FlushSettles
<1>2. CASE batch = <<>>
  BY <1>1, <1>2, ConcatEmptySeq DEF TypeOK, FlushSettles
<1>3. CASE batch # <<>>
  <2>1. k \in Nat \ {0} /\ Len(queue) \in Nat /\ Len(s) = k + Len(queue)
    BY <1>3, EmptySeq, LenProperties, ConcatProperties DEF TypeOK
  <2>2. SubSeq(s, 1, k) = batch
    BY <2>1, SubSeqOfConcat1, SubSeqFull DEF TypeOK
  <2>3. SubSeq(s, k + 1, Len(s)) = queue
    <3>1. CASE queue = <<>>
      BY <2>1, <3>1, SubSeqEmpty, EmptySeq
    <3>2. CASE queue # <<>>
      <4>1. Len(queue) \in Nat \ {0}
        BY <3>2, EmptySeq DEF TypeOK
      <4>2. SubSeq(s, k + 1, Len(s)) = SubSeq(queue, 1, Len(queue))
        BY <2>1, <4>1, SubSeqOfConcat2 DEF TypeOK
      <4> QED
        BY <4>2, SubSeqFull DEF TypeOK
    <3> QED
      BY <3>1, <3>2
  <2>4. k \in 1 .. Len(s)
    BY <2>1
  <2>5. delivered' = delivered \o batch
    BY DEF FlushSettles
  <2> HIDE DEF k, s
  <2>6. /\ delivered' = delivered \o SubSeq(s, 1, k)
        /\ s' = SubSeq(s, k + 1, Len(s))
    BY <1>1, <2>2, <2>3, <2>5
  <2> QED
    BY <2>4, <2>6 DEF outbox!Deliver, s
<1> QED
  BY <1>2, <1>3

\* The queue implements the outbox: first in, first out, each payload once.
THEOREM ImplementsOutbox == Spec => OutboxSpec
<1> DEFINE pending == batch \o queue
<1>1. Init => outbox!Init
  BY EmptySeq, ConcatEmptySeq DEF Init, outbox!Init
<1>2. IInv /\ [Next]_vars => [outbox!Next]_<<pending, delivered>>
  <2> SUFFICES ASSUME IInv, [Next]_vars
               PROVE  outbox!Next \/ UNCHANGED <<pending, delivered>>
    OBVIOUS
  <2>1. TypeOK /\ depth \in Nat
    BY DEF IInv, TypeOK
  <2>2. ASSUME NEW p \in Payloads, Dispatch(p) PROVE outbox!Accept(p)
    BY <2>1, <2>2, EnqueueAccepts DEF Dispatch
  <2>3. ASSUME NEW p \in Payloads, DispatchDeletion(p)
        PROVE outbox!Accept(p) \/ UNCHANGED <<pending, delivered>>
    BY <2>1, <2>3, EnqueueAccepts DEF DispatchDeletion
  <2>4. ASSUME NEW p \in Payloads, FlushDeletion(p) PROVE UNCHANGED <<pending, delivered>>
    BY <2>1, <2>4, FlushNowStutters DEF FlushDeletion
  <2>5. ASSUME NEW c \in Collectors, EndCollection(c) PROVE UNCHANGED <<pending, delivered>>
    BY <2>5, FlushNowStutters DEF EndCollection
  <2>6. CASE TimerFires
    BY <2>1, <2>6, FlushNowStutters DEF TimerFires
  <2>7. CASE FlushSettles
    BY <2>1, <2>7, SettledFlushDelivers DEF outbox!Next
  <2> QED
    BY <2>2, <2>3, <2>4, <2>5, <2>6, <2>7
       DEF Next, vars, Skip, BeginCollection, BootstrapStarts, BootstrapEnds, outbox!Next
<1> QED
  BY <1>1, <1>2, Invariance, PTL DEF Spec, OutboxSpec, outbox!Spec

\* The three together: every queued payload is covered, by a timer that keeps out of
\* flushes and collections, a flush, or a collection that is counted.
THEOREM PayloadsAreCovered == Spec => []FlushCovered
<1>1. IInv => FlushCovered
  BY DEF IInv, FlushCovered
<1> QED
  BY <1>1, Invariance, PTL

(***************************************************************************)
(* Delivery                                                                *)
(***************************************************************************)
Pcs == {"none", "hooks", "sending", "off", "pushing", "mark", "over"}
AttType == [pc : Pcs, left : SUBSET Hooks, cur : Hooks \cup Subs \cup {"none"},
            perm : SUBSET Hooks, subs : SUBSET Subs, copy : States, aborted : BOOLEAN]
JobType == [pc : {"idle", "running", "delay", "done", "failed", "stuck", "lost"},
            attempt : Nat, timer : BOOLEAN, hooks : SUBSET Hooks, subs : SUBSET Subs]

\* The receiver in hand is of the kind the attempt is dealing with.
InHand ==
  \A a \in Attempts :
    /\ att[a].pc \in {"sending", "off"} => att[a].cur \in Hooks
    /\ att[a].pc \in {"pushing", "mark"} => att[a].cur \in Subs

\* A job that waits for another attempt has one left.
AttemptsLeft ==
  \A j \in Jobs : /\ job[j].attempt <= 1 + scope.retries
                  /\ job[j].pc = "delay" => job[j].attempt <= scope.retries

\* What is in hand is not among what is left, and a job that has not begun has
\* sent nothing.
OneByOne ==
  /\ \A a \in Attempts :
       att[a].pc \in {"sending", "pushing"} => att[a].cur \notin att[a].left \cup att[a].subs
  /\ \A j \in Jobs : job[j].pc = "idle" =>
       /\ \A a \in Attempts : a[1] = j => att[a] = None
       /\ \A r \in Hooks \cup Subs : sent[j][r] = 0

\* A job none of whose attempts timed out has made one attempt, and who heard of
\* it there is neither in hand nor left.
FirstAttempt ==
  \A j \in Jobs \ timedOut :
    /\ job[j].pc # "delay"
    /\ \A a \in Attempts : a[1] = j /\ a[2] # 1 => att[a] = None
    /\ \A r \in Hooks \cup Subs : sent[j][r] # 0 =>
         /\ sent[j][r] = 1
         /\ \A a \in Attempts : a[1] = j =>
              /\ r \notin att[a].left \cup att[a].subs
              /\ att[a].pc \in {"sending", "pushing"} => att[a].cur # r

\* What an attempt is about to carry out was decided for a reason that still
\* holds, or the receiver was changed meanwhile.
Decided ==
  /\ flagged \subseteq rejected \cup late
  /\ \A a \in Attempts : /\ att[a].perm \subseteq rejected \cup late
                         /\ att[a].pc = "off" => att[a].cur \in att[a].perm
  /\ \A h \in doomed : hook[h] # "active" \/ h \in late
  /\ \A s \in Subs : push[s] # "absent" => s \in registered
  /\ \A a \in Attempts : att[a].pc = "mark" =>
       /\ att[a].copy # "absent" /\ att[a].cur \in registered
       /\ att[a].copy = "active" => att[a].cur \notin off \ late
       /\ att[a].copy = "inactive" => att[a].cur \in off \cup late

TypeInv == DeliveryTypeOK /\ InHand /\ AttemptsLeft

\* Attempt a goes on, or ends, with these fields; the others are what they were.
Moves(a, pc, left, cur, perm, subs, copy) ==
  /\ att' \in [Attempts -> AttType]
  /\ \A b \in Attempts : b # a => att'[b] = att[b]
  /\ att'[a].pc = pc /\ att'[a].left = left /\ att'[a].cur = cur /\ att'[a].perm = perm
  /\ att'[a].subs = subs /\ att'[a].copy = copy

LEMMA ScopeTyped ==
  ASSUME TypeInv
  PROVE  /\ scope.hooks \subseteq Hooks /\ scope.subs \subseteq Subs /\ scope.retries \in Nat
         /\ att \in [Attempts -> AttType] /\ job \in [Jobs -> JobType]
         /\ att' \in [Attempts -> AttType] /\ scope' = scope /\ job' \in [Jobs -> JobType]
              /\ AttemptsLeft'
              => (/\ job' \in [Jobs -> [pc : {"idle", "running", "delay", "done", "failed", "stuck", "lost"},
                       attempt : 0 .. 1 + scope'.retries, timer : BOOLEAN,
                       hooks : SUBSET Hooks, subs : SUBSET Subs]])
<1>1. /\ scope.hooks \subseteq Hooks /\ scope.subs \subseteq Subs /\ scope.retries \in Nat
  BY DeliveryAssumption DEF TypeInv, DeliveryTypeOK
<1>2. att \in [Attempts -> AttType]
  BY DEF TypeInv, DeliveryTypeOK, AttType, Pcs
<1>3. ASSUME NEW j \in Jobs PROVE job[j] \in JobType
  BY <1>1 DEF TypeInv, DeliveryTypeOK, JobType
<1>4. job \in [Jobs -> JobType]
  BY <1>3 DEF TypeInv, DeliveryTypeOK
<1>5. ASSUME scope' = scope, job' \in [Jobs -> JobType], AttemptsLeft', NEW j \in Jobs
      PROVE  job'[j] \in [pc : {"idle", "running", "delay", "done", "failed", "stuck", "lost"},
                       attempt : 0 .. 1 + scope'.retries, timer : BOOLEAN,
                       hooks : SUBSET Hooks, subs : SUBSET Subs]
  BY <1>1, <1>5 DEF AttemptsLeft, JobType
<1> QED
  BY <1>1, <1>2, <1>4, <1>5

LEMMA AttemptsOf ==
  /\ \A a \in Attempts : a[1] \in Jobs /\ a[2] \in Nat /\ a = <<a[1], a[2]>>
  /\ scope \in DeliveryScopes =>
       \A j \in Jobs, k \in Nat : 1 <= k /\ k <= 1 + scope.retries => <<j, k>> \in Attempts
<1>1. \A s \in DeliveryScopes : s.retries \in Nat
  BY DeliveryAssumption
<1>2. ASSUME NEW a \in Attempts PROVE a[1] \in Jobs /\ a[2] \in Nat /\ a = <<a[1], a[2]>>
  BY <1>1 DEF Attempts
<1>3. ASSUME scope \in DeliveryScopes, NEW j \in Jobs, NEW k \in Nat, 1 <= k, k <= 1 + scope.retries
      PROVE  <<j, k>> \in Attempts
  <2>1. k \in 1 .. 1 + scope.retries
    BY <1>1, <1>3
  <2>2. k \in UNION {1 .. 1 + s.retries : s \in DeliveryScopes}
    BY <1>3, <2>1
  <2> QED
    BY <2>2 DEF Attempts
<1> QED
  BY <1>2, <1>3

\* An attempt whose fields are changed to those of x.
LEMMA MovesTo ==
  ASSUME att \in [Attempts -> AttType], NEW a \in Attempts, NEW x \in AttType,
         att' = [att EXCEPT ![a] = x]
  PROVE  Moves(a, x.pc, x.left, x.cur, x.perm, x.subs, x.copy)
BY DEF Moves

\* What each step of an attempt makes of it.
LEMMA HookSteps ==
  ASSUME TypeInv, NEW a \in Attempts
  PROVE  /\ HookNext(a) /\ ~Aborted(a) => \E h \in att[a].left :
              \/ /\ h \in flagged
                 /\ Moves(a, "hooks", att[a].left \ {h}, att[a].cur, att[a].perm \cup {h},
                          att[a].subs, att[a].copy)
              \/ Moves(a, "sending", att[a].left \ {h}, h, att[a].perm, att[a].subs, att[a].copy)
         /\ HookDelivered(a) \/ HookFails(a) =>
              Moves(a, "hooks", att[a].left, "none", att[a].perm, att[a].subs, att[a].copy)
         /\ HookRejected(a) => Moves(a, "hooks", att[a].left, "none", att[a].perm \cup {att[a].cur},
                                     att[a].subs, att[a].copy)
<1>1. att \in [Attempts -> AttType] /\ flagged \subseteq Hooks
  BY ScopeTyped DEF TypeInv, DeliveryTypeOK
<1>2. ASSUME HookNext(a), ~Aborted(a)
      PROVE  \E h \in att[a].left :
              \/ /\ h \in flagged
                 /\ Moves(a, "hooks", att[a].left \ {h}, att[a].cur, att[a].perm \cup {h},
                          att[a].subs, att[a].copy)
              \/ Moves(a, "sending", att[a].left \ {h}, h, att[a].perm, att[a].subs, att[a].copy)
  <2>1. PICK h \in att[a].left :
          att' = IF h \in flagged
                 THEN [att EXCEPT ![a].left = @ \ {h}, ![a].perm = @ \cup {h}]
                 ELSE [att EXCEPT ![a].left = @ \ {h}, ![a].cur = h, ![a].pc = "sending"]
    BY <1>2 DEF HookNext
  <2>2. h \in Hooks /\ att[a].pc = "hooks"
    BY <1>1, <1>2 DEF AttType, HookNext
  <2>3. CASE h \in flagged
    <3>1. PICK x : x = [att[a] EXCEPT !.left = @ \ {h}, !.perm = @ \cup {h}]
      OBVIOUS
    <3>2. /\ x \in AttType /\ x.pc = "hooks" /\ x.left = att[a].left \ {h} /\ x.cur = att[a].cur
          /\ x.perm = att[a].perm \cup {h} /\ x.subs = att[a].subs /\ x.copy = att[a].copy
      BY <1>1, <2>2, <3>1 DEF AttType
    <3>3. att' = [att EXCEPT ![a] = x]
      BY <2>1, <2>3, <3>1
    <3> QED
      BY <1>1, <2>3, <3>2, <3>3, MovesTo
  <2>4. CASE h \notin flagged
    BY <1>1, <2>1, <2>2, <2>4 DEF Moves, AttType, Pcs
  <2> QED
    BY <2>3, <2>4
<1>3. ASSUME HookDelivered(a) \/ HookFails(a)
      PROVE  Moves(a, "hooks", att[a].left, "none", att[a].perm, att[a].subs, att[a].copy)
  BY <1>1, <1>3 DEF HookDelivered, HookFails, Moves, AttType, Pcs
<1>4. ASSUME HookRejected(a)
      PROVE  Moves(a, "hooks", att[a].left, "none", att[a].perm \cup {att[a].cur},
                   att[a].subs, att[a].copy)
  <2>1. att[a].cur \in Hooks
    BY <1>4 DEF HookRejected, TypeInv, InHand
  <2>2. PICK h \in Hooks : h = att[a].cur
    BY <2>1
  <2>3. PICK x : x = [att[a] EXCEPT !.pc = "hooks", !.cur = "none", !.perm = @ \cup {h}]
    OBVIOUS
  <2>4. /\ x \in AttType /\ x.pc = "hooks" /\ x.left = att[a].left /\ x.cur = "none"
        /\ x.perm = att[a].perm \cup {h} /\ x.subs = att[a].subs /\ x.copy = att[a].copy
    BY <1>1, <2>2, <2>3 DEF AttType, Pcs
  <2>5. att' = [att EXCEPT ![a] = x]
    BY <1>4, <2>2, <2>3 DEF HookRejected
  <2> QED
    BY <1>1, <2>2, <2>4, <2>5, MovesTo
<1> QED
  BY <1>2, <1>3, <1>4

LEMMA RowSteps ==
  ASSUME TypeInv, NEW a \in Attempts
  PROVE  /\ RemoveRead(a) => \E h \in att[a].perm :
              \/ Moves(a, "off", att[a].left, h, att[a].perm, att[a].subs, att[a].copy)
              \/ Moves(a, "hooks", att[a].left, att[a].cur, att[a].perm \ {h}, att[a].subs, att[a].copy)
         /\ RemoveWrite(a) => Moves(a, "hooks", att[a].left, "none", att[a].perm \ {att[a].cur},
                                    att[a].subs, att[a].copy)
<1>1. att \in [Attempts -> AttType]
  BY ScopeTyped
<1>2. ASSUME RemoveRead(a)
      PROVE  \E h \in att[a].perm :
              \/ Moves(a, "off", att[a].left, h, att[a].perm, att[a].subs, att[a].copy)
              \/ Moves(a, "hooks", att[a].left, att[a].cur, att[a].perm \ {h}, att[a].subs, att[a].copy)
  <2>1. PICK h \in att[a].perm :
          \/ att' = [att EXCEPT ![a].pc = "off", ![a].cur = h]
          \/ att' = [att EXCEPT ![a].perm = @ \ {h}]
    BY <1>2 DEF RemoveRead
  <2>2. h \in Hooks /\ att[a].pc = "hooks"
    BY <1>1, <1>2 DEF AttType, RemoveRead
  <2> QED
    BY <1>1, <2>1, <2>2 DEF Moves, AttType, Pcs
<1>3. ASSUME RemoveWrite(a)
      PROVE  Moves(a, "hooks", att[a].left, "none", att[a].perm \ {att[a].cur}, att[a].subs, att[a].copy)
  <2>1. PICK h : h = att[a].cur
    OBVIOUS
  <2>2. PICK x : x = [att[a] EXCEPT !.pc = "hooks", !.cur = "none", !.perm = @ \ {h}]
    OBVIOUS
  <2>3. /\ x \in AttType /\ x.pc = "hooks" /\ x.left = att[a].left /\ x.cur = "none"
        /\ x.perm = att[a].perm \ {h} /\ x.subs = att[a].subs /\ x.copy = att[a].copy
    BY <1>1, <2>2 DEF AttType, Pcs
  <2>4. att' = [att EXCEPT ![a] = x]
    BY <1>3, <2>1, <2>2 DEF RemoveWrite
  <2> QED
    BY <1>1, <2>1, <2>3, <2>4, MovesTo
<1> QED
  BY <1>2, <1>3

LEMMA PushSteps ==
  ASSUME TypeInv, NEW a \in Attempts
  PROVE  /\ PushNext(a) /\ att[a].subs # {} => \E s \in att[a].subs :
              Moves(a, "pushing", att[a].left, s, att[a].perm, att[a].subs \ {s}, att[a].copy)
         /\ PushDelivered(a) \/ (PushFails(a) /\ push[att[a].cur] = "absent") =>
              Moves(a, "hooks", att[a].left, "none", att[a].perm, att[a].subs, att[a].copy)
         /\ PushFails(a) /\ push[att[a].cur] # "absent" =>
              Moves(a, "mark", att[a].left, att[a].cur, att[a].perm, att[a].subs, push[att[a].cur])
         /\ MarkFailure(a) =>
              Moves(a, "hooks", att[a].left, "none", att[a].perm, att[a].subs, "absent")
<1>1. att \in [Attempts -> AttType] /\ push \in [Subs -> States]
  BY ScopeTyped DEF TypeInv, DeliveryTypeOK
<1>2. ASSUME PushNext(a), att[a].subs # {}
      PROVE  \E s \in att[a].subs :
              Moves(a, "pushing", att[a].left, s, att[a].perm, att[a].subs \ {s}, att[a].copy)
  <2>1. PICK s \in att[a].subs :
          att' = [att EXCEPT ![a].pc = "pushing", ![a].cur = s, ![a].subs = @ \ {s}]
    BY <1>2 DEF PushNext
  <2>2. s \in Subs
    BY <1>1 DEF AttType
  <2> QED
    BY <1>1, <2>1, <2>2 DEF Moves, AttType, Pcs
<1>3. ASSUME PushDelivered(a) \/ (PushFails(a) /\ push[att[a].cur] = "absent")
      PROVE  Moves(a, "hooks", att[a].left, "none", att[a].perm, att[a].subs, att[a].copy)
  BY <1>1, <1>3 DEF PushDelivered, PushFails, Moves, AttType, Pcs
<1>4. ASSUME PushFails(a), push[att[a].cur] # "absent"
      PROVE  Moves(a, "mark", att[a].left, att[a].cur, att[a].perm, att[a].subs, push[att[a].cur])
  <2>1. push[att[a].cur] \in States
    BY <1>1, <1>4 DEF PushFails, TypeInv, InHand
  <2> QED
    BY <1>1, <1>4, <2>1 DEF PushFails, Moves, AttType, Pcs
<1>5. ASSUME MarkFailure(a)
      PROVE  Moves(a, "hooks", att[a].left, "none", att[a].perm, att[a].subs, "absent")
  <2>1. att' = [att EXCEPT ![a].pc = "hooks", ![a].cur = "none", ![a].copy = "absent"]
    BY <1>5 DEF MarkFailure
  <2>2. PICK x : x = [att[a] EXCEPT !.pc = "hooks", !.cur = "none", !.copy = "absent"]
    OBVIOUS
  <2>3. /\ x \in AttType /\ x.pc = "hooks" /\ x.left = att[a].left /\ x.cur = "none"
        /\ x.perm = att[a].perm /\ x.subs = att[a].subs /\ x.copy = "absent"
    BY <1>1, <2>2 DEF AttType, Pcs, States
  <2>4. att' = [att EXCEPT ![a] = x]
    BY <2>1, <2>2
  <2> QED
    BY <1>1, <2>3, <2>4, MovesTo
<1> QED
  BY <1>2, <1>3, <1>4, <1>5

\* An attempt that ends, the first of its job to say so or not.
LEMMA Ends ==
  ASSUME TypeInv, NEW a \in Attempts, NEW ok \in BOOLEAN, Over(a, ok), ok \/ Aborted(a)
  PROVE  /\ Moves(a, "over", {}, "none", {}, {}, "absent")
         /\ job' \in [Jobs -> JobType]
         /\ \A j \in Jobs : /\ job'[j].attempt = job[j].attempt
                            /\ job'[j].pc = job[j].pc \/ (j = a[1] /\ job'[j].pc = "done")
<1>1. att \in [Attempts -> AttType] /\ job \in [Jobs -> JobType] /\ a[1] \in Jobs
  BY ScopeTyped, AttemptsOf
<1>2. Moves(a, "over", {}, "none", {}, {}, "absent")
  BY <1>1 DEF Over, None, Moves, AttType, Pcs, States
<1>3. \/ job' = job
      \/ job' = [job EXCEPT ![a[1]].pc = "done", ![a[1]].timer = FALSE]
  BY DEF Over, Ended, Aborted
<1>4. CASE job' = job
  BY <1>1, <1>2, <1>4
<1>5. CASE job' = [job EXCEPT ![a[1]].pc = "done", ![a[1]].timer = FALSE]
  <2>1. job' \in [Jobs -> JobType]
    BY <1>1, <1>5 DEF JobType
  <2>2. ASSUME NEW j \in Jobs
        PROVE  /\ job'[j].attempt = job[j].attempt
               /\ job'[j].pc = job[j].pc \/ (j = a[1] /\ job'[j].pc = "done")
    BY <1>1, <1>5 DEF JobType
  <2> QED
    BY <1>2, <2>1, <2>2
<1> QED
  BY <1>3, <1>4, <1>5

\* The type invariant without the jobs and the attempts.
RestTyped ==
  /\ scope \in DeliveryScopes
  /\ hook \in [Hooks -> States] /\ push \in [Subs -> States]
  /\ flagged \subseteq Hooks /\ doomed \subseteq Hooks
  /\ stage \in {"up", "closing", "closed"}
  /\ sent \in [Jobs -> [Hooks \cup Subs -> 0 .. 2]]
  /\ timedOut \subseteq Jobs
  /\ registered \subseteq Hooks \cup Subs /\ rejected \subseteq Hooks /\ off \subseteq Subs
  /\ late \subseteq Hooks \cup Subs
  /\ changes \in Nat /\ faults \in Nat

LEMMA SentTyped ==
  ASSUME RestTyped, NEW j \in Jobs, NEW r \in Hooks \cup Subs, sent' = Sent(j, r)
  PROVE  /\ sent' \in [Jobs -> [Hooks \cup Subs -> 0 .. 2]]
         /\ \A i \in Jobs, q \in Hooks \cup Subs :
              IF i = j /\ q = r THEN sent[j][r] < 2 => sent'[j][r] = sent[j][r] + 1
                                ELSE sent'[i][q] = sent[i][q]
<1> DEFINE v == IF sent[j][r] < 2 THEN sent[j][r] + 1 ELSE sent[j][r]
<1>1. sent \in [Jobs -> [Hooks \cup Subs -> 0 .. 2]]
  BY DEF RestTyped
<1>2. v \in 0 .. 2
  BY <1>1
<1>3. sent' = [sent EXCEPT ![j] = [sent[j] EXCEPT ![r] = v]]
  BY <1>1 DEF Sent
<1> HIDE DEF v
<1>4. [sent[j] EXCEPT ![r] = v] \in [Hooks \cup Subs -> 0 .. 2]
  BY <1>1, <1>2
<1>5. sent' \in [Jobs -> [Hooks \cup Subs -> 0 .. 2]]
  BY <1>1, <1>3, <1>4
<1>6. ASSUME NEW i \in Jobs, NEW q \in Hooks \cup Subs
      PROVE  IF i = j /\ q = r THEN sent'[j][r] = v ELSE sent'[i][q] = sent[i][q]
  BY <1>1, <1>3
<1> QED
  BY <1>5, <1>6 DEF v

LEMMA AttemptRest ==
  ASSUME TypeInv, NEW a \in Attempts, AttemptStep(a) \/ Answer(a)
  PROVE  RestTyped'
<1>1. RestTyped /\ att \in [Attempts -> AttType] /\ a[1] \in Jobs
  BY ScopeTyped, AttemptsOf DEF TypeInv, DeliveryTypeOK, RestTyped
<1>2. CASE HookNext(a) \/ PushNext(a)
  BY <1>1, <1>2 DEF HookNext, PushNext, RestTyped, rowVars, pastVars
<1>3. CASE HookFails(a) \/ PushFails(a)
  BY <1>1, <1>3 DEF HookFails, PushFails, RestTyped, rowVars, pastVars
<1>4. CASE HookDelivered(a)
  <2>1. att[a].cur \in Hooks /\ sent' = Sent(a[1], att[a].cur)
    BY <1>4 DEF HookDelivered, TypeInv, InHand
  <2>2. sent' \in [Jobs -> [Hooks \cup Subs -> 0 .. 2]]
    BY <1>1, <2>1, SentTyped
  <2> QED
    BY <1>1, <1>4, <2>1, <2>2 DEF HookDelivered, RestTyped
<1>5. CASE HookRejected(a)
  <2>1. att[a].cur \in Hooks
    BY <1>5 DEF HookRejected, TypeInv, InHand
  <2> QED
    BY <1>1, <1>5, <2>1 DEF HookRejected, RestTyped
<1>6. CASE RemoveRead(a) \/ RemoveWrite(a)
  <2>1. faults' \in Nat
    BY <1>1, <1>6 DEF RemoveRead, RemoveWrite, Fault, RestTyped
  <2>2. hook' \in [Hooks -> States] /\ flagged' \subseteq Hooks
    BY <1>1, <1>6 DEF RemoveRead, RemoveWrite, Unflagged, RestTyped, rowVars, States
  <2> QED
    BY <1>1, <1>6, <2>1, <2>2 DEF RemoveRead, RemoveWrite, RestTyped, rowVars, pastVars
<1>7. CASE PushDelivered(a)
  <2>1. att[a].cur \in Subs /\ sent' = Sent(a[1], att[a].cur)
    BY <1>7 DEF PushDelivered, TypeInv, InHand
  <2>2. sent' \in [Jobs -> [Hooks \cup Subs -> 0 .. 2]]
    BY <1>1, <2>1, SentTyped
  <2>3. push' \in [Subs -> States] /\ off' \subseteq Subs
    BY <1>1, <1>7, <2>1 DEF PushDelivered, Marked, RestTyped, States
  <2>4. late' \subseteq Hooks \cup Subs
    BY <1>1, <1>7, <2>1 DEF PushDelivered, RestTyped
  <2> QED
    BY <1>1, <1>7, <2>2, <2>3, <2>4 DEF PushDelivered, RestTyped
<1>8. CASE MarkFailure(a)
  <2>1. att[a].cur \in Subs /\ att[a].copy \in States
    BY <1>1, <1>8 DEF MarkFailure, TypeInv, InHand, AttType
  <2>2. push' \in [Subs -> States] /\ off' \subseteq Subs /\ late' \subseteq Hooks \cup Subs
    BY <1>1, <1>8, <2>1 DEF MarkFailure, RestTyped, States
  <2> QED
    BY <1>1, <1>8, <2>2 DEF MarkFailure, RestTyped
<1> QED
  BY <1>2, <1>3, <1>4, <1>5, <1>6, <1>7, <1>8 DEF AttemptStep, Answer

LEMMA OtherRest ==
  ASSUME TypeInv,
         \/ StartBatch \/ Close \/ ClearTimers \/ Reboot \/ Timers
         \/ \E h \in Hooks \cap (scope.hooks \cup scope.spare) : RegisterHook(h)
         \/ \E s \in Subs \cap (scope.subs \cup scope.spare) : RegisterPush(s) \/ Unregister(s)
         \/ CleanupSelect \/ CleanupDelete \/ CleanupPush
  PROVE  RestTyped'
<1>1. RestTyped /\ att \in [Attempts -> AttType]
  BY ScopeTyped DEF TypeInv, DeliveryTypeOK, RestTyped
<1> USE DEF rowVars, pastVars
<1>2. CASE StartBatch
  <2>1. faults' \in Nat
    BY <1>1, <1>2 DEF StartBatch, Fault, RestTyped
  <2> QED
    BY <1>1, <1>2, <2>1 DEF StartBatch, RestTyped
<1>3. CASE Close \/ ClearTimers
  <2>1. faults' \in Nat /\ stage' \in {"up", "closing", "closed"}
    BY <1>1, <1>3 DEF Close, ClearTimers, Fault, RestTyped
  <2> QED
    BY <1>1, <1>3, <2>1 DEF Close, ClearTimers, RestTyped
<1>4. CASE Reboot
  <2>1. faults' \in Nat
    BY <1>1, <1>4 DEF Reboot, Fault, RestTyped
  <2>2. late' \subseteq Hooks \cup Subs
    <3>1. ASSUME NEW a \in Attempts PROVE att[a].perm \subseteq Hooks
      BY <1>1 DEF AttType
    <3>2. UNION {att[a].perm : a \in Attempts} \subseteq Hooks
      BY <3>1
    <3> QED
      BY <1>1, <1>4, <3>2 DEF Reboot, RestTyped
  <2> QED
    BY <1>1, <1>4, <2>1, <2>2 DEF Reboot, RestTyped
<1>5. CASE Timers
  BY <1>1, <1>5 DEF Timers, TimeoutFires, NextAttempt, RestTyped
<1>6. ASSUME NEW h \in Hooks, RegisterHook(h) PROVE RestTyped'
  <2>1. hook' \in [Hooks -> States] /\ changes' \in Nat
    BY <1>1, <1>6 DEF RegisterHook, Change, Activated, RestTyped, States
  <2>2. registered' \subseteq Hooks \cup Subs /\ rejected' \subseteq Hooks /\ late' \subseteq Hooks \cup Subs
    BY <1>1, <1>6 DEF RegisterHook, RestTyped
  <2> QED
    BY <1>1, <1>6, <2>1, <2>2 DEF RegisterHook, RestTyped
<1>7. ASSUME NEW s \in Subs, RegisterPush(s) \/ Unregister(s) PROVE RestTyped'
  <2>1. push' \in [Subs -> States] /\ changes' \in Nat
    BY <1>1, <1>7 DEF RegisterPush, Unregister, Change, RestTyped, States
  <2>2. registered' \subseteq Hooks \cup Subs /\ off' \subseteq Subs /\ late' \subseteq Hooks \cup Subs
    BY <1>1, <1>7 DEF RegisterPush, Unregister, RestTyped
  <2> QED
    BY <1>1, <1>7, <2>1, <2>2 DEF RegisterPush, Unregister, RestTyped
<1>8. CASE CleanupSelect \/ CleanupDelete
  BY <1>1, <1>8 DEF CleanupSelect, CleanupDelete, RestTyped, States
<1>9. CASE CleanupPush
  BY <1>1, <1>9 DEF CleanupPush, RestTyped, States
<1> QED
  BY <1>2, <1>3, <1>4, <1>5, <1>6, <1>7, <1>8, <1>9

\* What happens to the attempts outside their own steps: nothing, all forgotten,
\* one aborted, or new ones begun.
LEMMA Begins ==
  ASSUME TypeInv, NEW j \in Jobs, NextAttempt(j)
  PROVE  /\ <<j, job[j].attempt + 1>> \in Attempts
         /\ job' \in [Jobs -> JobType]
         /\ job'[j].pc = "running" /\ job'[j].attempt = job[j].attempt + 1
         /\ \A i \in Jobs : i # j => job'[i] = job[i]
         /\ Moves(<<j, job[j].attempt + 1>>, "hooks", job[j].hooks, "none", {}, job[j].subs, "absent")
<1>1. /\ att \in [Attempts -> AttType] /\ job \in [Jobs -> JobType] /\ scope.retries \in Nat
      /\ job[j].pc = "delay" /\ job[j].attempt <= scope.retries /\ scope \in DeliveryScopes
  BY ScopeTyped DEF NextAttempt, TypeInv, DeliveryTypeOK, AttemptsLeft
<1> DEFINE k == job[j].attempt + 1
<1>2. k \in Nat /\ 1 <= k /\ k <= 1 + scope.retries /\ job[j].hooks \subseteq Hooks /\ job[j].subs \subseteq Subs
  BY <1>1 DEF JobType
<1>3. <<j, k>> \in Attempts
  BY <1>1, <1>2, AttemptsOf
<1>4. /\ job' = [job EXCEPT ![j].pc = "running", ![j].attempt = k, ![j].timer = TRUE]
      /\ att' = [att EXCEPT ![<<j, k>>] = [None EXCEPT !.pc = "hooks", !.left = job'[j].hooks,
                                                      !.subs = job'[j].subs]]
  BY DEF NextAttempt, Running
<1> HIDE DEF k
<1>5. /\ job' \in [Jobs -> JobType] /\ job'[j].hooks = job[j].hooks /\ job'[j].subs = job[j].subs
      /\ job'[j].pc = "running" /\ job'[j].attempt = k
      /\ \A i \in Jobs : i # j => job'[i] = job[i]
  BY <1>1, <1>2, <1>4 DEF JobType
<1>6. Moves(<<j, k>>, "hooks", job[j].hooks, "none", {}, job[j].subs, "absent")
  BY <1>1, <1>2, <1>3, <1>4, <1>5 DEF None, Moves, AttType, Pcs, States
<1> QED
  BY <1>3, <1>5, <1>6 DEF k

LEMMA TimesOut ==
  ASSUME TypeInv, NEW j \in Jobs, TimeoutFires(j)
  PROVE  /\ job' \in [Jobs -> JobType] /\ att' \in [Attempts -> AttType]
         /\ \A i \in Jobs : i # j => job'[i] = job[i]
         /\ job'[j].attempt = job[j].attempt /\ job'[j].pc \in {"delay", "failed"}
         /\ job'[j].pc = "delay" => job[j].attempt <= scope.retries
         /\ \A a \in Attempts :
              /\ att'[a].pc = att[a].pc /\ att'[a].left = att[a].left /\ att'[a].cur = att[a].cur
              /\ att'[a].perm = att[a].perm /\ att'[a].subs = att[a].subs /\ att'[a].copy = att[a].copy
              /\ a[1] # j => att'[a] = att[a]
<1>1. /\ att \in [Attempts -> AttType] /\ job \in [Jobs -> JobType] /\ scope.retries \in Nat
  BY ScopeTyped
<1>2. /\ att' = [att EXCEPT ![<<j, job[j].attempt>>].aborted = TRUE]
      /\ job' = [job EXCEPT ![j].pc = IF job[j].attempt <= scope.retries THEN "delay" ELSE "failed",
                            ![j].timer = FALSE]
  BY DEF TimeoutFires, AfterFailure
<1>3. /\ job' \in [Jobs -> JobType]
      /\ \A i \in Jobs : i # j => job'[i] = job[i]
      /\ job'[j].attempt = job[j].attempt /\ job'[j].pc \in {"delay", "failed"}
      /\ job'[j].pc = "delay" => job[j].attempt <= scope.retries
  <2>1. PICK p \in {"delay", "failed"} :
          /\ p = IF job[j].attempt <= scope.retries THEN "delay" ELSE "failed"
          /\ p = "delay" => job[j].attempt <= scope.retries
    OBVIOUS
  <2>2. PICK x : x = [job[j] EXCEPT !.pc = p, !.timer = FALSE]
    OBVIOUS
  <2>3. x \in JobType /\ x.attempt = job[j].attempt /\ x.pc = p
    BY <1>1, <2>1, <2>2 DEF JobType
  <2>4. job' = [job EXCEPT ![j] = x]
    BY <1>2, <2>1, <2>2
  <2> QED
    BY <1>1, <2>1, <2>3, <2>4
<1>4. att' \in [Attempts -> AttType]
  BY <1>1, <1>2 DEF AttType
<1>5. ASSUME NEW a \in Attempts
      PROVE  /\ att'[a].pc = att[a].pc /\ att'[a].left = att[a].left /\ att'[a].cur = att[a].cur
             /\ att'[a].perm = att[a].perm /\ att'[a].subs = att[a].subs /\ att'[a].copy = att[a].copy
             /\ a[1] # j => att'[a] = att[a]
  BY <1>1, <1>2 DEF AttType
<1> QED
  BY <1>3, <1>4, <1>5

LEMMA Starts ==
  ASSUME TypeInv, StartBatch
  PROVE  /\ job' \in [Jobs -> JobType] /\ att' \in [Attempts -> AttType]
         /\ \A j \in Jobs :
              \/ job'[j] = job[j] /\ \A a \in Attempts : a[1] = j => att'[a] = att[a]
              \/ /\ job[j].pc = "idle" /\ job'[j].pc = "running" /\ job'[j].attempt = 1
                 /\ \A a \in Attempts : a[1] = j =>
                      IF a[2] = 1
                      THEN /\ att'[a].pc = "hooks" /\ att'[a].left \subseteq Hooks /\ att'[a].perm = {}
                           /\ att'[a].subs \subseteq Subs
                      ELSE att'[a] = att[a]
<1>1. /\ att \in [Attempts -> AttType] /\ job \in [Jobs -> JobType] /\ ActiveHooks \subseteq Hooks
      /\ ActiveSubs \subseteq Subs
  BY ScopeTyped DEF ActiveHooks, ActiveSubs
<1>2. PICK js \in JobsOfBatch, subs \in {ActiveSubs, {}} :
       /\ job' = [j \in Jobs |-> IF j \in js
                                 THEN [pc |-> "running", attempt |-> 1, timer |-> TRUE,
                                       hooks |-> ActiveHooks, subs |-> subs]
                                 ELSE job[j]]
       /\ att' = [a \in Attempts |->
                    IF a[1] \in js /\ a[2] = 1
                    THEN [None EXCEPT !.pc = "hooks", !.left = ActiveHooks, !.subs = subs]
                    ELSE att[a]]
  BY DEF StartBatch
<1>3. subs \subseteq Subs /\ \A j \in js : job[j].pc = "idle"
  BY <1>1 DEF JobsOfBatch
<1>4. job' \in [Jobs -> JobType]
  BY <1>1, <1>2, <1>3 DEF JobType
<1>5. ASSUME NEW a \in Attempts, a[1] \in js, a[2] = 1
      PROVE  /\ att'[a] \in AttType /\ att'[a].pc = "hooks" /\ att'[a].left \subseteq Hooks
             /\ att'[a].perm = {} /\ att'[a].subs \subseteq Subs
  BY <1>1, <1>2, <1>3, <1>5 DEF None, AttType, Pcs, States
<1>6. ASSUME NEW a \in Attempts, ~(a[1] \in js /\ a[2] = 1) PROVE att'[a] = att[a]
  BY <1>2, <1>6
<1>7. att' \in [Attempts -> AttType]
  BY <1>1, <1>2, <1>5, <1>6
<1>8. ASSUME NEW j \in Jobs
      PROVE  \/ job'[j] = job[j] /\ \A a \in Attempts : a[1] = j => att'[a] = att[a]
             \/ /\ job[j].pc = "idle" /\ job'[j].pc = "running" /\ job'[j].attempt = 1
                /\ \A a \in Attempts : a[1] = j =>
                     IF a[2] = 1
                     THEN /\ att'[a].pc = "hooks" /\ att'[a].left \subseteq Hooks /\ att'[a].perm = {}
                          /\ att'[a].subs \subseteq Subs
                     ELSE att'[a] = att[a]
  <2>1. CASE j \in js
    BY <1>2, <1>3, <1>5, <1>6, <2>1
  <2>2. CASE j \notin js
    BY <1>2, <1>6, <2>2
  <2> QED
    BY <2>1, <2>2
<1> QED
  BY <1>4, <1>7, <1>8

LEMMA TypedAgain ==
  ASSUME TypeInv, RestTyped', scope' = scope, att' \in [Attempts -> AttType],
         job' \in [Jobs -> JobType], AttemptsLeft', InHand'
  PROVE  TypeInv'
<1>1. job' \in [Jobs -> [pc : {"idle", "running", "delay", "done", "failed", "stuck", "lost"},
                         attempt : 0 .. 1 + scope'.retries, timer : BOOLEAN,
                         hooks : SUBSET Hooks, subs : SUBSET Subs]]
  BY ScopeTyped
<1> QED
  BY <1>1 DEF TypeInv, DeliveryTypeOK, RestTyped, AttType, Pcs

\* An attempt moves and its job stays, or ends with it.
LEMMA MovedTyped ==
  ASSUME TypeInv, RestTyped', scope' = scope, NEW a \in Attempts,
         att' \in [Attempts -> AttType], \A b \in Attempts : b # a => att'[b] = att[b],
         att'[a].pc \in {"sending", "off"} => att'[a].cur \in Hooks,
         att'[a].pc \in {"pushing", "mark"} => att'[a].cur \in Subs,
         job' \in [Jobs -> JobType],
         \A j \in Jobs : /\ job'[j].attempt = job[j].attempt
                         /\ job'[j].pc = job[j].pc \/ job'[j].pc # "delay"
  PROVE  TypeInv'
<1>1. InHand'
  BY DEF TypeInv, InHand
<1>2. AttemptsLeft'
  BY DEF TypeInv, AttemptsLeft
<1> QED
  BY <1>1, <1>2, TypedAgain

LEMMA AttemptTyped ==
  ASSUME TypeInv, NEW a \in Attempts, AttemptStep(a) \/ Answer(a)
  PROVE  TypeInv'
<1>1. RestTyped' /\ att \in [Attempts -> AttType] /\ job \in [Jobs -> JobType]
  BY AttemptRest, ScopeTyped
<1>2. scope' = scope
  BY DEF AttemptStep, Answer, HookNext, HookDelivered, HookFails, HookRejected, RemoveRead,
         RemoveWrite, PushNext, PushDelivered, PushFails, MarkFailure
<1>3. ASSUME NEW ok \in BOOLEAN, Over(a, ok), ok \/ Aborted(a) PROVE TypeInv'
  <2>1. /\ Moves(a, "over", {}, "none", {}, {}, "absent")
        /\ job' \in [Jobs -> JobType]
        /\ \A j \in Jobs : /\ job'[j].attempt = job[j].attempt
                           /\ job'[j].pc = job[j].pc \/ (j = a[1] /\ job'[j].pc = "done")
    BY <1>3, Ends
  <2> QED
    BY <1>1, <1>2, <2>1, MovedTyped DEF Moves
<1>4. ASSUME job' = job, NEW pc, NEW left, NEW cur, NEW perm, NEW subs, NEW copy,
             Moves(a, pc, left, cur, perm, subs, copy),
             pc \in {"sending", "off"} => cur \in Hooks, pc \in {"pushing", "mark"} => cur \in Subs
      PROVE  TypeInv'
  BY <1>1, <1>2, <1>4, MovedTyped DEF Moves
<1>5. CASE HookNext(a)
  <2>1. CASE Aborted(a)
    BY <1>3, <1>5, <2>1 DEF HookNext
  <2>2. CASE ~Aborted(a)
    <3>1. job' = job /\ att[a].left \subseteq Hooks
      BY <1>1, <1>5, <2>2 DEF HookNext, AttType
    <3>2. PICK h \in att[a].left :
            \/ Moves(a, "hooks", att[a].left \ {h}, att[a].cur, att[a].perm \cup {h},
                     att[a].subs, att[a].copy)
            \/ Moves(a, "sending", att[a].left \ {h}, h, att[a].perm, att[a].subs, att[a].copy)
      BY <1>5, <2>2, HookSteps
    <3> QED
      BY <1>4, <3>1, <3>2
  <2> QED
    BY <2>1, <2>2
<1>6. CASE HookDelivered(a) \/ HookFails(a)
  <2>1. job' = job
    BY <1>6 DEF HookDelivered, HookFails
  <2>2. Moves(a, "hooks", att[a].left, "none", att[a].perm, att[a].subs, att[a].copy)
    BY <1>6, HookSteps
  <2> QED
    BY <1>4, <2>1, <2>2
<1>7. CASE HookRejected(a)
  <2>1. job' = job
    BY <1>7 DEF HookRejected
  <2>2. Moves(a, "hooks", att[a].left, "none", att[a].perm \cup {att[a].cur},
              att[a].subs, att[a].copy)
    BY <1>7, HookSteps
  <2> QED
    BY <1>4, <2>1, <2>2
<1>8. CASE RemoveRead(a)
  <2>1. job' = job /\ att[a].perm \subseteq Hooks
    BY <1>1, <1>8 DEF RemoveRead, AttType
  <2>2. PICK h \in att[a].perm :
          \/ Moves(a, "off", att[a].left, h, att[a].perm, att[a].subs, att[a].copy)
          \/ Moves(a, "hooks", att[a].left, att[a].cur, att[a].perm \ {h}, att[a].subs, att[a].copy)
    BY <1>8, RowSteps
  <2> QED
    BY <1>4, <2>1, <2>2
<1>9. CASE RemoveWrite(a)
  <2>1. job' = job
    BY <1>9 DEF RemoveWrite
  <2>2. Moves(a, "hooks", att[a].left, "none", att[a].perm \ {att[a].cur}, att[a].subs, att[a].copy)
    BY <1>9, RowSteps
  <2> QED
    BY <1>4, <2>1, <2>2
<1>10. CASE PushNext(a)
  <2>1. CASE att[a].subs = {}
    BY <1>3, <1>10, <2>1 DEF PushNext
  <2>2. CASE att[a].subs # {}
    <3>1. job' = job /\ att[a].subs \subseteq Subs
      BY <1>1, <1>10, <2>2 DEF PushNext, AttType
    <3>2. PICK s \in att[a].subs :
            Moves(a, "pushing", att[a].left, s, att[a].perm, att[a].subs \ {s}, att[a].copy)
      BY <1>10, <2>2, PushSteps
    <3> QED
      BY <1>4, <3>1, <3>2
  <2> QED
    BY <2>1, <2>2
<1>11. CASE PushDelivered(a) \/ PushFails(a)
  <2>1. job' = job /\ att[a].cur \in Subs
    BY <1>11 DEF PushDelivered, PushFails, TypeInv, InHand
  <2> QED
    BY <1>4, <1>11, <2>1, PushSteps
<1>12. CASE MarkFailure(a)
  <2>1. job' = job
    BY <1>12 DEF MarkFailure
  <2> QED
    BY <1>4, <1>12, <2>1, PushSteps
<1> QED
  BY <1>5, <1>6, <1>7, <1>8, <1>9, <1>10, <1>11, <1>12 DEF AttemptStep, Answer

LEMMA NextTyped == TypeInv /\ [DeliveryNext]_deliveryVars => TypeInv'
<1> SUFFICES ASSUME TypeInv, [DeliveryNext]_deliveryVars PROVE TypeInv'
  OBVIOUS
<1>1. /\ att \in [Attempts -> AttType] /\ job \in [Jobs -> JobType] /\ scope.retries \in Nat
      /\ scope \in DeliveryScopes
  BY ScopeTyped DEF TypeInv, DeliveryTypeOK
<1>2. ASSUME NEW a \in Attempts, AttemptStep(a) \/ Answer(a) PROVE TypeInv'
  BY <1>2, AttemptTyped
<1>3. CASE StartBatch
  <2>1. RestTyped' /\ scope' = scope
    BY <1>3, OtherRest DEF StartBatch
  <2>2. /\ job' \in [Jobs -> JobType] /\ att' \in [Attempts -> AttType]
        /\ \A j \in Jobs :
              \/ job'[j] = job[j] /\ \A a \in Attempts : a[1] = j => att'[a] = att[a]
              \/ /\ job[j].pc = "idle" /\ job'[j].pc = "running" /\ job'[j].attempt = 1
                 /\ \A a \in Attempts : a[1] = j =>
                      IF a[2] = 1
                      THEN /\ att'[a].pc = "hooks" /\ att'[a].left \subseteq Hooks /\ att'[a].perm = {}
                           /\ att'[a].subs \subseteq Subs
                      ELSE att'[a] = att[a]
    BY <1>3, Starts
  <2>3. AttemptsLeft'
    BY <1>1, <2>1, <2>2 DEF TypeInv, AttemptsLeft
  <2>4. ASSUME NEW a \in Attempts PROVE att'[a] = att[a] \/ att'[a].pc = "hooks"
    BY <2>2, AttemptsOf
  <2>5. InHand'
    BY <2>4 DEF TypeInv, InHand
  <2> QED
    BY <2>1, <2>2, <2>3, <2>5, TypedAgain
<1>4. CASE Close
  <2>1. RestTyped' /\ UNCHANGED <<scope, att, job>>
    BY <1>4, OtherRest DEF Close
  <2> QED
    BY <1>1, <2>1, TypedAgain DEF TypeInv, InHand, AttemptsLeft
<1>5. CASE ClearTimers
  <2>1. RestTyped' /\ UNCHANGED <<scope, att>>
    BY <1>5, OtherRest DEF ClearTimers
  <2>2. job' = [j \in Jobs |-> IF job[j].pc = "delay" THEN [job[j] EXCEPT !.pc = "stuck"]
                               ELSE [job[j] EXCEPT !.timer = FALSE]]
    BY <1>5 DEF ClearTimers
  <2>3. ASSUME NEW j \in Jobs
        PROVE  /\ job'[j] \in JobType /\ job'[j].attempt = job[j].attempt
               /\ job'[j].pc = "delay" => job[j].pc = "delay"
    BY <1>1, <2>2 DEF JobType
  <2>4. job' \in [Jobs -> JobType]
    BY <2>2, <2>3
  <2>5. AttemptsLeft'
    BY <2>1, <2>3 DEF TypeInv, AttemptsLeft
  <2> QED
    BY <1>1, <2>1, <2>4, <2>5, TypedAgain DEF TypeInv, InHand
<1>6. CASE Reboot
  <2>1. RestTyped' /\ scope' = scope
    BY <1>6, OtherRest DEF Reboot
  <2>2. /\ job' = [j \in Jobs |-> IF job[j].pc = "idle" THEN Waiting ELSE [Waiting EXCEPT !.pc = "lost"]]
        /\ att' = [a \in Attempts |-> None]
    BY <1>6 DEF Reboot
  <2>3. ASSUME NEW j \in Jobs
        PROVE  job'[j] \in JobType /\ job'[j].attempt = 0 /\ job'[j].pc # "delay"
    BY <2>2 DEF JobType, Waiting
  <2>4. job' \in [Jobs -> JobType] /\ att' \in [Attempts -> AttType]
    BY <2>2, <2>3 DEF None, AttType, Pcs, States
  <2>5. AttemptsLeft' /\ InHand'
    BY <1>1, <2>1, <2>2, <2>3 DEF AttemptsLeft, InHand, None
  <2> QED
    BY <2>1, <2>4, <2>5, TypedAgain
<1>7. ASSUME NEW j \in Jobs, TimeoutFires(j) PROVE TypeInv'
  <2>1. RestTyped' /\ scope' = scope
    BY <1>7, OtherRest DEF Timers, TimeoutFires
  <2>2. /\ job' \in [Jobs -> JobType] /\ att' \in [Attempts -> AttType]
        /\ \A i \in Jobs : i # j => job'[i] = job[i]
        /\ job'[j].attempt = job[j].attempt
        /\ job'[j].pc = "delay" => job[j].attempt <= scope.retries
        /\ \A a \in Attempts : att'[a].pc = att[a].pc /\ att'[a].cur = att[a].cur
    BY <1>7, TimesOut
  <2>3. AttemptsLeft'
    BY <2>1, <2>2 DEF TypeInv, AttemptsLeft
  <2>4. InHand'
    BY <2>2 DEF TypeInv, InHand
  <2> QED
    BY <2>1, <2>2, <2>3, <2>4, TypedAgain
<1>8. ASSUME NEW j \in Jobs, NextAttempt(j) PROVE TypeInv'
  <2>1. RestTyped' /\ scope' = scope /\ job[j].attempt <= scope.retries
    BY <1>8, OtherRest DEF Timers, NextAttempt, TypeInv, AttemptsLeft
  <2> DEFINE a == <<j, job[j].attempt + 1>>
  <2>2. /\ a \in Attempts
        /\ job' \in [Jobs -> JobType]
        /\ job'[j].pc = "running" /\ job'[j].attempt = job[j].attempt + 1
        /\ \A i \in Jobs : i # j => job'[i] = job[i]
        /\ Moves(a, "hooks", job[j].hooks, "none", {}, job[j].subs, "absent")
    BY <1>8, Begins
  <2> HIDE DEF a
  <2>3. AttemptsLeft'
    BY <1>1, <2>1, <2>2 DEF TypeInv, AttemptsLeft, JobType
  <2>4. InHand' /\ att' \in [Attempts -> AttType]
    BY <2>2 DEF TypeInv, InHand, Moves
  <2> QED
    BY <2>1, <2>2, <2>3, <2>4, TypedAgain
<1>9. CASE \/ \E h \in Hooks \cap (scope.hooks \cup scope.spare) : RegisterHook(h)
           \/ \E s \in Subs \cap (scope.subs \cup scope.spare) : RegisterPush(s) \/ Unregister(s)
           \/ CleanupSelect \/ CleanupDelete \/ CleanupPush
  <2>1. RestTyped' /\ UNCHANGED <<scope, att, job>>
    BY <1>9, OtherRest DEF RegisterHook, RegisterPush, Unregister, CleanupSelect, CleanupDelete, CleanupPush
  <2> QED
    BY <1>1, <2>1, TypedAgain DEF TypeInv, InHand, AttemptsLeft
<1>10. CASE UNCHANGED deliveryVars
  BY <1>10 DEF deliveryVars, rowVars, pastVars, TypeInv, DeliveryTypeOK, InHand, AttemptsLeft
<1> QED
  BY <1>2, <1>3, <1>4, <1>5, <1>6, <1>7, <1>8, <1>9, <1>10 DEF DeliveryNext, Timers

LEMMA InitTyped == DeliveryInit => TypeInv
<1> SUFFICES ASSUME DeliveryInit PROVE TypeInv
  OBVIOUS
<1>1. scope \in DeliveryScopes /\ scope.retries \in Nat /\ scope.hooks \subseteq Hooks /\ scope.subs \subseteq Subs
  BY DeliveryAssumption DEF DeliveryInit
<1>2. job \in [Jobs -> [pc : {"idle", "running", "delay", "done", "failed", "stuck", "lost"},
                        attempt : 0 .. 1 + scope.retries, timer : BOOLEAN,
                        hooks : SUBSET Hooks, subs : SUBSET Subs]]
  BY <1>1 DEF DeliveryInit, Waiting
<1>3. att \in [Attempts -> [pc : {"none", "hooks", "sending", "off", "pushing", "mark", "over"},
                           left : SUBSET Hooks, cur : Hooks \cup Subs \cup {"none"},
                           perm : SUBSET Hooks, subs : SUBSET Subs, copy : States,
                           aborted : BOOLEAN]]
  BY DEF DeliveryInit, None, States
<1>4. sent \in [Jobs -> [Hooks \cup Subs -> 0 .. 2]]
  BY DEF DeliveryInit
<1>5. hook \in [Hooks -> States] /\ push \in [Subs -> States]
  BY DEF DeliveryInit, States
<1>6. DeliveryTypeOK
  BY <1>1, <1>2, <1>3, <1>4, <1>5 DEF DeliveryInit, DeliveryTypeOK
<1>7. InHand /\ AttemptsLeft
  BY <1>1 DEF DeliveryInit, InHand, AttemptsLeft, None, Waiting
<1> QED
  BY <1>6, <1>7 DEF TypeInv

HeardInv == OneByOne /\ FirstAttempt

LEMMA MovesHeard ==
  ASSUME TypeInv, HeardInv, NEW a \in Attempts, att[a].pc # "none",
         NEW pc, NEW left, NEW cur, NEW perm, NEW subs, NEW copy,
         Moves(a, pc, left, cur, perm, subs, copy),
         left \subseteq att[a].left, subs \subseteq att[a].subs,
         pc \in {"sending", "pushing"} =>
           cur \notin left \cup subs /\ cur \in att[a].left \cup att[a].subs,
         UNCHANGED <<sent, timedOut>>,
         \A j \in Jobs : job'[j].pc = job[j].pc \/ (j = a[1] /\ job'[j].pc = "done")
  PROVE  HeardInv'
<1>1. att[a] # None /\ a[1] \in Jobs /\ job[a[1]].pc # "idle"
  BY AttemptsOf DEF None, HeardInv, OneByOne
<1>2. ASSUME NEW j \in Jobs, job'[j].pc = "idle"
      PROVE  /\ \A b \in Attempts : b[1] = j => att'[b] = None
             /\ \A r \in Hooks \cup Subs : sent'[j][r] = 0
  BY <1>1, <1>2 DEF HeardInv, OneByOne, Moves
<1>3. ASSUME NEW b \in Attempts
      PROVE  att'[b].pc \in {"sending", "pushing"} => att'[b].cur \notin att'[b].left \cup att'[b].subs
  BY DEF HeardInv, OneByOne, Moves
<1>4. OneByOne'
  BY <1>2, <1>3 DEF OneByOne
<1>5. ASSUME NEW j \in Jobs, j \notin timedOut
      PROVE  /\ job'[j].pc # "delay"
             /\ \A b \in Attempts : b[1] = j /\ b[2] # 1 => att'[b] = None
  BY <1>1, <1>5 DEF HeardInv, FirstAttempt, Moves
<1>6. ASSUME NEW j \in Jobs, j \notin timedOut, NEW r \in Hooks \cup Subs, sent[j][r] # 0
      PROVE  /\ sent[j][r] = 1
             /\ \A b \in Attempts : b[1] = j =>
                  /\ r \notin att'[b].left \cup att'[b].subs
                  /\ att'[b].pc \in {"sending", "pushing"} => att'[b].cur # r
  <2>1. sent[j][r] = 1
    BY <1>6 DEF HeardInv, FirstAttempt
  <2>2. ASSUME NEW b \in Attempts, b[1] = j
        PROVE  /\ r \notin att'[b].left \cup att'[b].subs
               /\ att'[b].pc \in {"sending", "pushing"} => att'[b].cur # r
    <3>1. /\ r \notin att[b].left \cup att[b].subs
          /\ att[b].pc \in {"sending", "pushing"} => att[b].cur # r
      BY <1>6, <2>2 DEF HeardInv, FirstAttempt
    <3>2. CASE b = a
      BY <3>1, <3>2 DEF Moves
    <3>3. CASE b # a
      BY <3>1, <3>3 DEF Moves
    <3> QED
      BY <3>2, <3>3
  <2> QED
    BY <2>1, <2>2
<1>7. FirstAttempt'
  BY <1>5, <1>6 DEF FirstAttempt
<1> QED
  BY <1>4, <1>7 DEF HeardInv

LEMMA DeliveredHeard ==
  ASSUME TypeInv, HeardInv, NEW a \in Attempts, att[a].pc \in {"sending", "pushing"},
         NEW r \in Hooks \cup Subs, r = att[a].cur,
         Moves(a, "hooks", att[a].left, "none", att[a].perm, att[a].subs, att[a].copy),
         sent' = Sent(a[1], r), UNCHANGED <<job, timedOut>>
  PROVE  HeardInv'
<1>1. att[a] # None /\ a[1] \in Jobs /\ job[a[1]].pc # "idle"
  BY AttemptsOf DEF None, HeardInv, OneByOne
<1>2. RestTyped
  BY DEF TypeInv, DeliveryTypeOK, RestTyped
<1>3. \A i \in Jobs, q \in Hooks \cup Subs :
        IF i = a[1] /\ q = r THEN sent[a[1]][r] < 2 => sent'[a[1]][r] = sent[a[1]][r] + 1
                             ELSE sent'[i][q] = sent[i][q]
  BY <1>1, <1>2, SentTyped
<1>4. OneByOne'
  BY <1>1, <1>3 DEF HeardInv, OneByOne, Moves
<1>5. ASSUME NEW j \in Jobs, j \notin timedOut
      PROVE  /\ job'[j].pc # "delay"
             /\ \A b \in Attempts : b[1] = j /\ b[2] # 1 => att'[b] = None
  BY <1>1, <1>5 DEF HeardInv, FirstAttempt, Moves
<1>6. ASSUME NEW j \in Jobs, j \notin timedOut, NEW q \in Hooks \cup Subs, sent'[j][q] # 0
      PROVE  /\ sent'[j][q] = 1
             /\ \A b \in Attempts : b[1] = j =>
                  /\ q \notin att'[b].left \cup att'[b].subs
                  /\ att'[b].pc \in {"sending", "pushing"} => att'[b].cur # q
  <2>1. CASE ~(j = a[1] /\ q = r)
    <3>1. sent'[j][q] = sent[j][q]
      BY <1>3, <2>1
    <3> QED
      BY <1>6, <3>1 DEF HeardInv, FirstAttempt, Moves
  <2>2. CASE j = a[1] /\ q = r
    <3>1. sent[j][q] = 0
      BY <1>6, <2>2 DEF HeardInv, FirstAttempt
    <3>2. sent'[j][q] = 1
      BY <1>3, <2>2, <3>1
    <3>3. r \notin att[a].left \cup att[a].subs
      BY DEF HeardInv, OneByOne
    <3>4. ASSUME NEW b \in Attempts, b[1] = j, b # a PROVE att[b] = None
      <4>1. a[2] = 1
        BY <1>1, <1>6, <2>2 DEF HeardInv, FirstAttempt
      <4>2. b[2] # 1
        BY <2>2, <3>4, <4>1, AttemptsOf
      <4> QED
        BY <1>6, <3>4, <4>2 DEF HeardInv, FirstAttempt
    <3> QED
      BY <2>2, <3>2, <3>3, <3>4 DEF Moves, None
  <2> QED
    BY <2>1, <2>2
<1>7. FirstAttempt'
  BY <1>5, <1>6 DEF FirstAttempt
<1> QED
  BY <1>4, <1>7 DEF HeardInv

LEMMA AttemptHeard ==
  ASSUME TypeInv, HeardInv, NEW a \in Attempts, AttemptStep(a) \/ Answer(a)
  PROVE  HeardInv'
<1>1. /\ att \in [Attempts -> AttType] /\ att[a].left \subseteq Hooks /\ att[a].subs \subseteq Subs
  BY ScopeTyped DEF AttType
<1>2. ASSUME NEW ok \in BOOLEAN, Over(a, ok), ok \/ Aborted(a), att[a].pc # "none",
             UNCHANGED <<sent, timedOut>>
      PROVE  HeardInv'
  <2>1. /\ Moves(a, "over", {}, "none", {}, {}, "absent")
        /\ \A j \in Jobs : job'[j].pc = job[j].pc \/ (j = a[1] /\ job'[j].pc = "done")
    BY <1>2, Ends
  <2> QED
    BY <1>2, <2>1, MovesHeard
<1>3. CASE HookNext(a)
  <2>1. UNCHANGED <<sent, timedOut>> /\ att[a].pc # "none"
    BY <1>3 DEF HookNext, pastVars
  <2>2. CASE Aborted(a)
    BY <1>2, <1>3, <2>1, <2>2 DEF HookNext
  <2>3. CASE ~Aborted(a)
    <3>1. job' = job
      BY <1>3, <2>3 DEF HookNext
    <3>2. PICK h \in att[a].left :
            \/ Moves(a, "hooks", att[a].left \ {h}, att[a].cur, att[a].perm \cup {h},
                     att[a].subs, att[a].copy)
            \/ Moves(a, "sending", att[a].left \ {h}, h, att[a].perm, att[a].subs, att[a].copy)
      BY <1>3, <2>3, HookSteps
    <3>3. h \notin (att[a].left \ {h}) \cup att[a].subs
      BY <1>1, DeliveryAssumption
    <3>4. CASE Moves(a, "hooks", att[a].left \ {h}, att[a].cur, att[a].perm \cup {h},
                     att[a].subs, att[a].copy)
      BY <2>1, <3>1, <3>4, MovesHeard
    <3>5. CASE Moves(a, "sending", att[a].left \ {h}, h, att[a].perm, att[a].subs, att[a].copy)
      BY <2>1, <3>1, <3>3, <3>5, MovesHeard
    <3> QED
      BY <3>2, <3>4, <3>5
  <2> QED
    BY <2>2, <2>3
<1>4. CASE HookDelivered(a)
  <2>1. /\ att[a].cur \in Hooks /\ sent' = Sent(a[1], att[a].cur) /\ UNCHANGED <<job, timedOut>>
        /\ att[a].pc = "sending"
    BY <1>4 DEF HookDelivered, TypeInv, InHand
  <2>2. Moves(a, "hooks", att[a].left, "none", att[a].perm, att[a].subs, att[a].copy)
    BY <1>4, HookSteps
  <2> QED
    BY <2>1, <2>2, DeliveredHeard
<1>5. CASE HookFails(a)
  <2>1. UNCHANGED <<sent, timedOut, job>> /\ att[a].pc # "none"
    BY <1>5 DEF HookFails, pastVars
  <2>2. Moves(a, "hooks", att[a].left, "none", att[a].perm, att[a].subs, att[a].copy)
    BY <1>5, HookSteps
  <2> QED
    BY <2>1, <2>2, MovesHeard
<1>6. CASE HookRejected(a)
  <2>1. UNCHANGED <<sent, timedOut, job>> /\ att[a].pc # "none"
    BY <1>6 DEF HookRejected
  <2>2. Moves(a, "hooks", att[a].left, "none", att[a].perm \cup {att[a].cur},
              att[a].subs, att[a].copy)
    BY <1>6, HookSteps
  <2> QED
    BY <2>1, <2>2, MovesHeard
<1>7. CASE RemoveRead(a)
  <2>1. UNCHANGED <<sent, timedOut, job>> /\ att[a].pc # "none"
    BY <1>7 DEF RemoveRead, pastVars
  <2>2. PICK h \in att[a].perm :
          \/ Moves(a, "off", att[a].left, h, att[a].perm, att[a].subs, att[a].copy)
          \/ Moves(a, "hooks", att[a].left, att[a].cur, att[a].perm \ {h}, att[a].subs, att[a].copy)
    BY <1>7, RowSteps
  <2>3. CASE Moves(a, "off", att[a].left, h, att[a].perm, att[a].subs, att[a].copy)
    BY <2>1, <2>3, MovesHeard
  <2>4. CASE Moves(a, "hooks", att[a].left, att[a].cur, att[a].perm \ {h}, att[a].subs, att[a].copy)
    BY <2>1, <2>4, MovesHeard
  <2> QED
    BY <2>2, <2>3, <2>4
<1>8. CASE RemoveWrite(a)
  <2>1. UNCHANGED <<sent, timedOut, job>> /\ att[a].pc # "none"
    BY <1>8 DEF RemoveWrite, pastVars
  <2>2. Moves(a, "hooks", att[a].left, "none", att[a].perm \ {att[a].cur}, att[a].subs, att[a].copy)
    BY <1>8, RowSteps
  <2> QED
    BY <2>1, <2>2, MovesHeard
<1>9. CASE PushNext(a)
  <2>1. UNCHANGED <<sent, timedOut>> /\ att[a].pc # "none" /\ att[a].left = {}
    BY <1>9 DEF PushNext, pastVars
  <2>2. CASE att[a].subs = {}
    BY <1>2, <1>9, <2>1, <2>2 DEF PushNext
  <2>3. CASE att[a].subs # {}
    <3>1. job' = job
      BY <1>9, <2>3 DEF PushNext
    <3>2. PICK s \in att[a].subs :
            Moves(a, "pushing", att[a].left, s, att[a].perm, att[a].subs \ {s}, att[a].copy)
      BY <1>9, <2>3, PushSteps
    <3> QED
      BY <2>1, <3>1, <3>2, MovesHeard
  <2> QED
    BY <2>2, <2>3
<1>10. CASE PushDelivered(a)
  <2>1. /\ att[a].cur \in Subs /\ sent' = Sent(a[1], att[a].cur) /\ UNCHANGED <<job, timedOut>>
        /\ att[a].pc = "pushing"
    BY <1>10 DEF PushDelivered, TypeInv, InHand
  <2>2. Moves(a, "hooks", att[a].left, "none", att[a].perm, att[a].subs, att[a].copy)
    BY <1>10, PushSteps
  <2> QED
    BY <2>1, <2>2, DeliveredHeard
<1>11. CASE PushFails(a)
  <2>1. UNCHANGED <<sent, timedOut, job>> /\ att[a].pc # "none"
    BY <1>11 DEF PushFails, pastVars
  <2>2. CASE push[att[a].cur] = "absent"
    <3>1. Moves(a, "hooks", att[a].left, "none", att[a].perm, att[a].subs, att[a].copy)
      BY <1>11, <2>2, PushSteps
    <3> QED
      BY <2>1, <3>1, MovesHeard
  <2>3. CASE push[att[a].cur] # "absent"
    <3>1. Moves(a, "mark", att[a].left, att[a].cur, att[a].perm, att[a].subs, push[att[a].cur])
      BY <1>11, <2>3, PushSteps
    <3> QED
      BY <2>1, <3>1, MovesHeard
  <2> QED
    BY <2>2, <2>3
<1>12. CASE MarkFailure(a)
  <2>1. UNCHANGED <<sent, timedOut, job>> /\ att[a].pc # "none"
    BY <1>12 DEF MarkFailure
  <2>2. Moves(a, "hooks", att[a].left, "none", att[a].perm, att[a].subs, "absent")
    BY <1>12, PushSteps
  <2> QED
    BY <2>1, <2>2, MovesHeard
<1> QED
  BY <1>3, <1>4, <1>5, <1>6, <1>7, <1>8, <1>9, <1>10, <1>11, <1>12 DEF AttemptStep, Answer

LEMMA NextHeard == TypeInv /\ HeardInv /\ [DeliveryNext]_deliveryVars => HeardInv'
<1> SUFFICES ASSUME TypeInv, HeardInv, [DeliveryNext]_deliveryVars PROVE HeardInv'
  OBVIOUS
<1>1. /\ att \in [Attempts -> AttType] /\ job \in [Jobs -> JobType]
  BY ScopeTyped
<1>2. ASSUME NEW a \in Attempts, AttemptStep(a) \/ Answer(a) PROVE HeardInv'
  BY <1>2, AttemptHeard
<1>3. CASE StartBatch
  <2>1. UNCHANGED <<sent, timedOut>>
    BY <1>3 DEF StartBatch, pastVars
  <2>2. \A j \in Jobs :
          \/ job'[j] = job[j] /\ \A a \in Attempts : a[1] = j => att'[a] = att[a]
          \/ /\ job[j].pc = "idle" /\ job'[j].pc = "running" /\ job'[j].attempt = 1
             /\ \A a \in Attempts : a[1] = j =>
                  IF a[2] = 1
                  THEN /\ att'[a].pc = "hooks" /\ att'[a].left \subseteq Hooks /\ att'[a].perm = {}
                       /\ att'[a].subs \subseteq Subs
                  ELSE att'[a] = att[a]
    BY <1>3, Starts
  <2>3. ASSUME NEW a \in Attempts PROVE att'[a] = att[a] \/ att'[a].pc = "hooks"
    BY <2>2, AttemptsOf
  <2>4. OneByOne'
    BY <2>1, <2>2, <2>3 DEF HeardInv, OneByOne
  <2>5. FirstAttempt'
    BY <2>1, <2>2 DEF HeardInv, OneByOne, FirstAttempt
  <2> QED
    BY <2>4, <2>5 DEF HeardInv
<1>4. CASE Close
  <2>1. UNCHANGED <<sent, timedOut, att, job>>
    BY <1>4 DEF Close, pastVars
  <2> QED
    BY <2>1 DEF HeardInv, OneByOne, FirstAttempt
<1>5. CASE ClearTimers
  <2>1. UNCHANGED <<sent, timedOut, att>>
    BY <1>5 DEF ClearTimers, pastVars
  <2>2. ASSUME NEW j \in Jobs
        PROVE  /\ job'[j].pc = "idle" => job[j].pc = "idle"
               /\ job'[j].pc = "delay" => job[j].pc = "delay"
    BY <1>1, <1>5 DEF ClearTimers, JobType
  <2> QED
    BY <2>1, <2>2 DEF HeardInv, OneByOne, FirstAttempt
<1>6. CASE Reboot
  <2>1. UNCHANGED <<sent, timedOut>> /\ \A a \in Attempts : att'[a] = None
    BY <1>6 DEF Reboot
  <2>2. ASSUME NEW j \in Jobs
        PROVE  /\ job'[j].pc = "idle" => job[j].pc = "idle"
               /\ job'[j].pc # "delay"
    BY <1>6 DEF Reboot, Waiting
  <2> QED
    BY <2>1, <2>2 DEF HeardInv, OneByOne, FirstAttempt, None
<1>7. ASSUME NEW j \in Jobs, TimeoutFires(j) PROVE HeardInv'
  <2>1. sent' = sent /\ timedOut' = timedOut \cup {j}
    BY <1>7 DEF TimeoutFires
  <2>2. /\ \A i \in Jobs : i # j => job'[i] = job[i]
        /\ job'[j].pc \in {"delay", "failed"}
        /\ \A a \in Attempts :
              /\ att'[a].pc = att[a].pc /\ att'[a].left = att[a].left /\ att'[a].cur = att[a].cur
              /\ att'[a].subs = att[a].subs
              /\ a[1] # j => att'[a] = att[a]
    BY <1>7, TimesOut
  <2>3. OneByOne'
    BY <2>1, <2>2 DEF HeardInv, OneByOne
  <2>4. FirstAttempt'
    BY <2>1, <2>2 DEF HeardInv, FirstAttempt
  <2> QED
    BY <2>3, <2>4 DEF HeardInv
<1>8. ASSUME NEW j \in Jobs, NextAttempt(j) PROVE HeardInv'
  <2>1. UNCHANGED <<sent, timedOut>> /\ j \in timedOut
    BY <1>8 DEF NextAttempt, pastVars, HeardInv, FirstAttempt
  <2> DEFINE a == <<j, job[j].attempt + 1>>
  <2>2. /\ a \in Attempts /\ a[1] = j
        /\ job'[j].pc = "running"
        /\ \A i \in Jobs : i # j => job'[i] = job[i]
        /\ Moves(a, "hooks", job[j].hooks, "none", {}, job[j].subs, "absent")
    BY <1>8, Begins
  <2> HIDE DEF a
  <2>3. OneByOne'
    BY <2>1, <2>2 DEF HeardInv, OneByOne, Moves
  <2>4. FirstAttempt'
    BY <2>1, <2>2 DEF HeardInv, FirstAttempt, Moves
  <2> QED
    BY <2>3, <2>4 DEF HeardInv
<1>9. CASE \/ \E h \in Hooks \cap (scope.hooks \cup scope.spare) : RegisterHook(h)
           \/ \E s \in Subs \cap (scope.subs \cup scope.spare) : RegisterPush(s) \/ Unregister(s)
           \/ CleanupSelect \/ CleanupDelete \/ CleanupPush
  <2>1. UNCHANGED <<sent, timedOut, att, job>>
    BY <1>9 DEF RegisterHook, RegisterPush, Unregister, CleanupSelect, CleanupDelete, CleanupPush, pastVars
  <2> QED
    BY <2>1 DEF HeardInv, OneByOne, FirstAttempt
<1>10. CASE UNCHANGED deliveryVars
  BY <1>10 DEF deliveryVars, rowVars, pastVars, HeardInv, OneByOne, FirstAttempt
<1> QED
  BY <1>2, <1>3, <1>4, <1>5, <1>6, <1>7, <1>8, <1>9, <1>10 DEF DeliveryNext, Timers

LEMMA InitHeard == DeliveryInit => HeardInv
  BY DEF DeliveryInit, HeardInv, OneByOne, FirstAttempt, None, Waiting

\* The two halves: what concerns the webhooks and what concerns the subscriptions.
HookRows ==
  /\ flagged \subseteq rejected \cup late
  /\ \A a \in Attempts : /\ att[a].perm \subseteq rejected \cup late
                         /\ att[a].pc = "off" => att[a].cur \in att[a].perm
  /\ \A h \in doomed : hook[h] # "active" \/ h \in late
  /\ \A h \in (Hooks \cap registered) \ (rejected \cup late) : hook[h] = "active"
  /\ RejectedRemembered

PushRows ==
  /\ \A s \in Subs : push[s] # "absent" => s \in registered
  /\ \A a \in Attempts : att[a].pc = "mark" =>
       /\ att[a].copy # "absent" /\ att[a].cur \in registered
       /\ att[a].copy = "active" => att[a].cur \notin off \ late
       /\ att[a].copy = "inactive" => att[a].cur \in off \cup late
  /\ \A s \in (Subs \cap registered) \ (off \cup late) : push[s] = "active"
  /\ NoPushToTheGone

RowsInv == Decided /\ RowsFollowReceivers

LEMMA Halves == RestTyped => (RowsInv <=> HookRows /\ PushRows)
  BY DeliveryAssumption
  DEF RestTyped, RowsInv, Decided, RowsFollowReceivers, RegisteredStays, HookRows, PushRows

\* Changes elsewhere leave each half alone.
LEMMA HookFrame ==
  ASSUME HookRows, UNCHANGED <<hook, flagged, doomed, rejected>>,
         Hooks \cap registered' = Hooks \cap registered, late \subseteq late',
         \A a \in Attempts : /\ att'[a].perm \subseteq att[a].perm
                             /\ att'[a].pc = "off" => att'[a].cur \in att'[a].perm
  PROVE  HookRows'
  BY DEF HookRows, RejectedRemembered

LEMMA PushFrame ==
  ASSUME PushRows, UNCHANGED <<push, off>>,
         Subs \cap registered' = Subs \cap registered, late \subseteq late',
         registered \subseteq registered',
         \A a \in Attempts : att'[a].pc = "mark" =>
           att[a].pc = "mark" /\ att'[a].copy = att[a].copy /\ att'[a].cur = att[a].cur
  PROVE  PushRows'
  BY DEF PushRows, NoPushToTheGone

LEMMA HeldOrNot ==
  ASSUME NEW r, NEW a \in Attempts
  PROVE  /\ r \in att[a].perm => Holding(r) # {}
         /\ att[a].pc = "mark" /\ att[a].cur = r => a \in Holding(r)
  BY DEF Holding

\* The steps of an attempt that touch no row.
LEMMA QuietRows ==
  ASSUME TypeInv, RowsInv, NEW a \in Attempts,
         NEW pc, NEW left, NEW cur, NEW perm, NEW subs, NEW copy,
         Moves(a, pc, left, cur, perm, subs, copy),
         perm \subseteq att[a].perm, pc = "off" => cur \in perm, pc # "mark",
         UNCHANGED <<hook, push, flagged, doomed, rejected, off, registered>>, late \subseteq late'
  PROVE  HookRows' /\ PushRows'
<1>1. HookRows /\ PushRows
  BY Halves DEF TypeInv, DeliveryTypeOK, RestTyped
<1>2. ASSUME NEW b \in Attempts
      PROVE  /\ att'[b].perm \subseteq att[b].perm
             /\ att'[b].pc = "off" => att'[b].cur \in att'[b].perm
             /\ att'[b].pc = "mark" =>
                  att[b].pc = "mark" /\ att'[b].copy = att[b].copy /\ att'[b].cur = att[b].cur
  BY <1>1 DEF Moves, HookRows
<1> QED
  BY <1>1, <1>2, HookFrame, PushFrame

LEMMA DeliveredRows ==
  ASSUME TypeInv, RowsInv, NEW a \in Attempts, HookDelivered(a)
  PROVE  HookRows' /\ PushRows'
<1> DEFINE h == att[a].cur
<1>1. HookRows /\ PushRows /\ RestTyped
  BY Halves DEF TypeInv, DeliveryTypeOK, RestTyped
<1>2. /\ flagged' = flagged \ {h}
      /\ rejected' = IF hook[h] = "active" THEN rejected \ {h} ELSE rejected
      /\ late' = IF Holding(h) # {} THEN late \cup {h} ELSE late
      /\ UNCHANGED <<hook, push, doomed, registered, off>>
  BY DEF HookDelivered
<1>3. Moves(a, "hooks", att[a].left, "none", att[a].perm, att[a].subs, att[a].copy)
  BY HookSteps
<1>4. ASSUME NEW b \in Attempts
      PROVE  /\ att'[b].perm \subseteq rejected' \cup late'
             /\ att'[b].pc = "off" => att'[b].cur \in att'[b].perm
  <2>1. /\ att'[b].perm = att[b].perm /\ att[b].perm \subseteq rejected \cup late
        /\ att'[b].pc = "off" => att'[b].cur \in att'[b].perm
    BY <1>1, <1>3 DEF Moves, HookRows
  <2>2. h \in att[b].perm => h \in late'
    BY <1>2, HeldOrNot
  <2> QED
    BY <1>2, <2>1, <2>2
<1>5. \A b \in Attempts : att'[b].pc = "mark" =>
        att[b].pc = "mark" /\ att'[b].copy = att[b].copy /\ att'[b].cur = att[b].cur
  BY <1>3 DEF Moves
<1>6. PushRows'
  BY <1>1, <1>2, <1>5, PushFrame
<1> HIDE DEF h
<1>7. HookRows'
  BY <1>1, <1>2, <1>4 DEF HookRows, RejectedRemembered
<1> QED
  BY <1>6, <1>7

LEMMA RejectedRows ==
  ASSUME TypeInv, RowsInv, NEW a \in Attempts, HookRejected(a)
  PROVE  HookRows' /\ PushRows'
<1> DEFINE h == att[a].cur
<1>1. HookRows /\ PushRows /\ RestTyped
  BY Halves DEF TypeInv, DeliveryTypeOK, RestTyped
<1>2. /\ flagged' = flagged \cup {h} /\ rejected' = rejected \cup {h}
      /\ UNCHANGED <<hook, push, doomed, registered, off, late>>
  BY DEF HookRejected
<1>3. Moves(a, "hooks", att[a].left, "none", att[a].perm \cup {h}, att[a].subs, att[a].copy)
  BY HookSteps
<1>4. ASSUME NEW b \in Attempts
      PROVE  /\ att'[b].perm \subseteq rejected' \cup late'
             /\ att'[b].pc = "off" => att'[b].cur \in att'[b].perm
             /\ att'[b].pc = "mark" =>
                  att[b].pc = "mark" /\ att'[b].copy = att[b].copy /\ att'[b].cur = att[b].cur
  BY <1>1, <1>2, <1>3 DEF Moves, HookRows
<1>5. PushRows'
  BY <1>1, <1>2, <1>4, PushFrame
<1> HIDE DEF h
<1>6. HookRows'
  BY <1>1, <1>2, <1>4 DEF HookRows, RejectedRemembered
<1> QED
  BY <1>5, <1>6

LEMMA RemovedRows ==
  ASSUME TypeInv, RowsInv, NEW a \in Attempts, RemoveWrite(a)
  PROVE  HookRows' /\ PushRows'
<1> DEFINE h == att[a].cur
<1>1. HookRows /\ PushRows /\ RestTyped
  BY Halves DEF TypeInv, DeliveryTypeOK, RestTyped
<1>2. /\ \/ hook' = [hook EXCEPT ![h] = "inactive"] /\ flagged' = flagged \ {h}
         \/ UNCHANGED <<hook, flagged>>
      /\ UNCHANGED <<push, doomed, registered, off, late, rejected>>
      /\ h \in Hooks /\ h \in att[a].perm
  BY <1>1 DEF RemoveWrite, Unflagged, pastVars, TypeInv, InHand, HookRows
<1>3. Moves(a, "hooks", att[a].left, "none", att[a].perm \ {h}, att[a].subs, att[a].copy)
  BY RowSteps
<1>4. ASSUME NEW b \in Attempts
      PROVE  /\ att'[b].perm \subseteq rejected' \cup late'
             /\ att'[b].pc = "off" => att'[b].cur \in att'[b].perm
             /\ att'[b].pc = "mark" =>
                  att[b].pc = "mark" /\ att'[b].copy = att[b].copy /\ att'[b].cur = att[b].cur
  BY <1>1, <1>2, <1>3 DEF Moves, HookRows
<1>5. PushRows'
  BY <1>1, <1>2, <1>4, PushFrame
<1>6. h \in rejected \cup late
  BY <1>1, <1>2 DEF HookRows
<1> HIDE DEF h
<1>7. HookRows'
  BY <1>1, <1>2, <1>4, <1>6 DEF HookRows, RejectedRemembered, RestTyped
<1> QED
  BY <1>5, <1>7

LEMMA PushedRows ==
  ASSUME TypeInv, RowsInv, NEW a \in Attempts, PushDelivered(a)
  PROVE  HookRows' /\ PushRows'
<1> DEFINE s == att[a].cur
<1>1. HookRows /\ PushRows /\ RestTyped /\ att \in [Attempts -> AttType]
  BY Halves, ScopeTyped DEF TypeInv, DeliveryTypeOK, RestTyped
<1>2. /\ IF push[s] = "absent" THEN UNCHANGED <<push, off>>
         ELSE push' = [push EXCEPT ![s] = "active"] /\ off' = off \ {s}
      /\ late' = IF push[s] # "absent" /\ \E b \in Holding(s) : att[b].copy # "active"
                 THEN late \cup {s} ELSE late
      /\ UNCHANGED <<hook, flagged, doomed, registered, rejected>>
      /\ s \in Subs
  BY DEF PushDelivered, Marked, TypeInv, InHand
<1>3. Moves(a, "hooks", att[a].left, "none", att[a].perm, att[a].subs, att[a].copy)
  BY PushSteps
<1>4. HookRows'
  <2>1. ASSUME NEW b \in Attempts
        PROVE  /\ att'[b].perm \subseteq att[b].perm
               /\ att'[b].pc = "off" => att'[b].cur \in att'[b].perm
    BY <1>1, <1>3 DEF Moves, HookRows
  <2>2. late \subseteq late'
    BY <1>2
  <2> QED
    BY <1>1, <1>2, <2>1, <2>2, HookFrame
<1>5. ASSUME NEW b \in Attempts, att'[b].pc = "mark"
      PROVE  /\ att'[b].copy # "absent" /\ att'[b].cur \in registered'
             /\ att'[b].copy = "active" => att'[b].cur \notin off' \ late'
             /\ att'[b].copy = "inactive" => att'[b].cur \in off' \cup late'
  <2>1. b # a /\ att'[b] = att[b]
    BY <1>3, <1>5 DEF Moves
  <2>2. att[b].cur = s => b \in Holding(s)
    BY <1>5, <2>1, HeldOrNot
  <2>3. /\ att[b].copy # "absent" /\ att[b].cur \in registered
        /\ att[b].copy = "active" => att[b].cur \notin off \ late
        /\ att[b].copy = "inactive" => att[b].cur \in off \cup late
    BY <1>1, <1>5, <2>1 DEF PushRows
  <2> HIDE DEF s
  <2> QED
    BY <1>2, <2>1, <2>2, <2>3
<1> HIDE DEF s
<1>6. PushRows'
  BY <1>1, <1>2, <1>5 DEF PushRows, NoPushToTheGone, RestTyped
<1> QED
  BY <1>4, <1>6

LEMMA MarkReadRows ==
  ASSUME TypeInv, RowsInv, NEW a \in Attempts, PushFails(a)
  PROVE  HookRows' /\ PushRows'
<1> DEFINE s == att[a].cur
<1>1. HookRows /\ PushRows /\ RestTyped
  BY Halves DEF TypeInv, DeliveryTypeOK, RestTyped
<1>2. /\ UNCHANGED <<hook, push, flagged, doomed, registered, rejected, off, late>>
      /\ s \in Subs
  BY DEF PushFails, rowVars, pastVars, TypeInv, InHand
<1>3. CASE push[s] = "absent"
  <2>1. Moves(a, "hooks", att[a].left, "none", att[a].perm, att[a].subs, att[a].copy)
    BY <1>3, PushSteps
  <2> QED
    BY <1>2, <2>1, QuietRows
<1>4. CASE push[s] # "absent"
  <2>1. Moves(a, "mark", att[a].left, s, att[a].perm, att[a].subs, push[s])
    BY <1>4, PushSteps
  <2>2. ASSUME NEW b \in Attempts
        PROVE  /\ att'[b].perm \subseteq att[b].perm
               /\ att'[b].pc = "off" => att'[b].cur \in att'[b].perm
    BY <1>1, <2>1 DEF Moves, HookRows
  <2>3. HookRows'
    BY <1>1, <1>2, <2>2, HookFrame
  <2>4. /\ s \in registered
        /\ push[s] = "active" => s \notin off \ late
        /\ push[s] = "inactive" => s \in off \cup late
    BY <1>1, <1>2, <1>4 DEF PushRows, NoPushToTheGone
  <2>5. ASSUME NEW b \in Attempts, att'[b].pc = "mark"
        PROVE  /\ att'[b].copy # "absent" /\ att'[b].cur \in registered
               /\ att'[b].copy = "active" => att'[b].cur \notin off \ late
               /\ att'[b].copy = "inactive" => att'[b].cur \in off \cup late
    <3>1. CASE b = a
      BY <1>4, <2>1, <2>4, <3>1 DEF Moves
    <3>2. CASE b # a
      BY <1>1, <2>1, <2>5, <3>2 DEF Moves, PushRows
    <3> QED
      BY <3>1, <3>2
  <2>6. PushRows'
    BY <1>1, <1>2, <2>5 DEF PushRows, NoPushToTheGone
  <2> QED
    BY <2>3, <2>6
<1> QED
  BY <1>3, <1>4

LEMMA MarkedRows ==
  ASSUME TypeInv, RowsInv, NEW a \in Attempts, MarkFailure(a)
  PROVE  HookRows' /\ PushRows'
<1> DEFINE s == att[a].cur
<1>1. HookRows /\ PushRows /\ RestTyped /\ att \in [Attempts -> AttType]
  BY Halves, ScopeTyped DEF TypeInv, DeliveryTypeOK, RestTyped
<1>2. PICK gone \in BOOLEAN :
        /\ push' = [push EXCEPT ![s] = IF gone THEN "inactive" ELSE att[a].copy]
        /\ off' = IF gone THEN off \cup {s} ELSE off
        /\ late' = IF gone /\ Holding(s) # {a} THEN late \cup {s} ELSE late
  BY DEF MarkFailure
<1>3. /\ UNCHANGED <<hook, flagged, doomed, registered, rejected>>
      /\ s \in Subs /\ att[a].pc = "mark"
  BY DEF MarkFailure, TypeInv, InHand
<1>4. Moves(a, "hooks", att[a].left, "none", att[a].perm, att[a].subs, "absent")
  BY PushSteps
<1>5. /\ att[a].copy # "absent" /\ s \in registered
      /\ att[a].copy = "active" => s \notin off \ late
      /\ att[a].copy = "inactive" => s \in off \cup late
      /\ att[a].copy \in {"active", "inactive"}
  BY <1>1, <1>3 DEF PushRows, AttType, States
<1>6. HookRows'
  <2>1. ASSUME NEW b \in Attempts
        PROVE  /\ att'[b].perm \subseteq att[b].perm
               /\ att'[b].pc = "off" => att'[b].cur \in att'[b].perm
    BY <1>1, <1>4 DEF Moves, HookRows
  <2>2. late \subseteq late'
    BY <1>2
  <2> QED
    BY <1>1, <1>3, <2>1, <2>2, HookFrame
<1>7. ASSUME NEW b \in Attempts, att'[b].pc = "mark"
      PROVE  /\ att'[b].copy # "absent" /\ att'[b].cur \in registered'
             /\ att'[b].copy = "active" => att'[b].cur \notin off' \ late'
             /\ att'[b].copy = "inactive" => att'[b].cur \in off' \cup late'
  <2>1. b # a /\ att'[b] = att[b]
    BY <1>4, <1>7 DEF Moves
  <2>2. att[b].cur = s => Holding(s) # {a}
    BY <1>7, <2>1, HeldOrNot
  <2>3. /\ att[b].copy # "absent" /\ att[b].cur \in registered
        /\ att[b].copy = "active" => att[b].cur \notin off \ late
        /\ att[b].copy = "inactive" => att[b].cur \in off \cup late
    BY <1>1, <1>7, <2>1 DEF PushRows
  <2> HIDE DEF s
  <2> QED
    BY <1>2, <1>3, <2>1, <2>2, <2>3
<1> HIDE DEF s
<1>8. PushRows'
  <2>1. CASE gone
    BY <1>1, <1>2, <1>3, <1>5, <1>7, <2>1 DEF PushRows, NoPushToTheGone, RestTyped
  <2>2. CASE ~gone
    BY <1>1, <1>2, <1>3, <1>5, <1>7, <2>2 DEF PushRows, NoPushToTheGone, RestTyped
  <2> QED
    BY <2>1, <2>2
<1> QED
  BY <1>6, <1>8

LEMMA AttemptRows ==
  ASSUME TypeInv, RowsInv, NEW a \in Attempts, AttemptStep(a) \/ Answer(a)
  PROVE  HookRows' /\ PushRows'
<1>1. HookRows /\ PushRows /\ RestTyped
  BY Halves DEF TypeInv, DeliveryTypeOK, RestTyped
<1>2. ASSUME NEW ok \in BOOLEAN, Over(a, ok), ok \/ Aborted(a), UNCHANGED <<rowVars, pastVars>>
      PROVE  HookRows' /\ PushRows'
  <2>1. Moves(a, "over", {}, "none", {}, {}, "absent")
    BY <1>2, Ends
  <2> QED
    BY <1>2, <2>1, QuietRows DEF rowVars, pastVars
<1>3. CASE HookNext(a)
  <2>1. UNCHANGED <<rowVars, pastVars>> /\ att[a].pc = "hooks"
    BY <1>3 DEF HookNext
  <2>2. CASE Aborted(a)
    BY <1>2, <1>3, <2>1, <2>2 DEF HookNext
  <2>3. CASE ~Aborted(a)
    <3>1. PICK h \in att[a].left :
            \/ /\ h \in flagged
               /\ Moves(a, "hooks", att[a].left \ {h}, att[a].cur, att[a].perm \cup {h},
                        att[a].subs, att[a].copy)
            \/ Moves(a, "sending", att[a].left \ {h}, h, att[a].perm, att[a].subs, att[a].copy)
      BY <1>3, <2>3, HookSteps
    <3>2. CASE Moves(a, "sending", att[a].left \ {h}, h, att[a].perm, att[a].subs, att[a].copy)
      BY <2>1, <3>2, QuietRows DEF rowVars, pastVars
    <3>3. CASE /\ h \in flagged
               /\ Moves(a, "hooks", att[a].left \ {h}, att[a].cur, att[a].perm \cup {h},
                        att[a].subs, att[a].copy)
      <4>1. ASSUME NEW b \in Attempts
            PROVE  /\ att'[b].perm \subseteq rejected \cup late
                   /\ att'[b].pc = "off" => att'[b].cur \in att'[b].perm
                   /\ att'[b].pc = "mark" =>
                        att[b].pc = "mark" /\ att'[b].copy = att[b].copy /\ att'[b].cur = att[b].cur
        BY <1>1, <3>3 DEF Moves, HookRows
      <4>2. PushRows'
        BY <1>1, <2>1, <4>1, PushFrame DEF rowVars, pastVars
      <4>3. HookRows'
        BY <1>1, <2>1, <4>1 DEF HookRows, RejectedRemembered, rowVars, pastVars
      <4> QED
        BY <4>2, <4>3
    <3> QED
      BY <3>1, <3>2, <3>3
  <2> QED
    BY <2>2, <2>3
<1>4. CASE HookFails(a)
  <2>1. UNCHANGED <<rowVars, pastVars>>
    BY <1>4 DEF HookFails
  <2>2. Moves(a, "hooks", att[a].left, "none", att[a].perm, att[a].subs, att[a].copy)
    BY <1>4, HookSteps
  <2> QED
    BY <2>1, <2>2, QuietRows DEF rowVars, pastVars
<1>5. CASE RemoveRead(a)
  <2>1. UNCHANGED <<rowVars, pastVars>> /\ att[a].pc = "hooks"
    BY <1>5 DEF RemoveRead
  <2>2. PICK h \in att[a].perm :
          \/ Moves(a, "off", att[a].left, h, att[a].perm, att[a].subs, att[a].copy)
          \/ Moves(a, "hooks", att[a].left, att[a].cur, att[a].perm \ {h}, att[a].subs, att[a].copy)
    BY <1>5, RowSteps
  <2>3. CASE Moves(a, "off", att[a].left, h, att[a].perm, att[a].subs, att[a].copy)
    BY <2>1, <2>3, QuietRows DEF rowVars, pastVars
  <2>4. CASE Moves(a, "hooks", att[a].left, att[a].cur, att[a].perm \ {h}, att[a].subs, att[a].copy)
    BY <2>1, <2>4, QuietRows DEF rowVars, pastVars
  <2> QED
    BY <2>2, <2>3, <2>4
<1>6. CASE PushNext(a)
  <2>1. UNCHANGED <<rowVars, pastVars>>
    BY <1>6 DEF PushNext
  <2>2. CASE att[a].subs = {}
    BY <1>2, <1>6, <2>1, <2>2 DEF PushNext
  <2>3. CASE att[a].subs # {}
    <3>1. PICK s \in att[a].subs :
            Moves(a, "pushing", att[a].left, s, att[a].perm, att[a].subs \ {s}, att[a].copy)
      BY <1>6, <2>3, PushSteps
    <3> QED
      BY <2>1, <3>1, QuietRows DEF rowVars, pastVars
  <2> QED
    BY <2>2, <2>3
<1> QED
  BY <1>3, <1>4, <1>5, <1>6, DeliveredRows, RejectedRows, RemovedRows, PushedRows, MarkReadRows,
     MarkedRows
  DEF AttemptStep, Answer

LEMMA OtherRows ==
  ASSUME TypeInv, RowsInv,
         \/ StartBatch \/ Close \/ ClearTimers \/ Reboot \/ Timers
         \/ \E h \in Hooks \cap (scope.hooks \cup scope.spare) : RegisterHook(h)
         \/ \E s \in Subs \cap (scope.subs \cup scope.spare) : RegisterPush(s) \/ Unregister(s)
         \/ CleanupSelect \/ CleanupDelete \/ CleanupPush
  PROVE  HookRows' /\ PushRows'
<1>1. HookRows /\ PushRows /\ RestTyped
  BY Halves DEF TypeInv, DeliveryTypeOK, RestTyped
<1>2. ASSUME UNCHANGED <<hook, push, flagged, doomed, rejected, off, registered, late>>,
             \A a \in Attempts : att'[a] = att[a] \/ (att'[a].pc = "hooks" /\ att'[a].perm = {})
      PROVE  HookRows' /\ PushRows'
  <2>1. ASSUME NEW b \in Attempts
        PROVE  /\ att'[b].perm \subseteq att[b].perm
               /\ att'[b].pc = "off" => att'[b].cur \in att'[b].perm
               /\ att'[b].pc = "mark" =>
                    att[b].pc = "mark" /\ att'[b].copy = att[b].copy /\ att'[b].cur = att[b].cur
    BY <1>1, <1>2 DEF HookRows
  <2> QED
    BY <1>1, <1>2, <2>1, HookFrame, PushFrame
<1>3. CASE StartBatch
  <2>1. ASSUME NEW a \in Attempts PROVE att'[a] = att[a] \/ (att'[a].pc = "hooks" /\ att'[a].perm = {})
    BY <1>3, Starts, AttemptsOf
  <2>2. UNCHANGED <<hook, push, flagged, doomed, rejected, off, registered, late>>
    BY <1>3 DEF StartBatch, rowVars, pastVars
  <2> QED
    BY <1>2, <2>1, <2>2
<1>4. CASE Close \/ ClearTimers
  BY <1>2, <1>4 DEF Close, ClearTimers, rowVars, pastVars
<1>5. CASE Reboot
  <2>1. /\ flagged' = {} /\ doomed' = {} /\ \A a \in Attempts : att'[a] = None
        /\ late' = late \cup flagged \cup UNION {att[a].perm : a \in Attempts}
        /\ UNCHANGED <<hook, push, registered, rejected, off>>
    BY <1>5 DEF Reboot
  <2>2. late \subseteq late' /\ flagged \subseteq late'
    BY <2>1
  <2>3. \A a \in Attempts : att'[a].perm = {} /\ att'[a].pc = "none"
    BY <2>1 DEF None
  <2>4. HookRows'
    BY <1>1, <2>1, <2>2, <2>3 DEF HookRows, RejectedRemembered
  <2>5. PushRows'
    BY <1>1, <2>1, <2>2, <2>3 DEF PushRows, NoPushToTheGone
  <2> QED
    BY <2>4, <2>5
<1>6. ASSUME NEW j \in Jobs, TimeoutFires(j) PROVE HookRows' /\ PushRows'
  <2>1. UNCHANGED <<hook, push, flagged, doomed, rejected, off, registered, late>>
    BY <1>6 DEF TimeoutFires, rowVars
  <2>2. \A a \in Attempts :
          /\ att'[a].pc = att[a].pc /\ att'[a].cur = att[a].cur
          /\ att'[a].perm = att[a].perm /\ att'[a].copy = att[a].copy
    BY <1>6, TimesOut
  <2>3. \A a \in Attempts : att'[a].pc = "off" => att'[a].cur \in att'[a].perm
    BY <1>1, <2>2 DEF HookRows
  <2> QED
    BY <1>1, <2>1, <2>2, <2>3, HookFrame, PushFrame
<1>7. ASSUME NEW j \in Jobs, NextAttempt(j) PROVE HookRows' /\ PushRows'
  <2>1. UNCHANGED <<hook, push, flagged, doomed, rejected, off, registered, late>>
    BY <1>7 DEF NextAttempt, rowVars, pastVars
  <2>2. \A a \in Attempts : att'[a] = att[a] \/ (att'[a].pc = "hooks" /\ att'[a].perm = {})
    BY <1>7, Begins DEF Moves
  <2> QED
    BY <1>2, <2>1, <2>2
<1>8. ASSUME NEW h \in Hooks, RegisterHook(h) PROVE HookRows' /\ PushRows'
  <2>1. /\ hook' = [hook EXCEPT ![h] = "active"]
        /\ registered' = registered \cup {h} /\ rejected' = rejected \ {h}
        /\ late' = IF h \in flagged \cup doomed \/ Holding(h) # {} THEN late \cup {h} ELSE late
        /\ UNCHANGED <<att, push, flagged, doomed, off>>
    BY <1>8 DEF RegisterHook, Activated
  <2>2. ASSUME NEW b \in Attempts PROVE att'[b].perm \subseteq rejected' \cup late'
    <3>1. h \in att[b].perm => h \in late'
      BY <2>1, HeldOrNot
    <3> QED
      BY <1>1, <2>1, <3>1 DEF HookRows
  <2>3. HookRows'
    BY <1>1, <2>1, <2>2 DEF HookRows, RejectedRemembered, RestTyped
  <2>4. Subs \cap registered' = Subs \cap registered
    BY <2>1, DeliveryAssumption
  <2>5. PushRows'
    BY <1>1, <2>1, <2>4, PushFrame
  <2> QED
    BY <2>3, <2>5
<1>9. ASSUME NEW s \in Subs, RegisterPush(s) \/ Unregister(s) PROVE HookRows' /\ PushRows'
  <2>1. /\ \/ /\ push' = [push EXCEPT ![s] = "active"]
              /\ registered' = registered \cup {s} /\ off' = off \ {s}
           \/ push' = [push EXCEPT ![s] = "absent"] /\ off' = off \cup {s} /\ registered' = registered
        /\ late' = IF Holding(s) # {} THEN late \cup {s} ELSE late
        /\ UNCHANGED <<att, hook, flagged, doomed, rejected>>
    BY <1>9 DEF RegisterPush, Unregister
  <2>2. Hooks \cap registered' = Hooks \cap registered
    BY <2>1, DeliveryAssumption
  <2>3. HookRows'
    BY <1>1, <2>1, <2>2, HookFrame DEF HookRows
  <2>4. ASSUME NEW b \in Attempts, att[b].pc = "mark"
        PROVE  /\ att[b].copy # "absent" /\ att[b].cur \in registered'
               /\ att[b].copy = "active" => att[b].cur \notin off' \ late'
               /\ att[b].copy = "inactive" => att[b].cur \in off' \cup late'
    <3>1. att[b].cur = s => s \in late'
      BY <2>1, <2>4, HeldOrNot
    <3> QED
      BY <1>1, <2>1, <2>4, <3>1 DEF PushRows
  <2>5. PushRows'
    BY <1>1, <2>1, <2>4 DEF PushRows, NoPushToTheGone, RestTyped
  <2> QED
    BY <2>3, <2>5
<1>10. CASE CleanupSelect
  <2>1. /\ doomed' \subseteq {h \in Hooks : hook[h] = "inactive"}
        /\ UNCHANGED <<att, hook, push, flagged, rejected, off, registered, late>>
    BY <1>10 DEF CleanupSelect, pastVars
  <2> QED
    BY <1>1, <2>1 DEF HookRows, RejectedRemembered, PushRows, NoPushToTheGone
<1>11. CASE CleanupDelete
  <2>1. /\ doomed' = {} /\ hook' = [h \in Hooks |-> IF h \in doomed THEN "absent" ELSE hook[h]]
        /\ UNCHANGED <<att, push, flagged, rejected, off, registered, late>>
    BY <1>11 DEF CleanupDelete, pastVars
  <2>2. HookRows'
    BY <1>1, <2>1 DEF HookRows, RejectedRemembered, RestTyped
  <2> QED
    BY <1>1, <2>1, <2>2 DEF PushRows, NoPushToTheGone
<1>12. CASE CleanupPush
  <2>1. PICK old \in SUBSET {s \in Subs : push[s] = "inactive"} :
          push' = [s \in Subs |-> IF s \in old THEN "absent" ELSE push[s]]
    BY <1>12 DEF CleanupPush
  <2>2. UNCHANGED <<att, hook, flagged, doomed, rejected, off, registered, late>>
    BY <1>12 DEF CleanupPush, pastVars
  <2>3. PushRows'
    BY <1>1, <2>1, <2>2 DEF PushRows, NoPushToTheGone, RestTyped
  <2> QED
    BY <1>1, <2>2, <2>3 DEF HookRows, RejectedRemembered
<1> QED
  BY <1>3, <1>4, <1>5, <1>6, <1>7, <1>8, <1>9, <1>10, <1>11, <1>12 DEF Timers

LEMMA NextRows == TypeInv /\ RowsInv /\ [DeliveryNext]_deliveryVars => RowsInv'
<1> SUFFICES ASSUME TypeInv, RowsInv, [DeliveryNext]_deliveryVars PROVE RowsInv'
  OBVIOUS
<1>1. TypeInv'
  BY NextTyped
<1>2. RestTyped'
  BY <1>1 DEF TypeInv, DeliveryTypeOK, RestTyped
<1>3. CASE DeliveryNext
  <2>1. HookRows' /\ PushRows'
    BY <1>3, AttemptRows, OtherRows DEF DeliveryNext
  <2>2. RestTyped' => (RowsInv' <=> HookRows' /\ PushRows')
    BY DeliveryAssumption
    DEF RestTyped, RowsInv, Decided, RowsFollowReceivers, RegisteredStays, HookRows, PushRows
  <2> QED
    BY <1>2, <2>1, <2>2
<1>4. CASE UNCHANGED deliveryVars
  BY <1>4 DEF deliveryVars, rowVars, pastVars, RowsInv, Decided, RowsFollowReceivers, RegisteredStays,
              RejectedRemembered, NoPushToTheGone
<1> QED
  BY <1>3, <1>4

LEMMA InitRows == DeliveryInit => RowsInv
<1> SUFFICES ASSUME DeliveryInit PROVE RowsInv
  OBVIOUS
<1>1. RestTyped
  BY InitTyped DEF TypeInv, DeliveryTypeOK, RestTyped
<1>2. scope.hooks \subseteq Hooks /\ scope.subs \subseteq Subs
  BY InitTyped, ScopeTyped
<1>3. HookRows /\ PushRows
  BY <1>2, DeliveryAssumption
  DEF DeliveryInit, HookRows, PushRows, RejectedRemembered, NoPushToTheGone, None
<1> QED
  BY <1>1, <1>3, Halves

-----------------------------------------------------------------------------
\* Every variable has its type, whatever the receivers do.
THEOREM DeliveryTypeCorrect == DeliverySpec => []DeliveryTypeOK
<1>1. DeliverySpec => []TypeInv
  BY InitTyped, NextTyped, PTL DEF DeliverySpec
<1> QED
  BY <1>1, PTL DEF TypeInv

\* A receiver hears of a job a second time only after one of its attempts timed out.
THEOREM ReceiversHearOnce == DeliverySpec => []DeliveredTwiceForAReason
<1>1. TypeInv /\ HeardInv => DeliveredTwiceForAReason
  BY DEF TypeInv, HeardInv, FirstAttempt, DeliveredTwiceForAReason
<1>2. DeliverySpec => [](TypeInv /\ HeardInv)
  BY InitTyped, InitHeard, NextTyped, NextHeard, PTL DEF DeliverySpec
<1> QED
  BY <1>1, <1>2, PTL

\* The rows say of each receiver what was last known of it.
THEOREM RowsAreTrue == DeliverySpec => []RowsFollowReceivers
<1>1. DeliverySpec => [](TypeInv /\ RowsInv)
  BY InitTyped, InitRows, NextTyped, NextRows, PTL DEF DeliverySpec
<1> QED
  BY <1>1, PTL DEF RowsInv

(***************************************************************************)
(* ScreenshotQueue                                                         *)
(***************************************************************************)
Capturing == {"capture", "requeue", "restore"}

\* What is not in the hands of the loop is in nobody's.
Handed ==
  /\ capture.pc \notin Capturing => capture.batch = <<>>
  /\ capture.pc \in {"requeue", "restore"} => capture.left = {}

\* An item of the batch that the loop is done with is stored, given up, or to be
\* queued again.
Hands ==
  \A i \in DOMAIN capture.batch :
    \/ i \in capture.left
    \/ capture.batch[i].num \in NumsOf(capture.retry) \cup stored \cup dropped

\* The list and its copies keep to the capacity, but for what is queued again.
Sizes ==
  /\ Len(capture.copy) <= ShotMax + ShotBatch
  /\ Len(capture.batch) <= ShotBatch
  /\ Cardinality(capture.left) + Len(capture.retry) <= Len(capture.batch)
  /\ capture.pc \in Capturing => Len(shotQueue) <= ShotMax /\ Len(capture.copy) <= ShotMax

ShotInv == Handed /\ Hands /\ Sizes /\ ShotQueueBounded /\ ScreenshotsCovered

CapturePcs == {"off", "read", "dequeue", "capture", "requeue", "restore"}
CaptureTypes == [pc : CapturePcs, copy : Seq(Items), batch : Seq(Items), left : SUBSET Nat,
                 retry : Seq(Items)]
SchedulerTypes == [pc : {"idle", "read", "write"}, wanted : SUBSET Shots, copy : Seq(Items)]

\* The loop is at pc, with these in its hands.
CaptureIs(pc, copy, items, left, retry) ==
  capture' = [pc |-> pc, copy |-> copy, batch |-> items, left |-> left, retry |-> retry]

-----------------------------------------------------------------------------
(* Lists                                                                   *)

LEMMA JoinedLists ==
  ASSUME NEW s \in Seq(Items), NEW t \in Seq(Items)
  PROVE  /\ s \o t \in Seq(Items) /\ Len(s \o t) = Len(s) + Len(t)
         /\ NumsOf(s \o t) = NumsOf(s) \cup NumsOf(t)
<1>1. s \o t \in Seq(Items) /\ Len(s \o t) = Len(s) + Len(t) /\ Len(s) \in Nat /\ Len(t) \in Nat
  OBVIOUS
<1>2. /\ DOMAIN (s \o t) = 1 .. Len(s) + Len(t) /\ DOMAIN s = 1 .. Len(s) /\ DOMAIN t = 1 .. Len(t)
      /\ \A i \in 1 .. Len(s) : (s \o t)[i] = s[i]
      /\ \A i \in 1 .. Len(t) : (s \o t)[Len(s) + i] = t[i]
  BY <1>1, ConcatProperties
<1>3. ASSUME NEW n \in NumsOf(s \o t) PROVE n \in NumsOf(s) \cup NumsOf(t)
  <2>1. PICK i \in 1 .. Len(s) + Len(t) : n = (s \o t)[i].num
    BY <1>2, <1>3 DEF NumsOf
  <2>2. CASE i <= Len(s)
    <3>1. i \in DOMAIN s /\ n = s[i].num
      BY <1>1, <1>2, <2>1, <2>2
    <3> QED
      BY <3>1 DEF NumsOf
  <2>3. CASE i > Len(s)
    <3> DEFINE j == i - Len(s)
    <3>1. j \in 1 .. Len(t) /\ i = Len(s) + j
      BY <1>1, <2>1, <2>3
    <3>2. j \in DOMAIN t /\ n = t[j].num
      BY <1>2, <2>1, <3>1
    <3> QED
      BY <3>2 DEF NumsOf
  <2> QED
    BY <1>1, <2>1, <2>2, <2>3
<1>4. ASSUME NEW n \in NumsOf(s) PROVE n \in NumsOf(s \o t)
  <2>1. PICK i \in 1 .. Len(s) : n = s[i].num
    BY <1>2, <1>4 DEF NumsOf
  <2>2. i \in DOMAIN (s \o t) /\ n = (s \o t)[i].num
    BY <1>1, <1>2, <2>1
  <2> QED
    BY <2>2 DEF NumsOf
<1>5. ASSUME NEW n \in NumsOf(t) PROVE n \in NumsOf(s \o t)
  <2>1. PICK i \in 1 .. Len(t) : n = t[i].num
    BY <1>2, <1>5 DEF NumsOf
  <2>2. Len(s) + i \in DOMAIN (s \o t) /\ n = (s \o t)[Len(s) + i].num
    BY <1>1, <1>2, <2>1
  <2> QED
    BY <2>2 DEF NumsOf
<1> QED
  BY <1>1, <1>3, <1>4, <1>5

LEMMA LongerList ==
  ASSUME NEW s \in Seq(Items), NEW item \in Items
  PROVE  /\ Append(s, item) \in Seq(Items) /\ Len(Append(s, item)) = Len(s) + 1
         /\ NumsOf(s) \cup {item.num} \subseteq NumsOf(Append(s, item))
<1>1. /\ Append(s, item) \in Seq(Items) /\ Len(Append(s, item)) = Len(s) + 1
      /\ DOMAIN Append(s, item) = 1 .. Len(s) + 1 /\ DOMAIN s = 1 .. Len(s)
      /\ \A i \in 1 .. Len(s) : Append(s, item)[i] = s[i]
      /\ Append(s, item)[Len(s) + 1] = item /\ Len(s) \in Nat
  BY AppendProperties
<1>2. ASSUME NEW n \in NumsOf(s) PROVE n \in NumsOf(Append(s, item))
  <2>1. PICK i \in 1 .. Len(s) : n = s[i].num
    BY <1>1, <1>2 DEF NumsOf
  <2>2. i \in DOMAIN Append(s, item) /\ n = Append(s, item)[i].num
    BY <1>1, <2>1
  <2> QED
    BY <2>2 DEF NumsOf
<1>3. item.num \in NumsOf(Append(s, item))
  <2>1. Len(s) + 1 \in DOMAIN Append(s, item)
    BY <1>1
  <2> QED
    BY <1>1, <2>1 DEF NumsOf
<1> QED
  BY <1>1, <1>2, <1>3

\* A list cut in two.
LEMMA CutList ==
  ASSUME NEW s \in Seq(Items), NEW n \in 0 .. Len(s)
  PROVE  /\ SubSeq(s, 1, n) \in Seq(Items) /\ Len(SubSeq(s, 1, n)) = n
         /\ DOMAIN SubSeq(s, 1, n) = 1 .. n
         /\ SubSeq(s, n + 1, Len(s)) \in Seq(Items) /\ Len(SubSeq(s, n + 1, Len(s))) = Len(s) - n
         /\ NumsOf(s) = NumsOf(SubSeq(s, 1, n)) \cup NumsOf(SubSeq(s, n + 1, Len(s)))
<1>1. Len(s) \in Nat /\ n \in Nat /\ n <= Len(s)
  OBVIOUS
<1>2. PICK first \in Seq(Items) :
        first = SubSeq(s, 1, n) /\ Len(first) = n /\ \A i \in 1 .. n : first[i] = s[i]
  <2>1. /\ SubSeq(s, 1, n) \in Seq(Items) /\ Len(SubSeq(s, 1, n)) = n
        /\ \A i \in 1 .. n : SubSeq(s, 1, n)[i] = s[i]
    BY <1>1, SubSeqProperties
  <2> QED
    BY <2>1
<1>3. PICK rest \in Seq(Items) :
        /\ rest = SubSeq(s, n + 1, Len(s)) /\ Len(rest) = Len(s) - n
        /\ \A i \in 1 .. Len(s) - n : rest[i] = s[n + i]
  <2>1. /\ SubSeq(s, n + 1, Len(s)) \in Seq(Items) /\ Len(SubSeq(s, n + 1, Len(s))) = Len(s) - n
        /\ \A i \in 1 .. Len(s) - n : SubSeq(s, n + 1, Len(s))[i] = s[n + i]
    BY <1>1, SubSeqProperties
  <2> QED
    BY <2>1
<1>4. DOMAIN first = 1 .. n
  BY <1>2
<1>5. /\ Len(first) \in Nat /\ Len(rest) \in Nat
      /\ DOMAIN s = 1 .. Len(s) /\ DOMAIN first = 1 .. Len(first) /\ DOMAIN rest = 1 .. Len(rest)
      /\ Len(s) = Len(first) + Len(rest)
      /\ \A i \in 1 .. Len(first) : first[i] = s[i]
      /\ \A i \in 1 .. Len(rest) : rest[i] = s[Len(first) + i]
  <2>1. /\ Len(first) \in Nat /\ Len(rest) \in Nat
        /\ DOMAIN s = 1 .. Len(s) /\ DOMAIN first = 1 .. Len(first) /\ DOMAIN rest = 1 .. Len(rest)
    OBVIOUS
  <2>2. /\ Len(first) = n /\ \A i \in 1 .. n : first[i] = s[i]
        /\ Len(rest) = Len(s) - n /\ \A i \in 1 .. Len(s) - n : rest[i] = s[n + i]
    BY <1>2, <1>3, Zenon
  <2>3. Len(s) = Len(first) + Len(rest)
    BY <1>1, <2>2
  <2>4. \A i \in 1 .. Len(first) : first[i] = s[i]
    BY <2>2, Zenon
  <2>5. \A i \in 1 .. Len(rest) : rest[i] = s[Len(first) + i]
    BY <2>2, Zenon
  <2> QED
    BY <2>1, <2>3, <2>4, <2>5, Zenon
<1>6. ASSUME NEW i \in 1 .. Len(s) PROVE s[i].num \in NumsOf(first) \cup NumsOf(rest)
  <2>1. CASE i <= Len(first)
    <3>1. i \in DOMAIN first /\ s[i] = first[i]
      BY <1>1, <1>5, <2>1
    <3> QED
      BY <3>1 DEF NumsOf
  <2>2. CASE i > Len(first)
    <3> DEFINE k == i - Len(first)
    <3>1. k \in 1 .. Len(rest) /\ i = Len(first) + k
      BY <1>1, <1>5, <2>2
    <3> HIDE DEF k
    <3>2. k \in DOMAIN rest /\ s[i] = rest[k]
      BY <1>1, <1>5, <3>1
    <3> QED
      BY <3>2 DEF NumsOf
  <2> QED
    BY <1>1, <1>5, <2>1, <2>2
<1>7. ASSUME NEW i \in 1 .. Len(first) PROVE first[i].num \in NumsOf(s)
  <2>1. i \in DOMAIN s /\ s[i] = first[i]
    BY <1>1, <1>5
  <2> QED
    BY <2>1 DEF NumsOf
<1>8. ASSUME NEW i \in 1 .. Len(rest) PROVE rest[i].num \in NumsOf(s)
  <2>1. Len(first) + i \in DOMAIN s /\ s[Len(first) + i] = rest[i]
    BY <1>1, <1>5
  <2> QED
    BY <2>1 DEF NumsOf
<1>9. NumsOf(s) \subseteq NumsOf(first) \cup NumsOf(rest)
  BY <1>5, <1>6 DEF NumsOf
<1>10. NumsOf(first) \subseteq NumsOf(s) /\ NumsOf(rest) \subseteq NumsOf(s)
  BY <1>5, <1>7, <1>8 DEF NumsOf
<1> QED
  BY <1>2, <1>3, <1>4, <1>9, <1>10

LEMMA EmptyList == <<>> \in Seq(Items) /\ Len(<<>>) = 0 /\ NumsOf(<<>>) = {}
  BY DEF NumsOf

\* The numbers of a list are notices.
LEMMA NumsAreShots == \A s \in Seq(Items) : NumsOf(s) \subseteq Shots
<1> SUFFICES ASSUME NEW s \in Seq(Items), NEW i \in DOMAIN s PROVE s[i].num \in Shots
  BY DEF NumsOf
<1>1. s[i] \in Items
  OBVIOUS
<1> QED
  BY <1>1 DEF Items

ShotRest ==
  /\ shotQueue \in Seq(Items) /\ stored \subseteq Shots
  /\ accepted \subseteq Shots /\ dropped \subseteq Shots
  /\ stalled \in BOOLEAN /\ requested \in Nat /\ shotFailures \in Nat

SchedulersOK ==
  /\ scheduler \in [Schedulers -> SchedulerTypes]
  /\ \A s \in Schedulers : Len(scheduler[s].copy) <= ShotMax

\* The hands of the loop.
CaptureOK ==
  /\ capture \in CaptureTypes /\ capture.left \subseteq DOMAIN capture.batch
  /\ Handed /\ Hands /\ Sizes

ShotAll ==
  ShotRest /\ SchedulersOK /\ CaptureOK /\ Len(shotQueue) <= ShotMax + ShotBatch /\ ScreenshotsCovered

LEMMA AllIsAll == ShotAll <=> ShotTypeOK /\ ShotInv
  BY DEF ShotAll, ShotTypeOK, ShotInv, ShotRest, SchedulersOK, CaptureOK, ShotQueueBounded, CaptureTypes,
         SchedulerTypes, CapturePcs

LEMMA ShotFailsTyped == shotFailures \in Nat /\ (ShotFails \/ UNCHANGED shotFailures) => shotFailures' \in Nat
  BY DEF ShotFails

LEMMA ReadFacts ==
  ASSUME ShotRest, NEW list \in {shotQueue, <<>>}, ReadList(list)
  PROVE  /\ list \in Seq(Items) /\ Len(list) <= Len(shotQueue) /\ shotFailures' \in Nat
         /\ Len(list) \in Nat
<1>1. list \in Seq(Items) /\ Len(list) <= Len(shotQueue)
  <2>1. shotQueue \in Seq(Items) /\ Len(shotQueue) \in Nat
    BY LenProperties DEF ShotRest
  <2>2. CASE list = shotQueue
    BY <2>1, <2>2
  <2>3. CASE list = <<>>
    <3>1. list \in Seq(Items) /\ Len(list) = 0
      BY <2>3, EmptyList
    <3> QED
      BY <2>1, <3>1
  <2> QED
    BY <2>2, <2>3
<1>2. Len(list) \in Nat
  BY <1>1, LenProperties
<1> QED
  BY <1>1, <1>2, ShotFailsTyped DEF ShotRest, ReadList

\* One scheduler goes on, and nothing else.
LEMMA ScheduledOnly ==
  ASSUME ShotAll, UNCHANGED <<shotQueue, stored, capture, accepted, dropped, stalled>>,
         SchedulersOK', requested' \in Nat, shotFailures' \in Nat
  PROVE  ShotAll'
<1>1. CaptureOK'
  BY DEF ShotAll, CaptureOK, Handed, Hands, Sizes, NumsOf
<1>2. ShotRest' /\ (Len(shotQueue) <= ShotMax + ShotBatch)'
  BY DEF ShotAll, ShotRest
<1>3. ScreenshotsCovered'
  BY DEF ShotAll, ScreenshotsCovered, ScreenshotsNotStranded, ScreenshotsAccounted
<1> QED
  BY <1>1, <1>2, <1>3 DEF ShotAll

LEMMA SchedulerGoes ==
  ASSUME SchedulersOK, NEW s \in Schedulers, NEW new \in SchedulerTypes, Len(new.copy) <= ShotMax,
         scheduler' = [scheduler EXCEPT ![s] = new]
  PROVE  SchedulersOK'
  BY DEF SchedulersOK, SchedulerTypes

LEMMA RestingTyped == Resting \in SchedulerTypes /\ Len(Resting.copy) <= ShotMax
  BY EmptyList, ShotAssumption DEF Resting, SchedulerTypes

LEMMA ScheduleKeeps ==
  ASSUME ShotAll, NEW s \in Schedulers, Schedule(s)
  PROVE  ShotAll'
<1>1. PICK wanted \in SUBSET Missing :
        scheduler' = [scheduler EXCEPT ![s] = [Resting EXCEPT !.pc = "read", !.wanted = wanted]]
  BY DEF Schedule
<1> DEFINE new == [Resting EXCEPT !.pc = "read", !.wanted = wanted]
<1>2. new \in SchedulerTypes /\ Len(new.copy) <= ShotMax
  <2>1. wanted \in SUBSET Shots
    BY DEF Missing
  <2> QED
    BY <2>1, RestingTyped DEF SchedulerTypes
<1>3. SchedulersOK'
  BY <1>1, <1>2, SchedulerGoes DEF ShotAll
<1>4. requested' \in Nat /\ shotFailures' \in Nat
  BY DEF Schedule, ShotAll, ShotRest
<1> QED
  BY <1>3, <1>4, ScheduledOnly DEF Schedule

LEMMA EnqueueReadKeeps ==
  ASSUME ShotAll, NEW s \in Schedulers, EnqueueShotsRead(s)
  PROVE  ShotAll'
<1>1. PICK list \in {shotQueue, <<>>} :
        LET fresh == scheduler[s].wanted \ NumsOf(list) IN
        /\ ReadList(list)
        /\ scheduler' =
             [scheduler EXCEPT ![s] =
                IF fresh = {} \/ FreeSlots(list) = 0 THEN Resting
                ELSE [pc |-> "write", copy |-> list, wanted |-> fresh]]
  BY DEF EnqueueShotsRead
<1>2. list \in Seq(Items) /\ shotFailures' \in Nat /\ Len(list) \in Nat
  BY <1>1, ReadFacts DEF ShotAll
<1> DEFINE fresh == scheduler[s].wanted \ NumsOf(list)
           new == IF fresh = {} \/ FreeSlots(list) = 0 THEN Resting
                  ELSE [pc |-> "write", copy |-> list, wanted |-> fresh]
<1>3. new \in SchedulerTypes /\ Len(new.copy) <= ShotMax
  <2>1. fresh \subseteq Shots
    BY DEF ShotAll, SchedulersOK, SchedulerTypes
  <2>2. CASE fresh = {} \/ FreeSlots(list) = 0
    BY <2>2, RestingTyped
  <2>3. CASE ~(fresh = {} \/ FreeSlots(list) = 0)
    <3>1. Len(list) <= ShotMax
      BY <1>2, <2>3, ShotAssumption DEF FreeSlots
    <3>2. new = [pc |-> "write", copy |-> list, wanted |-> fresh]
      BY <2>3
    <3> HIDE DEF new, fresh
    <3> QED
      BY <1>2, <2>1, <3>1, <3>2 DEF SchedulerTypes
  <2> QED
    BY <2>2, <2>3
<1>4. SchedulersOK'
  BY <1>1, <1>3, SchedulerGoes DEF ShotAll
<1>5. requested' \in Nat
  BY DEF EnqueueShotsRead, ShotAll, ShotRest
<1> QED
  BY <1>2, <1>4, <1>5, ScheduledOnly DEF EnqueueShotsRead

\* A loop with nothing in its hands.
LEMMA EmptyHanded ==
  ASSUME capture' = Off \/ capture' = Looping
  PROVE  CaptureOK' /\ capture'.batch = <<>>
<1>1. \E pc \in {"off", "read"} : CaptureIs(pc, <<>>, <<>>, {}, <<>>)
  BY DEF CaptureIs, Off, Looping
<1>2. Cardinality({}) = 0
  BY FS_EmptySet
<1> QED
  BY <1>1, <1>2, EmptyList, ShotAssumption
  DEF CaptureIs, CaptureOK, CaptureTypes, CapturePcs, Handed, Hands, Sizes, Capturing

LEMMA EnqueueWriteKeeps ==
  ASSUME ShotAll, NEW s \in Schedulers, EnqueueShotsWrite(s)
  PROVE  ShotAll'
<1>1. SchedulersOK'
  BY RestingTyped, SchedulerGoes DEF EnqueueShotsWrite, ShotAll
<1>2. requested' \in Nat /\ shotFailures' \in Nat /\ stored' = stored
  BY ShotFailsTyped DEF EnqueueShotsWrite, ShotAll, ShotRest
<1>3. CASE ShotFails /\ UNCHANGED <<shotQueue, accepted, dropped, capture, stalled>>
  BY <1>1, <1>2, <1>3, ScheduledOnly
<1> DEFINE copy == scheduler[s].copy
           fresh == scheduler[s].wanted
<1>4. CASE \E k \in 1 .. Cardinality(fresh) :
             /\ k <= FreeSlots(copy)
             /\ \E add \in Injection(1 .. k, fresh) :
                  /\ shotQueue' = copy \o [i \in 1 .. k |-> [num |-> add[i], tries |-> 0]]
                  /\ accepted' = accepted \cup {add[i] : i \in 1 .. k}
                  /\ dropped' = dropped \cup Overlapped(copy)
             /\ StartLoop
  <2>1. PICK k \in 1 .. Cardinality(fresh) :
             /\ k <= FreeSlots(copy)
             /\ \E add \in Injection(1 .. k, fresh) :
                  /\ shotQueue' = copy \o [i \in 1 .. k |-> [num |-> add[i], tries |-> 0]]
                  /\ accepted' = accepted \cup {add[i] : i \in 1 .. k}
                  /\ dropped' = dropped \cup Overlapped(copy)
             /\ StartLoop
    BY <1>4
  <2>2. PICK add \in Injection(1 .. k, fresh) :
                  /\ shotQueue' = copy \o [i \in 1 .. k |-> [num |-> add[i], tries |-> 0]]
                  /\ accepted' = accepted \cup {add[i] : i \in 1 .. k}
                  /\ dropped' = dropped \cup Overlapped(copy)
    BY <2>1
  <2> DEFINE new == [i \in 1 .. k |-> [num |-> add[i], tries |-> 0]]
             adds == {add[i] : i \in 1 .. k}
  <2>3. fresh \subseteq Shots /\ copy \in Seq(Items) /\ Len(copy) <= ShotMax
    BY DEF ShotAll, SchedulersOK, SchedulerTypes
  <2>4. k \in Nat \ {0}
    <3>1. Cardinality(fresh) \in Nat
      BY <2>3, ShotAssumption, FS_Subset, FS_CardinalityType
    <3> QED
      BY <3>1
  <2>5. \A i \in 1 .. k : add[i] \in Shots
    BY <2>3 DEF Injection
  <2>6. new \in Seq(Items) /\ Len(new) = k /\ NumsOf(new) = adds
    <3>1. new \in [1 .. k -> Items]
      BY <2>5, ShotAssumption DEF Items
    <3>2. new \in Seq(Items) /\ Len(new) = k
      BY <2>4, <3>1
    <3> QED
      BY <3>2 DEF NumsOf
  <2> HIDE DEF new, adds
  <2>7. /\ shotQueue' \in Seq(Items) /\ Len(shotQueue') = Len(copy) + k
        /\ NumsOf(shotQueue') = NumsOf(copy) \cup adds
    <3>1. shotQueue' = copy \o new
      BY <2>2 DEF new
    <3> QED
      BY <2>3, <2>6, <3>1, JoinedLists
  <2>8. Len(shotQueue') <= ShotMax
    <3>1. Len(copy) \in Nat
      BY <2>3
    <3> QED
      BY <2>1, <2>4, <2>7, <3>1, ShotAssumption DEF FreeSlots
  <2>9. accepted' = accepted \cup adds /\ dropped' = dropped \cup (NumsOf(shotQueue) \ NumsOf(copy))
    BY <2>2 DEF adds, Overlapped
  <2>10. ShotRest'
    <3>1. accepted' \subseteq Shots /\ dropped' \subseteq Shots
      BY <2>5, <2>9, NumsAreShots DEF ShotAll, ShotRest, adds
    <3>2. stalled' \in BOOLEAN
      BY <2>1 DEF StartLoop
    <3> QED
      BY <1>2, <2>7, <3>1, <3>2 DEF ShotAll, ShotRest
  <2>11. CaptureOK' /\ capture'.batch = capture.batch /\ capture'.pc # "off"
    <3>1. CASE capture.pc = "off"
      <4>1. capture' = Looping /\ capture.batch = <<>>
        BY <2>1, <3>1 DEF StartLoop, ShotAll, CaptureOK, Handed, Capturing
      <4>2. Looping.pc = "read"
        BY DEF Looping, Off
      <4> QED
        BY <4>1, <4>2, EmptyHanded
    <3>2. CASE capture.pc # "off"
      <4>1. capture' = capture
        BY <2>1, <3>2 DEF StartLoop
      <4>2. Sizes'
        BY <2>8, <4>1 DEF ShotAll, CaptureOK, Sizes
      <4>3. Hands'
        BY <1>2, <2>9, <4>1 DEF ShotAll, CaptureOK, Hands, NumsOf
      <4> QED
        BY <3>2, <4>1, <4>2, <4>3 DEF ShotAll, CaptureOK, Handed
    <3> QED
      BY <3>1, <3>2
  <2>12. ScreenshotsCovered'
    <3>1. ScreenshotsNotStranded'
      BY <2>11 DEF ScreenshotsNotStranded
    <3>2. ASSUME NEW n \in accepted', n \notin dropped'
          PROVE  n \in stored' \cup NumsOf(shotQueue') \cup NumsOf(capture'.batch)
      BY <1>2, <2>7, <2>9, <2>11, <3>2 DEF ShotAll, ScreenshotsCovered, ScreenshotsAccounted
    <3>3. ScreenshotsAccounted'
      BY <3>2 DEF ScreenshotsAccounted, NumsOf
    <3> QED
      BY <3>1, <3>3 DEF ScreenshotsCovered
  <2>13. (Len(shotQueue) <= ShotMax + ShotBatch)'
    BY <2>7, <2>8, ShotAssumption
  <2> QED
    BY <1>1, <2>10, <2>11, <2>12, <2>13 DEF ShotAll
<1> QED
  BY <1>3, <1>4 DEF EnqueueShotsWrite

\* The steps of the loop leave the schedulers alone.
LEMMA LoopSteps ==
  ASSUME ShotAll, UNCHANGED <<scheduler, accepted, requested>>,
         shotQueue' \in Seq(Items), stored' \subseteq Shots, dropped' \subseteq Shots,
         stalled' \in BOOLEAN, shotFailures' \in Nat, CaptureOK',
         Len(shotQueue') <= ShotMax + ShotBatch,
         shotQueue' # <<>> /\ ~stalled' => capture'.pc # "off",
         stored \subseteq stored', dropped \subseteq dropped',
         NumsOf(shotQueue) \cup NumsOf(capture.batch) \subseteq
           stored' \cup dropped' \cup NumsOf(shotQueue') \cup NumsOf(capture'.batch)
  PROVE  ShotAll'
<1>1. ShotRest' /\ SchedulersOK'
  BY DEF ShotAll, ShotRest, SchedulersOK
<1>2. ScreenshotsNotStranded'
  BY DEF ScreenshotsNotStranded
<1>3. ASSUME NEW n \in accepted, n \notin dropped'
      PROVE  n \in stored' \cup NumsOf(shotQueue') \cup NumsOf(capture'.batch)
  <2>1. n \in stored \cup NumsOf(shotQueue) \cup NumsOf(capture.batch)
    BY <1>3 DEF ShotAll, ScreenshotsCovered, ScreenshotsAccounted
  <2> QED
    BY <1>3, <2>1
<1>4. ScreenshotsAccounted'
  BY <1>3 DEF ScreenshotsAccounted, NumsOf
<1> QED
  BY <1>1, <1>2, <1>4 DEF ShotAll, ScreenshotsCovered

\* What the loop holds, field by field.
LEMMA CaptureTyped ==
  ASSUME ShotAll
  PROVE  /\ capture.pc \in CapturePcs /\ capture.copy \in Seq(Items) /\ capture.batch \in Seq(Items)
         /\ capture.left \subseteq 1 .. Len(capture.batch) /\ capture.retry \in Seq(Items)
         /\ DOMAIN capture.batch = 1 .. Len(capture.batch) /\ Len(capture.batch) \in Nat
         /\ IsFiniteSet(capture.left) /\ Cardinality(capture.left) \in Nat
         /\ Len(capture.retry) \in Nat /\ Len(capture.copy) \in Nat
         /\ Len(shotQueue) \in Nat /\ NumsOf(shotQueue) \subseteq Shots
<1>1. /\ capture.pc \in CapturePcs /\ capture.copy \in Seq(Items) /\ capture.batch \in Seq(Items)
      /\ capture.retry \in Seq(Items) /\ capture.left \subseteq DOMAIN capture.batch
      /\ shotQueue \in Seq(Items)
  BY DEF ShotAll, CaptureOK, CaptureTypes, ShotRest
<1>2. DOMAIN capture.batch = 1 .. Len(capture.batch) /\ Len(capture.batch) \in Nat
  BY <1>1
<1>3. IsFiniteSet(capture.left)
  <2>1. \A m \in Nat : IsFiniteSet(1 .. m)
    BY FS_Interval
  <2>2. IsFiniteSet(DOMAIN capture.batch)
    BY <1>2, <2>1, Zenon
  <2> QED
    BY <1>1, <2>2, FS_Subset, Zenon
<1>4. Cardinality(capture.left) \in Nat
  BY <1>3, FS_CardinalityType
<1>5. Len(capture.retry) \in Nat /\ Len(capture.copy) \in Nat /\ Len(shotQueue) \in Nat
  BY <1>1
<1>6. NumsOf(shotQueue) \subseteq Shots
  BY <1>1, NumsAreShots
<1> QED
  BY <1>1, <1>2, <1>3, <1>4, <1>5, <1>6

\* The record the loop holds after a step.
LEMMA CaptureBecomes ==
  ASSUME capture \in CaptureTypes, NEW pc, NEW copy, NEW items, NEW left, NEW retry
  PROVE  /\ capture' = [capture EXCEPT !.pc = pc, !.copy = copy] =>
              CaptureIs(pc, copy, capture.batch, capture.left, capture.retry)
         /\ capture' = [capture EXCEPT !.pc = pc, !.copy = copy, !.batch = items, !.left = left] =>
              CaptureIs(pc, copy, items, left, capture.retry)
         /\ capture' = [capture EXCEPT !.left = left] =>
              CaptureIs(capture.pc, capture.copy, capture.batch, left, capture.retry)
         /\ capture' = [capture EXCEPT !.pc = pc] =>
              CaptureIs(pc, capture.copy, capture.batch, capture.left, capture.retry)
         /\ capture' = [[capture EXCEPT !.left = left] EXCEPT !.retry = retry] =>
              CaptureIs(capture.pc, capture.copy, capture.batch, left, retry)
  BY DEF CaptureTypes, CaptureIs

LEMMA HoldsTyped ==
  ASSUME NEW pc \in CapturePcs, NEW copy \in Seq(Items), NEW items \in Seq(Items),
         NEW left \in SUBSET (1 .. Len(items)), NEW retry \in Seq(Items),
         CaptureIs(pc, copy, items, left, retry)
  PROVE  /\ capture' \in CaptureTypes /\ capture'.left \subseteq DOMAIN capture'.batch
         /\ capture'.pc = pc /\ capture'.copy = copy /\ capture'.batch = items
         /\ capture'.left = left /\ capture'.retry = retry
<1>1. left \subseteq Nat /\ left \subseteq DOMAIN items
  <2>1. Len(items) \in Nat /\ DOMAIN items = 1 .. Len(items)
    OBVIOUS
  <2> QED
    BY <2>1
<1> QED
  BY <1>1 DEF CaptureIs, CaptureTypes

LEMMA CaptureReadKeeps ==
  ASSUME ShotAll, CaptureRead
  PROVE  ShotAll'
<1>1. PICK list \in {shotQueue, <<>>} :
        /\ ReadList(list)
        /\ IF list = <<>> THEN Break
           ELSE /\ capture' = [capture EXCEPT !.pc = "dequeue", !.copy = list]
                /\ UNCHANGED stalled
  BY DEF CaptureRead
<1>2. list \in Seq(Items) /\ Len(list) <= Len(shotQueue) /\ shotFailures' \in Nat
  BY <1>1, ReadFacts DEF ShotAll
<1>3. /\ capture.pc = "read" /\ UNCHANGED <<shotQueue, stored, scheduler, accepted, dropped, requested>>
      /\ capture.batch = <<>>
  BY DEF CaptureRead, ShotAll, CaptureOK, Handed, Capturing
<1>4. /\ shotQueue \in Seq(Items) /\ stored \subseteq Shots /\ dropped \subseteq Shots
      /\ stalled \in BOOLEAN /\ Len(shotQueue) <= ShotMax + ShotBatch /\ capture \in CaptureTypes
  BY DEF ShotAll, ShotRest, CaptureOK
<1>5. CASE list = <<>>
  <2>1. capture' = Off /\ stalled' = (shotQueue' # <<>>)
    BY <1>1, <1>5 DEF Break
  <2>2. CaptureOK' /\ capture'.batch = <<>>
    BY <2>1, EmptyHanded
  <2>3. stalled' \in BOOLEAN /\ (shotQueue' # <<>> /\ ~stalled' => capture'.pc # "off")
    BY <2>1
  <2>4. NumsOf(shotQueue) \cup NumsOf(capture.batch) \subseteq
           stored' \cup dropped' \cup NumsOf(shotQueue') \cup NumsOf(capture'.batch)
    BY <1>3, <2>2, EmptyList
  <2> QED
    BY <1>2, <1>3, <1>4, <2>2, <2>3, <2>4, LoopSteps
<1>6. CASE list # <<>>
  <2>1. CaptureIs("dequeue", list, capture.batch, capture.left, capture.retry)
    BY <1>1, <1>4, <1>6, CaptureBecomes
  <2>2. /\ capture' \in CaptureTypes /\ capture'.left \subseteq DOMAIN capture'.batch
        /\ capture'.pc = "dequeue" /\ capture'.copy = list /\ capture'.batch = capture.batch
        /\ capture'.left = capture.left /\ capture'.retry = capture.retry
    BY <1>2, <2>1, CaptureTyped, HoldsTyped DEF CapturePcs
  <2>3. Handed'
    BY <1>3, <2>2 DEF Handed, Capturing
  <2>4. Hands'
    BY <1>3, <2>2 DEF ShotAll, CaptureOK, Hands, NumsOf
  <2>5. Sizes'
    <3>1. Len(list) <= ShotMax + ShotBatch
      <4>1. Len(list) \in Nat /\ Len(shotQueue) \in Nat
        BY <1>2, <1>4
      <4> QED
        BY <1>2, <1>4, <4>1, ShotAssumption
    <3> QED
      BY <2>2, <3>1 DEF ShotAll, CaptureOK, Sizes, Capturing
  <2>6. CaptureOK'
    BY <2>2, <2>3, <2>4, <2>5 DEF CaptureOK
  <2>7. UNCHANGED stalled
    BY <1>1, <1>6
  <2>8. NumsOf(shotQueue) \cup NumsOf(capture.batch) \subseteq
           stored' \cup dropped' \cup NumsOf(shotQueue') \cup NumsOf(capture'.batch)
    BY <1>3, <2>2
  <2> QED
    BY <1>2, <1>3, <1>4, <2>2, <2>6, <2>7, <2>8, LoopSteps
<1> QED
  BY <1>5, <1>6

LEMMA CaptureDequeueKeeps ==
  ASSUME ShotAll, CaptureDequeue
  PROVE  ShotAll'
<1> DEFINE n == IF Len(capture.copy) < ShotBatch THEN Len(capture.copy) ELSE ShotBatch
           taken == SubSeq(capture.copy, 1, n)
           rest == SubSeq(capture.copy, n + 1, Len(capture.copy))
<1>1. /\ capture.pc = "dequeue" /\ UNCHANGED <<stored, scheduler, accepted, requested>>
      /\ capture.batch = <<>> /\ capture.copy \in Seq(Items) /\ capture.retry \in Seq(Items)
      /\ capture \in CaptureTypes /\ Len(capture.copy) <= ShotMax + ShotBatch
      /\ Cardinality(capture.left) + Len(capture.retry) <= 0
  BY EmptyList DEF CaptureDequeue, ShotAll, CaptureOK, CaptureTypes, Handed, Capturing, Sizes
<1>2. /\ shotQueue \in Seq(Items) /\ stored \subseteq Shots /\ dropped \subseteq Shots
      /\ stalled \in BOOLEAN /\ Len(shotQueue) <= ShotMax + ShotBatch
      /\ NumsOf(shotQueue) \subseteq Shots
  BY NumsAreShots DEF ShotAll, ShotRest
<1>3. shotFailures' \in Nat
  BY ShotFailsTyped DEF CaptureDequeue, ShotAll, ShotRest
<1>4. CASE ShotFails /\ UNCHANGED <<shotQueue, dropped>> /\ Break
  <2>1. capture' = Off /\ stalled' = (shotQueue' # <<>>)
    BY <1>4 DEF Break
  <2>2. CaptureOK' /\ capture'.batch = <<>>
    BY <2>1, EmptyHanded
  <2>3. stalled' \in BOOLEAN /\ (shotQueue' # <<>> /\ ~stalled' => capture'.pc # "off")
    BY <2>1
  <2>4. NumsOf(shotQueue) \cup NumsOf(capture.batch) \subseteq
           stored' \cup dropped' \cup NumsOf(shotQueue') \cup NumsOf(capture'.batch)
    BY <1>1, <1>4, <2>2, EmptyList
  <2> QED
    BY <1>1, <1>2, <1>3, <1>4, <2>2, <2>3, <2>4, LoopSteps
<1>5. CASE /\ shotQueue' = rest
           /\ capture' = [capture EXCEPT !.pc = "capture", !.copy = <<>>, !.batch = taken,
                                         !.left = DOMAIN taken]
           /\ dropped' = dropped \cup Overlapped(capture.copy)
           /\ UNCHANGED <<stalled, shotFailures>>
  <2>1. Len(capture.copy) \in Nat /\ ShotBatch \in Nat /\ ShotMax \in Nat
    BY <1>1, ShotAssumption
  <2>2. n \in 0 .. Len(capture.copy) /\ n <= ShotBatch /\ Len(capture.copy) - n <= ShotMax
    BY <1>1, <2>1
  <2> HIDE DEF n
  <2>3. /\ taken \in Seq(Items) /\ Len(taken) = n /\ DOMAIN taken = 1 .. n
        /\ rest \in Seq(Items) /\ Len(rest) = Len(capture.copy) - n
        /\ NumsOf(capture.copy) = NumsOf(taken) \cup NumsOf(rest)
    BY <1>1, <2>2, CutList
  <2> HIDE DEF taken, rest
  <2>4. CaptureIs("capture", <<>>, taken, DOMAIN taken, capture.retry)
    BY <1>1, <1>5, CaptureBecomes
  <2>5. /\ capture' \in CaptureTypes /\ capture'.left \subseteq DOMAIN capture'.batch
        /\ capture'.pc = "capture" /\ capture'.copy = <<>> /\ capture'.batch = taken
        /\ capture'.left = DOMAIN taken /\ capture'.retry = capture.retry
    <3>1. "capture" \in CapturePcs /\ DOMAIN taken \in SUBSET (1 .. Len(taken))
          /\ capture.retry \in Seq(Items)
      BY <1>1, <2>3 DEF CapturePcs
    <3> QED
      BY <2>3, <2>4, <3>1, EmptyList, HoldsTyped
  <2>6. Handed' /\ Hands'
    BY <2>5 DEF Handed, Hands, Capturing
  <2>7. Sizes'
    <3>1. Cardinality(1 .. n) = n
      BY <2>2, FS_Interval
    <3>2. Cardinality(capture.left) = 0 /\ Len(capture.retry) = 0
      BY <1>1, CaptureTyped
    <3>3. Len(shotQueue') <= ShotMax
      BY <1>5, <2>2, <2>3
    <3> QED
      BY <2>1, <2>2, <2>3, <2>5, <3>1, <3>2, <3>3, EmptyList DEF Sizes
  <2>8. CaptureOK'
    BY <2>5, <2>6, <2>7 DEF CaptureOK
  <2>9. shotQueue' \in Seq(Items) /\ Len(shotQueue') <= ShotMax + ShotBatch
    BY <1>5, <2>1, <2>2, <2>3
  <2>10. dropped' \subseteq Shots /\ dropped \subseteq dropped'
    BY <1>2, <1>5 DEF Overlapped
  <2>11. NumsOf(shotQueue) \cup NumsOf(capture.batch) \subseteq
           stored' \cup dropped' \cup NumsOf(shotQueue') \cup NumsOf(capture'.batch)
    <3>1. NumsOf(capture.batch) = {}
      BY <1>1, EmptyList
    <3>2. NumsOf(capture.copy) = NumsOf(capture'.batch) \cup NumsOf(shotQueue')
      BY <1>5, <2>3, <2>5
    <3> QED
      BY <1>5, <3>1, <3>2 DEF Overlapped
  <2> QED
    BY <1>1, <1>2, <1>3, <1>5, <2>5, <2>8, <2>9, <2>10, <2>11, LoopSteps
<1> QED
  BY <1>4, <1>5 DEF CaptureDequeue

LEMMA CaptureOneKeeps ==
  ASSUME ShotAll, CaptureOne
  PROVE  ShotAll'
<1>1. /\ capture.pc = "capture"
      /\ UNCHANGED <<shotQueue, scheduler, accepted, stalled, requested, shotFailures>>
  BY DEF CaptureOne
<1>2. PICK i \in capture.left :
        LET item == capture.batch[i]  rest == [capture EXCEPT !.left = @ \ {i}] IN
        \/ stored' = WithScreenshot(item.num) /\ capture' = rest /\ UNCHANGED dropped
        \/ dropped' = dropped \cup {item.num} /\ capture' = rest /\ UNCHANGED stored
        \/ /\ MayRetry(item) /\ UNCHANGED <<stored, dropped>>
           /\ capture' = [rest EXCEPT !.retry = Append(@, Retried(item))]
  BY DEF CaptureOne
<1> DEFINE item == capture.batch[i]
           left == capture.left \ {i}
<1>3. /\ capture.copy \in Seq(Items) /\ capture.batch \in Seq(Items) /\ capture.retry \in Seq(Items)
      /\ capture.left \subseteq 1 .. Len(capture.batch) /\ i \in 1 .. Len(capture.batch)
      /\ i \in DOMAIN capture.batch
  BY CaptureTyped
<1>4. item \in Items /\ item.num \in Shots
  <2>1. item \in Items
    BY <1>3, ElementOfSeq
  <2> QED
    BY <2>1 DEF Items
<1>5. /\ shotQueue \in Seq(Items) /\ stored \subseteq Shots /\ dropped \subseteq Shots
      /\ stalled \in BOOLEAN /\ shotFailures \in Nat /\ Len(shotQueue) <= ShotMax + ShotBatch
      /\ capture \in CaptureTypes
  BY DEF ShotAll, ShotRest, CaptureOK
<1>6. PICK retry \in Seq(Items) :
        /\ CaptureIs("capture", capture.copy, capture.batch, left, retry)
        /\ Len(retry) <= Len(capture.retry) + 1 /\ NumsOf(capture.retry) \subseteq NumsOf(retry)
        /\ stored \subseteq stored' /\ dropped \subseteq dropped'
        /\ stored' \subseteq Shots /\ dropped' \subseteq Shots
        /\ item.num \in NumsOf(retry) \cup stored' \cup dropped'
  <2>1. CASE /\ capture' = [capture EXCEPT !.left = @ \ {i}]
             /\ stored \subseteq stored' /\ dropped \subseteq dropped'
             /\ stored' \subseteq Shots /\ dropped' \subseteq Shots
             /\ item.num \in stored' \cup dropped'
    <3>1. CaptureIs("capture", capture.copy, capture.batch, left, capture.retry)
      BY <1>1, <1>5, <2>1, CaptureBecomes
    <3>2. Len(capture.retry) <= Len(capture.retry) + 1
      BY CaptureTyped
    <3> QED
      BY <1>3, <2>1, <3>1, <3>2
  <2>2. CASE /\ MayRetry(item) /\ UNCHANGED <<stored, dropped>>
             /\ capture' = [[capture EXCEPT !.left = @ \ {i}] EXCEPT !.retry = Append(@, Retried(item))]
    <3>1. Retried(item) \in Items /\ Retried(item).num = item.num
      BY <1>4, <2>2, ShotAssumption DEF Items, Retried, MayRetry
    <3> DEFINE more == Append(capture.retry, Retried(item))
    <3>2. /\ more \in Seq(Items) /\ Len(more) = Len(capture.retry) + 1
          /\ NumsOf(capture.retry) \cup {item.num} \subseteq NumsOf(more)
      BY <1>3, <3>1, LongerList
    <3>3. CaptureIs("capture", capture.copy, capture.batch, left, more)
      <4>1. capture' = [[capture EXCEPT !.left = left] EXCEPT !.retry = more]
        BY <1>5, <2>2 DEF CaptureTypes
      <4> HIDE DEF more
      <4> QED
        BY <1>1, <1>5, <4>1, CaptureBecomes
    <3> HIDE DEF more
    <3>4. Len(more) <= Len(capture.retry) + 1
      BY <3>2, CaptureTyped
    <3> QED
      BY <1>5, <2>2, <3>2, <3>3, <3>4
  <2> QED
    BY <1>2, <1>4, <1>5, <2>1, <2>2 DEF WithScreenshot
<1>7. /\ capture' \in CaptureTypes /\ capture'.left \subseteq DOMAIN capture'.batch
      /\ capture'.pc = "capture" /\ capture'.copy = capture.copy /\ capture'.batch = capture.batch
      /\ capture'.left = left /\ capture'.retry = retry
  BY <1>3, <1>6, HoldsTyped DEF CapturePcs
<1>8. Handed'
  BY <1>7 DEF Handed, Capturing
<1>9. Hands'
  <2>1. ASSUME NEW j \in DOMAIN capture.batch
        PROVE  \/ j \in left
               \/ capture.batch[j].num \in NumsOf(retry) \cup stored' \cup dropped'
    <3>1. CASE j = i
      BY <1>6, <3>1
    <3>2. CASE j # i
      BY <1>6, <3>2 DEF ShotAll, CaptureOK, Hands
    <3> QED
      BY <3>1, <3>2
  <2>2. NumsOf(capture.retry)' = NumsOf(retry)
    BY <1>7 DEF NumsOf
  <2> QED
    BY <1>7, <2>1, <2>2 DEF Hands
<1>10. Sizes'
  <2>1. Cardinality(left) = Cardinality(capture.left) - 1
    BY CaptureTyped, FS_RemoveElement
  <2>2. Len(retry) \in Nat
    BY <1>6, LenProperties
  <2>3. Cardinality(left) + Len(retry) <= Len(capture.batch)
    BY <1>6, <2>1, <2>2, CaptureTyped DEF ShotAll, CaptureOK, Sizes
  <2> QED
    BY <1>1, <1>7, <2>3 DEF ShotAll, CaptureOK, Sizes
<1>11. CaptureOK'
  BY <1>7, <1>8, <1>9, <1>10 DEF CaptureOK
<1>12. NumsOf(shotQueue) \cup NumsOf(capture.batch) \subseteq
         stored' \cup dropped' \cup NumsOf(shotQueue') \cup NumsOf(capture'.batch)
  BY <1>1, <1>7
<1> QED
  BY <1>1, <1>5, <1>6, <1>7, <1>11, <1>12, LoopSteps

\* When nothing is left of the batch, each of its items is settled or queued again.
LEMMA BatchSettled ==
  ASSUME ShotAll, capture.pc \in {"requeue", "restore"} \/ (capture.pc = "capture" /\ capture.left = {})
  PROVE  NumsOf(capture.batch) \subseteq NumsOf(capture.retry) \cup stored \cup dropped
<1>1. capture.left = {}
  BY DEF ShotAll, CaptureOK, Handed
<1>2. \A i \in DOMAIN capture.batch : capture.batch[i].num \in NumsOf(capture.retry) \cup stored \cup dropped
  BY <1>1 DEF ShotAll, CaptureOK, Hands
<1> QED
  BY <1>2 DEF NumsOf

LEMMA CaptureNextKeeps ==
  ASSUME ShotAll, CaptureNext
  PROVE  ShotAll'
<1>1. /\ capture.pc = "capture" /\ capture.left = {}
      /\ UNCHANGED <<shotQueue, stored, scheduler, accepted, dropped, stalled, requested>>
  BY DEF CaptureNext
<1>2. /\ shotQueue \in Seq(Items) /\ stored \subseteq Shots /\ dropped \subseteq Shots
      /\ stalled \in BOOLEAN /\ Len(shotQueue) <= ShotMax + ShotBatch
      /\ capture \in CaptureTypes /\ shotFailures \in Nat
  BY DEF ShotAll, ShotRest, CaptureOK
<1>3. NumsOf(capture.batch) \subseteq NumsOf(capture.retry) \cup stored \cup dropped
  BY <1>1, BatchSettled
<1>4. CASE capture.retry = <<>>
  <2>1. capture' = Looping /\ UNCHANGED shotFailures
    BY <1>4 DEF CaptureNext
  <2>2. CaptureOK' /\ capture'.pc # "off"
    BY <2>1, EmptyHanded DEF Looping, Off
  <2>3. NumsOf(shotQueue) \cup NumsOf(capture.batch) \subseteq
         stored' \cup dropped' \cup NumsOf(shotQueue') \cup NumsOf(capture'.batch)
    BY <1>1, <1>3, <1>4, EmptyList
  <2> QED
    BY <1>1, <1>2, <2>1, <2>2, <2>3, LoopSteps
<1>5. CASE capture.retry # <<>>
  <2>1. PICK list \in {shotQueue, <<>>} :
          ReadList(list) /\ capture' = [capture EXCEPT !.pc = "requeue", !.copy = list]
    BY <1>5 DEF CaptureNext
  <2>2. list \in Seq(Items) /\ Len(list) <= Len(shotQueue) /\ shotFailures' \in Nat /\ Len(list) \in Nat
    BY <2>1, ReadFacts DEF ShotAll
  <2>3. CaptureIs("requeue", list, capture.batch, capture.left, capture.retry)
    BY <1>2, <2>1, CaptureBecomes
  <2>4. /\ capture' \in CaptureTypes /\ capture'.left \subseteq DOMAIN capture'.batch
        /\ capture'.pc = "requeue" /\ capture'.copy = list /\ capture'.batch = capture.batch
        /\ capture'.left = capture.left /\ capture'.retry = capture.retry
    BY <2>2, <2>3, CaptureTyped, HoldsTyped DEF CapturePcs
  <2>5. Handed'
    BY <1>1, <2>4 DEF Handed, Capturing
  <2>6. Hands'
    BY <1>1, <2>4 DEF ShotAll, CaptureOK, Hands, NumsOf
  <2>7. Sizes'
    <3>1. Len(list) <= ShotMax
      BY <1>1, <2>2, CaptureTyped, ShotAssumption DEF ShotAll, CaptureOK, Sizes, Capturing
    <3>2. Len(list) <= ShotMax + ShotBatch
      BY <2>2, <3>1, ShotAssumption
    <3> QED
      BY <1>1, <2>4, <3>1, <3>2 DEF ShotAll, CaptureOK, Sizes, Capturing
  <2>8. CaptureOK'
    BY <2>4, <2>5, <2>6, <2>7 DEF CaptureOK
  <2>9. NumsOf(shotQueue) \cup NumsOf(capture.batch) \subseteq
         stored' \cup dropped' \cup NumsOf(shotQueue') \cup NumsOf(capture'.batch)
    BY <1>1, <2>4
  <2> QED
    BY <1>1, <1>2, <2>2, <2>4, <2>8, <2>9, LoopSteps
<1> QED
  BY <1>4, <1>5

\* The list is replaced by a part of the batch and the copy.
LEMMA PutBack ==
  ASSUME ShotAll, capture.pc \in {"requeue", "restore"}, NEW list \in {capture.retry, capture.batch},
         shotQueue' = Requeued(list, capture.copy), dropped' = dropped \cup Overlapped(capture.copy)
  PROVE  /\ shotQueue' \in Seq(Items) /\ Len(shotQueue') <= ShotMax + ShotBatch
         /\ dropped' \subseteq Shots /\ dropped \subseteq dropped'
         /\ NumsOf(shotQueue) \cup NumsOf(capture.batch) \subseteq stored \cup dropped' \cup NumsOf(shotQueue')
<1>1. /\ list \in Seq(Items) /\ Len(list) <= Len(capture.batch) /\ Len(list) \in Nat
      /\ capture.copy \in Seq(Items) /\ Len(capture.copy) \in Nat
  BY CaptureTyped DEF ShotAll, CaptureOK, Sizes
<1>2. Len(capture.batch) <= ShotBatch /\ Len(capture.copy) <= ShotMax
  BY DEF ShotAll, CaptureOK, Sizes, Capturing
<1>3. /\ shotQueue' \in Seq(Items) /\ Len(shotQueue') = Len(list) + Len(capture.copy)
      /\ NumsOf(shotQueue') = NumsOf(list) \cup NumsOf(capture.copy)
  <2>1. shotQueue' = list \o capture.copy
    BY DEF Requeued
  <2> QED
    BY <1>1, <2>1, JoinedLists
<1>4. Len(shotQueue') <= ShotMax + ShotBatch
  BY <1>1, <1>2, <1>3, CaptureTyped, ShotAssumption
<1>5. dropped' \subseteq Shots /\ dropped \subseteq dropped'
  BY CaptureTyped DEF ShotAll, ShotRest, Overlapped
<1>6. NumsOf(capture.batch) \subseteq stored \cup dropped \cup NumsOf(list)
  BY BatchSettled
<1> QED
  BY <1>3, <1>4, <1>5, <1>6 DEF Overlapped

LEMMA CaptureRequeueKeeps ==
  ASSUME ShotAll, CaptureRequeue
  PROVE  ShotAll'
<1>1. /\ capture.pc = "requeue"
      /\ UNCHANGED <<stored, scheduler, accepted, stalled, requested>>
  BY DEF CaptureRequeue
<1>2. /\ shotQueue \in Seq(Items) /\ stored \subseteq Shots /\ dropped \subseteq Shots
      /\ stalled \in BOOLEAN /\ Len(shotQueue) <= ShotMax + ShotBatch
      /\ capture \in CaptureTypes /\ shotFailures \in Nat
  BY DEF ShotAll, ShotRest, CaptureOK
<1>3. shotFailures' \in Nat
  BY <1>2, ShotFailsTyped DEF CaptureRequeue
<1>4. CASE /\ shotQueue' = Requeued(capture.retry, capture.copy) /\ capture' = Looping
           /\ dropped' = dropped \cup Overlapped(capture.copy)
  <2>1. /\ shotQueue' \in Seq(Items) /\ Len(shotQueue') <= ShotMax + ShotBatch
        /\ dropped' \subseteq Shots /\ dropped \subseteq dropped'
        /\ NumsOf(shotQueue) \cup NumsOf(capture.batch) \subseteq stored \cup dropped' \cup NumsOf(shotQueue')
    BY <1>1, <1>4, PutBack
  <2>2. CaptureOK' /\ capture'.pc # "off"
    BY <1>4, EmptyHanded DEF Looping, Off
  <2> QED
    BY <1>1, <1>2, <1>3, <2>1, <2>2, LoopSteps
<1>5. CASE ShotFails /\ capture' = [capture EXCEPT !.pc = "restore"] /\ UNCHANGED <<shotQueue, dropped>>
  <2>1. CaptureIs("restore", capture.copy, capture.batch, capture.left, capture.retry)
    BY <1>2, <1>5, CaptureBecomes
  <2>2. /\ capture' \in CaptureTypes /\ capture'.left \subseteq DOMAIN capture'.batch
        /\ capture'.pc = "restore" /\ capture'.copy = capture.copy /\ capture'.batch = capture.batch
        /\ capture'.left = capture.left /\ capture'.retry = capture.retry
    BY <2>1, CaptureTyped, HoldsTyped DEF CapturePcs
  <2>3. Handed'
    BY <1>1, <2>2 DEF ShotAll, CaptureOK, Handed, Capturing
  <2>4. Hands'
    BY <1>1, <1>5, <2>2 DEF ShotAll, CaptureOK, Hands, NumsOf
  <2>5. Sizes'
    BY <1>1, <1>5, <2>2 DEF ShotAll, CaptureOK, Sizes, Capturing
  <2>6. CaptureOK'
    BY <2>2, <2>3, <2>4, <2>5 DEF CaptureOK
  <2>7. NumsOf(shotQueue) \cup NumsOf(capture.batch) \subseteq
         stored' \cup dropped' \cup NumsOf(shotQueue') \cup NumsOf(capture'.batch)
    BY <1>5, <2>2
  <2> QED
    BY <1>1, <1>2, <1>3, <1>5, <2>2, <2>6, <2>7, LoopSteps
<1> QED
  BY <1>4, <1>5 DEF CaptureRequeue

LEMMA CaptureRestoreKeeps ==
  ASSUME ShotAll, CaptureRestore
  PROVE  ShotAll'
<1>1. /\ capture.pc = "restore" /\ capture' = Off /\ stalled' = (shotQueue' # <<>>)
      /\ UNCHANGED <<stored, scheduler, accepted, requested>>
  BY DEF CaptureRestore, Break
<1>2. /\ shotQueue \in Seq(Items) /\ stored \subseteq Shots /\ dropped \subseteq Shots
      /\ Len(shotQueue) <= ShotMax + ShotBatch /\ capture.batch \in Seq(Items)
  BY DEF ShotAll, ShotRest, CaptureOK, CaptureTypes
<1>3. shotFailures' \in Nat
  BY ShotFailsTyped DEF CaptureRestore, ShotAll, ShotRest
<1>4. CaptureOK'
  BY <1>1, EmptyHanded
<1>5. stalled' \in BOOLEAN /\ (shotQueue' # <<>> /\ ~stalled' => capture'.pc # "off")
  BY <1>1
<1>6. CASE /\ shotQueue' = Requeued(capture.batch, capture.copy)
           /\ dropped' = dropped \cup Overlapped(capture.copy)
  <2>1. /\ shotQueue' \in Seq(Items) /\ Len(shotQueue') <= ShotMax + ShotBatch
        /\ dropped' \subseteq Shots /\ dropped \subseteq dropped'
        /\ NumsOf(shotQueue) \cup NumsOf(capture.batch) \subseteq stored \cup dropped' \cup NumsOf(shotQueue')
    BY <1>1, <1>6, PutBack
  <2> QED
    BY <1>1, <1>2, <1>3, <1>4, <1>5, <2>1, LoopSteps
<1>7. CASE UNCHANGED shotQueue /\ dropped' = dropped \cup NumsOf(capture.batch)
  <2>1. dropped' \subseteq Shots /\ dropped \subseteq dropped'
    BY <1>2, <1>7, NumsAreShots
  <2>2. NumsOf(shotQueue) \cup NumsOf(capture.batch) \subseteq
         stored' \cup dropped' \cup NumsOf(shotQueue') \cup NumsOf(capture'.batch)
    BY <1>7
  <2> QED
    BY <1>1, <1>2, <1>3, <1>4, <1>5, <1>7, <2>1, <2>2, LoopSteps
<1> QED
  BY <1>6, <1>7 DEF CaptureRestore

LEMMA ShutdownKeeps ==
  ASSUME ShotAll, ShotShutdown
  PROVE  ShotAll'
<1>1. /\ shotQueue' = <<>> /\ dropped' = dropped \cup NumsOf(shotQueue)
      /\ UNCHANGED <<stored, scheduler, capture, accepted, stalled, requested>>
  BY DEF ShotShutdown
<1>2. /\ shotQueue' \in Seq(Items) /\ Len(shotQueue') = 0 /\ stored \subseteq Shots /\ dropped' \subseteq Shots
      /\ stalled \in BOOLEAN /\ shotFailures' \in Nat
  BY <1>1, EmptyList, NumsAreShots, ShotFailsTyped DEF ShotShutdown, ShotAll, ShotRest
<1>3. CaptureOK'
  <2>1. Sizes'
    BY <1>1, <1>2, ShotAssumption DEF ShotAll, CaptureOK, Sizes
  <2>2. Hands'
    BY <1>1 DEF ShotAll, CaptureOK, Hands, NumsOf
  <2> QED
    BY <1>1, <2>1, <2>2 DEF ShotAll, CaptureOK, Handed
<1>4. Len(shotQueue') <= ShotMax + ShotBatch
  BY <1>2, ShotAssumption
<1>5. NumsOf(shotQueue) \cup NumsOf(capture.batch) \subseteq
       stored' \cup dropped' \cup NumsOf(shotQueue') \cup NumsOf(capture'.batch)
  BY <1>1
<1> QED
  BY <1>1, <1>2, <1>3, <1>4, <1>5, LoopSteps

LEMMA RestartKeeps ==
  ASSUME ShotAll, ShotRestart
  PROVE  ShotAll'
<1>1. /\ capture' = Off /\ stalled' = (shotQueue # <<>>)
      /\ dropped' = dropped \cup NumsOf(capture.batch)
      /\ scheduler' = [s \in Schedulers |-> Resting]
      /\ UNCHANGED <<shotQueue, stored, accepted, requested>>
  BY DEF ShotRestart
<1>2. dropped' \subseteq Shots
  <2>1. capture.batch \in Seq(Items) /\ dropped \subseteq Shots
    BY DEF ShotAll, CaptureOK, CaptureTypes, ShotRest
  <2> QED
    BY <1>1, <2>1, NumsAreShots
<1>3. shotFailures' \in Nat
  BY ShotFailsTyped DEF ShotRestart, ShotAll, ShotRest
<1>4. ShotRest' /\ (Len(shotQueue) <= ShotMax + ShotBatch)'
  <2>1. stalled' \in BOOLEAN
    BY <1>1
  <2> QED
    BY <1>1, <1>2, <1>3, <2>1 DEF ShotAll, ShotRest
<1>5. SchedulersOK'
  BY <1>1, RestingTyped DEF SchedulersOK
<1>6. CaptureOK' /\ capture'.batch = <<>>
  BY <1>1, EmptyHanded
<1>7. ScreenshotsCovered'
  <2>1. ScreenshotsNotStranded'
    BY <1>1 DEF ScreenshotsNotStranded
  <2>2. ASSUME NEW n \in accepted, n \notin dropped'
        PROVE  n \in stored \cup NumsOf(shotQueue)
    BY <1>1, <2>2 DEF ShotAll, ScreenshotsCovered, ScreenshotsAccounted
  <2>3. ScreenshotsAccounted'
    BY <1>1, <2>2 DEF ScreenshotsAccounted, NumsOf
  <2> QED
    BY <2>1, <2>3 DEF ScreenshotsCovered
<1> QED
  BY <1>4, <1>5, <1>6, <1>7 DEF ShotAll

LEMMA ShotStep == ShotAll /\ [ShotNext]_shotVars => ShotAll'
<1> SUFFICES ASSUME ShotAll, [ShotNext]_shotVars PROVE ShotAll'
  OBVIOUS
<1>1. CASE UNCHANGED shotVars
  <2>1. UNCHANGED <<shotQueue, stored, scheduler, capture, accepted, dropped, stalled, requested, shotFailures>>
    BY <1>1 DEF shotVars
  <2>2. SchedulersOK' /\ requested' \in Nat /\ shotFailures' \in Nat
    BY <2>1 DEF ShotAll, SchedulersOK, ShotRest
  <2> QED
    BY <2>1, <2>2, ScheduledOnly
<1>2. ASSUME NEW s \in Schedulers, Schedule(s) \/ EnqueueStep(s) PROVE ShotAll'
  BY <1>2, ScheduleKeeps, EnqueueReadKeeps, EnqueueWriteKeeps DEF EnqueueStep
<1>3. CASE CaptureStep
  BY <1>3, CaptureReadKeeps, CaptureDequeueKeeps, CaptureOneKeeps, CaptureNextKeeps,
     CaptureRequeueKeeps, CaptureRestoreKeeps DEF CaptureStep
<1> QED
  BY <1>1, <1>2, <1>3, ShutdownKeeps, RestartKeeps DEF ShotNext

LEMMA ShotStart == ShotInit => ShotAll
<1> SUFFICES ASSUME ShotInit PROVE ShotAll
  OBVIOUS
<1>1. /\ capture = [pc |-> "off", copy |-> <<>>, batch |-> <<>>, left |-> {}, retry |-> <<>>]
      /\ shotQueue = <<>>
  BY DEF ShotInit, Off
<1>2. CaptureOK
  <2>1. Cardinality({}) = 0
    BY FS_EmptySet
  <2> QED
    BY <1>1, <2>1, EmptyList, ShotAssumption
    DEF CaptureOK, CaptureTypes, CapturePcs, Handed, Hands, Sizes, Capturing
<1>3. ShotRest /\ SchedulersOK
  BY EmptyList, RestingTyped DEF ShotInit, ShotRest, SchedulersOK
<1>4. Len(shotQueue) <= ShotMax + ShotBatch
  BY <1>1, EmptyList, ShotAssumption
<1>5. ScreenshotsCovered
  BY DEF ShotInit, ScreenshotsCovered, ScreenshotsNotStranded, ScreenshotsAccounted
<1> QED
  BY <1>2, <1>3, <1>4, <1>5 DEF ShotAll

\* Every variable of the screenshot queue has its type, and no item is tried more
\* often than SCREENSHOT.MAX_RETRIES allows.
THEOREM ScreenshotTypeCorrect == ShotSpec => []ShotTypeOK
<1>1. ShotAll => ShotTypeOK
  BY AllIsAll
<1> QED
  BY <1>1, ShotStart, ShotStep, PTL DEF ShotSpec

\* The list never holds more than a batch beyond its capacity, although whoever
\* writes it writes a copy (enqueueScreenshots, drainScreenshotQueue).
THEOREM ScreenshotQueueIsBounded == ShotSpec => []ShotQueueBounded
<1>1. ShotAll => ShotQueueBounded
  BY AllIsAll DEF ShotInv
<1> QED
  BY <1>1, ShotStart, ShotStep, PTL DEF ShotSpec

\* What is accepted is in somebody's hands until it is stored or dropped, and while
\* there is any the loop runs, unless a failure or a restart stopped it.
THEOREM ScreenshotsAreCovered == ShotSpec => []ScreenshotsCovered
<1>1. ShotAll => ScreenshotsCovered
  BY DEF ShotAll
<1> QED
  BY <1>1, ShotStart, ShotStep, PTL DEF ShotSpec

(***************************************************************************)
(* PendingBills                                                            *)
(***************************************************************************)
Working == {"check", "prune", "fetch", "write"}    \* of a drain that has a copy of the list
Unreasoned == {"none", "missing"}                  \* rows whose reason was never known

\* What the archive knows goes with the page and with what was told.
RowsFit ==
  \A b \in Bills :
    /\ billRow[b] = "known" => page[b] = "reason"
    /\ billRow[b] = "none" => bare[b] = 0
    /\ full[b] > 0 => billRow[b] \notin Unreasoned

\* Whoever has a bill in hand, but for the crawl and the task that archives, has one
\* that is archived, and with its reason if it is to be announced with it.
HandsFit ==
  /\ \A b \in retryQueue \cup drain.base : billRow[b] # "none"
  /\ \A b \in drain.known \cup drain.tell : billRow[b] \notin Unreasoned
  /\ \A c \in Callers :
       /\ \A b \in caller[c].base : billRow[b] # "none"
       /\ \A b \in caller[c].known : billRow[b] \notin Unreasoned
       /\ caller[c].pc \in {"read", "write"} => \A b \in caller[c].left : billRow[b] # "none"
       /\ IF caller[c].pc = "write"
          THEN caller[c].bill \in Bills /\ billRow[caller[c].bill] # "none"
          ELSE caller[c].bill = 0
       /\ caller[c].pc = "read" => caller[c].base = {}
  /\ caller["cron"].pc \in {"idle", "read", "write"} /\ caller["cron"].known = {}

\* While the sync of the start runs, nobody else works but the drain.
SyncFirst ==
  sync.pc # "done" => crawl.pc = "idle" /\ crawl.found = {} /\ \A c \in Callers : caller[c] = Idle

\* The drain works on its copy.
DrainFits ==
  /\ drain.list \subseteq drain.base /\ drain.left \subseteq drain.list
  /\ drain.known \subseteq drain.list \ drain.left
  /\ drain.pc # "fetch" => drain.left = {} /\ drain.known = {}
  /\ drain.pc \in {"off", "read", "ended"} => drain.base = {}
  /\ drain.pc \notin {"write", "tell"} => drain.tell = {}
  /\ drain.pc = "write" => drain.tell \subseteq drain.base \ drain.list

\* A drain that was asked for is followed by a pass.
Heard == asked = "during" => drain.pc = "read" \/ (drain.rerun /\ drain.pc \notin {"ended", "off"})

\* What the drain has read is in the list still, unless a write overlapped; what it
\* has taken off its copy need not be announced any more, or a quiet run knows of it.
CopyKept ==
  drain.pc \in Working =>
    /\ drain.base \subseteq retryQueue \cup excused
    /\ \A b \in drain.base \ (drain.list \cup excused \cup unsaid) : billRow[b] = "known" =>
         full[b] > 0 \/ b \in drain.tell \cup caller["bills"].known

Capacity ==
  /\ Cardinality(retryQueue) <= billScope.size /\ Cardinality(drain.base) <= billScope.size
  /\ \A c \in Callers : caller[c].pc = "write" => Cardinality(caller[c].base) < billScope.size

\* The list, and what the drain has of it.
Listing == retryQueue \cup (IF drain.pc \in Working THEN drain.base ELSE {})

\* While there is no reason to tell of a bill again, it is new to who found it, and
\* there is one at most to announce it bare, and one to announce it with its reason.
Once ==
  \A b \in Bills \ again :
    /\ bare[b] <= 1 /\ full[b] <= 1
    /\ b \in Finding => billRow[b] = "none"
    /\ caller["bills"].pc = "archive" /\ b \in caller["bills"].base => bare[b] = 0
    /\ b \in Listing => full[b] = 0
    /\ b \in caller["bills"].known => full[b] = 0 /\ b \notin Listing \cup drain.tell
    /\ drain.pc = "tell" /\ b \in drain.tell => full[b] = 0 /\ b \notin retryQueue

BillInv ==
  /\ RowsFit /\ HandsFit /\ SyncFirst /\ DrainFits /\ Heard /\ CopyKept /\ Capacity /\ Once
  /\ KnownIsAnnounced

-----------------------------------------------------------------------------
(* Types                                                                   *)

CallerType == [pc : {"idle", "archive", "read", "write", "tell"}, left : SUBSET Bills,
               base : SUBSET Bills, bill : Bills \cup {0}, known : SUBSET Bills]
DrainType == [pc : {"off", "read", "check", "prune", "fetch", "write", "tell", "ended"},
              rerun : BOOLEAN, base : SUBSET Bills, list : SUBSET Bills, dirty : BOOLEAN,
              left : SUBSET Bills, known : SUBSET Bills, tell : SUBSET Bills]
CrawlType == [pc : {"idle", "launch"}, found : SUBSET Bills, aside : SUBSET Bills,
              old : SUBSET Bills, count : 0 .. billScope.crawls]
Counts == [Bills -> 0 .. 2]

\* The parts of the type invariant.
SiteTyped == /\ billScope \in BillScopes /\ page \in [Bills -> Pages]
             /\ retryQueue \subseteq Bills /\ asked \in {"no", "during", "late"}
             /\ sync \in [pc : {"scan", "archive", "done"}, left : SUBSET Bills]
             /\ crawl \in CrawlType /\ quiet \in [QuietRuns -> SUBSET Bills]
CallersTyped == /\ caller \in [Callers -> CallerType]
                /\ \A c \in Callers : caller[c].pc = "idle" => caller[c] = Idle
ToldTyped == bare \in Counts /\ full \in Counts /\ again \subseteq Bills /\ excused \subseteq Bills
             /\ unsaid \subseteq Bills
FailuresTyped == failures \in Nat /\ failures <= billScope.failures

LEMMA BillTypes ==
  BillTypeOK <=> /\ SiteTyped /\ CallersTyped /\ ToldTyped /\ FailuresTyped
                 /\ billRow \in [Bills -> Rows] /\ drain \in DrainType
  BY DEF BillTypeOK, SiteTyped, CallersTyped, ToldTyped, FailuresTyped, CallerType, DrainType, CrawlType, Counts

LEMMA TypesAfter ==
  ASSUME SiteTyped', CallersTyped', ToldTyped', FailuresTyped',
         billRow' \in [Bills -> Rows], drain' \in DrainType
  PROVE  BillTypeOK'
  BY DEF BillTypeOK, SiteTyped, CallersTyped, ToldTyped, FailuresTyped, CallerType, DrainType, CrawlType, Counts

LEMMA ScopeIs ==
  ASSUME SiteTyped
  PROVE  /\ billScope.failures \in Nat /\ billScope.crawls \in Nat /\ billScope.bills \subseteq Bills
         /\ billScope.size \in Nat /\ billScope.size > 0
         /\ billScope.listed \subseteq Bills
BY BillAssumption DEF SiteTyped

\* One more announcement of each of the bills, but never more than two are counted.
LEMMA ToldCounts ==
  ASSUME NEW f \in Counts, NEW B \in SUBSET Bills
  PROVE  /\ Told(f, B) \in Counts
         /\ \A b \in Bills \ B : Told(f, B)[b] = f[b]
         /\ \A b \in B : Told(f, B)[b] > 0 /\ (f[b] = 0 => Told(f, B)[b] = 1)
         /\ \A b \in Bills : Told(f, B)[b] >= f[b]
<1>1. \A b \in Bills : f[b] \in 0 .. 2
  BY DEF Counts
<1> QED
  BY <1>1 DEF Told, Counts

LEMMA FailuresKept ==
  ASSUME SiteTyped, FailuresTyped, billScope' = billScope,
         \/ UNCHANGED failures \/ Fails \/ FailsUnless(TRUE) \/ FailsUnless(FALSE)
  PROVE  FailuresTyped'
BY ScopeIs DEF FailuresTyped, Fails, FailsUnless

LEMMA IdleTyped == Idle \in CallerType /\ Idle.pc = "idle" /\ Idle.left = {} /\ Idle.base = {} /\ Idle.known = {}
BY DEF Idle, CallerType

LEMMA PassTyped ==
  ASSUME drain \in DrainType
  PROVE  /\ Reading \in DrainType /\ [Reading EXCEPT !.pc = "ended"] \in DrainType
         /\ [Reading EXCEPT !.pc = "off"] \in DrainType
         /\ AfterPass(drain) \in DrainType
BY DEF DrainType, Reading, AfterPass

PendInv == BillTypeOK /\ BillInv

\* What a step makes of a caller, and of the drain.
CallerAt(c, pc, left, base, bill, known) ==
  /\ caller' \in [Callers -> CallerType]
  /\ \A d \in Callers : d # c => caller'[d] = caller[d]
  /\ caller'[c].pc = pc /\ caller'[c].left = left /\ caller'[c].base = base
  /\ caller'[c].bill = bill /\ caller'[c].known = known

DrainAt(pc, rerun, base, list, left, known, tell) ==
  /\ drain' \in DrainType
  /\ drain'.pc = pc /\ drain'.rerun = rerun /\ drain'.base = base /\ drain'.list = list
  /\ drain'.left = left /\ drain'.known = known /\ drain'.tell = tell

PassOver == DrainAt(IF drain.rerun THEN "read" ELSE "ended", FALSE, {}, {}, {}, {}, {})

LEMMA PassEffects ==
  ASSUME drain \in DrainType
  PROVE  /\ drain' = AfterPass(drain) => PassOver
         /\ drain' = Reading => DrainAt("read", FALSE, {}, {}, {}, {}, {})
         /\ drain' = [Reading EXCEPT !.pc = "ended"] => DrainAt("ended", FALSE, {}, {}, {}, {}, {})
         /\ drain' = [Reading EXCEPT !.pc = "off"] => DrainAt("off", FALSE, {}, {}, {}, {}, {})
<1>1. Reading \in DrainType
  BY DEF Reading, DrainType
<1>2. /\ Reading.pc = "read" /\ Reading.rerun = FALSE /\ Reading.base = {} /\ Reading.list = {}
      /\ Reading.left = {} /\ Reading.known = {} /\ Reading.tell = {}
  BY DEF Reading
<1>3. drain' = Reading => DrainAt("read", FALSE, {}, {}, {}, {}, {})
  BY <1>1, <1>2 DEF DrainAt
<1>4. ASSUME NEW p \in {"ended", "off"}, drain' = [Reading EXCEPT !.pc = p]
      PROVE  DrainAt(p, FALSE, {}, {}, {}, {}, {})
  BY <1>1, <1>2, <1>4 DEF DrainAt, DrainType
<1> QED
  BY <1>3, <1>4 DEF AfterPass, PassOver

LEMMA RequestEffects ==
  ASSUME drain \in DrainType, RequestDrain
  PROVE  IF drain.pc = "off"
         THEN DrainAt("read", FALSE, {}, {}, {}, {}, {}) /\ asked' = "no"
         ELSE /\ DrainAt(drain.pc, TRUE, drain.base, drain.list, drain.left, drain.known, drain.tell)
              /\ asked' = IF drain.pc = "ended" THEN "late" ELSE "during"
<1>1. CASE drain.pc = "off"
  BY <1>1, PassEffects DEF RequestDrain
<1>2. CASE drain.pc # "off"
  BY <1>2 DEF RequestDrain, DrainAt, DrainType
<1> QED
  BY <1>1, <1>2

LEMMA EnqueueEffects ==
  ASSUME PendInv, NEW c \in Callers
  PROVE  /\ EnqueueRead(c) => \E b \in caller[c].left, list \in {retryQueue, {}} :
              IF AtCapacity(list) \/ b \in list
              THEN CallerAt(c, "read", caller[c].left \ {b}, {}, 0, caller[c].known)
              ELSE CallerAt(c, "write", caller[c].left, list, b, caller[c].known)
         /\ EnqueueWrite(c) =>
              CallerAt(c, "read", caller[c].left \ {caller[c].bill}, {}, 0, caller[c].known)
         /\ EnqueueDone(c) =>
              CallerAt(c, IF c = "bills" THEN "tell" ELSE "idle", {}, {}, 0, caller[c].known)
<1>1. /\ caller \in [Callers -> CallerType] /\ retryQueue \subseteq Bills
      /\ caller[c].pc = "read" => caller[c].base = {} /\ caller[c].bill = 0
  BY BillTypes DEF PendInv, BillInv, HandsFit, CallersTyped, SiteTyped
<1>2. ASSUME EnqueueRead(c)
      PROVE  \E b \in caller[c].left, list \in {retryQueue, {}} :
               IF AtCapacity(list) \/ b \in list
               THEN CallerAt(c, "read", caller[c].left \ {b}, {}, 0, caller[c].known)
               ELSE CallerAt(c, "write", caller[c].left, list, b, caller[c].known)
  <2>1. PICK b \in caller[c].left, list \in {retryQueue, {}} :
          caller' = IF AtCapacity(list) \/ b \in list
                    THEN [caller EXCEPT ![c].left = @ \ {b}]
                    ELSE [caller EXCEPT ![c].pc = "write", ![c].bill = b, ![c].base = list]
    BY <1>2 DEF EnqueueRead
  <2>2. b \in Bills /\ caller[c].pc = "read" /\ list \subseteq Bills
    BY <1>1, <1>2, <2>1 DEF CallerType, EnqueueRead
  <2>3. CASE AtCapacity(list) \/ b \in list
    BY <1>1, <2>1, <2>2, <2>3 DEF CallerAt, CallerType
  <2>4. CASE ~(AtCapacity(list) \/ b \in list)
    BY <1>1, <2>1, <2>2, <2>4 DEF CallerAt, CallerType
  <2> QED
    BY <2>3, <2>4
<1>3. ASSUME EnqueueWrite(c)
      PROVE  CallerAt(c, "read", caller[c].left \ {caller[c].bill}, {}, 0, caller[c].known)
  <2>1. PICK b \in Bills : b = caller[c].bill
    BY <1>3 DEF EnqueueWrite, PendInv, BillInv, HandsFit
  <2>2. PICK left \in SUBSET Bills : left = caller[c].left \ {b}
    BY <1>1 DEF CallerType
  <2>3. PICK x : x = [caller[c] EXCEPT !.pc = "read", !.left = left, !.bill = 0, !.base = {}]
    OBVIOUS
  <2>4. /\ x \in CallerType /\ x.pc = "read" /\ x.left = left /\ x.base = {} /\ x.bill = 0
        /\ x.known = caller[c].known
    BY <1>1, <2>3 DEF CallerType
  <2>5. caller' = [caller EXCEPT ![c] = x]
    BY <1>3, <2>1, <2>2, <2>3 DEF EnqueueWrite
  <2>6. CallerAt(c, "read", left, {}, 0, caller[c].known)
    BY <1>1, <2>4, <2>5 DEF CallerAt
  <2> QED
    BY <2>1, <2>2, <2>6
<1>4. ASSUME EnqueueDone(c)
      PROVE  CallerAt(c, IF c = "bills" THEN "tell" ELSE "idle", {}, {}, 0, caller[c].known)
  <2>1. /\ caller' = [caller EXCEPT ![c].pc = IF c = "bills" THEN "tell" ELSE "idle"]
        /\ caller[c].pc = "read" /\ caller[c].left = {}
    BY <1>4 DEF EnqueueDone
  <2> QED
    BY <1>1, <2>1 DEF CallerAt, CallerType
<1> QED
  BY <1>2, <1>3, <1>4

\* process-pending-bills archives a bill: with its reason (h), if its row can be written (w).
LEMMA ArchivesOne ==
  ASSUME BillArchive
  PROVE  \E b \in caller["bills"].left, h \in BOOLEAN, w \in BOOLEAN :
           /\ billRow' = IF w THEN [billRow EXCEPT ![b] = RowWith(@, h)] ELSE billRow
           /\ caller' = [caller EXCEPT !["bills"].left = @ \ {b},
                          !["bills"].known = IF w /\ h THEN @ \cup {b} ELSE @,
                          !["bills"].base = IF w /\ ~h THEN @ \cup {b} ELSE @]
           /\ again' = again \cup (crawl.found \cap {b})
           /\ FailsUnless(TRUE) \/ FailsUnless(FALSE)
<1>1. PICK b \in caller["bills"].left, captured, written \in BOOLEAN :
        LET hasReason == captured /\ page[b] = "reason" IN
        /\ FailsUnless(written /\ (captured \/ page[b] = "gone"))
        /\ billRow' = IF written THEN [billRow EXCEPT ![b] = RowWith(@, hasReason)] ELSE billRow
        /\ caller' = [caller EXCEPT !["bills"].left = @ \ {b},
                        !["bills"].known = IF written /\ hasReason THEN @ \cup {b} ELSE @,
                        !["bills"].base = IF written /\ ~hasReason THEN @ \cup {b} ELSE @]
        /\ again' = again \cup (crawl.found \cap {b})
  BY Zenon DEF BillArchive
<1>2. PICK h \in BOOLEAN : h = (captured /\ page[b] = "reason")
  OBVIOUS
<1>3. FailsUnless(TRUE) \/ FailsUnless(FALSE)
  BY <1>1 DEF FailsUnless
<1>4. /\ billRow' = IF written THEN [billRow EXCEPT ![b] = RowWith(@, h)] ELSE billRow
      /\ caller' = [caller EXCEPT !["bills"].left = @ \ {b},
                      !["bills"].known = IF written /\ h THEN @ \cup {b} ELSE @,
                      !["bills"].base = IF written /\ ~h THEN @ \cup {b} ELSE @]
      /\ again' = again \cup (crawl.found \cap {b})
  BY <1>1, <1>2
<1> QED
  BY <1>3, <1>4

LEMMA TaskEffects ==
  ASSUME PendInv
  PROVE  LET t == caller["bills"] IN
         /\ CrawlLaunches => IF t.pc # "idle" \/ crawl.found = {} THEN caller' = caller
                             ELSE CallerAt("bills", "archive", crawl.found, {}, 0, {})
         /\ BillArchive => \E b \in t.left :
              \/ CallerAt("bills", "archive", t.left \ {b}, t.base, 0, t.known)
              \/ CallerAt("bills", "archive", t.left \ {b}, t.base, 0, t.known \cup {b})
              \/ CallerAt("bills", "archive", t.left \ {b}, t.base \cup {b}, 0, t.known)
         /\ BillSplit => CallerAt("bills", IF t.base = {} THEN "tell" ELSE "read", t.base, {}, 0, t.known)
         /\ BillTell => CallerAt("bills", "idle", {}, {}, 0, {})
         /\ CronSeeds => CallerAt("cron", "read", Candidates, {}, 0, {})
<1> DEFINE t == caller["bills"]
<1>1. /\ caller \in [Callers -> CallerType] /\ "bills" \in Callers /\ "cron" \in Callers
      /\ \A c \in Callers : caller[c].pc = "idle" => caller[c] = Idle
      /\ t \in CallerType
  BY BillTypes DEF PendInv, CallersTyped, Callers
<1>2. t.pc # "write" => t.bill = 0
  BY <1>1 DEF PendInv, BillInv, HandsFit
<1>3. CrawlLaunches => IF t.pc # "idle" \/ crawl.found = {} THEN caller' = caller
                       ELSE CallerAt("bills", "archive", crawl.found, {}, 0, {})
  <2> SUFFICES ASSUME CrawlLaunches, t.pc = "idle", crawl.found # {}
               PROVE  CallerAt("bills", "archive", crawl.found, {}, 0, {})
    BY DEF CrawlLaunches
  <2>1. PICK x : x = [Idle EXCEPT !.pc = "archive", !.left = crawl.found]
    OBVIOUS
  <2>2. crawl.found \subseteq Bills
    BY BillTypes DEF PendInv, SiteTyped, CrawlType
  <2>3. /\ x \in CallerType /\ x.pc = "archive" /\ x.left = crawl.found /\ x.base = {} /\ x.bill = 0
        /\ x.known = {}
    BY <2>1, <2>2 DEF Idle, CallerType
  <2>4. caller' = [caller EXCEPT !["bills"] = x]
    BY <2>1 DEF CrawlLaunches
  <2> QED
    BY <1>1, <2>3, <2>4 DEF CallerAt
<1>4. ASSUME BillArchive
      PROVE  \E b \in t.left :
              \/ CallerAt("bills", "archive", t.left \ {b}, t.base, 0, t.known)
              \/ CallerAt("bills", "archive", t.left \ {b}, t.base, 0, t.known \cup {b})
              \/ CallerAt("bills", "archive", t.left \ {b}, t.base \cup {b}, 0, t.known)
  <2>1. PICK b \in t.left, known \in SUBSET Bills, base \in SUBSET Bills :
          /\ caller' = [caller EXCEPT !["bills"].left = @ \ {b}, !["bills"].known = known,
                                      !["bills"].base = base]
          /\ \/ known = t.known /\ base = t.base
             \/ known = t.known \cup {b} /\ base = t.base
             \/ known = t.known /\ base = t.base \cup {b}
    <3>1. PICK b \in t.left, hasReason \in BOOLEAN, written \in BOOLEAN :
            caller' = [caller EXCEPT !["bills"].left = @ \ {b},
                         !["bills"].known = IF written /\ hasReason THEN @ \cup {b} ELSE @,
                         !["bills"].base = IF written /\ ~hasReason THEN @ \cup {b} ELSE @]
      BY <1>4, ArchivesOne
    <3> b \in Bills /\ t.known \in SUBSET Bills /\ t.base \in SUBSET Bills
      BY <1>1 DEF CallerType
    <3>2. PICK known \in SUBSET Bills : known = IF written /\ hasReason THEN t.known \cup {b} ELSE t.known
      OBVIOUS
    <3>3. PICK base \in SUBSET Bills : base = IF written /\ ~hasReason THEN t.base \cup {b} ELSE t.base
      OBVIOUS
    <3>4. caller' = [caller EXCEPT !["bills"].left = @ \ {b}, !["bills"].known = known,
                                   !["bills"].base = base]
      BY <3>1, <3>2, <3>3
    <3> QED
      BY <3>2, <3>3, <3>4
  <2>2. b \in Bills /\ t.pc = "archive" /\ known \subseteq Bills /\ base \subseteq Bills
    BY <1>1, <1>4, <2>1 DEF CallerType, BillArchive
  <2>3. CallerAt("bills", "archive", t.left \ {b}, base, 0, known)
    BY <1>1, <1>2, <2>1, <2>2 DEF CallerAt, CallerType
  <2> QED
    BY <2>1, <2>3
<1>5. ASSUME BillSplit
      PROVE  CallerAt("bills", IF t.base = {} THEN "tell" ELSE "read", t.base, {}, 0, t.known)
  <2>1. PICK pc \in {"tell", "read"} : pc = IF t.base = {} THEN "tell" ELSE "read"
    OBVIOUS
  <2>2. caller' = [caller EXCEPT !["bills"].pc = pc, !["bills"].left = t.base, !["bills"].base = {}]
    BY <1>5, <2>1 DEF BillSplit
  <2>3. t.bill = 0 /\ t.base \subseteq Bills
    BY <1>1, <1>2, <1>5 DEF BillSplit, CallerType
  <2>4. CallerAt("bills", pc, t.base, {}, 0, t.known)
    BY <1>1, <2>1, <2>2, <2>3 DEF CallerAt, CallerType
  <2> QED
    BY <2>1, <2>4
<1>6. ASSUME BillTell PROVE CallerAt("bills", "idle", {}, {}, 0, {})
  <2>1. caller' = [caller EXCEPT !["bills"] = Idle]
    BY <1>6 DEF BillTell
  <2> QED
    BY <1>1, <2>1 DEF CallerAt, Idle, CallerType
<1>7. ASSUME CronSeeds PROVE CallerAt("cron", "read", Candidates, {}, 0, {})
  <2>1. caller' = [caller EXCEPT !["cron"].pc = "read", !["cron"].left = Candidates]
    BY <1>7 DEF CronSeeds
  <2>2. Candidates \subseteq Bills
    BY DEF Candidates
  <2>3. caller["cron"] = Idle
    BY <1>1, <1>7 DEF CronSeeds
  <2>4. caller["cron"].base = {} /\ caller["cron"].bill = 0 /\ caller["cron"].known = {}
    BY <2>3 DEF Idle
  <2>5. PICK S \in SUBSET Bills : S = Candidates
    BY <2>2
  <2>6. caller' = [caller EXCEPT !["cron"].pc = "read", !["cron"].left = S]
    BY <2>1, <2>5
  <2>7. CallerAt("cron", "read", S, {}, 0, {})
    BY <1>1, <2>4, <2>6 DEF CallerAt, CallerType
  <2> QED
    BY <2>5, <2>7
<1> QED
  BY <1>3, <1>4, <1>5, <1>6, <1>7

LEMMA DrainEffects ==
  ASSUME PendInv
  PROVE  /\ DrainRead => \/ PassOver
                         \/ /\ retryQueue # {}
                            /\ DrainAt("check", drain.rerun, retryQueue, retryQueue, drain.left,
                                       drain.known, drain.tell)
         /\ DrainCheck => DrainAt("prune", drain.rerun, drain.base, StillNsm(drain.list), drain.left,
                                  drain.known, drain.tell)
         /\ DrainPrune => \E old \in SUBSET NotDeleted(drain.list) :
              LET list == NotDeleted(drain.list) \ old IN
              /\ bare' = Told(bare, old) /\ again' = again \cup old /\ excused' = excused \cup old
              /\ \/ DrainAt("fetch", drain.rerun, drain.base, list, list, drain.known, drain.tell)
                 \/ DrainAt("write", drain.rerun, drain.base, {}, drain.left, drain.known, drain.tell)
                    /\ list = {}
                 \/ PassOver
         /\ DrainReset => DrainAt("off", FALSE, {}, {}, {}, {}, {})
         /\ DrainThrows => DrainAt("ended", FALSE, {}, {}, {}, {}, {})
         /\ DrainTell => PassOver
         /\ DrainWrite => IF drain.tell = {} THEN PassOver
                          ELSE DrainAt("tell", drain.rerun, drain.base, drain.list, drain.left,
                                       drain.known, drain.tell)
<1>1. drain \in DrainType /\ retryQueue \subseteq Bills
  BY BillTypes DEF PendInv, SiteTyped
<1>2. ASSUME DrainRead
      PROVE  \/ PassOver
             \/ /\ retryQueue # {}
                /\ DrainAt("check", drain.rerun, retryQueue, retryQueue, drain.left,
                                       drain.known, drain.tell)
  <2>1. PICK list \in {retryQueue, {}} :
          drain' = IF list = {} THEN AfterPass(drain)
                   ELSE [drain EXCEPT !.pc = "check", !.base = list, !.list = list]
    BY <1>2 DEF DrainRead
  <2>2. CASE list = {}
    BY <1>1, <2>1, <2>2, PassEffects
  <2>3. CASE list # {}
    BY <1>1, <2>1, <2>3 DEF DrainAt, DrainType
  <2> QED
    BY <2>2, <2>3
<1>3. ASSUME DrainCheck
      PROVE  DrainAt("prune", drain.rerun, drain.base, StillNsm(drain.list), drain.left,
                                  drain.known, drain.tell)
  <2>1. PICK rest \in SUBSET Bills, dirty \in BOOLEAN :
          rest = StillNsm(drain.list) /\ dirty = (rest # drain.list)
    BY <1>1 DEF StillNsm, DrainType
  <2>2. drain' = [drain EXCEPT !.pc = "prune", !.list = rest, !.dirty = dirty]
    BY <1>3, <2>1 DEF DrainCheck
  <2>3. DrainAt("prune", drain.rerun, drain.base, rest, drain.left, drain.known, drain.tell)
    BY <1>1, <2>1, <2>2 DEF DrainAt, DrainType
  <2> QED
    BY <2>1, <2>3
<1>4. ASSUME DrainPrune
      PROVE  \E old \in SUBSET NotDeleted(drain.list) :
              LET list == NotDeleted(drain.list) \ old IN
              /\ bare' = Told(bare, old) /\ again' = again \cup old /\ excused' = excused \cup old
              /\ \/ DrainAt("fetch", drain.rerun, drain.base, list, list, drain.known, drain.tell)
                 \/ DrainAt("write", drain.rerun, drain.base, {}, drain.left, drain.known, drain.tell)
                    /\ list = {}
                 \/ PassOver
  <2>1. PICK old \in SUBSET NotDeleted(drain.list) :
          LET list == NotDeleted(drain.list) \ old  dirty == drain.dirty \/ list # drain.list IN
          /\ bare' = Told(bare, old) /\ again' = again \cup old /\ excused' = excused \cup old
          /\ drain' = IF list # {}
                      THEN [drain EXCEPT !.pc = "fetch", !.list = list, !.left = list, !.dirty = dirty]
                      ELSE IF dirty THEN [drain EXCEPT !.pc = "write", !.list = {}]
                      ELSE AfterPass(drain)
    BY <1>4 DEF DrainPrune
  <2>2. PICK rest \in SUBSET Bills : rest = NotDeleted(drain.list) \ old
    BY <1>1 DEF NotDeleted, DrainType
  <2>3. PICK dirty \in BOOLEAN : dirty = (drain.dirty \/ rest # drain.list)
    BY <1>1 DEF DrainType
  <2>4. drain' = IF rest # {}
                 THEN [drain EXCEPT !.pc = "fetch", !.list = rest, !.left = rest, !.dirty = dirty]
                 ELSE IF dirty THEN [drain EXCEPT !.pc = "write", !.list = {}]
                 ELSE AfterPass(drain)
    BY <2>1, <2>2, <2>3
  <2>5. \/ DrainAt("fetch", drain.rerun, drain.base, rest, rest, drain.known, drain.tell)
        \/ DrainAt("write", drain.rerun, drain.base, {}, drain.left, drain.known, drain.tell) /\ rest = {}
        \/ PassOver
    <3>1. CASE rest # {}
      BY <1>1, <2>4, <3>1 DEF DrainAt, DrainType
    <3>2. CASE rest = {} /\ dirty
      BY <1>1, <2>4, <3>2 DEF DrainAt, DrainType
    <3>3. CASE rest = {} /\ ~dirty
      BY <1>1, <2>4, <3>3, PassEffects
    <3> QED
      BY <3>1, <3>2, <3>3
  <2> QED
    BY <2>1, <2>2, <2>5
<1>5. DrainReset => DrainAt("off", FALSE, {}, {}, {}, {}, {})
  BY <1>1, PassEffects DEF DrainReset
<1>6. DrainThrows => DrainAt("ended", FALSE, {}, {}, {}, {}, {})
  BY <1>1, PassEffects DEF DrainThrows
<1>7. DrainTell => PassOver
  BY <1>1, PassEffects DEF DrainTell
<1>8. ASSUME DrainWrite
      PROVE  IF drain.tell = {} THEN PassOver
             ELSE DrainAt("tell", drain.rerun, drain.base, drain.list, drain.left,
                          drain.known, drain.tell)
  <2>1. drain' = IF drain.tell = {} THEN AfterPass(drain) ELSE [drain EXCEPT !.pc = "tell"]
    BY <1>8 DEF DrainWrite
  <2>2. CASE drain.tell = {}
    BY <1>1, <2>1, <2>2, PassEffects
  <2>3. CASE drain.tell # {}
    BY <1>1, <2>1, <2>3 DEF DrainAt, DrainType
  <2> QED
    BY <2>2, <2>3
<1> QED
  BY <1>2, <1>3, <1>4, <1>5, <1>6, <1>7, <1>8

LEMMA FetchEffects ==
  ASSUME PendInv
  PROVE  /\ DrainFetch => \E b \in drain.left, ok \in BOOLEAN :
              /\ drain.pc = "fetch"
              /\ billRow' = [billRow EXCEPT ![b] = FetchedRow(b, ok)]
              /\ excused' = IF ok THEN excused ELSE excused \cup {b}
              /\ IF ok /\ page[b] = "reason"
                 THEN DrainAt("fetch", drain.rerun, drain.base, drain.list, drain.left \ {b},
                              drain.known \cup {b}, drain.tell)
                 ELSE DrainAt("fetch", drain.rerun, drain.base, drain.list \ {b}, drain.left \ {b},
                              drain.known, drain.tell)
         /\ DrainPersist => \E saved \in SUBSET drain.known :
              \/ PassOver
              \/ DrainAt("write", drain.rerun, drain.base, drain.list \ saved, drain.left, {}, saved)
<1>1. drain \in DrainType
  BY BillTypes DEF PendInv
<1>2. ASSUME DrainFetch
      PROVE  \E b \in drain.left, ok \in BOOLEAN :
              /\ drain.pc = "fetch"
              /\ billRow' = [billRow EXCEPT ![b] = FetchedRow(b, ok)]
              /\ excused' = IF ok THEN excused ELSE excused \cup {b}
              /\ IF ok /\ page[b] = "reason"
                 THEN DrainAt("fetch", drain.rerun, drain.base, drain.list, drain.left \ {b},
                              drain.known \cup {b}, drain.tell)
                 ELSE DrainAt("fetch", drain.rerun, drain.base, drain.list \ {b}, drain.left \ {b},
                              drain.known, drain.tell)
  <2>1. PICK b \in drain.left, ok \in BOOLEAN :
          /\ drain.pc = "fetch"
          /\ billRow' = [billRow EXCEPT ![b] = FetchedRow(b, ok)]
          /\ excused' = IF ok THEN excused ELSE excused \cup {b}
          /\ drain' = IF ok /\ page[b] = "reason"
                      THEN [drain EXCEPT !.left = @ \ {b}, !.known = @ \cup {b}]
                      ELSE [drain EXCEPT !.left = @ \ {b}, !.list = @ \ {b}, !.dirty = TRUE]
    BY <1>2 DEF DrainFetch
  <2>2. b \in Bills
    BY <1>1, <2>1 DEF DrainType
  <2>3. CASE ok /\ page[b] = "reason"
    <3>1. DrainAt("fetch", drain.rerun, drain.base, drain.list, drain.left \ {b},
                  drain.known \cup {b}, drain.tell)
      BY <1>1, <2>1, <2>2, <2>3 DEF DrainAt, DrainType
    <3> QED
      BY <2>1, <2>3, <3>1
  <2>4. CASE ~(ok /\ page[b] = "reason")
    <3>1. DrainAt("fetch", drain.rerun, drain.base, drain.list \ {b}, drain.left \ {b},
                  drain.known, drain.tell)
      BY <1>1, <2>1, <2>2, <2>4 DEF DrainAt, DrainType
    <3> QED
      BY <2>1, <2>4, <3>1
  <2> QED
    BY <2>3, <2>4
<1>3. ASSUME DrainPersist
      PROVE  \E saved \in SUBSET drain.known :
              \/ PassOver
              \/ DrainAt("write", drain.rerun, drain.base, drain.list \ saved, drain.left, {}, saved)
  <2>1. PICK saved \in SUBSET drain.known :
          LET list == Unresolved(drain.list, drain.known, saved)
              dirty == drain.dirty \/ list # drain.list
          IN drain' = IF dirty
                      THEN [drain EXCEPT !.pc = "write", !.list = list, !.dirty = dirty,
                                         !.known = {}, !.tell = saved]
                      ELSE AfterPass(drain)
    BY <1>3 DEF DrainPersist
  <2>2. PICK rest \in SUBSET Bills : rest = drain.list \ saved
    BY <1>1 DEF DrainType
  <2>3. PICK dirty \in BOOLEAN : dirty = (drain.dirty \/ rest # drain.list)
    BY <1>1 DEF DrainType
  <2>4. drain' = IF dirty
                 THEN [drain EXCEPT !.pc = "write", !.list = rest, !.dirty = dirty,
                                    !.known = {}, !.tell = saved]
                 ELSE AfterPass(drain)
    BY <2>1, <2>2, <2>3 DEF Unresolved
  <2>5. saved \subseteq Bills
    BY <1>1, <2>1 DEF DrainType
  <2>6. CASE dirty
    <3>1. DrainAt("write", drain.rerun, drain.base, rest, drain.left, {}, saved)
      BY <1>1, <2>4, <2>5, <2>6 DEF DrainAt, DrainType
    <3> QED
      BY <2>1, <2>2, <3>1
  <2>7. CASE ~dirty
    BY <1>1, <2>1, <2>4, <2>7, PassEffects
  <2> QED
    BY <2>6, <2>7
<1> QED
  BY <1>2, <1>3

\* Rows only change to what is known better; none comes back.
RowsGo ==
  \A b \in Bills : /\ billRow[b] # "none" => billRow'[b] # "none"
                   /\ billRow[b] \notin Unreasoned => billRow'[b] \notin Unreasoned

LEMMA RowWithIs ==
  ASSUME NEW r \in Rows, NEW h \in BOOLEAN
  PROVE  /\ RowWith(r, h) \in Rows \ {"none"}
         /\ h => RowWith(r, h) \notin Unreasoned
         /\ r \notin Unreasoned => RowWith(r, h) = r
         /\ ~h /\ r \in Unreasoned => RowWith(r, h) = "missing"
         /\ RowWith(r, h) = "known" => h \/ r = "known"
BY DEF RowWith, Rows, Unreasoned

\* One bill archived, by the task or by the sync.
LEMMA ArchiveRows ==
  ASSUME billRow \in [Bills -> Rows], NEW b \in Bills, NEW h \in BOOLEAN, NEW w \in BOOLEAN,
         billRow' = IF w THEN [billRow EXCEPT ![b] = RowWith(@, h)] ELSE billRow
  PROVE  /\ billRow' \in [Bills -> Rows] /\ RowsGo
         /\ \A d \in Bills : d # b => billRow'[d] = billRow[d]
         /\ w => billRow'[b] # "none" /\ (h => billRow'[b] \notin Unreasoned)
         /\ billRow'[b] = "known" => (w /\ h) \/ billRow[b] = "known"
         /\ ~w \/ billRow[b] \notin Unreasoned => billRow'[b] = billRow[b]
<1>1. RowWith(billRow[b], h) = RowWith(billRow[b], h) /\ billRow[b] \in Rows
  OBVIOUS
<1>2. PICK r : r = RowWith(billRow[b], h)
  OBVIOUS
<1>3. /\ r \in Rows \ {"none"} /\ (h => r \notin Unreasoned)
      /\ billRow[b] \notin Unreasoned => r = billRow[b]
      /\ r = "known" => h \/ billRow[b] = "known"
  BY <1>1, <1>2, RowWithIs
<1>4. billRow' = IF w THEN [billRow EXCEPT ![b] = r] ELSE billRow
  BY <1>2
<1> QED
  BY <1>3, <1>4 DEF RowsGo, Unreasoned

LEMMA FetchRows ==
  ASSUME billRow \in [Bills -> Rows], NEW b \in Bills, NEW ok \in BOOLEAN, billRow[b] # "none",
         billRow' = [billRow EXCEPT ![b] = FetchedRow(b, ok)]
  PROVE  /\ billRow' \in [Bills -> Rows] /\ RowsGo
         /\ \A d \in Bills : d # b => billRow'[d] = billRow[d]
         /\ ok /\ page[b] = "reason" => billRow'[b] \notin Unreasoned
         /\ billRow'[b] = "known" => (ok /\ page[b] = "reason") \/ billRow[b] = "known"
<1>1. PICK h \in BOOLEAN : h = (ok /\ page[b] = "reason")
  OBVIOUS
<1>2. PICK r : r = RowWith(billRow[b], h)
  OBVIOUS
<1>3. /\ r \in Rows \ {"none"} /\ (h => r \notin Unreasoned)
      /\ billRow[b] \notin Unreasoned => r = billRow[b]
      /\ r = "known" => h \/ billRow[b] = "known"
  BY <1>2, RowWithIs
<1>4. billRow' = [billRow EXCEPT ![b] = IF ok /\ page[b] = "gone" THEN "deleted" ELSE r]
  BY <1>1, <1>2 DEF FetchedRow
<1> QED
  BY <1>1, <1>3, <1>4 DEF RowsGo, Unreasoned, Rows

\* The sync and the quiet runs: a bill is archived, or its row filled, and if the
\* reason comes of it while no drain waits for it (h, w), that is noted.
SilentOne(b, h, w) ==
  /\ billRow' = IF w THEN [billRow EXCEPT ![b] = RowWith(@, h)] ELSE billRow
  /\ again' = again \cup (Finding \cap {b})
  /\ unsaid' = IF w /\ h /\ billRow[b] \in Unreasoned /\ b \notin Awaited THEN unsaid \cup {b} ELSE unsaid
  /\ h => page[b] = "reason"
  /\ FailsUnless(TRUE) \/ FailsUnless(FALSE)

LEMMA SilentOnes ==
  ASSUME PendInv, SyncArchives \/ QuietCapture
  PROVE  /\ \E b \in Bills, h \in BOOLEAN, w \in BOOLEAN : SilentOne(b, h, w)
         /\ UNCHANGED <<site, retryQueue, crawl, caller, drain, asked, bare, full, excused>>
<1>1. SiteTyped
  BY BillTypes DEF PendInv
<1>2. ASSUME NEW b \in Bills, NEW captured \in BOOLEAN, NEW written \in BOOLEAN,
             Archived(b, captured, written)
      PROVE  \E h \in BOOLEAN : SilentOne(b, h, written)
  <2>1. PICK h \in BOOLEAN : h = (captured /\ page[b] = "reason")
    OBVIOUS
  <2>2. FailsUnless(TRUE) \/ FailsUnless(FALSE)
    BY <1>2 DEF Archived, FailsUnless
  <2>3. /\ billRow' = IF written THEN [billRow EXCEPT ![b] = RowWith(@, h)] ELSE billRow
        /\ again' = again \cup (Finding \cap {b})
        /\ unsaid' = IF written /\ h /\ billRow[b] \in {"none", "missing"} /\ b \notin Awaited
                     THEN unsaid \cup {b} ELSE unsaid
    BY <1>2, <2>1 DEF Archived
  <2>4. SilentOne(b, h, written)
    BY <2>1, <2>2, <2>3 DEF SilentOne, Unreasoned
  <2> QED
    BY <2>4
<1>3. CASE SyncArchives
  <2>1. PICK b \in sync.left, captured \in BOOLEAN, written \in BOOLEAN : Archived(b, captured, written)
    BY <1>3 DEF SyncArchives
  <2>2. b \in Bills
    BY <1>1, <2>1 DEF SiteTyped
  <2> QED
    BY <1>2, <1>3, <2>1, <2>2 DEF SyncArchives
<1>4. CASE QuietCapture
  <2>1. PICK r \in QuietRuns : \E b \in quiet[r], captured \in BOOLEAN, written \in BOOLEAN :
          Archived(b, captured, written)
    BY <1>4 DEF QuietCapture
  <2>2. PICK b \in quiet[r], captured \in BOOLEAN, written \in BOOLEAN : Archived(b, captured, written)
    BY <2>1
  <2>3. b \in Bills
    BY <1>1, <2>2 DEF SiteTyped
  <2> QED
    BY <1>2, <1>4, <2>2, <2>3 DEF QuietCapture
<1> QED
  BY <1>3, <1>4

-----------------------------------------------------------------------------
LEMMA CallerTyped ==
  ASSUME CallersTyped, NEW c \in Callers, NEW pc, NEW left, NEW base, NEW known, NEW bill,
         CallerAt(c, pc, left, base, bill, known),
         pc = "idle" => left = {} /\ base = {} /\ bill = 0 /\ known = {}
  PROVE  CallersTyped'
<1>1. ASSUME pc = "idle" PROVE caller'[c] = Idle
  BY <1>1 DEF CallerAt, Idle, CallerType
<1> QED
  BY <1>1 DEF CallersTyped, CallerAt

LEMMA NextBillTyped == PendInv /\ [BillNext]_billVars => BillTypeOK'
<1> SUFFICES ASSUME PendInv, [BillNext]_billVars PROVE BillTypeOK'
  OBVIOUS
<1> USE DEF site, local, toldVars
<1>1. /\ SiteTyped /\ CallersTyped /\ ToldTyped /\ FailuresTyped
      /\ billRow \in [Bills -> Rows] /\ drain \in DrainType
  BY BillTypes DEF PendInv
<1>2. caller \in [Callers -> CallerType] /\ "bills" \in Callers /\ "cron" \in Callers
  BY <1>1 DEF CallersTyped, Callers
<1>3. NewBills \subseteq Bills
  BY <1>1, ScopeIs DEF NewBills, Listed
<1>4. CASE SyncScans
  <2>1. sync' \in [pc : {"scan", "archive", "done"}, left : SUBSET Bills]
    BY <1>3, <1>4 DEF SyncScans, Synced
  <2>2. UNCHANGED failures \/ Fails
    BY <1>4 DEF SyncScans
  <2> QED
    BY <1>1, <1>4, <2>1, <2>2, FailuresKept, TypesAfter DEF SyncScans, SiteTyped, CrawlType,
                                                            CallersTyped, ToldTyped
<1>5. CASE SyncArchives \/ QuietCapture
  <2>1. PICK b \in Bills, h \in BOOLEAN, w \in BOOLEAN : SilentOne(b, h, w)
    BY <1>5, SilentOnes
  <2>2. billRow' \in [Bills -> Rows]
    BY <1>1, <2>1, ArchiveRows DEF SilentOne
  <2>3. again' \subseteq Bills /\ unsaid' \subseteq Bills /\ (FailsUnless(TRUE) \/ FailsUnless(FALSE))
    BY <1>1, <2>1 DEF SilentOne, ToldTyped
  <2>4. UNCHANGED <<site, retryQueue, crawl, caller, drain, asked, bare, full, excused>>
    BY <1>5, SilentOnes
  <2>5. /\ sync' \in [pc : {"scan", "archive", "done"}, left : SUBSET Bills]
        /\ quiet' \in [QuietRuns -> SUBSET Bills]
    BY <1>1, <1>5 DEF SyncArchives, QuietCapture, SiteTyped
  <2> QED
    BY <1>1, <2>2, <2>3, <2>4, <2>5, FailuresKept, TypesAfter
    DEF SiteTyped, CrawlType, CallersTyped, ToldTyped
<1>6. CASE CrawlFilters
  <2>1. crawl' \in CrawlType'
    <3>1. PICK aside \in SUBSET (Listed \cap billScope.aside) :
            crawl' = [pc |-> "launch", found |-> NewBills \ aside, aside |-> NewBills \cap aside,
                      old |-> Listed \ (NewBills \cup aside), count |-> crawl.count + 1]
      BY <1>6 DEF CrawlFilters
    <3>2. Listed \subseteq Bills /\ crawl.count + 1 \in 0 .. billScope.crawls /\ billScope' = billScope
      BY <1>1, <1>6, ScopeIs DEF CrawlFilters, Listed, SiteTyped, CrawlType
    <3> QED
      BY <1>3, <3>1, <3>2 DEF CrawlType
  <2> QED
    BY <1>1, <1>6, <2>1, TypesAfter DEF CrawlFilters, SiteTyped, CrawlType, CallersTyped,
                                        ToldTyped, FailuresTyped
<1>25. CASE ArtifactsBegin
  <2>1. crawl' \in CrawlType'
    BY <1>1, <1>25, ScopeIs DEF ArtifactsBegin, SiteTyped, CrawlType
  <2>2. quiet' \in [QuietRuns -> SUBSET Bills]
    BY <1>1, <1>25 DEF ArtifactsBegin, SiteTyped
  <2> QED
    BY <1>1, <1>25, <2>1, <2>2, TypesAfter
    DEF ArtifactsBegin, SiteTyped, CrawlType, CallersTyped, ToldTyped, FailuresTyped
<1>7. CASE CrawlLaunches
  <2>1. CallersTyped'
    <3>1. CASE caller' = caller
      BY <1>1, <3>1 DEF CallersTyped
    <3>2. CASE caller' # caller
      BY <1>1, <1>2, <1>7, <3>2, TaskEffects, CallerTyped
    <3> QED
      BY <3>1, <3>2
  <2>2. crawl' \in CrawlType'
    BY <1>1, <1>7 DEF CrawlLaunches, NoCrawl, SiteTyped, CrawlType
  <2>3. quiet' \in [QuietRuns -> SUBSET Bills]
    BY <1>1, <1>7 DEF CrawlLaunches, Launch, SiteTyped, CrawlType
  <2> QED
    BY <1>1, <1>7, <2>1, <2>2, <2>3, TypesAfter DEF CrawlLaunches, SiteTyped, CrawlType, ToldTyped,
                                                    FailuresTyped
<1>8. CASE BillArchive
  <2>1. PICK b \in caller["bills"].left, h \in BOOLEAN, w \in BOOLEAN :
          /\ billRow' = IF w THEN [billRow EXCEPT ![b] = RowWith(@, h)] ELSE billRow
          /\ again' = again \cup (crawl.found \cap {b})
          /\ FailsUnless(TRUE) \/ FailsUnless(FALSE)
    BY <1>8, ArchivesOne
  <2>2. b \in Bills
    BY <1>2, <2>1 DEF CallerType
  <2>3. billRow' \in [Bills -> Rows]
    BY <1>1, <2>1, <2>2, ArchiveRows
  <2>4. CallersTyped'
    BY <1>1, <1>2, <1>8, TaskEffects, CallerTyped
  <2> QED
    BY <1>1, <1>8, <2>1, <2>2, <2>3, <2>4, FailuresKept, TypesAfter DEF BillArchive, SiteTyped,
                                                                        CrawlType, ToldTyped
<1>9. CASE BillSplit
  <2>1. bare' \in Counts
    BY <1>1, <1>2, <1>9, ToldCounts DEF BillSplit, ToldTyped, CallerType
  <2>2. CallersTyped'
    BY <1>1, <1>2, <1>9, TaskEffects, CallerTyped
  <2> QED
    BY <1>1, <1>9, <2>1, <2>2, TypesAfter DEF BillSplit, SiteTyped, CrawlType, ToldTyped, FailuresTyped
<1>10. CASE BillTell
  <2>1. PICK saved \in SUBSET caller["bills"].known :
          /\ full' = Told(full, saved) /\ excused' = excused \cup (caller["bills"].known \ saved)
          /\ FailsUnless(TRUE) \/ FailsUnless(FALSE)
    BY <1>10 DEF BillTell, FailsUnless
  <2>2. caller["bills"].known \subseteq Bills
    BY <1>2 DEF CallerType
  <2>3. full' \in Counts
    BY <1>1, <2>1, <2>2, ToldCounts DEF ToldTyped
  <2>4. CallersTyped'
    BY <1>1, <1>2, <1>10, TaskEffects, CallerTyped
  <2> QED
    BY <1>1, <1>10, <2>1, <2>2, <2>3, <2>4, FailuresKept, TypesAfter DEF BillTell, SiteTyped,
                                                                         CrawlType, ToldTyped
<1>11. ASSUME NEW c \in Callers, EnqueueRead(c) PROVE BillTypeOK'
  <2>1. PICK b \in caller[c].left :
          /\ bare' = bare \/ bare' = Told(bare, {b})
          /\ again' \subseteq again \cup {b}
          /\ FailsUnless(TRUE) \/ FailsUnless(FALSE)
    BY <1>11 DEF EnqueueRead, FailsUnless
  <2>2. b \in Bills
    BY <1>2, <2>1 DEF CallerType
  <2>3. bare' \in Counts
    BY <1>1, <2>1, <2>2, ToldCounts DEF ToldTyped
  <2>4. CallersTyped'
    BY <1>1, <1>11, EnqueueEffects, CallerTyped
  <2> QED
    BY <1>1, <1>11, <2>1, <2>2, <2>3, <2>4, FailuresKept, TypesAfter DEF EnqueueRead, SiteTyped,
                                                                         CrawlType, ToldTyped
<1>12. ASSUME NEW c \in Callers, EnqueueWrite(c) PROVE BillTypeOK'
  <2>1. caller[c].bill \in Bills /\ caller[c].base \subseteq Bills
    BY <1>2, <1>12 DEF PendInv, BillInv, HandsFit, EnqueueWrite, CallerType
  <2>2. CallersTyped'
    BY <1>1, <1>12, EnqueueEffects, CallerTyped
  <2>3. /\ retryQueue' \subseteq Bills /\ again' \subseteq Bills /\ excused' \subseteq Bills
        /\ UNCHANGED failures \/ Fails
    BY <1>1, <1>12, <2>1 DEF EnqueueWrite, SiteTyped, ToldTyped
  <2> QED
    BY <1>1, <1>12, <2>2, <2>3, FailuresKept, TypesAfter DEF EnqueueWrite, SiteTyped, CrawlType, ToldTyped
<1>13. ASSUME NEW c \in Callers, EnqueueDone(c) PROVE BillTypeOK'
  <2>1. caller["cron"].known = {}
    BY DEF PendInv, BillInv, HandsFit
  <2>2. CallersTyped'
    <3>1. CASE c = "bills"
      BY <1>1, <1>13, <3>1, EnqueueEffects, CallerTyped
    <3>2. CASE c = "cron"
      BY <1>1, <1>13, <2>1, <3>2, EnqueueEffects, CallerTyped
    <3> QED
      BY <3>1, <3>2 DEF Callers
  <2>3. drain' \in DrainType /\ asked' \in {"no", "during", "late"}
    BY <1>1, <1>13, RequestEffects DEF EnqueueDone, DrainAt
  <2> QED
    BY <1>1, <1>13, <2>2, <2>3, TypesAfter DEF EnqueueDone, SiteTyped, CrawlType, ToldTyped, FailuresTyped
<1>14. CASE DrainRead \/ DrainCheck \/ DrainReset \/ DrainThrows
  <2>1. drain' \in DrainType
    BY <1>14, DrainEffects DEF DrainAt, PassOver
  <2>2. /\ UNCHANGED failures \/ Fails \/ FailsUnless(TRUE) \/ FailsUnless(FALSE)
        /\ asked' \in {asked, "no"} /\ UNCHANGED <<site, billRow, retryQueue, sync, crawl, quiet, caller, toldVars>>
    BY <1>14 DEF DrainRead, DrainCheck, DrainReset, DrainThrows, FailsUnless
  <2> QED
    BY <1>1, <2>1, <2>2, FailuresKept, TypesAfter DEF SiteTyped, CrawlType, CallersTyped, ToldTyped
<1>15. CASE DrainPrune
  <2>1. PICK old \in SUBSET NotDeleted(drain.list) :
          /\ bare' = Told(bare, old) /\ again' = again \cup old /\ excused' = excused \cup old
          /\ drain' \in DrainType
    BY <1>15, DrainEffects DEF DrainAt, PassOver
  <2>2. old \subseteq Bills
    BY <1>1, <2>1 DEF NotDeleted, DrainType
  <2>3. bare' \in Counts
    BY <1>1, <2>1, <2>2, ToldCounts DEF ToldTyped
  <2>4. FailsUnless(TRUE) \/ FailsUnless(FALSE)
    BY <1>15 DEF DrainPrune, FailsUnless
  <2> QED
    BY <1>1, <1>15, <2>1, <2>2, <2>3, <2>4, FailuresKept, TypesAfter
    DEF DrainPrune, SiteTyped, CrawlType, CallersTyped, ToldTyped
<1>16. CASE DrainFetch
  <2>1. PICK b \in drain.left, ok \in BOOLEAN :
          /\ drain.pc = "fetch"
          /\ billRow' = [billRow EXCEPT ![b] = FetchedRow(b, ok)]
          /\ excused' \subseteq excused \cup {b}
          /\ drain' \in DrainType
    BY <1>16, FetchEffects DEF DrainAt
  <2>2. b \in Bills /\ billRow[b] # "none"
    BY <1>1, <2>1 DEF DrainType, PendInv, BillInv, HandsFit, DrainFits
  <2>3. billRow' \in [Bills -> Rows]
    BY <1>1, <2>1, <2>2, FetchRows
  <2>4. FailsUnless(TRUE) \/ FailsUnless(FALSE)
    BY <1>16 DEF DrainFetch, FailsUnless
  <2> QED
    BY <1>1, <1>16, <2>1, <2>2, <2>3, <2>4, FailuresKept, TypesAfter
    DEF DrainFetch, SiteTyped, CrawlType, CallersTyped, ToldTyped
<1>17. CASE DrainPersist
  <2>1. drain' \in DrainType
    BY <1>17, FetchEffects DEF DrainAt, PassOver
  <2>2. FailsUnless(TRUE) \/ FailsUnless(FALSE)
    BY <1>17 DEF DrainPersist, FailsUnless
  <2> QED
    BY <1>1, <1>17, <2>1, <2>2, FailuresKept, TypesAfter
    DEF DrainPersist, SiteTyped, CrawlType, CallersTyped, ToldTyped
<1>18. CASE DrainWrite
  <2>1. drain' \in DrainType
    BY <1>18, DrainEffects DEF DrainAt, PassOver
  <2>2. /\ retryQueue' \subseteq Bills /\ again' \subseteq Bills /\ excused' \subseteq Bills
        /\ UNCHANGED failures \/ Fails
    BY <1>1, <1>18 DEF DrainWrite, DrainType, SiteTyped, ToldTyped
  <2> QED
    BY <1>1, <1>18, <2>1, <2>2, FailuresKept, TypesAfter
    DEF DrainWrite, SiteTyped, CrawlType, CallersTyped, ToldTyped
<1>19. CASE DrainTell
  <2>1. drain' \in DrainType /\ full' \in Counts
    BY <1>1, <1>19, DrainEffects, ToldCounts DEF DrainAt, PassOver, DrainTell, ToldTyped, DrainType
  <2> QED
    BY <1>1, <1>19, <2>1, TypesAfter
    DEF DrainTell, SiteTyped, CrawlType, CallersTyped, ToldTyped, FailuresTyped
<1>20. CASE CronSeeds
  <2>1. CallersTyped'
    BY <1>1, <1>2, <1>20, TaskEffects, CallerTyped
  <2> QED
    BY <1>1, <1>20, <2>1, TypesAfter DEF CronSeeds, SiteTyped, CrawlType, ToldTyped, FailuresTyped
<1>21. CASE PageChanges
  <2>1. page' \in [Bills -> Pages]
    BY <1>1 , <1>21 DEF PageChanges, SiteTyped, Pages
  <2> QED
    BY <1>1, <1>21, <2>1, TypesAfter DEF PageChanges, SiteTyped, CrawlType, CallersTyped,
                                         ToldTyped, FailuresTyped
<1>22. CASE PalTakesOver
  <2>1. billRow' \in [Bills -> Rows]
    BY <1>1 , <1>22 DEF PalTakesOver, Rows
  <2> QED
    BY <1>1, <1>22, <2>1, TypesAfter DEF PalTakesOver, SiteTyped, CrawlType, CallersTyped,
                                         ToldTyped, FailuresTyped
<1>23. CASE BillRestart
  <2>1. CallersTyped'
    BY <1>23, IdleTyped DEF BillRestart, CallersTyped
  <2>2. drain' \in DrainType
    BY <1>1, <1>23, PassEffects DEF BillRestart, DrainAt
  <2>3. caller["bills"].known \subseteq Bills /\ drain.tell \subseteq Bills
    BY <1>1, <1>2 DEF CallerType, DrainType
  <2>4. crawl' \in CrawlType' /\ quiet' \in [QuietRuns -> SUBSET Bills]
    BY <1>1, <1>23 DEF BillRestart, NoCrawl, Quiet, SiteTyped, CrawlType
  <2> QED
    BY <1>1, <1>23, <2>1, <2>2, <2>3, <2>4, FailuresKept, TypesAfter
    DEF BillRestart, SiteTyped, CrawlType, ToldTyped, Scanning
<1>24. CASE UNCHANGED billVars
  BY <1>1, <1>24, TypesAfter DEF billVars, SiteTyped, CrawlType, CallersTyped, ToldTyped, FailuresTyped
<1> QED
  BY <1>2, <1>4, <1>5, <1>6, <1>7, <1>8, <1>9, <1>10, <1>11, <1>12, <1>13, <1>14, <1>15, <1>16, <1>17,
     <1>18, <1>19, <1>20, <1>21, <1>22, <1>23, <1>24, <1>25
  DEF BillNext, SyncStep, BillStep, DrainStep, CallerStep

\* The steps by what they leave alone.
LEMMA BillFrames ==
  ASSUME [BillNext]_billVars
  PROVE  \/ SyncScans \/ SyncArchives \/ QuietCapture \/ ArtifactsBegin \/ CrawlFilters
         \/ CrawlLaunches
         \/ BillArchive \/ BillSplit \/ BillTell \/ (\E c \in Callers : CallerStep(c))
         \/ DrainRead \/ DrainCheck \/ DrainPrune \/ DrainFetch \/ DrainPersist \/ DrainWrite
         \/ DrainTell \/ DrainReset \/ DrainThrows
         \/ CronSeeds \/ PageChanges \/ PalTakesOver \/ BillRestart \/ UNCHANGED billVars
BY DEF BillNext, SyncStep, BillStep, DrainStep, Callers

LEMMA SyncFirstNext == PendInv /\ [BillNext]_billVars => SyncFirst'
<1> SUFFICES ASSUME PendInv, [BillNext]_billVars PROVE SyncFirst'
  OBVIOUS
<1> USE DEF site, local, toldVars
<1>1. SyncFirst
  BY DEF PendInv, BillInv
<1>2. ASSUME UNCHANGED <<sync, crawl, caller>> PROVE SyncFirst'
  BY <1>1, <1>2 DEF SyncFirst
<1>3. ASSUME sync.pc = "done", sync' = sync PROVE SyncFirst'
  BY <1>3 DEF SyncFirst
<1>4. CASE SyncScans \/ SyncArchives
  <2>1. sync.pc # "done" /\ UNCHANGED <<crawl, caller>>
    BY <1>4 DEF SyncScans, SyncArchives
  <2> QED
    BY <1>1, <2>1 DEF SyncFirst
<1>5. CASE CrawlFilters \/ CronSeeds \/ ArtifactsBegin
  BY <1>3, <1>5 DEF CrawlFilters, CronSeeds, SchedulerIdle, ArtifactsBegin
<1>6. CASE CrawlLaunches
  BY <1>1, <1>3, <1>6 DEF CrawlLaunches, SyncFirst
<1>7. CASE BillArchive \/ BillSplit \/ BillTell \/ \E c \in Callers : CallerStep(c)
  <2>1. (\E c \in Callers : caller[c].pc # "idle") /\ sync' = sync
    BY <1>7
    DEF BillArchive, BillSplit, BillTell, CallerStep, EnqueueRead, EnqueueWrite, EnqueueDone, Callers
  <2>2. sync.pc = "done"
    BY <1>1, <2>1 DEF SyncFirst, Idle
  <2> QED
    BY <1>3, <2>1, <2>2
<1>8. CASE \/ DrainRead \/ DrainCheck \/ DrainPrune \/ DrainFetch \/ DrainPersist \/ DrainWrite
           \/ DrainTell \/ DrainReset \/ DrainThrows \/ PageChanges \/ PalTakesOver
           \/ QuietCapture \/ UNCHANGED billVars
  BY <1>2, <1>8
  DEF QuietCapture, DrainRead, DrainCheck, DrainPrune, DrainFetch, DrainPersist, DrainWrite,
      DrainTell, DrainReset,
      DrainThrows, PageChanges, PalTakesOver, billVars
<1>9. CASE BillRestart
  BY <1>9 DEF BillRestart, NoCrawl, SyncFirst
<1> QED
  BY <1>4, <1>5, <1>6, <1>7, <1>8, <1>9, BillFrames

LEMMA DrainFitsNext == PendInv /\ [BillNext]_billVars => DrainFits' /\ Heard'
<1> SUFFICES ASSUME PendInv, [BillNext]_billVars PROVE DrainFits' /\ Heard'
  OBVIOUS
<1> USE DEF site, local, toldVars
<1>1. DrainFits /\ Heard
  BY DEF PendInv, BillInv
<1>2. drain \in DrainType
  BY BillTypes DEF PendInv
<1>3. ASSUME UNCHANGED <<drain, asked>> PROVE DrainFits' /\ Heard'
  BY <1>1, <1>3 DEF DrainFits, Heard
<1>4. ASSUME PassOver, asked' = asked \/ asked' = "no", drain.pc = "read" => asked' = "no"
      PROVE  DrainFits' /\ Heard'
  BY <1>1, <1>4 DEF PassOver, DrainAt, DrainFits, Heard
<1>5. ASSUME NEW p \in Working \cup {"tell"}, NEW base, NEW list, NEW left, NEW known, NEW tell,
             DrainAt(p, drain.rerun, base, list, left, known, tell),
             asked' = "no" \/ (asked' = asked /\ drain.pc # "read")
      PROVE  /\ Heard'
             /\ /\ list \subseteq base /\ left \subseteq list /\ known \subseteq list \ left
                /\ p # "fetch" => left = {} /\ known = {}
                /\ p \notin {"write", "tell"} => tell = {}
                /\ p = "write" => tell \subseteq base \ list
                => DrainFits'
  <2>1. Heard'
    BY <1>1, <1>5 DEF DrainAt, Heard, Working
  <2>2. ASSUME list \subseteq base, left \subseteq list, known \subseteq list \ left,
               p # "fetch" => left = {} /\ known = {}, p \notin {"write", "tell"} => tell = {},
               p = "write" => tell \subseteq base \ list
        PROVE  DrainFits'
    BY <1>5, <2>2 DEF DrainAt, DrainFits, Working
  <2> QED
    BY <2>1, <2>2
<1>6. CASE DrainRead
  <2>1. drain.pc = "read" /\ asked' = "no"
    BY <1>6 DEF DrainRead
  <2>2. drain.known = {} /\ drain.tell = {} /\ drain.left = {}
    BY <1>1, <2>1 DEF DrainFits
  <2>3. CASE PassOver
    BY <1>4, <2>1, <2>3
  <2>4. CASE DrainAt("check", drain.rerun, retryQueue, retryQueue, drain.left, drain.known, drain.tell)
    BY <1>5, <2>1, <2>2, <2>4 DEF Working
  <2> QED
    BY <1>6, <2>3, <2>4, DrainEffects
<1>7. CASE DrainCheck
  <2>1. drain.pc = "check" /\ asked' = asked
    BY <1>7 DEF DrainCheck
  <2>2. drain.known = {} /\ drain.tell = {} /\ drain.left = {} /\ StillNsm(drain.list) \subseteq drain.base
    BY <1>1, <2>1 DEF DrainFits, StillNsm
  <2> QED
    BY <1>5, <1>7, <2>1, <2>2, DrainEffects DEF Working
<1>8. CASE DrainPrune
  <2>1. drain.pc = "prune" /\ asked' = asked
    BY <1>8 DEF DrainPrune
  <2>2. drain.known = {} /\ drain.tell = {} /\ drain.left = {} /\ NotDeleted(drain.list) \subseteq drain.base
    BY <1>1, <2>1 DEF DrainFits, NotDeleted
  <2>3. PICK old \in SUBSET NotDeleted(drain.list), list \in SUBSET NotDeleted(drain.list) :
          \/ DrainAt("fetch", drain.rerun, drain.base, list, list, drain.known, drain.tell)
          \/ DrainAt("write", drain.rerun, drain.base, {}, drain.left, drain.known, drain.tell)
          \/ PassOver
    BY <1>8, DrainEffects
  <2>4. CASE DrainAt("fetch", drain.rerun, drain.base, list, list, drain.known, drain.tell)
    BY <1>5, <2>1, <2>2, <2>4 DEF Working
  <2>5. CASE DrainAt("write", drain.rerun, drain.base, {}, drain.left, drain.known, drain.tell)
    BY <1>5, <2>1, <2>2, <2>5 DEF Working
  <2> QED
    BY <1>4, <2>1, <2>3, <2>4, <2>5
<1>9. CASE DrainFetch
  <2>1. PICK b \in drain.left, ok \in BOOLEAN :
          /\ drain.pc = "fetch" /\ asked' = asked
          /\ IF ok /\ page[b] = "reason"
             THEN DrainAt("fetch", drain.rerun, drain.base, drain.list, drain.left \ {b},
                          drain.known \cup {b}, drain.tell)
             ELSE DrainAt("fetch", drain.rerun, drain.base, drain.list \ {b}, drain.left \ {b},
                          drain.known, drain.tell)
    BY <1>9, FetchEffects DEF DrainFetch
  <2>2. drain.tell = {} /\ drain.list \subseteq drain.base /\ drain.left \subseteq drain.list
        /\ drain.known \subseteq drain.list \ drain.left
    BY <1>1, <2>1 DEF DrainFits
  <2>3. CASE DrainAt("fetch", drain.rerun, drain.base, drain.list, drain.left \ {b},
                     drain.known \cup {b}, drain.tell)
    BY <1>5, <2>1, <2>2, <2>3 DEF Working
  <2>4. CASE DrainAt("fetch", drain.rerun, drain.base, drain.list \ {b}, drain.left \ {b},
                     drain.known, drain.tell) /\ ~(ok /\ page[b] = "reason")
    <3>1. b \notin drain.known
      BY <1>1, <2>1 DEF DrainFits
    <3> QED
      BY <1>5, <2>1, <2>2, <2>4, <3>1 DEF Working
  <2> QED
    BY <2>1, <2>3, <2>4
<1>10. CASE DrainPersist
  <2>1. drain.pc = "fetch" /\ drain.left = {} /\ asked' = asked
    BY <1>10 DEF DrainPersist
  <2>2. drain.list \subseteq drain.base /\ drain.known \subseteq drain.list
    BY <1>1 DEF DrainFits
  <2>3. PICK saved \in SUBSET drain.known :
          PassOver \/ DrainAt("write", drain.rerun, drain.base, drain.list \ saved, drain.left, {}, saved)
    BY <1>10, FetchEffects
  <2>4. CASE PassOver
    BY <1>4, <2>1, <2>4
  <2>5. CASE DrainAt("write", drain.rerun, drain.base, drain.list \ saved, drain.left, {}, saved)
    BY <1>5, <2>1, <2>2, <2>5 DEF Working
  <2> QED
    BY <2>3, <2>4, <2>5
<1>11. CASE DrainWrite
  <2>1. drain.pc = "write" /\ asked' = asked
    BY <1>11 DEF DrainWrite
  <2>2. drain.list \subseteq drain.base /\ drain.known = {} /\ drain.left = {}
    BY <1>1, <2>1 DEF DrainFits
  <2>3. CASE PassOver
    BY <1>4, <2>1, <2>3
  <2>4. CASE DrainAt("tell", drain.rerun, drain.base, drain.list, drain.left, drain.known, drain.tell)
    BY <1>5, <2>1, <2>2, <2>4
  <2> QED
    BY <1>11, <2>3, <2>4, DrainEffects
<1>12. CASE DrainTell
  <2>1. drain.pc = "tell" /\ asked' = asked /\ PassOver
    BY <1>12, DrainEffects DEF DrainTell
  <2> QED
    BY <1>4, <2>1
<1>13. CASE DrainReset \/ DrainThrows
  <2>1. asked' # "during"
    BY <1>1, <1>13 DEF DrainReset, DrainThrows, Heard
  <2> QED
    BY <1>13, <2>1, DrainEffects DEF DrainAt, DrainFits, Heard
<1>14. ASSUME NEW c \in Callers, CallerStep(c) PROVE DrainFits' /\ Heard'
  <2>1. CASE EnqueueRead(c) \/ EnqueueWrite(c)
    BY <1>3, <2>1 DEF EnqueueRead, EnqueueWrite
  <2>2. CASE EnqueueDone(c)
    <3>1. RequestDrain
      BY <2>2 DEF EnqueueDone
    <3>2. CASE drain.pc = "off"
      BY <1>2, <3>1, <3>2, RequestEffects DEF DrainAt, DrainFits, Heard
    <3>3. CASE drain.pc # "off"
      BY <1>1, <1>2, <3>1, <3>3, RequestEffects DEF DrainAt, DrainFits, Heard
    <3> QED
      BY <3>2, <3>3
  <2> QED
    BY <1>14, <2>1, <2>2 DEF CallerStep
<1>15. CASE BillRestart
  BY <1>2, <1>15, PassEffects DEF BillRestart, DrainAt, DrainFits, Heard
<1>16. CASE \/ SyncScans \/ SyncArchives \/ QuietCapture \/ ArtifactsBegin \/ CrawlFilters \/ CrawlLaunches
            \/ BillArchive \/ BillSplit \/ BillTell
            \/ CronSeeds \/ PageChanges \/ PalTakesOver \/ UNCHANGED billVars
  BY <1>3, <1>16
  DEF SyncScans, SyncArchives, QuietCapture, ArtifactsBegin, CrawlFilters, CrawlLaunches,
      BillArchive, BillSplit, BillTell,
      CronSeeds, PageChanges, PalTakesOver, billVars
<1> QED
  BY <1>6, <1>7, <1>8, <1>9, <1>10, <1>11, <1>12, <1>13, <1>14, <1>15, <1>16, BillFrames

LEMMA CapacityNext == PendInv /\ [BillNext]_billVars => Capacity'
<1> SUFFICES ASSUME PendInv, [BillNext]_billVars PROVE Capacity'
  OBVIOUS
<1> USE DEF site, local, toldVars
<1>1. Capacity /\ DrainFits
  BY DEF PendInv, BillInv
<1>2. /\ billScope.size \in Nat /\ billScope.size > 0 /\ SiteTyped /\ drain \in DrainType
      /\ caller \in [Callers -> CallerType] /\ IsFiniteSet(Bills) /\ Bills \subseteq Nat
      /\ retryQueue \subseteq Bills
  BY BillTypes, ScopeIs, BillAssumption DEF PendInv, SiteTyped, CallersTyped
<1>3. \A S \in SUBSET Bills : IsFiniteSet(S) /\ Cardinality(S) \in Nat
  BY <1>2, FS_Subset, FS_CardinalityType
<1>4. Cardinality({}) = 0
  BY FS_EmptySet
<1>5. billScope' = billScope
  BY BillFrames DEF SyncScans, SyncArchives, QuietCapture, ArtifactsBegin, CrawlFilters,
                    CrawlLaunches, BillArchive, BillSplit, BillTell,
      CallerStep, EnqueueRead, EnqueueWrite, EnqueueDone,
      DrainRead, DrainCheck, DrainPrune, DrainFetch, DrainPersist, DrainWrite, DrainTell, DrainReset,
      DrainThrows, CronSeeds, PageChanges, PalTakesOver, BillRestart, billVars
<1>6. ASSUME UNCHANGED retryQueue, drain'.base \in {drain.base, retryQueue, {}},
             \A c \in Callers : caller'[c].pc = "write" =>
               caller'[c] = caller[c] \/ Cardinality(caller'[c].base) < billScope.size
      PROVE  Capacity'
  <2>1. /\ Cardinality(retryQueue) <= billScope.size /\ Cardinality(drain.base) <= billScope.size
        /\ Cardinality({}) <= billScope.size
    BY <1>1, <1>2, <1>4 DEF Capacity
  <2>2. Cardinality(drain'.base) <= billScope.size
    <3>1. CASE drain'.base = drain.base
      BY <2>1, <3>1
    <3>2. CASE drain'.base = retryQueue
      BY <2>1, <3>2
    <3>3. CASE drain'.base = {}
      BY <2>1, <3>3
    <3> QED
      BY <1>6, <3>1, <3>2, <3>3
  <2>3. ASSUME NEW c \in Callers, caller'[c].pc = "write"
        PROVE  Cardinality(caller'[c].base) < billScope.size
    BY <1>1, <1>6, <2>3 DEF Capacity
  <2> QED
    BY <1>5, <1>6, <2>1, <2>2, <2>3 DEF Capacity
<1>7. ASSUME NEW c \in Callers, EnqueueRead(c) PROVE Capacity'
  <2>1. PICK b \in caller[c].left, list \in {retryQueue, {}} :
          IF AtCapacity(list) \/ b \in list
          THEN CallerAt(c, "read", caller[c].left \ {b}, {}, 0, caller[c].known)
          ELSE CallerAt(c, "write", caller[c].left, list, b, caller[c].known)
    BY <1>7, EnqueueEffects
  <2>2. Cardinality(list) \in Nat
    BY <1>2, <1>3, <2>1
  <2>3. ASSUME NEW d \in Callers, caller'[d].pc = "write"
        PROVE  caller'[d] = caller[d] \/ Cardinality(caller'[d].base) < billScope.size
    <3>1. CASE AtCapacity(list) \/ b \in list
      BY <2>1, <2>3, <3>1 DEF CallerAt
    <3>2. CASE ~(AtCapacity(list) \/ b \in list)
      BY <1>2, <2>1, <2>2, <2>3, <3>2 DEF CallerAt, AtCapacity
    <3> QED
      BY <3>1, <3>2
  <2>4. UNCHANGED <<retryQueue, drain>>
    BY <1>7 DEF EnqueueRead
  <2> QED
    BY <1>6, <2>3, <2>4
<1>8. ASSUME NEW c \in Callers, EnqueueWrite(c) PROVE Capacity'
  <2>1. CallerAt(c, "read", caller[c].left \ {caller[c].bill}, {}, 0, caller[c].known)
    BY <1>8, EnqueueEffects
  <2>2. caller[c].pc = "write" /\ caller[c].base \subseteq Bills /\ drain' = drain
        /\ (retryQueue' = retryQueue \/ retryQueue' = caller[c].base \cup {caller[c].bill})
    BY <1>2, <1>8 DEF EnqueueWrite, CallerType
  <2>3. PICK S \in SUBSET Bills, b \in {caller[c].bill} : S = caller[c].base /\ b = caller[c].bill
    BY <2>2
  <2>4. Cardinality(S) < billScope.size /\ Cardinality(S) \in Nat /\ IsFiniteSet(S)
    BY <1>1, <1>3, <2>2, <2>3 DEF Capacity
  <2>5. Cardinality(S \cup {b}) \in {Cardinality(S), Cardinality(S) + 1}
    BY <2>4, FS_AddElement
  <2>6. Cardinality(retryQueue') <= billScope.size
    <3>1. Cardinality(S \cup {b}) <= billScope.size
      BY <1>2, <2>4, <2>5
    <3>2. Cardinality(retryQueue) <= billScope.size
      BY <1>1 DEF Capacity
    <3>3. retryQueue' \in {retryQueue, S \cup {b}}
      BY <2>2, <2>3
    <3> QED
      BY <3>1, <3>2, <3>3
  <2> QED
    BY <1>1, <1>5, <2>1, <2>2, <2>6 DEF Capacity, CallerAt
<1>9. ASSUME NEW c \in Callers, EnqueueDone(c) PROVE Capacity'
  <2>1. CallerAt(c, IF c = "bills" THEN "tell" ELSE "idle", {}, {}, 0, caller[c].known)
        /\ retryQueue' = retryQueue /\ drain'.base \in {drain.base, {}}
    BY <1>2, <1>9, EnqueueEffects, RequestEffects DEF EnqueueDone, DrainAt
  <2> QED
    BY <1>6, <2>1 DEF CallerAt
<1>10. CASE CrawlLaunches \/ BillArchive \/ BillSplit \/ BillTell \/ CronSeeds
  <2>1. retryQueue' = retryQueue /\ drain' = drain
    BY <1>10 DEF CrawlLaunches, BillArchive, BillSplit, BillTell, CronSeeds
  <2>2. \A c \in Callers : caller'[c] = caller[c] \/ caller'[c].pc # "write"
    BY <1>10, TaskEffects DEF CallerAt
  <2> QED
    BY <1>6, <2>1, <2>2
<1>11. CASE \/ DrainRead \/ DrainCheck \/ DrainPrune \/ DrainFetch \/ DrainPersist
            \/ DrainTell \/ DrainReset \/ DrainThrows
  <2>1. drain'.base \in {drain.base, retryQueue, {}}
    BY <1>11, DrainEffects, FetchEffects DEF DrainAt, PassOver
  <2>2. retryQueue' = retryQueue /\ caller' = caller
    BY <1>11 DEF DrainRead, DrainCheck, DrainPrune, DrainFetch, DrainPersist, DrainTell, DrainReset,
      DrainThrows
  <2> QED
    BY <1>6, <2>1, <2>2
<1>12. CASE DrainWrite
  <2>1. drain'.base \in {drain.base, {}} /\ caller' = caller /\ retryQueue' \in {retryQueue, drain.list}
    BY <1>12, DrainEffects DEF DrainAt, PassOver, DrainWrite
  <2>2. drain.list \subseteq drain.base /\ drain.base \subseteq Bills
    BY <1>1, <1>2 DEF DrainFits, DrainType
  <2>3. Cardinality(drain.list) <= Cardinality(drain.base)
    BY <1>3, <2>2, FS_Subset
  <2>4. Cardinality(drain.list) \in Nat /\ Cardinality(drain.base) \in Nat
    BY <1>3, <2>2
  <2>5. Cardinality(retryQueue') <= billScope.size
    BY <1>1, <1>2, <2>1, <2>3, <2>4 DEF Capacity
  <2>6. Cardinality(drain'.base) <= billScope.size
    <3>1. CASE drain'.base = drain.base
      BY <1>1, <3>1 DEF Capacity
    <3>2. CASE drain'.base = {}
      BY <1>2, <1>4, <3>2
    <3> QED
      BY <2>1, <3>1, <3>2
  <2>7. \A c \in Callers : caller'[c].pc = "write" => Cardinality(caller'[c].base) < billScope.size
    BY <1>1, <2>1 DEF Capacity
  <2> QED
    BY <1>5, <2>5, <2>6, <2>7 DEF Capacity
<1>13. CASE BillRestart
  BY <1>2, <1>6, <1>13, PassEffects DEF BillRestart, DrainAt, Idle
<1>14. CASE \/ SyncScans \/ SyncArchives \/ QuietCapture \/ ArtifactsBegin \/ CrawlFilters
            \/ PageChanges \/ PalTakesOver \/ UNCHANGED billVars
  BY <1>6, <1>14 DEF SyncScans, SyncArchives, QuietCapture, ArtifactsBegin, CrawlFilters,
                     PageChanges, PalTakesOver, billVars
<1> QED
  BY <1>7, <1>8, <1>9, <1>10, <1>11, <1>12, <1>13, <1>14, BillFrames DEF CallerStep

\* What a step may do to the rows and to the announcements of a bill.
LEMMA RowsNext ==
  ASSUME PendInv, [BillNext]_billVars
  PROVE  /\ RowsGo
         /\ \A b \in Bills :
              /\ billRow'[b] = "known" => billRow[b] = "known" \/ page[b] = "reason"
              /\ page[b] = "reason" => page'[b] = "reason"
              /\ bare'[b] = bare[b] \/ billRow[b] # "none"
              /\ full'[b] = full[b] \/ billRow[b] \notin Unreasoned
<1> USE DEF site, local, toldVars
<1>1. /\ billRow \in [Bills -> Rows] /\ drain \in DrainType /\ page \in [Bills -> Pages]
      /\ caller \in [Callers -> CallerType] /\ "bills" \in Callers /\ "cron" \in Callers
      /\ bare \in Counts /\ full \in Counts /\ HandsFit /\ DrainFits /\ sync.left \subseteq Bills
  BY BillTypes DEF PendInv, SiteTyped, CallersTyped, Callers, ToldTyped, BillInv
<1> DEFINE Go == /\ RowsGo
                 /\ \A b \in Bills :
                      /\ billRow'[b] = "known" => billRow[b] = "known" \/ page[b] = "reason"
                      /\ page[b] = "reason" => page'[b] = "reason"
                      /\ bare'[b] = bare[b] \/ billRow[b] # "none"
                      /\ full'[b] = full[b] \/ billRow[b] \notin Unreasoned
<1> SUFFICES Go
  OBVIOUS
<1>2. CASE UNCHANGED <<billRow, page, bare, full>>
  BY <1>2 DEF RowsGo
<1>3. ASSUME NEW B \in SUBSET Bills, \A b \in B : billRow[b] # "none", bare' = Told(bare, B),
             UNCHANGED <<billRow, page, full>>
      PROVE  Go
  BY <1>1, <1>3, ToldCounts DEF RowsGo
<1>4. ASSUME NEW B \in SUBSET Bills, \A b \in B : billRow[b] \notin Unreasoned, full' = Told(full, B),
             UNCHANGED <<billRow, page, bare>>
      PROVE  Go
  BY <1>1, <1>4, ToldCounts DEF RowsGo
<1>5. ASSUME NEW b \in Bills, NEW captured \in BOOLEAN, NEW w \in BOOLEAN,
             billRow' = IF w THEN [billRow EXCEPT ![b] = RowWith(@, captured /\ page[b] = "reason")]
                        ELSE billRow,
             UNCHANGED <<page, bare, full>>
      PROVE  Go
  <2>1. PICK h \in BOOLEAN : h = (captured /\ page[b] = "reason")
    OBVIOUS
  <2>2. /\ RowsGo /\ \A d \in Bills : d # b => billRow'[d] = billRow[d]
        /\ billRow'[b] = "known" => h \/ billRow[b] = "known"
    BY <1>1, <1>5, <2>1, ArchiveRows
  <2> QED
    BY <1>5, <2>1, <2>2
<1>6. CASE SyncArchives \/ QuietCapture
  <2>1. PICK b \in Bills, h \in BOOLEAN, w \in BOOLEAN : SilentOne(b, h, w)
    BY <1>6, SilentOnes
  <2>2. /\ RowsGo /\ \A d \in Bills : d # b => billRow'[d] = billRow[d]
        /\ billRow'[b] = "known" => h \/ billRow[b] = "known"
    BY <1>1, <2>1, ArchiveRows DEF SilentOne
  <2>3. UNCHANGED <<page, bare, full>>
    BY <1>6, SilentOnes
  <2> QED
    BY <2>1, <2>2, <2>3 DEF SilentOne
<1>7. CASE BillArchive
  BY <1>1, <1>5, <1>7 DEF BillArchive, CallerType
<1>8. CASE BillSplit
  <2>1. caller["bills"].base \subseteq Bills /\ \A b \in caller["bills"].base : billRow[b] # "none"
    BY <1>1 DEF HandsFit, CallerType
  <2> QED
    BY <1>3, <1>8, <2>1 DEF BillSplit
<1>9. CASE BillTell
  <2>1. caller["bills"].known \subseteq Bills /\ \A b \in caller["bills"].known : billRow[b] \notin Unreasoned
    BY <1>1 DEF HandsFit, CallerType
  <2>2. PICK saved \in SUBSET caller["bills"].known : full' = Told(full, saved)
    BY <1>9 DEF BillTell
  <2> QED
    BY <1>4, <1>9, <2>1, <2>2 DEF BillTell
<1>10. ASSUME NEW c \in Callers, EnqueueRead(c) PROVE Go
  <2>1. PICK b \in caller[c].left : bare' = bare \/ bare' = Told(bare, {b})
    BY <1>10 DEF EnqueueRead
  <2>2. {b} \in SUBSET Bills /\ billRow[b] # "none"
    BY <1>1, <1>10, <2>1 DEF EnqueueRead, HandsFit, CallerType
  <2>3. CASE bare' = bare
    BY <1>2, <1>10, <2>3 DEF EnqueueRead
  <2>4. CASE bare' = Told(bare, {b})
    BY <1>3, <1>10, <2>2, <2>4 DEF EnqueueRead
  <2> QED
    BY <2>1, <2>3, <2>4
<1>11. CASE DrainPrune
  <2>1. PICK old \in SUBSET NotDeleted(drain.list) : bare' = Told(bare, old)
    BY <1>11 DEF DrainPrune
  <2>2. old \subseteq Bills /\ \A b \in old : billRow[b] # "none"
    BY <1>1, <2>1 DEF NotDeleted, HandsFit, DrainFits, DrainType
  <2> QED
    BY <1>3, <1>11, <2>1, <2>2 DEF DrainPrune
<1>12. CASE DrainFetch
  <2>1. PICK b \in drain.left, ok \in BOOLEAN : billRow' = [billRow EXCEPT ![b] = FetchedRow(b, ok)]
    BY <1>12, FetchEffects
  <2>2. b \in Bills /\ billRow[b] # "none"
    BY <1>1, <2>1 DEF HandsFit, DrainFits, DrainType
  <2>3. /\ RowsGo /\ \A d \in Bills : d # b => billRow'[d] = billRow[d]
        /\ billRow'[b] = "known" => (ok /\ page[b] = "reason") \/ billRow[b] = "known"
    BY <1>1, <2>1, <2>2, FetchRows
  <2> QED
    BY <1>12, <2>3 DEF DrainFetch
<1>13. CASE DrainTell
  <2>1. drain.tell \subseteq Bills /\ \A b \in drain.tell : billRow[b] \notin Unreasoned
    BY <1>1 DEF HandsFit, DrainType
  <2> QED
    BY <1>4, <1>13, <2>1 DEF DrainTell
<1>14. CASE PageChanges
  <2>1. \A b \in Bills : page[b] = "reason" => page'[b] = "reason"
    BY <1>1, <1>14 DEF PageChanges
  <2> QED
    BY <1>14, <2>1 DEF PageChanges, RowsGo
<1>15. CASE PalTakesOver
  BY <1>1, <1>15 DEF PalTakesOver, RowsGo, Unreasoned
<1>16. CASE \/ SyncScans \/ ArtifactsBegin \/ CrawlFilters \/ CrawlLaunches \/ CronSeeds \/ BillRestart
            \/ (\E c \in Callers : EnqueueWrite(c) \/ EnqueueDone(c))
            \/ DrainRead \/ DrainCheck \/ DrainPersist \/ DrainWrite \/ DrainReset \/ DrainThrows
            \/ UNCHANGED billVars
  BY <1>2, <1>16
  DEF SyncScans, ArtifactsBegin, CrawlFilters, CrawlLaunches, CronSeeds, BillRestart, EnqueueWrite, EnqueueDone,
      DrainRead, DrainCheck, DrainPersist, DrainWrite, DrainReset, DrainThrows, billVars
<1> QED
  BY <1>6, <1>7, <1>8, <1>9, <1>10, <1>11, <1>12, <1>13, <1>14, <1>15, <1>16, BillFrames DEF CallerStep

LEMMA RowsFitNext == PendInv /\ [BillNext]_billVars => RowsFit'
<1> SUFFICES ASSUME PendInv, [BillNext]_billVars PROVE RowsFit'
  OBVIOUS
<1>1. RowsFit /\ bare \in Counts /\ full \in Counts
  BY BillTypes DEF PendInv, BillInv, ToldTyped
<1> QED
  BY <1>1, RowsNext DEF RowsFit, RowsGo, Unreasoned

\* What the drain has in hand comes from the list, or was fetched with its reason.
LEMMA DrainHands ==
  ASSUME PendInv, [BillNext]_billVars
  PROVE  /\ drain'.base \subseteq drain.base \cup retryQueue
         /\ \A b \in drain'.known \cup drain'.tell :
              b \in drain.known \cup drain.tell \/ billRow'[b] \notin Unreasoned
<1> USE DEF site, local, toldVars
<1>1. /\ billRow \in [Bills -> Rows] /\ drain \in DrainType /\ HandsFit /\ DrainFits
  BY BillTypes DEF PendInv, BillInv
<1> DEFINE Hold == /\ drain'.base \subseteq drain.base \cup retryQueue
                   /\ \A b \in drain'.known \cup drain'.tell :
                        b \in drain.known \cup drain.tell \/ billRow'[b] \notin Unreasoned
<1>2. CASE drain' = drain
  BY <1>2
<1>3. ASSUME drain'.base \subseteq drain.base \cup retryQueue,
             drain'.known \cup drain'.tell \subseteq drain.known \cup drain.tell
      PROVE  Hold
  BY <1>3
<1>4. CASE DrainFetch
  <2>1. PICK b \in drain.left, ok \in BOOLEAN :
          /\ billRow' = [billRow EXCEPT ![b] = FetchedRow(b, ok)]
          /\ drain'.base = drain.base /\ drain'.tell = drain.tell
          /\ drain'.known = IF ok /\ page[b] = "reason" THEN drain.known \cup {b} ELSE drain.known
    BY <1>4, FetchEffects DEF DrainAt
  <2>2. b \in Bills /\ billRow[b] # "none"
    BY <1>1, <2>1 DEF HandsFit, DrainFits, DrainType
  <2>3. ok /\ page[b] = "reason" => billRow'[b] \notin Unreasoned
    BY <1>1, <2>1, <2>2, FetchRows
  <2> QED
    BY <2>1, <2>3
<1>5. CASE DrainPersist
  <2>1. PICK saved \in SUBSET drain.known :
          /\ drain'.base = drain.base /\ drain'.known = {} /\ drain'.tell = saved
          \/ /\ drain'.base = {} /\ drain'.known = {} /\ drain'.tell = {}
    BY <1>5, FetchEffects DEF DrainAt, PassOver
  <2> QED
    BY <1>3, <2>1
<1>6. CASE \/ DrainRead \/ DrainCheck \/ DrainPrune \/ DrainWrite
            \/ DrainTell \/ DrainReset \/ DrainThrows \/ BillRestart
            \/ (\E c \in Callers : EnqueueDone(c))
  <2>1. /\ drain'.base \in {{}, drain.base, retryQueue}
        /\ drain'.known \in {{}, drain.known} /\ drain'.tell \in {{}, drain.tell}
    BY <1>1, <1>6, DrainEffects, RequestEffects, PassEffects DEF DrainAt, PassOver, EnqueueDone, BillRestart
  <2> QED
    BY <1>3, <2>1
<1>7. CASE \/ SyncScans \/ SyncArchives \/ QuietCapture \/ ArtifactsBegin \/ CrawlFilters \/ CrawlLaunches
            \/ BillArchive \/ BillSplit \/ BillTell
            \/ (\E c \in Callers : EnqueueRead(c) \/ EnqueueWrite(c))
            \/ CronSeeds \/ PageChanges \/ PalTakesOver \/ UNCHANGED billVars
  BY <1>2, <1>7
  DEF SyncScans, SyncArchives, QuietCapture, ArtifactsBegin, CrawlFilters, CrawlLaunches,
      BillArchive, BillSplit, BillTell,
      EnqueueRead, EnqueueWrite, CronSeeds, PageChanges, PalTakesOver, billVars
<1> QED
  BY <1>2, <1>4, <1>5, <1>6, <1>7, BillFrames DEF CallerStep

\* What one caller has in hand.
CallerFits(c) ==
  /\ \A b \in caller[c].base : billRow[b] # "none"
  /\ \A b \in caller[c].known : billRow[b] \notin Unreasoned
  /\ caller[c].pc \in {"read", "write"} => \A b \in caller[c].left : billRow[b] # "none"
  /\ IF caller[c].pc = "write"
     THEN caller[c].bill \in Bills /\ billRow[caller[c].bill] # "none"
     ELSE caller[c].bill = 0
  /\ caller[c].pc = "read" => caller[c].base = {}
  /\ c = "cron" => caller[c].pc \in {"idle", "read", "write"} /\ caller[c].known = {}

LEMMA CallerFitsThen ==
  ASSUME NEW c \in Callers, NEW pc, NEW left, NEW base, NEW bill, NEW known,
         CallerAt(c, pc, left, base, bill, known),
         \A d \in Callers : CallerFits(d),
         RowsGo, caller \in [Callers -> CallerType],
         \A b \in base : billRow'[b] # "none",
         \A b \in known : billRow'[b] \notin Unreasoned,
         pc \in {"read", "write"} => \A b \in left : billRow'[b] # "none",
         IF pc = "write" THEN bill \in Bills /\ billRow'[bill] # "none" ELSE bill = 0,
         pc = "read" => base = {},
         c = "cron" => pc \in {"idle", "read", "write"} /\ known = {}
  PROVE  \A d \in Callers : CallerFits(d)'
<1>1. ASSUME NEW d \in Callers, d # c PROVE CallerFits(d)'
  BY <1>1 DEF CallerAt, CallerFits, RowsGo, CallerType
<1>2. CallerFits(c)'
  BY DEF CallerAt, CallerFits
<1> QED
  BY <1>1, <1>2

LEMMA CallersFitNext ==
  ASSUME PendInv, [BillNext]_billVars
  PROVE  \A c \in Callers : CallerFits(c)'
<1> USE DEF site, local, toldVars
<1>1. /\ caller \in [Callers -> CallerType] /\ "bills" \in Callers /\ "cron" \in Callers
      /\ billRow \in [Bills -> Rows] /\ RowsGo /\ retryQueue \subseteq Bills
      /\ \A b \in retryQueue : billRow[b] # "none"
  BY BillTypes, RowsNext DEF PendInv, CallersTyped, SiteTyped, Callers, BillInv, HandsFit
<1>2. \A c \in Callers : CallerFits(c)
  BY DEF PendInv, BillInv, HandsFit, CallerFits
<1>3. CASE caller' = caller
  BY <1>1, <1>2, <1>3 DEF CallerFits, RowsGo, CallerType
<1>4. CASE CrawlLaunches
  BY <1>1, <1>2, <1>3, <1>4, TaskEffects, CallerFitsThen
<1>5. CASE BillArchive
  <2>1. PICK b \in caller["bills"].left, h \in BOOLEAN, w \in BOOLEAN :
          /\ billRow' = IF w THEN [billRow EXCEPT ![b] = RowWith(@, h)] ELSE billRow
          /\ caller' = [caller EXCEPT !["bills"].left = @ \ {b},
                         !["bills"].known = IF w /\ h THEN @ \cup {b} ELSE @,
                         !["bills"].base = IF w /\ ~h THEN @ \cup {b} ELSE @]
    BY <1>5, ArchivesOne
  <2>2. PICK known : known = IF w /\ h THEN caller["bills"].known \cup {b} ELSE caller["bills"].known
    OBVIOUS
  <2>3. PICK base : base = IF w /\ ~h THEN caller["bills"].base \cup {b} ELSE caller["bills"].base
    OBVIOUS
  <2>4. /\ b \in Bills /\ caller["bills"].pc = "archive" /\ caller["bills"].bill = 0
        /\ known \subseteq Bills /\ base \subseteq Bills
    BY <1>1, <1>2, <1>5, <2>1, <2>2, <2>3 DEF CallerType, BillArchive, CallerFits
  <2>5. CallerAt("bills", "archive", caller["bills"].left \ {b}, base, 0, known)
    <3>1. PICK left \in SUBSET Bills : left = caller["bills"].left \ {b}
      BY <1>1 DEF CallerType
    <3>2. PICK x : x = [caller["bills"] EXCEPT !.left = left, !.known = known, !.base = base]
      OBVIOUS
    <3>3. /\ x \in CallerType /\ x.pc = "archive" /\ x.left = left /\ x.base = base /\ x.bill = 0
          /\ x.known = known
      BY <1>1, <2>4, <3>2 DEF CallerType
    <3>4. caller' = [caller EXCEPT !["bills"] = x]
      BY <2>1, <2>2, <2>3, <3>1, <3>2
    <3> QED
      BY <1>1, <3>1, <3>3, <3>4 DEF CallerAt
  <2>6. w => billRow'[b] # "none" /\ (h => billRow'[b] \notin Unreasoned)
    BY <1>1, <2>1, <2>4, ArchiveRows
  <2>7. /\ \A d \in base : billRow'[d] # "none"
        /\ \A d \in known : billRow'[d] \notin Unreasoned
    BY <1>1, <1>2, <2>2, <2>3, <2>4, <2>6 DEF CallerFits, RowsGo
  <2> QED
    BY <1>1, <1>2, <2>5, <2>7, CallerFitsThen
<1>6. CASE BillSplit
  <2>1. CallerAt("bills", IF caller["bills"].base = {} THEN "tell" ELSE "read", caller["bills"].base,
                 {}, 0, caller["bills"].known)
    BY <1>6, TaskEffects
  <2>2. /\ \A d \in caller["bills"].base : billRow'[d] # "none"
        /\ \A d \in caller["bills"].known : billRow'[d] \notin Unreasoned
    BY <1>1, <1>2 DEF CallerFits, RowsGo, CallerType
  <2> QED
    BY <1>1, <1>2, <2>1, <2>2, CallerFitsThen
<1>7. CASE BillTell
  BY <1>1, <1>2, <1>7, TaskEffects, CallerFitsThen
<1>8. CASE CronSeeds
  <2>1. \A b \in Candidates : billRow'[b] # "none"
    BY <1>1 DEF Candidates, RowsGo
  <2> QED
    BY <1>1, <1>2, <1>8, <2>1, TaskEffects, CallerFitsThen
<1>9. ASSUME NEW c \in Callers, EnqueueRead(c) PROVE \A d \in Callers : CallerFits(d)'
  <2>1. PICK b \in caller[c].left, list \in {retryQueue, {}} :
          IF AtCapacity(list) \/ b \in list
          THEN CallerAt(c, "read", caller[c].left \ {b}, {}, 0, caller[c].known)
          ELSE CallerAt(c, "write", caller[c].left, list, b, caller[c].known)
    BY <1>9, EnqueueEffects
  <2>2. /\ \A d \in caller[c].left : d \in Bills /\ billRow'[d] # "none"
        /\ \A d \in caller[c].known : billRow'[d] \notin Unreasoned
        /\ \A d \in list : billRow'[d] # "none"
        /\ c = "cron" => caller[c].known = {}
    BY <1>1, <1>2, <1>9 DEF CallerFits, RowsGo, CallerType, EnqueueRead
  <2>3. CASE AtCapacity(list) \/ b \in list
    BY <1>1, <1>2, <2>1, <2>2, <2>3, CallerFitsThen
  <2>4. CASE ~(AtCapacity(list) \/ b \in list)
    BY <1>1, <1>2, <2>1, <2>2, <2>4, CallerFitsThen
  <2> QED
    BY <2>3, <2>4
<1>10. ASSUME NEW c \in Callers, EnqueueWrite(c) PROVE \A d \in Callers : CallerFits(d)'
  <2>1. CallerAt(c, "read", caller[c].left \ {caller[c].bill}, {}, 0, caller[c].known)
    BY <1>10, EnqueueEffects
  <2>2. /\ \A d \in caller[c].left : billRow'[d] # "none"
        /\ \A d \in caller[c].known : billRow'[d] \notin Unreasoned
        /\ c = "cron" => caller[c].known = {}
    BY <1>1, <1>2, <1>10 DEF CallerFits, RowsGo, CallerType, EnqueueWrite
  <2> QED
    BY <1>1, <1>2, <2>1, <2>2, CallerFitsThen
<1>11. ASSUME NEW c \in Callers, EnqueueDone(c) PROVE \A d \in Callers : CallerFits(d)'
  <2>1. CallerAt(c, IF c = "bills" THEN "tell" ELSE "idle", {}, {}, 0, caller[c].known)
    BY <1>11, EnqueueEffects
  <2>2. /\ \A d \in caller[c].known : billRow'[d] \notin Unreasoned
        /\ c = "cron" => caller[c].known = {}
    BY <1>1, <1>2 DEF CallerFits, RowsGo, CallerType
  <2> QED
    BY <1>1, <1>2, <2>1, <2>2, CallerFitsThen DEF Callers
<1>12. CASE BillRestart
  BY <1>12 DEF BillRestart, CallerFits, Idle
<1>13. CASE \/ SyncScans \/ SyncArchives \/ QuietCapture \/ ArtifactsBegin \/ CrawlFilters
            \/ DrainRead \/ DrainCheck \/ DrainPrune \/ DrainFetch \/ DrainPersist \/ DrainWrite
            \/ DrainTell \/ DrainReset \/ DrainThrows \/ PageChanges \/ PalTakesOver \/ UNCHANGED billVars
  BY <1>3, <1>13
  DEF SyncScans, SyncArchives, QuietCapture, ArtifactsBegin, CrawlFilters, DrainRead, DrainCheck,
      DrainPrune, DrainFetch, DrainPersist,
      DrainWrite, DrainTell, DrainReset, DrainThrows, PageChanges, PalTakesOver, billVars
<1> QED
  BY <1>4, <1>5, <1>6, <1>7, <1>8, <1>9, <1>10, <1>11, <1>12, <1>13, BillFrames DEF CallerStep

\* What gets into the list was in it, or in a copy of it, or is a caller's bill.
LEMMA QueueNext ==
  ASSUME PendInv, [BillNext]_billVars
  PROVE  \A b \in retryQueue' :
           \/ b \in retryQueue \cup drain.base
           \/ \E c \in Callers : caller[c].pc = "write" /\ b \in caller[c].base \cup {caller[c].bill}
<1> USE DEF site, local, toldVars
<1>1. CASE retryQueue' = retryQueue
  BY <1>1
<1>2. ASSUME NEW c \in Callers, EnqueueWrite(c), retryQueue' # retryQueue
      PROVE  caller[c].pc = "write" /\ retryQueue' = caller[c].base \cup {caller[c].bill}
  BY <1>2 DEF EnqueueWrite
<1>3. CASE DrainWrite
  <2>1. retryQueue' = retryQueue \/ retryQueue' = drain.list
    BY <1>3 DEF DrainWrite
  <2> QED
    BY <2>1 DEF PendInv, BillInv, DrainFits
<1>4. CASE \/ SyncScans \/ SyncArchives \/ QuietCapture \/ ArtifactsBegin \/ CrawlFilters \/ CrawlLaunches
            \/ BillArchive \/ BillSplit \/ BillTell
            \/ (\E c \in Callers : EnqueueRead(c) \/ EnqueueDone(c))
            \/ DrainRead \/ DrainCheck \/ DrainPrune \/ DrainFetch \/ DrainPersist
            \/ DrainTell \/ DrainReset \/ DrainThrows
            \/ CronSeeds \/ PageChanges \/ PalTakesOver \/ BillRestart \/ UNCHANGED billVars
  BY <1>1, <1>4
  DEF SyncScans, SyncArchives, QuietCapture, ArtifactsBegin, CrawlFilters, CrawlLaunches,
      BillArchive, BillSplit, BillTell,
      EnqueueRead, EnqueueDone, DrainRead, DrainCheck, DrainPrune, DrainFetch, DrainPersist, DrainTell,
      DrainReset, DrainThrows, CronSeeds, PageChanges, PalTakesOver, BillRestart, billVars
<1> QED
  BY <1>1, <1>2, <1>3, <1>4, BillFrames DEF CallerStep

LEMMA HandsFitNext == PendInv /\ [BillNext]_billVars => HandsFit'
<1> SUFFICES ASSUME PendInv, [BillNext]_billVars PROVE HandsFit'
  OBVIOUS
<1>1. HandsFit /\ RowsGo /\ drain \in DrainType /\ retryQueue \subseteq Bills
      /\ caller \in [Callers -> CallerType] /\ "cron" \in Callers
  BY BillTypes, RowsNext DEF PendInv, BillInv, SiteTyped, CallersTyped, Callers
<1>2. \A b \in retryQueue' \cup drain'.base : billRow'[b] # "none"
  BY <1>1, QueueNext, DrainHands DEF HandsFit, RowsGo, DrainType, CallerType
<1>3. \A b \in drain'.known \cup drain'.tell : billRow'[b] \notin Unreasoned
  BY <1>1, DrainHands DEF HandsFit, RowsGo, DrainType
<1> QED
  BY <1>1, <1>2, <1>3, CallersFitNext DEF HandsFit, CallerFits

\* What was dropped for a reason stays so, announcements stay counted, what the task
\* has in hand is announced or dropped, and a reason that becomes known has somebody
\* to see to it.
Keeps ==
  /\ excused \subseteq excused' /\ unsaid \subseteq unsaid'
  /\ \A b \in Bills :
       /\ full'[b] >= full[b]
       /\ b \in caller["bills"].known =>
            b \in caller'["bills"].known \cup excused' \/ full'[b] > 0
       /\ billRow'[b] = "known" =>
            \/ billRow[b] = "known"
            \/ b \in excused' \cup unsaid' \cup caller'["bills"].known \cup drain'.known
            \/ b \in Awaited /\ UNCHANGED <<retryQueue, drain>>

LEMMA KeepsNext == PendInv /\ [BillNext]_billVars => Keeps
<1> SUFFICES ASSUME PendInv, [BillNext]_billVars PROVE Keeps
  OBVIOUS
<1> USE DEF site, local, toldVars
<1>1. /\ caller \in [Callers -> CallerType] /\ "bills" \in Callers /\ "cron" \in Callers
      /\ billRow \in [Bills -> Rows] /\ full \in Counts /\ drain \in DrainType
      /\ sync.left \subseteq Bills /\ HandsFit /\ DrainFits
      /\ \A b \in Bills : full[b] \in Nat
  BY BillTypes DEF PendInv, CallersTyped, SiteTyped, ToldTyped, Callers, Counts, BillInv
<1> DEFINE Kept == \A b \in caller["bills"].known : b \in caller'["bills"].known
<1>2. ASSUME excused \subseteq excused', unsaid \subseteq unsaid', full' = full, billRow' = billRow, Kept
      PROVE  Keeps
  BY <1>1, <1>2 DEF Keeps
<1>3. CASE SyncArchives \/ QuietCapture
  <2>1. PICK b \in Bills, h \in BOOLEAN, w \in BOOLEAN : SilentOne(b, h, w)
    BY <1>3, SilentOnes
  <2>2. /\ \A d \in Bills : d # b => billRow'[d] = billRow[d]
        /\ billRow'[b] = "known" => (w /\ h) \/ billRow[b] = "known"
        /\ billRow[b] \notin Unreasoned => billRow'[b] = billRow[b]
    BY <1>1, <2>1, ArchiveRows DEF SilentOne
  <2>3. UNCHANGED <<retryQueue, drain, caller, full, excused>>
    BY <1>3, SilentOnes
  <2>4. unsaid \subseteq unsaid' /\ (w /\ h /\ billRow[b] \in Unreasoned => b \in unsaid' \cup Awaited)
    BY <2>1 DEF SilentOne
  <2> QED
    BY <1>1, <2>2, <2>3, <2>4 DEF Keeps
<1>4. CASE BillArchive
  <2>1. PICK b \in caller["bills"].left, h \in BOOLEAN, w \in BOOLEAN :
          /\ billRow' = IF w THEN [billRow EXCEPT ![b] = RowWith(@, h)] ELSE billRow
          /\ caller' = [caller EXCEPT !["bills"].left = @ \ {b},
                         !["bills"].known = IF w /\ h THEN @ \cup {b} ELSE @,
                         !["bills"].base = IF w /\ ~h THEN @ \cup {b} ELSE @]
    BY <1>4, ArchivesOne
  <2>2. b \in Bills
    BY <1>1, <2>1 DEF CallerType
  <2>3. /\ \A d \in Bills : d # b => billRow'[d] = billRow[d]
        /\ billRow'[b] = "known" => (w /\ h) \/ billRow[b] = "known"
    BY <1>1, <2>1, <2>2, ArchiveRows
  <2>4. PICK known : known = IF w /\ h THEN caller["bills"].known \cup {b} ELSE caller["bills"].known
    OBVIOUS
  <2>5. PICK base, left : base = (IF w /\ ~h THEN caller["bills"].base \cup {b} ELSE caller["bills"].base)
                          /\ left = caller["bills"].left \ {b}
    OBVIOUS
  <2>6. caller' = [caller EXCEPT !["bills"].left = left, !["bills"].known = known, !["bills"].base = base]
    BY <2>1, <2>4, <2>5
  <2>7. caller'["bills"].known = known
    BY <1>1, <2>6 DEF CallerType
  <2> QED
    BY <1>1, <1>4, <2>3, <2>4, <2>7 DEF Keeps, BillArchive
<1>5. CASE BillTell
  <2>1. PICK saved \in SUBSET caller["bills"].known :
          full' = Told(full, saved) /\ excused' = excused \cup (caller["bills"].known \ saved)
    BY <1>5 DEF BillTell
  <2>2. saved \subseteq Bills
    BY <1>1, <2>1 DEF CallerType
  <2> QED
    BY <1>1, <1>5, <2>1, <2>2, ToldCounts DEF Keeps, BillTell, CallerType
<1>6. CASE DrainTell
  <2>1. drain.tell \subseteq Bills
    BY <1>1 DEF DrainType
  <2> QED
    BY <1>1, <1>6, <2>1, ToldCounts DEF Keeps, DrainTell
<1>7. CASE DrainFetch
  <2>1. PICK b \in drain.left, ok \in BOOLEAN :
          /\ billRow' = [billRow EXCEPT ![b] = FetchedRow(b, ok)]
          /\ excused \subseteq excused' /\ unsaid' = unsaid
          /\ ok /\ page[b] = "reason" => drain'.known = drain.known \cup {b}
    BY <1>7, FetchEffects DEF DrainAt, DrainFetch
  <2>2. b \in Bills /\ billRow[b] # "none"
    BY <1>1, <2>1 DEF HandsFit, DrainFits, DrainType
  <2>3. /\ \A d \in Bills : d # b => billRow'[d] = billRow[d]
        /\ billRow'[b] = "known" => (ok /\ page[b] = "reason") \/ billRow[b] = "known"
    BY <1>1, <2>1, <2>2, FetchRows
  <2> QED
    BY <1>1, <1>7, <2>1, <2>3 DEF Keeps, DrainFetch
<1>8. CASE PalTakesOver
  BY <1>1, <1>8 DEF PalTakesOver, Keeps
<1>9. CASE BillRestart
  BY <1>1, <1>9 DEF BillRestart, Keeps
<1>10. CASE CrawlLaunches
  <2>1. caller' = caller \/ caller["bills"].known = {}
    BY <1>1, <1>10, BillTypes DEF CrawlLaunches, CallersTyped, Idle, PendInv
  <2> QED
    BY <1>2, <1>10, <2>1 DEF CrawlLaunches
<1>11. CASE BillSplit \/ CronSeeds \/ \E c \in Callers : EnqueueRead(c) \/ EnqueueWrite(c) \/ EnqueueDone(c)
  <2>1. excused \subseteq excused' /\ unsaid \subseteq unsaid' /\ full' = full /\ billRow' = billRow
    BY <1>11 DEF BillSplit, CronSeeds, EnqueueRead, EnqueueWrite, EnqueueDone
  <2>2. CASE BillSplit \/ CronSeeds
    <3>1. caller'["bills"].known = caller["bills"].known
      BY <1>1, <2>2, TaskEffects DEF CallerAt
    <3> QED
      BY <1>2, <2>1, <3>1
  <2>3. ASSUME NEW c \in Callers, EnqueueRead(c) \/ EnqueueWrite(c) \/ EnqueueDone(c)
        PROVE  Keeps
    <3>1. caller'[c].known = caller[c].known /\ \A d \in Callers : d # c => caller'[d] = caller[d]
      <4>1. CASE EnqueueRead(c)
        <5>1. PICK b \in caller[c].left, list \in {retryQueue, {}} :
                IF AtCapacity(list) \/ b \in list
                THEN CallerAt(c, "read", caller[c].left \ {b}, {}, 0, caller[c].known)
                ELSE CallerAt(c, "write", caller[c].left, list, b, caller[c].known)
          BY <4>1, EnqueueEffects
        <5> QED
          BY <5>1 DEF CallerAt
      <4>2. CASE EnqueueWrite(c)
        BY <4>2, EnqueueEffects DEF CallerAt
      <4>3. CASE EnqueueDone(c)
        BY <4>3, EnqueueEffects DEF CallerAt
      <4> QED
        BY <2>3, <4>1, <4>2, <4>3
    <3>2. caller'["bills"].known = caller["bills"].known
      BY <1>1, <3>1
    <3> QED
      BY <1>2, <2>1, <3>2
  <2> QED
    BY <1>11, <2>2, <2>3
<1>12. CASE \/ SyncScans \/ ArtifactsBegin \/ CrawlFilters
            \/ DrainRead \/ DrainCheck \/ DrainPrune \/ DrainPersist \/ DrainWrite
            \/ DrainReset \/ DrainThrows \/ PageChanges \/ UNCHANGED billVars
  <2>1. excused \subseteq excused' /\ unsaid \subseteq unsaid' /\ full' = full /\ billRow' = billRow /\ caller' = caller
    BY <1>12
    DEF SyncScans, ArtifactsBegin, CrawlFilters, DrainRead, DrainCheck, DrainPrune, DrainPersist,
        DrainWrite, DrainReset,
        DrainThrows, PageChanges, billVars
  <2> QED
    BY <1>2, <2>1
<1> QED
  BY <1>3, <1>4, <1>5, <1>6, <1>7, <1>8, <1>9, <1>10, <1>11, <1>12, BillFrames DEF CallerStep

\* But for the drain's own write, what leaves the list is dropped for a reason.
LEMMA QueueKept ==
  ASSUME PendInv, [BillNext]_billVars
  PROVE  DrainWrite \/ retryQueue \subseteq retryQueue' \cup excused'
<1> USE DEF site, local, toldVars
<1>1. ASSUME NEW c \in Callers, EnqueueWrite(c) PROVE retryQueue \subseteq retryQueue' \cup excused'
  BY <1>1 DEF EnqueueWrite
<1>2. CASE \/ SyncScans \/ SyncArchives \/ QuietCapture \/ ArtifactsBegin \/ CrawlFilters \/ CrawlLaunches
            \/ BillArchive \/ BillSplit \/ BillTell
            \/ (\E c \in Callers : EnqueueRead(c) \/ EnqueueDone(c))
            \/ DrainRead \/ DrainCheck \/ DrainPrune \/ DrainFetch \/ DrainPersist
            \/ DrainTell \/ DrainReset \/ DrainThrows
            \/ CronSeeds \/ PageChanges \/ PalTakesOver \/ BillRestart \/ UNCHANGED billVars
  <2>1. retryQueue' = retryQueue
    BY <1>2
    DEF SyncScans, SyncArchives, QuietCapture, ArtifactsBegin, CrawlFilters, CrawlLaunches,
        BillArchive, BillSplit, BillTell,
      EnqueueRead, EnqueueDone, DrainRead, DrainCheck, DrainPrune, DrainFetch, DrainPersist, DrainTell,
      DrainReset, DrainThrows, CronSeeds, PageChanges, PalTakesOver, BillRestart, billVars
  <2> QED
    BY <2>1
<1> QED
  BY <1>1, <1>2, BillFrames DEF CallerStep

\* The steps that leave the drain's lists alone, and those that empty them.
LEMMA DrainStays ==
  ASSUME PendInv, [BillNext]_billVars
  PROVE  \/ DrainRead \/ DrainCheck \/ DrainPrune \/ DrainFetch \/ DrainPersist \/ DrainWrite \/ DrainTell
         \/ BillRestart
         \/ /\ drain'.pc = drain.pc /\ drain'.base = drain.base /\ drain'.list = drain.list
            /\ drain'.known = drain.known /\ drain'.tell = drain.tell
         \/ /\ drain'.pc \notin Working \cup {"tell"}
            /\ drain.pc \in {"off", "ended", "check"}
         \/ drain.pc = "off" /\ drain'.pc = "read"
<1> USE DEF site, local, toldVars
<1>1. drain \in DrainType
  BY BillTypes DEF PendInv
<1>2. CASE DrainReset \/ DrainThrows
  BY <1>2, DrainEffects DEF DrainAt, Working, DrainReset, DrainThrows
<1>3. ASSUME NEW c \in Callers, EnqueueDone(c), drain.pc # "off"
      PROVE  /\ drain'.pc = drain.pc /\ drain'.base = drain.base /\ drain'.list = drain.list
             /\ drain'.known = drain.known /\ drain'.tell = drain.tell
  BY <1>1, <1>3, RequestEffects DEF DrainAt, EnqueueDone
<1>4. ASSUME NEW c \in Callers, EnqueueDone(c), drain.pc = "off"
      PROVE  drain'.pc = "read"
  BY <1>1, <1>4, RequestEffects DEF DrainAt, EnqueueDone
<1>5. CASE \/ SyncScans \/ SyncArchives \/ QuietCapture \/ ArtifactsBegin \/ CrawlFilters \/ CrawlLaunches
            \/ BillArchive \/ BillSplit \/ BillTell
            \/ (\E c \in Callers : EnqueueRead(c) \/ EnqueueWrite(c))
            \/ CronSeeds \/ PageChanges \/ PalTakesOver \/ UNCHANGED billVars
  <2>1. drain' = drain
    BY <1>5
    DEF SyncScans, SyncArchives, QuietCapture, ArtifactsBegin, CrawlFilters, CrawlLaunches,
        BillArchive, BillSplit, BillTell,
      EnqueueRead, EnqueueWrite, CronSeeds, PageChanges, PalTakesOver, billVars
  <2> QED
    BY <2>1
<1> QED
  BY <1>2, <1>3, <1>4, <1>5, BillFrames DEF CallerStep

\* What was taken off the copy stays seen to.
LEMMA CopyStays ==
  ASSUME PendInv, [BillNext]_billVars, drain.pc \in Working,
         NEW b \in drain.base \ (drain.list \cup excused' \cup unsaid'), b \notin drain'.list,
         billRow'[b] = "known"
  PROVE  full'[b] > 0 \/ b \in drain.tell \cup caller'["bills"].known
<1>1. Keeps /\ CopyKept /\ DrainFits' /\ full \in Counts /\ drain \in DrainType
  BY KeepsNext, DrainFitsNext, BillTypes DEF PendInv, BillInv, ToldTyped
<1>2. b \in Bills /\ b \notin excused \cup unsaid /\ b \notin Awaited /\ b \notin drain'.known /\ full[b] \in Nat
  BY <1>1 DEF Keeps, DrainFits, DrainType, Counts, Awaited
<1>3. b \in caller'["bills"].known \/ billRow[b] = "known"
  BY <1>1, <1>2 DEF Keeps
<1>4. ASSUME billRow[b] = "known" PROVE full[b] > 0 \/ b \in drain.tell \cup caller["bills"].known
  BY <1>1, <1>2, <1>4 DEF CopyKept
<1>5. full'[b] >= full[b] /\ (b \in caller["bills"].known =>
                                b \in caller'["bills"].known \/ full'[b] > 0)
  BY <1>1, <1>2 DEF Keeps
<1>6. full'[b] \in Nat
  BY NextBillTyped, BillTypes, <1>2 DEF ToldTyped, Counts, BillTypeOK
<1>7. full[b] > 0 => full'[b] > 0
  BY <1>2, <1>5, <1>6
<1> QED
  BY <1>3, <1>4, <1>5, <1>7

LEMMA CopyKeptNext == PendInv /\ [BillNext]_billVars => CopyKept'
<1> SUFFICES ASSUME PendInv, [BillNext]_billVars, drain'.pc \in Working PROVE CopyKept'
  BY DEF CopyKept
<1> USE DEF site, local, toldVars
<1>1. /\ CopyKept /\ DrainFits /\ RowsFit /\ HandsFit /\ drain \in DrainType
      /\ billRow \in [Bills -> Rows]
  BY BillTypes DEF PendInv, BillInv
<1>2. DrainWrite \/ retryQueue \subseteq retryQueue' \cup excused'
  BY QueueKept
<1>3. excused \subseteq excused'
  BY KeepsNext DEF Keeps
<1>4. ASSUME ~DrainWrite, drain.pc \in Working, drain'.base = drain.base, drain.tell \subseteq drain'.tell,
             \A b \in drain.list \ (drain'.list \cup excused') : billRow'[b] # "known"
      PROVE  CopyKept'
  <2>1. drain'.base \subseteq retryQueue' \cup excused'
    BY <1>1, <1>2, <1>3, <1>4 DEF CopyKept
  <2>2. ASSUME NEW b \in drain'.base \ (drain'.list \cup excused' \cup unsaid'), billRow'[b] = "known"
        PROVE  full'[b] > 0 \/ b \in drain'.tell \cup caller'["bills"].known
    <3>1. b \notin drain.list
      BY <1>4, <2>2
    <3> QED
      BY <1>4, <2>2, <3>1, CopyStays
  <2> QED
    BY <2>1, <2>2 DEF CopyKept
<1>5. CASE DrainRead
  <2>1. DrainAt("check", drain.rerun, retryQueue, retryQueue, drain.left, drain.known, drain.tell)
    BY <1>5, DrainEffects DEF PassOver, DrainAt, Working
  <2> QED
    BY <1>5, <2>1 DEF CopyKept, DrainAt, DrainRead
<1>6. CASE DrainCheck
  <2>1. /\ drain.pc = "check" /\ billRow' = billRow
        /\ DrainAt("prune", drain.rerun, drain.base, StillNsm(drain.list), drain.left, drain.known, drain.tell)
    BY <1>6, DrainEffects DEF DrainCheck
  <2>2. ~DrainWrite
    BY <2>1 DEF DrainWrite
  <2> QED
    BY <1>4, <2>1, <2>2 DEF DrainAt, StillNsm, Working
<1>7. CASE DrainPrune
  <2>1. PICK old \in SUBSET NotDeleted(drain.list) :
          /\ excused' = excused \cup old
          /\ drain'.base = drain.base /\ drain'.list = NotDeleted(drain.list) \ old
          /\ drain'.tell = drain.tell
    <3>1. PICK old \in SUBSET NotDeleted(drain.list) :
            LET list == NotDeleted(drain.list) \ old IN
            /\ excused' = excused \cup old
            /\ \/ DrainAt("fetch", drain.rerun, drain.base, list, list, drain.known, drain.tell)
               \/ DrainAt("write", drain.rerun, drain.base, {}, drain.left, drain.known, drain.tell)
                  /\ list = {}
               \/ PassOver
      BY <1>7, DrainEffects
    <3>2. ~PassOver
      BY DEF PassOver, DrainAt, Working
    <3> QED
      BY <3>1, <3>2 DEF DrainAt
  <2>2. drain.pc = "prune" /\ billRow' = billRow /\ ~DrainWrite
    BY <1>7 DEF DrainPrune, DrainWrite
  <2> QED
    BY <1>4, <2>1, <2>2 DEF NotDeleted, Working
<1>8. CASE DrainFetch
  <2>1. PICK b \in drain.left, ok \in BOOLEAN :
          /\ drain.pc = "fetch"
          /\ billRow' = [billRow EXCEPT ![b] = FetchedRow(b, ok)]
          /\ excused' = IF ok THEN excused ELSE excused \cup {b}
          /\ drain'.base = drain.base /\ drain'.tell = drain.tell
          /\ drain'.list = drain.list \/ (drain'.list = drain.list \ {b} /\ ~(ok /\ page[b] = "reason"))
    BY <1>8, FetchEffects DEF DrainAt
  <2>2. b \in Bills /\ billRow[b] # "none" /\ ~DrainWrite
    BY <1>1, <2>1 DEF HandsFit, DrainFits, DrainType, DrainWrite
  <2>3. billRow'[b] = "known" => (ok /\ page[b] = "reason") \/ billRow[b] = "known"
    BY <1>1, <2>1, <2>2, FetchRows
  <2>4. billRow[b] = "known" => page[b] = "reason"
    BY <1>1, <2>2 DEF RowsFit
  <2>5. \A d \in drain.list \ (drain'.list \cup excused') : billRow'[d] # "known"
    BY <2>1, <2>3, <2>4
  <2> QED
    BY <1>4, <2>1, <2>2, <2>5 DEF Working
<1>9. CASE DrainPersist
  <2>1. PICK saved \in SUBSET drain.known :
          DrainAt("write", drain.rerun, drain.base, drain.list \ saved, drain.left, {}, saved)
    BY <1>9, FetchEffects DEF PassOver, DrainAt, Working
  <2>2. drain.pc = "fetch" /\ drain.tell = {} /\ ~DrainWrite
    BY <1>1, <1>9 DEF DrainPersist, DrainFits, DrainWrite
  <2>3. /\ drain'.base \subseteq retryQueue' \cup excused'
    BY <1>1, <1>2, <1>3, <2>1, <2>2 DEF CopyKept, DrainAt, Working
  <2>4. ASSUME NEW b \in drain'.base \ (drain'.list \cup excused' \cup unsaid'), billRow'[b] = "known"
        PROVE  full'[b] > 0 \/ b \in drain'.tell \cup caller'["bills"].known
    <3>1. CASE b \in saved
      BY <2>1, <3>1 DEF DrainAt
    <3>2. CASE b \notin saved
      <4>1. b \notin drain.list /\ b \in drain.base
        BY <2>1, <2>4, <3>2 DEF DrainAt
      <4> QED
        BY <2>2, <2>4, <4>1, CopyStays DEF Working
    <3> QED
      BY <3>1, <3>2
  <2> QED
    BY <2>3, <2>4 DEF CopyKept
<1>10. ~DrainWrite
  BY <1>1, DrainEffects DEF PassOver, DrainAt, Working
<1>11. ~DrainTell /\ ~BillRestart
  BY <1>1, DrainEffects, PassEffects DEF PassOver, DrainAt, Working, BillRestart
<1>12. CASE /\ drain'.pc = drain.pc /\ drain'.base = drain.base /\ drain'.list = drain.list
            /\ drain'.known = drain.known /\ drain'.tell = drain.tell
  BY <1>4, <1>10, <1>12
<1>13. CASE drain.pc = "off" /\ drain'.pc = "read"
  BY <1>13 DEF Working
<1> QED
  BY <1>5, <1>6, <1>7, <1>8, <1>9, <1>10, <1>11, <1>12, <1>13, DrainStays

\* Who has to announce a bill keeps it until it is announced or dropped.
LEMMA KnownNext == PendInv /\ [BillNext]_billVars => KnownIsAnnounced'
<1> SUFFICES ASSUME PendInv, [BillNext]_billVars, NEW b \in Bills, b \notin excused' \cup unsaid',
                    billRow'[b] = "known"
             PROVE  \/ full'[b] > 0
                    \/ b \in retryQueue' \cup drain'.known \cup drain'.tell \cup caller'["bills"].known
  BY DEF KnownIsAnnounced
<1> DEFINE Seen == \/ full'[b] > 0
                   \/ b \in retryQueue' \cup drain'.known \cup drain'.tell \cup caller'["bills"].known
<1>1. /\ KnownIsAnnounced /\ CopyKept /\ DrainFits /\ Keeps /\ drain \in DrainType /\ full \in Counts
      /\ full' \in Counts
  BY NextBillTyped, KeepsNext, BillTypes DEF PendInv, BillInv, ToldTyped, BillTypeOK, Counts
<1>2. b \notin excused \cup unsaid /\ full[b] \in Nat /\ full'[b] \in Nat
  BY <1>1 DEF Keeps, Counts
<1>3. CASE billRow[b] # "known"
  BY <1>1, <1>3 DEF Keeps, Awaited
<1>4. CASE full[b] > 0
  BY <1>1, <1>2, <1>4 DEF Keeps
<1>5. CASE b \in caller["bills"].known
  BY <1>1, <1>5 DEF Keeps
<1>6. CASE b \in drain.tell /\ DrainWrite
  BY <1>6, DrainEffects DEF DrainAt
<1>7. CASE b \in retryQueue
  <2>1. CASE ~DrainWrite
    BY <1>7, <2>1, QueueKept
  <2>2. CASE DrainWrite
    <3>1. drain.pc = "write" /\ (retryQueue' = retryQueue
                                 \/ (retryQueue' = drain.list /\ excused' = excused \cup (retryQueue \ drain.base)))
      BY <2>2 DEF DrainWrite
    <3>2. CASE b \notin drain.list /\ retryQueue' = drain.list
      <4>1. CASE b \in drain.base
        <5>1. billRow[b] = "known" => full[b] > 0 \/ b \in drain.tell \cup caller["bills"].known
          BY <1>1, <1>2, <3>1, <3>2, <4>1 DEF CopyKept, Working
        <5> QED
          BY <1>3, <1>4, <1>5, <1>6, <2>2, <5>1
      <4>2. CASE b \notin drain.base /\ retryQueue' # retryQueue
        BY <1>7, <3>1, <4>2
      <4> QED
        BY <1>7, <4>1, <4>2
    <3> QED
      BY <1>7, <3>1, <3>2
  <2> QED
    BY <2>1, <2>2
<1>8. CASE b \in drain.known
  <2>1. drain.pc \in Working /\ b \in drain.base
    BY <1>1, <1>8 DEF DrainFits, Working
  <2> QED
    BY <1>1, <1>2, <1>7, <2>1 DEF CopyKept
<1>9. CASE b \in drain.tell /\ ~DrainWrite
  <2>1. drain.pc \in {"write", "tell"}
    BY <1>1, <1>9 DEF DrainFits
  <2>2. CASE drain.pc = "write"
    <3>1. b \in drain.base
      BY <1>1, <1>9, <2>2 DEF DrainFits
    <3> QED
      BY <1>1, <1>2, <1>7, <2>2, <3>1 DEF CopyKept, Working
  <2>3. CASE drain.pc = "tell"
    <3>1. CASE DrainTell
      <4>1. drain.tell \in SUBSET Bills /\ full' = Told(full, drain.tell)
        BY <1>1, <3>1 DEF DrainTell, DrainType
      <4> QED
        BY <1>1, <1>9, <4>1, ToldCounts
    <3>2. CASE BillRestart
      BY <1>9, <2>3, <3>2 DEF BillRestart
    <3>3. CASE ~DrainTell /\ ~BillRestart
      <4>1. drain'.tell = drain.tell
        BY <1>9, <2>3, <3>3, DrainStays
        DEF DrainRead, DrainCheck, DrainPrune, DrainFetch, DrainPersist
      <4> QED
        BY <1>9, <4>1
    <3> QED
      BY <3>1, <3>2, <3>3
  <2> QED
    BY <2>1, <2>2, <2>3
<1> QED
  BY <1>1, <1>2, <1>3, <1>4, <1>5, <1>6, <1>7, <1>8, <1>9 DEF KnownIsAnnounced

\* Once, of one bill.
OnceFor(b) ==
  /\ bare[b] <= 1 /\ full[b] <= 1
  /\ b \in Finding => billRow[b] = "none"
  /\ caller["bills"].pc = "archive" /\ b \in caller["bills"].base => bare[b] = 0
  /\ b \in Listing => full[b] = 0
  /\ b \in caller["bills"].known => full[b] = 0 /\ b \notin Listing \cup drain.tell
  /\ drain.pc = "tell" /\ b \in drain.tell => full[b] = 0 /\ b \notin retryQueue

\* Nothing is announced, and nobody gets a bill in hand but from the list or the drain.
LEMMA OnceFrame ==
  ASSUME PendInv, NEW b \in Bills, OnceFor(b),
         bare'[b] = bare[b], full'[b] = full[b],
         b \in Finding' => billRow'[b] = "none",
         caller'["bills"].pc = "archive" /\ b \in caller'["bills"].base =>
           caller["bills"].pc = "archive" /\ b \in caller["bills"].base,
         b \in Listing' => b \in Listing \/ billRow[b] \in Unreasoned,
         b \in retryQueue' => b \in retryQueue \/ billRow[b] \in Unreasoned,
         b \in caller'["bills"].known => b \in caller["bills"].known,
         b \in drain'.tell => b \in drain.tell \cup Listing,
         drain'.pc = "tell" /\ b \in drain'.tell => drain.pc = "tell" /\ b \in drain.tell
  PROVE  OnceFor(b)'
<1>1. /\ full[b] > 0 => billRow[b] \notin Unreasoned
      /\ b \in drain.known \cup drain.tell \cup caller["bills"].known => billRow[b] \notin Unreasoned
      /\ full[b] \in 0 .. 2 /\ full \in Counts
  BY BillTypes DEF PendInv, BillInv, RowsFit, HandsFit, ToldTyped, Counts, Callers
<1>2. bare'[b] <= 1 /\ full'[b] <= 1
  BY DEF OnceFor
<1>3. caller'["bills"].pc = "archive" /\ b \in caller'["bills"].base => bare'[b] = 0
  BY DEF OnceFor
<1>4. b \in Listing' => full'[b] = 0
  BY <1>1 DEF OnceFor
<1>5. b \in caller'["bills"].known => full'[b] = 0 /\ b \notin Listing' \cup drain'.tell
  BY <1>1 DEF OnceFor
<1>6. drain'.pc = "tell" /\ b \in drain'.tell => full'[b] = 0 /\ b \notin retryQueue'
  BY <1>1 DEF OnceFor
<1> QED
  BY <1>2, <1>3, <1>4, <1>5, <1>6 DEF OnceFor

LEMMA AgainGrows == PendInv /\ [BillNext]_billVars => again \subseteq again'
<1> USE DEF site, local, toldVars
<1> SUFFICES ASSUME PendInv, [BillNext]_billVars PROVE again \subseteq again'
  OBVIOUS
<1>1. CASE \/ SyncScans \/ ArtifactsBegin \/ CrawlFilters \/ CrawlLaunches \/ BillArchive \/ BillSplit \/ BillTell
           \/ (\E c \in Callers : CallerStep(c))
  <2>1. CASE SyncScans \/ ArtifactsBegin \/ CrawlFilters \/ CrawlLaunches
    BY <2>1 DEF SyncScans, ArtifactsBegin, CrawlFilters, CrawlLaunches
  <2>2. CASE BillArchive
    BY <2>2 DEF BillArchive
  <2>3. CASE BillSplit
    BY <2>3, Zenon DEF BillSplit
  <2>4. CASE BillTell
    BY <2>4, Zenon DEF BillTell
  <2>5. CASE \E c \in Callers : CallerStep(c)
    <3>1. PICK c \in Callers : EnqueueRead(c) \/ EnqueueWrite(c) \/ EnqueueDone(c)
      BY <2>5, Zenon DEF CallerStep
    <3>2. CASE EnqueueRead(c)
      BY <3>2 DEF EnqueueRead
    <3>3. CASE EnqueueWrite(c)
      BY <3>3 DEF EnqueueWrite
    <3>4. CASE EnqueueDone(c)
      BY <3>4, Zenon DEF EnqueueDone
    <3> QED
      BY <3>1, <3>2, <3>3, <3>4
  <2> QED
    BY <1>1, <2>1, <2>2, <2>3, <2>4, <2>5
<1>2. CASE \/ DrainRead \/ DrainCheck \/ DrainPrune \/ DrainFetch \/ DrainPersist \/ DrainWrite
           \/ DrainTell \/ DrainReset \/ DrainThrows
           \/ CronSeeds \/ PageChanges \/ PalTakesOver \/ BillRestart \/ UNCHANGED billVars
  <2>1. CASE \/ DrainRead \/ DrainCheck \/ DrainPrune \/ DrainFetch \/ DrainPersist \/ DrainWrite
             \/ DrainTell \/ DrainReset \/ DrainThrows
    BY <2>1, Zenon DEF DrainRead, DrainCheck, DrainPrune, DrainFetch, DrainPersist, DrainWrite, DrainTell,
        DrainReset, DrainThrows
  <2>2. CASE CronSeeds \/ PageChanges \/ PalTakesOver \/ BillRestart \/ UNCHANGED billVars
    BY <2>2 DEF CronSeeds, PageChanges, PalTakesOver, BillRestart, billVars
  <2> QED
    BY <1>2, <2>1, <2>2
<1>3. CASE SyncArchives \/ QuietCapture
  <2>1. PICK b \in Bills, h \in BOOLEAN, w \in BOOLEAN : SilentOne(b, h, w)
    BY <1>3, SilentOnes
  <2> QED
    BY <2>1 DEF SilentOne
<1> QED
  BY <1>1, <1>2, <1>3, BillFrames

\* What the enqueueing leaves of the task.
LEMMA EnqueueTask ==
  ASSUME PendInv, NEW c \in Callers, CallerStep(c) \/ CronSeeds
  PROVE  /\ caller'["bills"].known = caller["bills"].known
         /\ \/ caller'["bills"] = caller["bills"]
            \/ caller["bills"].pc # "archive" /\ caller'["bills"].pc # "archive"
<1>1. ASSUME NEW pc, NEW left, NEW base, NEW bill,
             CallerAt(c, pc, left, base, bill, caller[c].known), caller[c].pc # "archive", pc # "archive"
      PROVE  /\ caller'["bills"].known = caller["bills"].known
             /\ \/ caller'["bills"] = caller["bills"]
                \/ caller["bills"].pc # "archive" /\ caller'["bills"].pc # "archive"
  BY <1>1 DEF CallerAt, Callers
<1>2. CASE EnqueueRead(c)
  <2>1. PICK b \in caller[c].left, list \in {retryQueue, {}} :
          IF AtCapacity(list) \/ b \in list
          THEN CallerAt(c, "read", caller[c].left \ {b}, {}, 0, caller[c].known)
          ELSE CallerAt(c, "write", caller[c].left, list, b, caller[c].known)
    BY <1>2, EnqueueEffects
  <2>2. caller[c].pc # "archive"
    BY <1>2 DEF EnqueueRead
  <2> QED
    BY <1>1, <2>1, <2>2
<1>3. CASE EnqueueWrite(c)
  <2>1. caller[c].pc # "archive"
    BY <1>3 DEF EnqueueWrite
  <2> QED
    BY <1>1, <1>3, <2>1, EnqueueEffects
<1>4. CASE EnqueueDone(c)
  <2>1. caller[c].pc # "archive"
    BY <1>4 DEF EnqueueDone
  <2>2. CallerAt(c, IF c = "bills" THEN "tell" ELSE "idle", {}, {}, 0, caller[c].known)
    BY <1>4, EnqueueEffects
  <2> QED
    BY <1>1, <2>1, <2>2
<1>5. CASE CronSeeds
  BY <1>5, TaskEffects DEF CallerAt, Callers
<1> QED
  BY <1>2, <1>3, <1>4, <1>5 DEF CallerStep

\* The steps of the task.
LEMMA TaskOnce ==
  ASSUME PendInv, NEW b \in Bills, OnceFor(b), b \notin again',
         CrawlFilters \/ CrawlLaunches \/ BillArchive \/ BillSplit \/ BillTell
  PROVE  OnceFor(b)'
<1> USE DEF site, local, toldVars
<1> DEFINE t == caller["bills"]
<1>1. /\ t \in CallerType /\ bare \in Counts /\ full \in Counts /\ billRow \in [Bills -> Rows]
      /\ HandsFit /\ RowsFit
  BY BillTypes DEF PendInv, CallersTyped, ToldTyped, Callers, BillInv
<1>2. CASE CrawlFilters
  <2>1. crawl'.found \subseteq NewBills
    BY <1>2 DEF CrawlFilters
  <2>2. b \in Finding' => billRow'[b] = "none"
    BY <1>2, <2>1 DEF CrawlFilters, Finding, NewBills, OnceFor
  <2> QED
    BY <1>2, <2>2, OnceFrame DEF CrawlFilters, Listing
<1>3. CASE CrawlLaunches
  <2>1. /\ b \in Finding' => billRow'[b] = "none"
        /\ caller'["bills"].pc = "archive" /\ b \in caller'["bills"].base => t.pc = "archive" /\ b \in t.base
        /\ b \in caller'["bills"].known => b \in t.known
    <3>1. crawl'.found = {} /\ billRow' = billRow
      BY <1>3 DEF CrawlLaunches, NoCrawl
    <3>2. CASE t.pc # "idle" \/ crawl.found = {}
      BY <1>3, <3>1, <3>2, TaskEffects DEF Finding, OnceFor
    <3>3. CASE t.pc = "idle" /\ crawl.found # {}
      <4>1. CallerAt("bills", "archive", crawl.found, {}, 0, {})
        BY <1>3, <3>3, TaskEffects
      <4> QED
        BY <3>1, <4>1 DEF CallerAt, Finding, OnceFor
    <3> QED
      BY <3>2, <3>3
  <2> QED
    BY <1>3, <2>1, OnceFrame DEF CrawlLaunches, Listing
<1>4. CASE BillArchive
  <2>1. PICK d \in t.left, h \in BOOLEAN, w \in BOOLEAN :
          /\ billRow' = IF w THEN [billRow EXCEPT ![d] = RowWith(@, h)] ELSE billRow
          /\ caller' = [caller EXCEPT !["bills"].left = @ \ {d},
                         !["bills"].known = IF w /\ h THEN @ \cup {d} ELSE @,
                         !["bills"].base = IF w /\ ~h THEN @ \cup {d} ELSE @]
          /\ again' = again \cup (crawl.found \cap {d})
    BY <1>4, ArchivesOne
  <2>2. PICK known : known = IF w /\ h THEN t.known \cup {d} ELSE t.known
    OBVIOUS
  <2>3. PICK base : base = IF w /\ ~h THEN t.base \cup {d} ELSE t.base
    OBVIOUS
  <2>4. PICK left : left = t.left \ {d}
    OBVIOUS
  <2>5. caller' = [caller EXCEPT !["bills"].left = left, !["bills"].known = known, !["bills"].base = base]
    BY <2>1, <2>2, <2>3, <2>4
  <2>6. /\ caller'["bills"].pc = "archive" /\ caller'["bills"].left = left
        /\ caller'["bills"].known = known /\ caller'["bills"].base = base
        /\ t.pc = "archive" /\ d \in Bills
    <3>1. caller \in [Callers -> CallerType] /\ "bills" \in Callers /\ t.pc = "archive"
      BY <1>4, BillTypes DEF PendInv, CallersTyped, Callers, BillArchive
    <3> QED
      BY <1>1, <2>1, <2>5, <3>1 DEF CallerType
  <2>7. UNCHANGED <<crawl, drain, retryQueue, bare, full>>
    BY <1>4 DEF BillArchive
  <2>8. CASE b = d
    <3>1. billRow[b] = "none" /\ b \notin crawl.found
      BY <2>1, <2>6, <2>8 DEF OnceFor, Finding
    <3>2. bare[b] = 0 /\ full[b] = 0
      BY <1>1, <3>1 DEF RowsFit, Counts, Unreasoned
    <3>3. b \notin Listing \cup drain.tell \cup retryQueue
      BY <1>1, <3>1 DEF HandsFit, Listing, Unreasoned
    <3>4. b \notin Listing' \cup drain'.tell \cup retryQueue'
      BY <2>7, <3>3 DEF Listing
    <3>5. b \notin Finding'
      BY <2>4, <2>6, <2>7, <2>8, <3>1 DEF Finding
    <3> QED
      BY <2>7, <3>2, <3>4, <3>5 DEF OnceFor
  <2>9. CASE b # d
    <3>1. billRow'[b] = billRow[b]
      BY <1>1, <2>1, <2>6, <2>9, ArchiveRows
    <3>2. b \in Finding' => billRow'[b] = "none"
      BY <2>4, <2>6, <2>7, <3>1 DEF Finding, OnceFor
    <3>3. /\ b \in known => b \in t.known
          /\ b \in base => b \in t.base
      BY <2>2, <2>3, <2>9
    <3> QED
      BY <2>6, <2>7, <3>2, <3>3, OnceFrame DEF Listing
  <2> QED
    BY <2>8, <2>9
<1>5. CASE BillSplit
  <2>1. CallerAt("bills", IF t.base = {} THEN "tell" ELSE "read", t.base, {}, 0, t.known)
        /\ UNCHANGED <<crawl, drain, retryQueue, billRow, full>> /\ t.pc = "archive" /\ bare' = Told(bare, t.base)
    BY <1>5, TaskEffects DEF BillSplit
  <2>2. b \in Finding' => billRow'[b] = "none"
    BY <2>1 DEF Finding, OnceFor, CallerAt
  <2>3. CASE b \notin t.base
    <3>1. bare'[b] = bare[b]
      BY <1>1, <2>1, <2>3, ToldCounts DEF CallerType
    <3> QED
      BY <2>1, <2>2, <3>1, OnceFrame DEF CallerAt, Listing
  <2>4. CASE b \in t.base
    <3>1. bare'[b] = 1
      BY <1>1, <2>1, <2>4, ToldCounts DEF CallerType, OnceFor
    <3> QED
      BY <2>1, <2>2, <3>1 DEF CallerAt, Listing, OnceFor
  <2> QED
    BY <2>3, <2>4
<1>6. CASE BillTell
  <2>1. CallerAt("bills", "idle", {}, {}, 0, {}) /\ UNCHANGED <<crawl, drain, retryQueue, billRow, bare>>
    BY <1>6, TaskEffects DEF BillTell
  <2>2. b \in Finding' => billRow'[b] = "none"
    BY <2>1 DEF Finding, OnceFor, CallerAt
  <2>3. PICK saved \in SUBSET t.known : full' = Told(full, saved)
    BY <1>6 DEF BillTell
  <2>4. CASE b \notin saved
    <3>1. full'[b] = full[b]
      BY <1>1, <2>3, <2>4, ToldCounts DEF CallerType
    <3> QED
      BY <2>1, <2>2, <3>1, OnceFrame DEF CallerAt, Listing
  <2>5. CASE b \in saved
    <3>1. full'[b] = 1 /\ b \notin Listing \cup drain.tell
      BY <1>1, <2>3, <2>5, ToldCounts DEF CallerType, OnceFor
    <3> QED
      BY <2>1, <2>2, <3>1 DEF CallerAt, Listing, OnceFor
  <2> QED
    BY <2>4, <2>5
<1> QED
  BY <1>2, <1>3, <1>4, <1>5, <1>6

\* The steps that enqueue.
LEMMA EnqueueOnce ==
  ASSUME PendInv, NEW b \in Bills, OnceFor(b), b \notin again', NEW c \in Callers, CallerStep(c)
  PROVE  OnceFor(b)'
<1> USE DEF site, local, toldVars
<1>1. /\ caller[c] \in CallerType /\ bare \in Counts /\ drain \in DrainType
      /\ HandsFit /\ RowsFit
  BY BillTypes DEF PendInv, CallersTyped, ToldTyped, BillInv
<1>2. billRow' = billRow /\ crawl' = crawl /\ full' = full
  BY DEF CallerStep, EnqueueRead, EnqueueWrite, EnqueueDone
<1>3. /\ b \in Finding' => billRow'[b] = "none"
      /\ caller'["bills"].pc = "archive" /\ b \in caller'["bills"].base =>
           caller["bills"].pc = "archive" /\ b \in caller["bills"].base
      /\ caller'["bills"].known = caller["bills"].known
  BY <1>2, EnqueueTask DEF Finding, OnceFor
<1>4. CASE EnqueueRead(c)
  <2>1. PICK d \in caller[c].left :
          bare' = bare \/ (bare' = Told(bare, {d}) /\ again' = again \cup {d})
    BY <1>4 DEF EnqueueRead
  <2>2. bare'[b] = bare[b]
    <3>1. CASE bare' = bare
      BY <3>1
    <3>2. CASE bare' = Told(bare, {d}) /\ again' = again \cup {d}
      <4>1. {d} \in SUBSET Bills /\ b \in Bills \ {d}
        BY <1>1, <2>1, <3>2 DEF CallerType
      <4> QED
        BY <1>1, <3>2, <4>1, ToldCounts
    <3> QED
      BY <2>1, <3>1, <3>2
  <2>3. UNCHANGED <<drain, retryQueue>>
    BY <1>4 DEF EnqueueRead
  <2> QED
    BY <1>2, <1>3, <2>2, <2>3, OnceFrame DEF Listing
<1>5. CASE EnqueueWrite(c)
  <2>1. UNCHANGED <<drain, bare>>
    BY <1>5 DEF EnqueueWrite
  <2>2. b \in retryQueue' => b \in retryQueue \/ billRow[b] \in Unreasoned
    <3>1. \/ retryQueue' = retryQueue
          \/ /\ retryQueue' = caller[c].base \cup {caller[c].bill}
             /\ again' = again \cup (caller[c].base \ retryQueue)
                          \cup (IF billRow[caller[c].bill] = "missing" THEN {} ELSE {caller[c].bill})
      BY <1>5 DEF EnqueueWrite
    <3> QED
      BY <3>1 DEF Unreasoned
  <2> QED
    BY <1>2, <1>3, <2>1, <2>2, OnceFrame DEF Listing
<1>6. CASE EnqueueDone(c)
  <2>1. UNCHANGED <<retryQueue, bare>> /\ RequestDrain
    BY <1>6 DEF EnqueueDone
  <2>2. \/ /\ drain'.pc = drain.pc /\ drain'.base = drain.base /\ drain'.tell = drain.tell
        \/ drain'.pc = "read" /\ drain'.tell = {}
    BY <1>1, <2>1, RequestEffects DEF DrainAt
  <2> QED
    BY <1>2, <1>3, <2>1, <2>2, OnceFrame DEF Listing, Working
<1> QED
  BY <1>4, <1>5, <1>6 DEF CallerStep

\* The steps of the drain.
LEMMA DrainOnce ==
  ASSUME PendInv, NEW b \in Bills, OnceFor(b), b \notin again',
         \/ DrainRead \/ DrainCheck \/ DrainPrune \/ DrainFetch \/ DrainPersist \/ DrainWrite
         \/ DrainTell \/ DrainReset \/ DrainThrows
  PROVE  OnceFor(b)'
<1> USE DEF site, local, toldVars
<1>1. /\ drain \in DrainType /\ DrainFits /\ HandsFit /\ RowsFit /\ billRow \in [Bills -> Rows]
      /\ bare \in Counts /\ full \in Counts
  BY BillTypes DEF PendInv, BillInv, ToldTyped
<1>2. caller' = caller /\ crawl' = crawl
  BY DEF DrainRead, DrainCheck, DrainPrune, DrainFetch, DrainPersist, DrainWrite, DrainTell, DrainReset,
      DrainThrows
<1>3. ASSUME bare'[b] = bare[b], full'[b] = full[b], retryQueue' = retryQueue,
             billRow[b] = "none" => billRow'[b] = "none",
             drain'.pc \in Working => drain'.base = retryQueue \/
                                      (drain.pc \in Working /\ drain'.base = drain.base),
             b \in drain'.tell => b \in drain.tell \cup Listing,
             drain'.pc = "tell" => drain.pc = "tell" /\ drain'.tell = drain.tell
      PROVE  OnceFor(b)'
  <2>1. b \in Finding' => billRow'[b] = "none"
    BY <1>2, <1>3 DEF Finding, OnceFor
  <2>2. b \in Listing' => b \in Listing
    BY <1>3 DEF Listing
  <2> QED
    BY <1>2, <1>3, <2>1, <2>2, OnceFrame
<1>4. CASE DrainRead \/ DrainCheck \/ DrainReset \/ DrainThrows
  <2>1. UNCHANGED <<bare, full, retryQueue, billRow>>
    BY <1>4 DEF DrainRead, DrainCheck, DrainReset, DrainThrows
  <2>2. /\ drain'.pc \in Working => drain'.base = retryQueue \/
                                      (drain.pc \in Working /\ drain'.base = drain.base)
        /\ drain'.tell \in {drain.tell, {}} /\ drain'.pc # "tell"
    BY <1>4, DrainEffects DEF DrainAt, PassOver, Working, DrainCheck
  <2> QED
    BY <1>3, <2>1, <2>2
<1>5. CASE DrainPrune
  <2>1. PICK old \in SUBSET NotDeleted(drain.list) :
          /\ bare' = Told(bare, old) /\ again' = again \cup old
          /\ drain'.base \in {drain.base, {}} /\ drain'.tell \in {drain.tell, {}}
          /\ drain'.pc # "tell" /\ (drain'.pc \in Working => drain'.base = drain.base)
    BY <1>5, DrainEffects DEF DrainAt, PassOver, Working
  <2>2. old \in SUBSET Bills /\ b \in Bills \ old
    BY <1>1, <2>1 DEF NotDeleted, DrainType
  <2>3. bare'[b] = bare[b]
    BY <1>1, <2>1, <2>2, ToldCounts
  <2> QED
    BY <1>3, <1>5, <2>1, <2>3 DEF DrainPrune, Working
<1>6. CASE DrainFetch
  <2>1. PICK d \in drain.left, ok \in BOOLEAN :
          /\ drain.pc = "fetch" /\ billRow' = [billRow EXCEPT ![d] = FetchedRow(d, ok)]
          /\ drain'.pc = "fetch" /\ drain'.base = drain.base /\ drain'.tell = drain.tell
    BY <1>6, FetchEffects DEF DrainAt
  <2>2. d \in Bills /\ billRow[d] # "none"
    BY <1>1, <2>1 DEF HandsFit, DrainFits, DrainType
  <2>3. billRow[b] = "none" => billRow'[b] = "none"
    BY <1>1, <2>1, <2>2, FetchRows
  <2> QED
    BY <1>3, <1>6, <2>1, <2>3 DEF DrainFetch, Working
<1>7. CASE DrainPersist
  <2>1. PICK saved \in SUBSET drain.known :
          \/ drain'.pc \in {"read", "ended"} /\ drain'.tell = {}
          \/ drain'.pc = "write" /\ drain'.base = drain.base /\ drain'.tell = saved
    BY <1>7, FetchEffects DEF DrainAt, PassOver
  <2>2. drain.pc = "fetch" /\ saved \subseteq Listing
    BY <1>1, <1>7, <2>1 DEF DrainPersist, DrainFits, Listing, Working
  <2> QED
    BY <1>3, <1>7, <2>1, <2>2 DEF DrainPersist, Working
<1>8. CASE DrainWrite
  <2>1. UNCHANGED <<billRow, bare, full>> /\ drain.pc = "write"
        /\ \/ retryQueue' = drain.list
           \/ retryQueue' = retryQueue /\ again' = again \cup drain.tell
    BY <1>8 DEF DrainWrite
  <2>2. /\ drain'.pc \notin Working /\ drain'.tell = drain.tell
        /\ drain'.pc = "tell" \/ drain'.tell = {}
    BY <1>8, DrainEffects DEF DrainAt, PassOver, Working
  <2>3. Listing' \subseteq Listing
    BY <1>1, <2>1, <2>2 DEF Listing, DrainFits, Working
  <2>4. b \in drain'.tell => full'[b] = 0 /\ b \notin retryQueue'
    <3>1. ASSUME b \in drain.tell PROVE b \in Listing /\ b \notin drain.list
      BY <1>1, <2>1, <3>1 DEF DrainFits, Listing, Working
    <3> QED
      BY <2>1, <2>2, <3>1 DEF OnceFor
  <2> QED
    BY <1>2, <2>1, <2>2, <2>3, <2>4 DEF OnceFor, Finding
<1>9. CASE DrainTell
  <2>1. UNCHANGED <<billRow, bare, retryQueue>> /\ drain.pc = "tell" /\ full' = Told(full, drain.tell)
        /\ drain.tell \in SUBSET Bills
    BY <1>1, <1>9 DEF DrainTell, DrainType
  <2>2. drain'.pc \notin Working \cup {"tell"} /\ drain'.tell = {}
    BY <1>9, DrainEffects DEF DrainAt, PassOver, Working
  <2>3. CASE b \notin drain.tell
    <3>1. full'[b] = full[b]
      BY <1>1, <2>1, <2>3, ToldCounts
    <3> QED
      BY <1>3, <2>1, <2>2, <3>1
  <2>4. CASE b \in drain.tell
    <3>1. full'[b] = 1 /\ b \notin retryQueue
      BY <1>1, <2>1, <2>4, ToldCounts DEF OnceFor
    <3> QED
      BY <1>2, <2>1, <2>2, <2>4, <3>1 DEF OnceFor, Finding, Listing
  <2> QED
    BY <2>3, <2>4
<1> QED
  BY <1>4, <1>5, <1>6, <1>7, <1>8, <1>9

LEMMA OnceNext == PendInv /\ [BillNext]_billVars => Once'
<1> SUFFICES ASSUME PendInv, [BillNext]_billVars, NEW b \in Bills, b \notin again' PROVE OnceFor(b)'
  BY DEF Once, OnceFor
<1> USE DEF site, local, toldVars
<1>1. OnceFor(b)
  BY AgainGrows DEF PendInv, BillInv, Once, OnceFor
<1>2. /\ SyncFirst /\ billRow \in [Bills -> Rows] /\ drain \in DrainType
  BY BillTypes DEF PendInv, BillInv
<1>3. CASE SyncArchives \/ QuietCapture
  <2>1. PICK d \in Bills, h \in BOOLEAN, w \in BOOLEAN : SilentOne(d, h, w)
    BY <1>3, SilentOnes
  <2>2. \A c \in Bills : c # d => billRow'[c] = billRow[c]
    BY <1>2, <2>1, ArchiveRows DEF SilentOne
  <2>3. UNCHANGED <<crawl, caller, drain, retryQueue, bare, full>>
    BY <1>3, SilentOnes
  <2>4. Finding' = Finding /\ Listing' = Listing
    BY <2>3 DEF Finding, Listing
  <2>5. b \in Finding' => billRow'[b] = "none"
    <3>1. b \in Finding => b # d
      BY <2>1 DEF SilentOne
    <3> QED
      BY <1>1, <2>2, <2>4, <3>1 DEF OnceFor
  <2> QED
    BY <1>1, <2>3, <2>4, <2>5, OnceFrame
<1>4. CASE PalTakesOver
  <2>1. billRow[b] = "none" => billRow'[b] = "none"
    BY <1>2, <1>4 DEF PalTakesOver
  <2>2. UNCHANGED <<crawl, caller, drain, retryQueue, bare, full>>
    BY <1>4 DEF PalTakesOver
  <2>3. b \in Finding' => billRow'[b] = "none"
    BY <1>1, <2>1, <2>2 DEF Finding, OnceFor
  <2> QED
    BY <1>1, <2>2, <2>3, OnceFrame DEF Listing
<1>5. CASE SyncScans \/ ArtifactsBegin \/ PageChanges \/ CronSeeds \/ UNCHANGED billVars
  <2>1. crawl'.found = crawl.found /\ UNCHANGED <<drain, retryQueue, bare, full, billRow>>
    BY <1>5, BillTypes DEF PendInv, SiteTyped, CrawlType, ArtifactsBegin, SyncScans, PageChanges,
                           CronSeeds, billVars
  <2>2. caller'["bills"] = caller["bills"]
    BY <1>5, TaskEffects DEF CallerAt, ArtifactsBegin, SyncScans, PageChanges, billVars, Callers
  <2>3. b \in Finding' => billRow'[b] = "none"
    BY <1>1, <2>1, <2>2 DEF Finding, OnceFor
  <2> QED
    BY <1>1, <2>1, <2>2, <2>3, OnceFrame DEF Listing
<1>6. CASE BillRestart
  <2>1. UNCHANGED <<retryQueue, bare, full, billRow>> /\ crawl'.found = {}
        /\ caller'["bills"].pc = "idle" /\ caller'["bills"].known = {}
    BY <1>6 DEF BillRestart, NoCrawl, Callers, Idle
  <2>2. drain'.pc = "read" /\ drain'.tell = {}
    BY <1>2, <1>6 DEF BillRestart, Reading
  <2> QED
    BY <1>1, <2>1, <2>2, OnceFrame DEF Finding, Listing, Working
<1> QED
  BY <1>1, <1>3, <1>4, <1>5, <1>6, BillFrames, TaskOnce, EnqueueOnce, DrainOnce

-----------------------------------------------------------------------------
LEMMA PendStart == BillInit => PendInv
<1> SUFFICES ASSUME BillInit PROVE PendInv
  OBVIOUS
<1>1. /\ billScope.failures \in Nat /\ billScope.crawls \in Nat /\ billScope.size \in Nat /\ billScope.size > 0
  BY BillAssumption DEF BillInit
<1>2. drain \in DrainType /\ drain.pc = "read" /\ drain.base = {} /\ drain.list = {} /\ drain.left = {}
      /\ drain.known = {} /\ drain.tell = {}
  BY DEF BillInit, Reading, DrainType
<1>3. caller \in [Callers -> CallerType] /\ \A c \in Callers : caller[c] = Idle
  BY IdleTyped DEF BillInit
<1>4. page \in [Bills -> Pages] /\ billRow \in [Bills -> Rows] /\ retryQueue = {}
      /\ \A b \in Bills : billRow[b] = "none" /\ bare[b] = 0 /\ full[b] = 0
  BY DEF BillInit, Pages, Rows
<1>5. sync \in [pc : {"scan", "archive", "done"}, left : SUBSET Bills]
      /\ crawl \in CrawlType /\ quiet \in [QuietRuns -> SUBSET Bills] /\ crawl.pc = "idle" /\ crawl.found = {}
  BY <1>1 DEF BillInit, Scanning, Synced, NoCrawl, Quiet, CrawlType
<1>6. BillTypeOK
  <2>1. SiteTyped /\ CallersTyped /\ FailuresTyped
    BY <1>1, <1>3, <1>4, <1>5 DEF BillInit, SiteTyped, CallersTyped, FailuresTyped
  <2>2. ToldTyped
    BY DEF BillInit, ToldTyped, Counts
  <2> QED
    BY <1>2, <1>4, <2>1, <2>2, BillTypes
<1>7. Capacity
  BY <1>1, <1>2, <1>3, <1>4, FS_EmptySet DEF Capacity, Idle
<1>8. RowsFit /\ HandsFit /\ SyncFirst /\ DrainFits
  BY <1>2, <1>3, <1>4, <1>5 DEF RowsFit, HandsFit, SyncFirst, DrainFits, Idle, Callers
<1>9. Heard /\ CopyKept /\ KnownIsAnnounced
  BY <1>2, <1>4 DEF Heard, CopyKept, Working, KnownIsAnnounced, BillInit
<1>10. Once
  BY <1>2, <1>3, <1>4, <1>5 DEF Once, Finding, Listing, Working, Idle, Callers
<1> QED
  BY <1>6, <1>7, <1>8, <1>9, <1>10 DEF PendInv, BillInv

LEMMA PendNext == PendInv /\ [BillNext]_billVars => PendInv'
<1> SUFFICES ASSUME PendInv, [BillNext]_billVars PROVE PendInv'
  OBVIOUS
<1>1. BillTypeOK' /\ RowsFit' /\ HandsFit' /\ SyncFirst' /\ DrainFits' /\ Heard'
  BY NextBillTyped, RowsFitNext, HandsFitNext, SyncFirstNext, DrainFitsNext
<1>2. CopyKept' /\ Capacity' /\ Once' /\ KnownIsAnnounced'
  BY CopyKeptNext, CapacityNext, OnceNext, KnownNext
<1> QED
  BY <1>1, <1>2 DEF PendInv, BillInv

LEMMA PendAlways == BillSpec => []PendInv
BY PendStart, PendNext, PTL DEF BillSpec

LEMMA PendBounds == PendInv => BillTypeOK /\ RetryQueueBounded
BY DEF PendInv, BillInv, Capacity, RetryQueueBounded

\* Every variable of the module keeps its type: the list in Redis, what process-pending-bills
\* and the drain cron have in hand, and the run of runDrainOnceOrJoin.
THEOREM BillTypeCorrect == BillSpec => []BillTypeOK
BY PendAlways, PTL DEF PendInv

\* The retry queue never outgrows PROPOSAL_REASON_RETRY_QUEUE.MAX_SIZE: enqueue checks the
\* size of the copy it writes back, and a drain only writes back less than it read.
THEOREM RetryQueueIsBounded == BillSpec => []RetryQueueBounded
BY PendAlways, PendBounds, PTL

\* Neither a request for a drain nor a bill that waits for its reason is lost by
\* CrawlingSchedulerProposalRetry: a drain asked for during a pass is followed by another
\* one; a bill whose reason is archived was announced with it, or is in the list, the
\* drain or the task, unless a failure, a restart or an overlapped write dropped it, or the
\* sync of the start, the refresh of known bills, the task for sync-only bills or the
\* backfill of snapshots, which announce nothing, recorded the reason while it was not in
\* the list; and nobody is told twice of it without a reason.
THEOREM BillsAreTended == BillSpec => []BillsTended
<1>1. PendInv => DrainRequestsHeard
  BY DEF PendInv, BillInv, Heard, DrainRequestsHeard
<1>2. PendInv => ToldTwiceForAReason
  <2> SUFFICES ASSUME PendInv, NEW b \in Bills, b \notin again PROVE ~(bare[b] > 1 \/ full[b] > 1)
    BY DEF ToldTwiceForAReason
  <2>1. bare[b] \in 0 .. 2 /\ full[b] \in 0 .. 2
    BY BillTypes DEF PendInv, ToldTyped, Counts
  <2> QED
    BY <2>1 DEF PendInv, BillInv, Once
<1>3. PendInv => BillsTended
  BY <1>1, <1>2 DEF PendInv, BillInv, BillsTended, BillsToldOnce
<1> QED
  BY <1>3, PendAlways, PTL

-----------------------------------------------------------------------------
(* Side by side                                                            *)

\* Every variable of the four components has its type, and the two queues that are
\* cut to their maximal size keep to it, whichever of the components moves.
THEOREM ServicesTypeCorrect == ServicesSpec => []ServicesTypeOK
<1> DEFINE Inv == IInv /\ TypeInv /\ ShotAll /\ PendInv
<1>1. ServicesInit => Inv
  BY InitIInv, InitTyped, ShotStart, PendStart DEF ServicesInit
<1>2. Inv /\ [ServicesNext]_all => Inv'
  <2> SUFFICES ASSUME Inv, [ServicesNext]_all PROVE Inv'
    OBVIOUS
  <2>1. /\ [Next]_vars /\ [DeliveryNext]_deliveryVars
        /\ [ShotNext]_shotVars /\ [BillNext]_billVars
    BY DEF ServicesNext, NotifierSteps, BillSteps, ScreenshotSteps, DeliverySteps,
           NotifierRest, BillRest, ScreenshotRest, DeliveryRest, all
  <2> QED
    BY <2>1, NextIInv, NextTyped, ShotStep, PendNext
<1>3. Inv => ServicesTypeOK
  BY AllIsAll, PendBounds DEF IInv, TypeInv, ShotInv, ServicesTypeOK
<1> QED
  BY <1>1, <1>2, <1>3, PTL DEF ServicesSpec
=============================================================================
