--------------------------- MODULE ChangeNotifier ---------------------------
(***************************************************************************)
(* The in-memory queue of change notifications.                            *)
(*                                                                         *)
(* Appending a change event dispatches a payload into the queue.  An       *)
(* archive run or a sync phase (a collector) brackets its work with begin  *)
(* and end, so that its payloads leave as one batch; outside a collection  *)
(* a 100 ms timer flushes.  A confirmed source deletion asks for a flush   *)
(* of its own.  Every operation runs without interruption up to its await; *)
(* the only await is the hand-over to the batch service, so a flush is two *)
(* steps and everything else interleaves between them.                     *)
(***************************************************************************)
EXTENDS Naturals, Sequences, FiniteSets

CONSTANTS
  Collectors,   \* archive runs, apply workers and sync phases
  Payloads      \* change events to notify about

ASSUME CollectorsFinite == IsFiniteSet(Collectors)

VARIABLES
  depth,        \* notificationCollectionDepth
  suppressed,   \* notificationSuppressionDepth > 0: the bootstrap pipeline runs
  bootstrap,    \* "before", "during", "after" the bootstrap pipeline
  queue,        \* queuedChangeNotifications
  timer,        \* flushTimer is set
  flushing,     \* isFlushingQueuedNotifications
  batch,        \* payloads of the flush under way
  inside,       \* collectors between begin and end
  todo,         \* payloads not dispatched yet
  deletions,    \* payloads of deletions whose flush is still to be requested
  delivered     \* history: payloads handed to the batch service

vars == <<depth, suppressed, bootstrap, queue, timer, flushing, batch, inside,
          todo, deletions, delivered>>

Elems(s) == {s[i] : i \in DOMAIN s}

Init ==
  /\ depth = 0
  /\ suppressed = FALSE
  /\ bootstrap = "before"
  /\ queue = <<>>
  /\ timer = FALSE
  /\ flushing = FALSE
  /\ batch = <<>>
  /\ inside = {}
  /\ todo = Payloads
  /\ deletions = {}
  /\ delivered = <<>>

-----------------------------------------------------------------------------
\* scheduleQueuedChangeNotificationFlush, with collection depth d: whether the
\* timer is set afterwards.
Scheduled(d) == timer \/ (~flushing /\ d = 0)

\* Mutant of FlushTakesQueue: the payloads are read but not removed.
CopyingFlush ==
  /\ batch' = queue
  /\ flushing' = TRUE
  /\ UNCHANGED queue

\* queuedChangeNotifications.splice(0, length)
FlushTakesQueue ==
  /\ batch' = queue
  /\ queue' = <<>>
  /\ flushing' = TRUE

\* flushQueuedChangeNotificationsNow, with collection depth d.
FlushNow(d) ==
  /\ timer' = FALSE
  /\ IF ~flushing /\ queue # <<>> /\ d = 0
     THEN FlushTakesQueue
     ELSE UNCHANGED <<batch, queue, flushing>>

\* dispatchChangeNotification: a payload of a created or bootstrap event, or
\* one seen during suppression, is skipped.
Enqueue(p) ==
  /\ queue' = Append(queue, p)
  /\ timer' = IF depth = 0 THEN Scheduled(depth) ELSE timer

Dispatch(p) ==
  /\ p \in todo
  /\ todo' = todo \ {p}
  /\ ~suppressed
  /\ Enqueue(p)
  /\ UNCHANGED <<depth, suppressed, bootstrap, flushing, batch, inside, deletions, delivered>>

\* Created and bootstrap-sourced events are skipped at any time.
Skip(p) ==
  /\ p \in todo
  /\ todo' = todo \ {p}
  /\ UNCHANGED <<depth, suppressed, bootstrap, queue, timer, flushing, batch, inside,
                 deletions, delivered>>

\* appendSourceDeletedAndFlushNotifications: the event is appended ...
DispatchDeletion(p) ==
  /\ p \in todo
  /\ todo' = todo \ {p}
  /\ deletions' = deletions \cup {p}
  /\ IF suppressed THEN UNCHANGED <<queue, timer>> ELSE Enqueue(p)
  /\ UNCHANGED <<depth, suppressed, bootstrap, flushing, batch, inside, delivered>>

\* ... and, an await later, the queue is flushed.
FlushDeletion(p) ==
  /\ p \in deletions
  /\ deletions' = deletions \ {p}
  /\ FlushNow(depth)
  /\ UNCHANGED <<depth, suppressed, bootstrap, inside, todo, delivered>>

\* Mutant of BeginCollection: the pending timer is left running.
BeginKeepingTimer(c) ==
  /\ c \notin inside
  /\ inside' = inside \cup {c}
  /\ depth' = depth + 1
  /\ UNCHANGED <<suppressed, bootstrap, queue, timer, flushing, batch, todo, deletions, delivered>>

BeginCollection(c) ==
  /\ c \notin inside
  /\ inside' = inside \cup {c}
  /\ depth' = depth + 1
  /\ timer' = FALSE
  /\ UNCHANGED <<suppressed, bootstrap, queue, flushing, batch, todo, deletions, delivered>>

\* Mutant of EndCollection: the end of any collection flushes.
EagerEnd(c) ==
  /\ c \in inside
  /\ inside' = inside \ {c}
  /\ depth' = depth - 1
  /\ FlushNow(0)
  /\ UNCHANGED <<suppressed, bootstrap, todo, deletions, delivered>>

EndCollection(c) ==
  /\ c \in inside
  /\ inside' = inside \ {c}
  /\ depth' = depth - 1
  /\ IF depth = 1 THEN FlushNow(0) ELSE UNCHANGED <<timer, batch, queue, flushing>>
  /\ UNCHANGED <<suppressed, bootstrap, todo, deletions, delivered>>

TimerFires ==
  /\ timer
  /\ FlushNow(depth)
  /\ UNCHANGED <<depth, suppressed, bootstrap, inside, todo, deletions, delivered>>

\* The batch service has taken the payloads, or has thrown: the error is
\* logged and the payloads are gone either way.
FlushSettles ==
  /\ flushing
  /\ flushing' = FALSE
  /\ delivered' = delivered \o batch
  /\ batch' = <<>>
  /\ timer' = (timer \/ (queue # <<>> /\ depth = 0))
  /\ UNCHANGED <<depth, suppressed, bootstrap, queue, inside, todo, deletions>>

\* beginChangeNotificationSuppression, endChangeNotificationSuppression: only
\* the bootstrap pipeline calls them, once.
BootstrapStarts ==
  /\ bootstrap = "before"
  /\ bootstrap' = "during"
  /\ suppressed' = TRUE
  /\ UNCHANGED <<depth, queue, timer, flushing, batch, inside, todo, deletions,
                 delivered>>

BootstrapEnds ==
  /\ bootstrap = "during"
  /\ bootstrap' = "after"
  /\ suppressed' = FALSE
  /\ UNCHANGED <<depth, queue, timer, flushing, batch, inside, todo, deletions,
                 delivered>>

Next ==
  \/ \E p \in Payloads :
       Dispatch(p) \/ Skip(p) \/ DispatchDeletion(p) \/ FlushDeletion(p)
  \/ \E c \in Collectors : BeginCollection(c) \/ EndCollection(c)
  \/ TimerFires \/ FlushSettles
  \/ BootstrapStarts \/ BootstrapEnds

Spec == Init /\ [][Next]_vars

\* The event loop runs due timers and settles the promise of the hand-over.
FairSpec == Spec /\ WF_vars(TimerFires) /\ WF_vars(FlushSettles)

-----------------------------------------------------------------------------
(* Properties                                                              *)

\* Type invariant.
TypeOK ==
  /\ depth \in Nat
  /\ suppressed \in BOOLEAN
  /\ bootstrap \in {"before", "during", "after"}
  /\ queue \in Seq(Payloads)
  /\ timer \in BOOLEAN
  /\ flushing \in BOOLEAN
  /\ batch \in Seq(Payloads)
  /\ inside \subseteq Collectors
  /\ todo \subseteq Payloads
  /\ deletions \subseteq Payloads
  /\ delivered \in Seq(Payloads)

\* The depth counts the collections that are open, however the begins and ends
\* of concurrent runs interleave: the flushes at depth 0 neither come early nor
\* stay away for ever.
DepthCountsCollectors == depth = Cardinality(inside)

\* The timer never competes with a flush or with a collection
\* (scheduleQueuedChangeNotificationFlush and beginChangeNotificationCollection).
TimerExclusive == timer => ~flushing /\ depth = 0

\* No lost wake-up: outside a collection a waiting payload has a timer or a
\* running flush (whose finally block looks again) to take it along.
NoLostWakeup == queue # <<>> /\ depth = 0 => timer \/ flushing

\* Every payload is covered by a timer, a flush or a collection, and they do not
\* get into each other's way.
FlushCovered == DepthCountsCollectors /\ TimerExclusive /\ NoLostWakeup

\* A batch is cut only when no collection is open: what one run queued leaves
\* together.
CollectedTogether == [][batch = <<>> /\ batch' # <<>> => inside' = {}]_vars

\* The queue implements the outbox: payloads leave once, in order, none lost.
outbox == INSTANCE Outbox WITH pending <- batch \o queue
OutboxSpec == outbox!Spec

\* If the collections leave gaps, what is queued is handed over: the queue and
\* the batch become empty again and again.
QueueDrains == []<>(depth = 0) => []<>(batch \o queue = <<>>)
=============================================================================
