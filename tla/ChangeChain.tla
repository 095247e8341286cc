---------------------------- MODULE ChangeChain ----------------------------
(***************************************************************************)
(* The append-only change chain of every archived notice, and the writers  *)
(* that extend it concurrently.                                            *)
(*                                                                         *)
(* A writer is one asynchronous call (upsert, NSM detail update, isDone    *)
(* sync, source deletion, legacy genesis seeding).  The process is single  *)
(* threaded: a writer runs without interruption between two awaits, so one *)
(* action is the code between two awaits and other writers interleave      *)
(* there.  The database tables survive a crash, everything else does not.  *)
(*                                                                         *)
(* A tracked snapshot keeps five of the sixteen tracked fields: the notice *)
(* number, the stable identity (contentId), one text field (proposalReason)*)
(* standing for every text field, isDone, and the lifecycle.  SHA-256 is   *)
(* modelled as injective: an event hash is the hashed payload itself.      *)
(***************************************************************************)
EXTENDS Integers, Sequences, FiniteSets, FiniteSetsExt

CONSTANTS
  Notices,      \* notice numbers (positive integers)
  Writers,      \* concurrent asynchronous calls
  ContentIds,   \* PAL content identifiers
  Reasons,      \* non-empty proposal reasons
  Stamps,       \* detectedAt timestamps (millisecond resolution)
  None,         \* null
  Ops,          \* kinds of calls the environment issues
  ReportedIds,  \* [Notices -> SUBSET (ContentIds \cup {None})]: identities a crawl reports
  Drivers,      \* what isSqliteDriver() may return: with TRUE appends are serialized
  MaxRetries,   \* APPEND_EVENT_MAX_RETRIES
  MaxOps,       \* bound: calls issued
  MaxFaults,    \* bound: failing database calls
  MaxCrashes    \* bound: process restarts

OpKinds == {"upsert", "nsmDetail", "doneSync", "sourceDeleted", "genesis"}

ASSUME ChainAssumption ==
  /\ Notices \subseteq Nat \ {0}
  /\ IsFiniteSet(Notices)
  /\ None \notin Notices \cup ContentIds \cup Reasons \cup Stamps
  /\ Ops \subseteq OpKinds
  /\ ReportedIds \in [Notices -> SUBSET (ContentIds \cup {None})]
  /\ Drivers \subseteq BOOLEAN
  /\ MaxRetries \in Nat \ {0}
  /\ {MaxOps, MaxFaults, MaxCrashes} \subseteq Nat

VARIABLES
  row,       \* notice_archives: the immutable row of a notice, or None
  done,      \* notice_archive_snapshot_states.is_done: None (no row), "true", "false"
  chain,     \* notice_change_events with their details, in insertion order
  pc,        \* where each writer is suspended
  task,      \* the locals of each writer
  turnQueue, \* sqliteAppendQueue: the writers holding (head) or awaiting a turn;
             \* None with a driver that does without
  appended,  \* history: events the writer's current append call committed
  ops, faults, crashes

db == <<row, done, chain>>
budget == <<ops, faults, crashes>>
vars == <<row, done, chain, pc, task, turnQueue, appended, ops, faults, crashes>>

-----------------------------------------------------------------------------
(* Snapshots, diffs and events                                             *)

Fields == {"num", "contentId", "reason", "isDone", "lifecycle"}
EventTypes == {"created", "updated", "invalidated"}

Coalesce(v, w) == IF v # None THEN v ELSE w

\* The tracked row a writer loads: the immutable columns and the current isDone.
TrackedRow(n) ==
  IF row[n] = None THEN None
  ELSE [row[n] EXCEPT !["isDone"] = Coalesce(done[n], "false")]

\* getTrackedRowByStableIdentity: another notice's row with the same identity.
StableMatches(n, c) ==
  {m \in Notices \ {n} : c # None /\ row[m] # None /\ row[m]["contentId"] = c}

\* Number of the last event of c that recorded field f, 0 if there is none.
LastTouch(c, f) == Max({0} \cup {i \in DOMAIN c : f \in DOMAIN c[i].details})

FieldAfter(c, f, default) ==
  LET i == LastTouch(c, f) IN IF i = 0 THEN default ELSE c[i].details[f].after

\* Mutant of Baseline: the diff is taken against the immutable row.
StaleBaseline(n, base) == base

\* buildDiffBaselineSnapshot: the loaded row overlaid with the chain head.
Baseline(n, base) ==
  IF base = None THEN None
  ELSE [f \in Fields |-> FieldAfter(chain[n], f, base[f])]

ValueBefore(before, f) == IF before = None THEN None ELSE before[f]

\* computeDiff
Diff(before, after) ==
  [f \in {g \in Fields : ValueBefore(before, g) # after[g]} |->
     [before |-> ValueBefore(before, f), after |-> after[f]]]

\* resolveEventType
EventType(before, after, preferred) ==
  IF before = None THEN "created"
  ELSE IF preferred # None THEN preferred
  ELSE IF after["lifecycle"] \in {"source_deleted", "renumbered"} THEN "invalidated"
  ELSE "updated"

\* buildDiffEvent
BuildEvent(n, source, preferred, before, after, at) ==
  LET type == EventType(before, after, preferred) IN
  [num |-> n, type |-> type, source |-> source, at |-> at,
   details |-> Diff(before, after),
   hash |-> [num |-> n, type |-> type, source |-> source, at |-> at,
             before |-> before, after |-> after]]

ShouldAppend(e) == e.type = "created" \/ DOMAIN e.details # {}

\* Mutant of IsLatestDuplicate: the details are not compared.
SameHeaderIsDuplicate(e) ==
  chain[e.num] # <<>> /\
    LET head == chain[e.num][Len(chain[e.num])] IN
    head.type = e.type /\ head.source = e.source

\* findLatestDuplicateEvent: the chain head already says what e says.
IsLatestDuplicate(e) ==
  LET c == chain[e.num] IN
  /\ c # <<>>
  /\ LET head == c[Len(c)] IN
     /\ head.type = e.type
     /\ head.source = e.source
     /\ head.details = e.details

\* What the transaction's findOne ORDER BY event_height DESC returns.
HeadLink(n) ==
  IF chain[n] = <<>> THEN [height |-> 0, hash |-> None]
  ELSE LET e == chain[n][Len(chain[n])] IN [height |-> e.height, hash |-> e.hash]

\* Mutant of Entity: prevEventHash is not filled in.
UnlinkedEntity(e, link) ==
  [height |-> link.height + 1, prev |-> None, hash |-> e.hash, type |-> e.type,
   source |-> e.source, at |-> e.at, details |-> e.details]

\* createChangeEventEntity
Entity(e, link) ==
  [height |-> link.height + 1, prev |-> link.hash, hash |-> e.hash, type |-> e.type,
   source |-> e.source, at |-> e.at, details |-> e.details]

\* Mutant of HashTaken: the unique index is missing.
NoHashIndex(e) == FALSE

\* The unique indexes on event_hash and on (notice_num, event_height).
HashTaken(e) == \E i \in DOMAIN chain[e.num] : chain[e.num][i].hash = e.hash
HeightTaken(n, h) == \E i \in DOMAIN chain[n] : chain[n][i].height = h

-----------------------------------------------------------------------------
(* Writers                                                                 *)

NoTask == [num |-> None, inc |-> None, before |-> None, base |-> None,
           after |-> None, todo |-> {}, rows |-> <<>>, cand |-> None,
           link |-> None, attempt |-> 0, then |-> "idle"]

Init ==
  /\ row = [n \in Notices |-> None]
  /\ done = [n \in Notices |-> None]
  /\ chain = [n \in Notices |-> <<>>]
  /\ pc = [w \in Writers |-> "idle"]
  /\ task = [w \in Writers |-> NoTask]
  /\ turnQueue \in {IF sqlite THEN <<>> ELSE None : sqlite \in Drivers}
  /\ appended = [w \in Writers |-> 0]
  /\ ops = 0 /\ faults = 0 /\ crashes = 0

Goto(w, label) == pc' = [pc EXCEPT ![w] = label]
SetTask(w, t) == task' = [task EXCEPT ![w] = t]

Finish(w) == Goto(w, "idle") /\ SetTask(w, NoTask)

\* The call continues at label, or ends when label is "idle".
Continue(w, t, label) ==
  IF label = "idle" THEN Finish(w) ELSE Goto(w, label) /\ SetTask(w, t)

\* isSqliteDriver()
Serialized == turnQueue # None

\* appendChangeEventWithDetails is called in the same tick as the diff is
\* built: the call takes its place in sqliteAppendQueue at once.
CallAppend(w, t, e, then) ==
  /\ appended' = [appended EXCEPT ![w] = 0]
  /\ turnQueue' = IF Serialized THEN Append(turnQueue, w) ELSE turnQueue
  /\ Goto(w, "dedupe")
  /\ SetTask(w, [t EXCEPT !.cand = e, !.then = then, !.attempt = 1])

\* appendExplicitEventWithDiff / appendTrackedDiffEvent after the baseline is known.
AppendIfChanged(w, t, n, source, preferred, before, after, at, then) ==
  LET e == BuildEvent(n, source, preferred, before, after, at) IN
  IF ShouldAppend(e)
  THEN CallAppend(w, t, e, then)
  ELSE Continue(w, t, then) /\ UNCHANGED <<turnQueue, appended>>

Issue(op) ==
  /\ op \in Ops
  /\ ops < MaxOps
  /\ ops' = ops + 1
  /\ UNCHANGED <<faults, crashes>>

(* upsertNoticeArchive *)

\* A crawl result: its identity, its reason (None when the content fetch
\* failed or the page has no reason) and whether it carries a summary.
Incoming(n) ==
  [contentId : ReportedIds[n], reason : Reasons \cup {None}, summary : BOOLEAN]

UpsertStart(w) ==
  /\ pc[w] = "idle"
  /\ Issue("upsert")
  /\ \E n \in Notices : \E inc \in Incoming(n) :
       LET direct == TrackedRow(n)
           others == StableMatches(n, inc.contentId)
           before == IF direct # None \/ others = {} THEN direct
                     ELSE TrackedRow(Max(others))
       IN SetTask(w, [NoTask EXCEPT !.num = n, !.inc = inc, !.before = before])
  /\ Goto(w, "upsertBase")
  /\ UNCHANGED <<db, turnQueue, appended>>

\* The snapshot the upsert wants to record, resolved against the baseline.
ResolvedUpsert(n, inc, before, base) ==
  LET existing == before # None
      oldReason == IF existing THEN Coalesce(base["reason"], before["reason"]) ELSE None
      oldId == IF existing THEN Coalesce(base["contentId"], before["contentId"]) ELSE None
      nsmRecrawl == existing /\ inc.contentId = None /\ oldId # None
  IN [num |-> n,
      contentId |-> IF nsmRecrawl THEN oldId ELSE inc.contentId,
      reason |-> IF nsmRecrawl THEN oldReason ELSE Coalesce(inc.reason, oldReason),
      isDone |-> IF existing THEN base["isDone"] ELSE "false",
      lifecycle |-> "active"]

\* The timeline read of buildDiffBaselineSnapshot has returned; a failed read
\* falls back to the stale row.
BaselineRead(n, before, base) ==
  \/ base = Baseline(n, before) /\ UNCHANGED faults
  \/ base = before /\ faults < MaxFaults /\ faults' = faults + 1

IsRenumbering(t) == t.before # None /\ t.before["num"] # t.num

UpsertResolve(w) ==
  LET t == task[w] IN
  /\ pc[w] = "upsertBase"
  /\ \E base \in {Baseline(t.num, t.before), t.before} :
       /\ BaselineRead(t.num, t.before, base)
       /\ LET u == [t EXCEPT !.after = ResolvedUpsert(t.num, t.inc, t.before, base)] IN
          IF IsRenumbering(t)
          THEN \E at \in Stamps :
                 AppendIfChanged(w, u, t.before["num"], "archive:renumbered", "invalidated",
                   t.before,
                   [t.before EXCEPT !["isDone"] = "true", !["lifecycle"] = "renumbered"],
                   at, "upsertSave")
          ELSE /\ Goto(w, "upsertSave")
               /\ SetTask(w, u)
               /\ UNCHANGED <<turnQueue, appended>>
  /\ UNCHANGED <<db, ops, crashes>>

\* Mutant of UpsertSave: an existing row is overwritten.
OverwritingSave(w) ==
  /\ pc[w] = "upsertSave"
  /\ row' = [row EXCEPT ![task[w].num] = task[w].after]
  /\ Goto(w, "upsertState")
  /\ UNCHANGED <<task, done, chain, turnQueue, appended, budget>>

\* An existing row is never updated; a new one is inserted, and the insert
\* fails when another writer inserted the number first.
UpsertSave(w) ==
  LET t == task[w] IN
  /\ pc[w] = "upsertSave"
  /\ IF t.before # None
     THEN Goto(w, "upsertState") /\ UNCHANGED <<row, task>>
     ELSE IF row[t.num] = None
     THEN Goto(w, "upsertState") /\ row' = [row EXCEPT ![t.num] = t.after]
          /\ UNCHANGED task
     ELSE Finish(w) /\ UNCHANGED row
  /\ UNCHANGED <<done, chain, turnQueue, appended, budget>>

\* The summary-state row: moved from the old number on a renumbering, then
\* written (explicit summary) or created when it is missing.
UpsertState(w) ==
  LET t == task[w]
      from == t.before["num"]
      moved == IF IsRenumbering(t) /\ done[from] # None
               THEN [done EXCEPT ![t.num] = done[from], ![from] = None] ELSE done
  IN
  /\ pc[w] = "upsertState"
  /\ done' = IF t.inc.summary \/ moved[t.num] = None
             THEN [moved EXCEPT ![t.num] = t.after["isDone"]] ELSE moved
  /\ Goto(w, "upsertAppend")
  /\ UNCHANGED <<row, chain, task, turnQueue, appended, budget>>

\* appendTrackedDiffEvent re-reads the baseline before it computes the diff.
UpsertAppend(w) ==
  LET t == task[w] IN
  /\ pc[w] = "upsertAppend"
  /\ \E base \in {Baseline(t.num, t.before), t.before}, at \in Stamps :
       /\ BaselineRead(t.num, t.before, base)
       /\ AppendIfChanged(w, t, t.num, "archive:upsert", None, base, t.after, at, "idle")
  /\ UNCHANGED <<db, ops, crashes>>

(* updateNsmHtmlAndDetail *)

NsmStart(w) ==
  /\ pc[w] = "idle"
  /\ Issue("nsmDetail")
  /\ \E n \in Notices, r \in Reasons \cup {None} :
       /\ TrackedRow(n) # None
       /\ SetTask(w, [NoTask EXCEPT !.num = n, !.inc = r, !.before = TrackedRow(n)])
  /\ Goto(w, "nsmBase")
  /\ UNCHANGED <<db, turnQueue, appended>>

NsmBaseline(w) ==
  LET t == task[w] IN
  /\ pc[w] = "nsmBase"
  /\ \E base \in {Baseline(t.num, t.before), t.before} :
       /\ BaselineRead(t.num, t.before, base)
       /\ IF base["contentId"] # None
          THEN Finish(w)
          ELSE Goto(w, "nsmAppend") /\ SetTask(w, [t EXCEPT !.base = base])
  /\ UNCHANGED <<db, turnQueue, appended, ops, crashes>>

\* getLatestProposalReasonForNotice is a second read of the chain head.
NsmAppend(w) ==
  LET t == task[w]
      latest == FieldAfter(chain[t.num], "reason", None)
      before == [t.base EXCEPT !["reason"] = Coalesce(latest, @)]
      after == [before EXCEPT !["reason"] = Coalesce(t.inc, @)]
  IN
  /\ pc[w] = "nsmAppend"
  /\ \E at \in Stamps :
       AppendIfChanged(w, t, t.num, "archive:updateNsmHtmlAndDetail", "updated",
                       before, after, at, "idle")
  /\ UNCHANGED <<db, budget>>

(* markNoticesDoneByNums *)

DoneStart(w) ==
  /\ pc[w] = "idle"
  /\ Issue("doneSync")
  /\ \E nums \in SUBSET Notices :
       LET changed == {n \in nums : done[n] = "false"} IN
       /\ changed # {}
       /\ SetTask(w, [NoTask EXCEPT !.todo = changed])
  /\ Goto(w, "doneRows")
  /\ UNCHANGED <<db, turnQueue, appended>>

DoneRows(w) ==
  /\ pc[w] = "doneRows"
  /\ SetTask(w, [task[w] EXCEPT !.rows = [n \in task[w].todo |-> TrackedRow(n)]])
  /\ Goto(w, "doneMark")
  /\ UNCHANGED <<db, turnQueue, appended, budget>>

\* UPDATE ... SET is_done = true WHERE notice_num IN changed AND is_done = false.
DoneMark(w) ==
  LET t == task[w] IN
  /\ pc[w] = "doneMark"
  /\ done' = [n \in Notices |-> IF n \in t.todo /\ done[n] = "false" THEN "true" ELSE done[n]]
  /\ SetTask(w, [t EXCEPT !.todo = {n \in t.todo : t.rows[n] # None}])
  /\ Goto(w, "doneNext")
  /\ UNCHANGED <<row, chain, turnQueue, appended, budget>>

DoneNext(w) ==
  LET t == task[w] IN
  /\ pc[w] = "doneNext"
  /\ IF t.todo = {}
     THEN Finish(w) /\ UNCHANGED <<turnQueue, appended, faults>>
     ELSE LET n == Min(t.todo)
              u == [t EXCEPT !.todo = @ \ {n}]
          IN \E base \in {Baseline(n, t.rows[n]), t.rows[n]}, at \in Stamps :
               /\ BaselineRead(n, t.rows[n], base)
               /\ AppendIfChanged(w, u, n, "archive:isDoneSync", "updated", base,
                                  [base EXCEPT !["isDone"] = "true"], at, "doneNext")
  /\ UNCHANGED <<db, ops, crashes>>

(* appendSourceDeletedEventByNoticeNum *)

DeleteStart(w) ==
  /\ pc[w] = "idle"
  /\ Issue("sourceDeleted")
  /\ \E n \in Notices :
       /\ TrackedRow(n) # None
       /\ SetTask(w, [NoTask EXCEPT !.num = n, !.before = TrackedRow(n)])
  /\ Goto(w, "deleteAppend")
  /\ UNCHANGED <<db, turnQueue, appended>>

DeleteAppend(w) ==
  LET t == task[w] IN
  /\ pc[w] = "deleteAppend"
  /\ \E base \in {Baseline(t.num, t.before), t.before}, at \in Stamps :
       /\ BaselineRead(t.num, t.before, base)
       /\ IF base["lifecycle"] = "source_deleted"
          THEN Finish(w) /\ UNCHANGED <<turnQueue, appended>>
          ELSE AppendIfChanged(w, t, t.num, "archive:source-missing", "invalidated", base,
                 [base EXCEPT !["isDone"] = "true", !["lifecycle"] = "source_deleted"],
                 at, "deleteState")
  /\ UNCHANGED <<db, ops, crashes>>

DeleteState(w) ==
  /\ pc[w] = "deleteState"
  /\ done' = [done EXCEPT ![task[w].num] = "true"]
  /\ Finish(w)
  /\ UNCHANGED <<row, chain, turnQueue, appended, budget>>

(* seedLegacyGenesisEvents *)

Eventless == {n \in Notices : row[n] # None /\ chain[n] = <<>>}

GenesisStart(w) ==
  /\ pc[w] = "idle"
  /\ Issue("genesis")
  /\ Eventless # {}
  /\ SetTask(w, [NoTask EXCEPT !.todo = Eventless,
                               !.rows = [n \in Eventless |-> TrackedRow(n)]])
  /\ Goto(w, "genesisFilter")
  /\ UNCHANGED <<db, turnQueue, appended>>

\* getNoticeNumsWithAnyEvent: the candidates are re-checked once per page.
GenesisFilter(w) ==
  /\ pc[w] = "genesisFilter"
  /\ SetTask(w, [task[w] EXCEPT !.todo = {n \in @ : chain[n] = <<>>}])
  /\ Goto(w, "genesisNext")
  /\ UNCHANGED <<db, turnQueue, appended, budget>>

GenesisNext(w) ==
  LET t == task[w] IN
  /\ pc[w] = "genesisNext"
  /\ IF t.todo = {}
     THEN Finish(w) /\ UNCHANGED <<turnQueue, appended>>
     ELSE LET n == Min(t.todo) IN
          \E at \in Stamps :
            AppendIfChanged(w, [t EXCEPT !.todo = @ \ {n}], n, "bootstrap:legacy-seed",
                            "created", None, t.rows[n], at, "genesisNext")
  /\ UNCHANGED <<db, budget>>

-----------------------------------------------------------------------------
(* appendChangeEventWithDetails                                            *)

\* runSqliteAppendSerialized: await waitForTurn.
HasTurn(w) == Serialized => turnQueue # <<>> /\ Head(turnQueue) = w

\* Mutant of ReleaseTurn: the finally block is missing.
KeepTurn == UNCHANGED turnQueue

\* runSqliteAppendSerialized: finally { release() }.
ReleaseTurn == turnQueue' = IF Serialized THEN Tail(turnQueue) ELSE turnQueue

AppendReturns(w) == ReleaseTurn /\ Continue(w, task[w], task[w].then)
AppendThrows(w) == ReleaseTurn /\ Finish(w)

AppendDedupe(w) ==
  /\ pc[w] = "dedupe"
  /\ HasTurn(w)
  /\ IF IsLatestDuplicate(task[w].cand)
     THEN AppendReturns(w)
     ELSE Goto(w, "txRead") /\ UNCHANGED <<task, turnQueue>>
  /\ UNCHANGED <<db, appended, budget>>

\* The transaction reads the head it will link to.
TxRead(w) ==
  /\ pc[w] = "txRead"
  /\ SetTask(w, [task[w] EXCEPT !.link = HeadLink(task[w].cand.num)])
  /\ Goto(w, "txCommit")
  /\ UNCHANGED <<db, turnQueue, appended, budget>>

\* Mutant of RetryOrThrow: one attempt too many.
RetryPastLimit(w) ==
  IF task[w].attempt <= MaxRetries
  THEN SetTask(w, [task[w] EXCEPT !.attempt = @ + 1]) /\ Goto(w, "txRead") /\ UNCHANGED turnQueue
  ELSE AppendThrows(w)

\* The catch block: retry while attempts remain, else rethrow.
RetryOrThrow(w) ==
  IF task[w].attempt < MaxRetries
  THEN /\ SetTask(w, [task[w] EXCEPT !.attempt = @ + 1])
       /\ Goto(w, "txRead")
       /\ UNCHANGED turnQueue
  ELSE AppendThrows(w)

Commit(w) ==
  LET e == task[w].cand IN
  /\ chain' = [chain EXCEPT ![e.num] = Append(@, Entity(e, task[w].link))]
  /\ appended' = [appended EXCEPT ![w] = @ + 1]
  /\ UNCHANGED <<row, done>>

\* The unique index on event_hash fires: the stored event is returned.
TxHashConflict(w) ==
  /\ pc[w] = "txCommit"
  /\ HashTaken(task[w].cand)
  /\ AppendReturns(w)
  /\ UNCHANGED <<db, appended, budget>>

\* The unique index on (notice_num, event_height) fires.
TxHeightConflict(w) ==
  /\ pc[w] = "txCommit"
  /\ HeightTaken(task[w].cand.num, task[w].link.height + 1)
  /\ RetryOrThrow(w)
  /\ UNCHANGED <<db, appended, budget>>

Committable(w) ==
  /\ pc[w] = "txCommit"
  /\ ~HashTaken(task[w].cand)
  /\ ~HeightTaken(task[w].cand.num, task[w].link.height + 1)

TxCommit(w) ==
  /\ Committable(w)
  /\ Commit(w)
  /\ AppendReturns(w)
  /\ UNCHANGED budget

\* A transaction start or state conflict: the shared SQLite connection makes
\* the error say nothing about whether the statements were committed.
TxConflict(w) ==
  /\ Committable(w)
  /\ faults < MaxFaults
  /\ faults' = faults + 1
  /\ Commit(w) \/ UNCHANGED <<db, appended>>
  /\ RetryOrThrow(w)
  /\ UNCHANGED <<ops, crashes>>

\* Any other database error ends the call, whatever it was about to do.
CallThrows(w) ==
  /\ pc[w] \notin {"idle", "dedupe"} \/ (pc[w] = "dedupe" /\ HasTurn(w))
  /\ faults < MaxFaults
  /\ faults' = faults + 1
  /\ IF pc[w] \in {"dedupe", "txRead", "txCommit"} THEN ReleaseTurn ELSE UNCHANGED turnQueue
  /\ Finish(w)
  /\ UNCHANGED <<db, appended, ops, crashes>>

\* The process stops and starts again: only the tables are left.
Crash ==
  /\ crashes < MaxCrashes
  /\ crashes' = crashes + 1
  /\ pc' = [w \in Writers |-> "idle"]
  /\ task' = [w \in Writers |-> NoTask]
  /\ turnQueue' = IF Serialized THEN <<>> ELSE turnQueue
  /\ appended' = [w \in Writers |-> 0]
  /\ UNCHANGED <<db, ops, faults>>

AppendStep(w) ==
  \/ AppendDedupe(w) \/ TxRead(w) \/ TxHashConflict(w) \/ TxHeightConflict(w)
  \/ TxCommit(w) \/ TxConflict(w)

\* A call is issued.
Start(w) ==
  UpsertStart(w) \/ NsmStart(w) \/ DoneStart(w) \/ DeleteStart(w) \/ GenesisStart(w)

\* A started call makes its next step.
Progress(w) ==
  \/ UpsertResolve(w) \/ UpsertSave(w) \/ UpsertState(w) \/ UpsertAppend(w)
  \/ NsmBaseline(w) \/ NsmAppend(w)
  \/ DoneRows(w) \/ DoneMark(w) \/ DoneNext(w)
  \/ DeleteAppend(w) \/ DeleteState(w)
  \/ GenesisFilter(w) \/ GenesisNext(w)
  \/ AppendStep(w)

WriterStep(w) == Start(w) \/ Progress(w) \/ CallThrows(w)

Next == (\E w \in Writers : WriterStep(w)) \/ Crash

Spec == Init /\ [][Next]_vars

\* The database answers every query, so a call that can go on eventually does.
FairSpec == Spec /\ \A w \in Writers : WF_vars(Progress(w))

-----------------------------------------------------------------------------
(* The chain audit                                                         *)

\* applyDetailsToTrackedState over the first i events.
Replay(c, i) ==
  [f \in Fields |-> FieldAfter(SubSeq(c, 1, i), f, None)]

\* buildDiffEvent as verifyNoticeChain calls it: on the replayed state, and
\* without the preferred event type of the original call.
Rebuilt(n, c, i) ==
  BuildEvent(n, c[i].source, None, IF i = 1 THEN None ELSE Replay(c, i - 1),
             Replay(c, i), c[i].at)

\* verifyNoticeChain: the event at position i raises an issue.
AuditIssue(n, c, i) ==
  LET e == c[i]
      r == Rebuilt(n, c, i)
  IN
  \/ e.height # i
  \/ e.prev # (IF e.height = 1 \/ i = 1 THEN None ELSE c[i - 1].hash)
  \/ e.hash # r.hash
  \/ e.type # r.type
  \/ DOMAIN e.details # DOMAIN r.details

-----------------------------------------------------------------------------
(* Properties                                                              *)

Labels == {"idle", "upsertBase", "upsertSave", "upsertState", "upsertAppend", "nsmBase",
           "nsmAppend", "doneRows", "doneMark", "doneNext", "deleteAppend", "deleteState",
           "genesisFilter", "genesisNext", "dedupe", "txRead", "txCommit"}

\* Type invariant of the tables and of the writers' control state.
TypeOK ==
  /\ DOMAIN row = Notices
  /\ done \in [Notices -> {None, "true", "false"}]
  /\ \A n \in Notices : \A i \in DOMAIN chain[n] :
       /\ chain[n][i].type \in EventTypes
       /\ DOMAIN chain[n][i].details \subseteq Fields
  /\ pc \in [Writers -> Labels]
  /\ \A w \in Writers : task[w].attempt \in 0 .. MaxRetries
  /\ Serialized => turnQueue \in Seq(Writers)
  /\ appended \in [Writers -> 0 .. MaxRetries]

Linked(c) ==
  \A i \in DOMAIN c :
    /\ c[i].height = i
    /\ c[i].prev = IF i = 1 THEN None ELSE c[i - 1].hash

\* Every chain is linked: heights count 1, 2, 3, ... and every event names the
\* hash of the one before it, whatever the writers' interleaving, retries and
\* crashes (createChangeEventEntity links to a head read earlier).
ChainLinked == \A n \in Notices : Linked(chain[n])

\* One call of appendChangeEventWithDetails commits at most one event, even
\* when a transaction is committed and yet reported as failed and retried.
AppendedAtMostOnce == \A w \in Writers : appended[w] <= 1

\* With the SQLite driver at most one writer is between the duplicate check
\* and the end of its transaction, and it is the one whose turn it is.
TurnExclusive ==
  Serialized =>
    \A w \in Writers : pc[w] \in {"txRead", "txCommit"} =>
      turnQueue # <<>> /\ Head(turnQueue) = w

\* The lock is handed on: whoever holds or awaits a turn is a writer inside an
\* append, once; a call that throws never leaves its turn behind.
TurnQueueLive ==
  Serialized =>
    /\ \A i, j \in DOMAIN turnQueue : turnQueue[i] = turnQueue[j] => i = j
    /\ \A i \in DOMAIN turnQueue : pc[turnQueue[i]] \in {"dedupe", "txRead", "txCommit"}

\* The append queue serializes, and never comes to a halt.
TurnsSerialize == TurnExclusive /\ TurnQueueLive

\* An append takes its turn, commits once and hands the turn on.
AppendsTakeTurns == AppendedAtMostOnce /\ TurnsSerialize

\* An append that returns to its caller has its event in the chain: the same
\* payload, or the identical event at the head (the duplicate it was merged
\* into).  Callers notify and report success on the strength of it.
ReturnedIsRecorded ==
  [][\A w \in Writers :
       (/\ pc[w] \in {"dedupe", "txCommit"}
        /\ pc'[w] \notin {"dedupe", "txRead", "txCommit"}
        /\ faults' = faults /\ crashes' = crashes
        /\ task[w].attempt < MaxRetries) =>
          LET e == task[w].cand IN
          \E i \in DOMAIN chain'[e.num] :
            /\ chain'[e.num][i].type = e.type
            /\ chain'[e.num][i].source = e.source
            /\ chain'[e.num][i].details = e.details]_vars

\* A chain only grows at its end, and an archive row is written once.
History ==
  [][\A n \in Notices :
       /\ Len(chain'[n]) >= Len(chain[n])
       /\ SubSeq(chain'[n], 1, Len(chain[n])) = chain[n]
       /\ row[n] # None => row'[n] = row[n]]_<<chain, row>>

\* The serializing lock starves nobody: every call ends, whatever its retries,
\* the calls queued before it, and the errors that end those.
CallsEnd == \A w \in Writers : pc[w] # "idle" ~> pc[w] = "idle"

\* What the writers produce, the audit accepts: replaying a chain from its
\* details rebuilds every stored hash, type and diff.
AuditClean ==
  \A n \in Notices : \A i \in DOMAIN chain[n] : ~AuditIssue(n, chain[n], i)

\* The same for calls that do not overlap, with the one exception of a detail
\* update that reaches a notice while it counts as deleted (a retry that comes
\* after the deletion): its caller insists on "updated", the audit does not.
AuditCleanUnlessDeleted ==
  \A n \in Notices : \A i \in DOMAIN chain[n] :
    AuditIssue(n, chain[n], i) =>
      /\ chain[n][i].source = "archive:updateNsmHtmlAndDetail"
      /\ Replay(chain[n], i)["lifecycle"] = "source_deleted"

\* Between calls the isDone column and the chain tell the same story: no
\* change of isDone is kept out of the chain.
DoneRecorded ==
  (\A w \in Writers : pc[w] = "idle") =>
    \A n \in Notices :
      row[n] # None /\ chain[n] # <<>> =>
        done[n] = FieldAfter(chain[n], "isDone", None)

\* Archive and chain agree: what the audit rebuilds is what is stored, and what
\* the isDone columns say is in the chains.
ArchiveConsistent == AuditCleanUnlessDeleted /\ DoneRecorded

=============================================================================
