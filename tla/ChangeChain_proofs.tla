------------------------- MODULE ChangeChain_proofs -------------------------
(* Proofs about the change chains, for any writers, notices, retries, faults *)
(* and crashes, and whether or not the driver serializes the appends: every  *)
(* chain stays linked, nothing in the history is rewritten, an append takes  *)
(* its turn and commits once, and one that returns has its event recorded.   *)
EXTENDS ChangeChain, SequenceTheorems, FiniteSetTheorems, WellFoundedInduction, TLAPS

Elems(c) == {c[i] : i \in DOMAIN c}

\* Where an append may return to.
ReturnLabels == {"idle", "upsertSave", "deleteState", "doneNext", "genesisNext"}

Chains == DOMAIN chain = Notices /\ \A n \in Notices : chain[n] \in Seq(Elems(chain[n]))

\* A task record with the fields of NoTask that returns where it should.
IsTask(t) == DOMAIN t = DOMAIN NoTask /\ t.then \in ReturnLabels

Tasks ==
  /\ DOMAIN pc = Writers
  /\ DOMAIN task = Writers
  /\ \A w \in Writers : IsTask(task[w])

\* The link l points at a position of the chain c (0: before its first event).
PointsInto(l, c) ==
  /\ l.height \in 0 .. Len(c)
  /\ l.hash = IF l.height = 0 THEN None ELSE c[l.height].hash

\* The head a transaction has read is still in the chain, if no longer its head.
LinkRead ==
  \A w \in Writers :
    pc[w] = "txCommit" /\ task[w].cand.num \in Notices =>
      PointsInto(task[w].link, chain[task[w].cand.num])

IInv == Chains /\ Tasks /\ ChainLinked /\ LinkRead

\* The chain c was d, or is d with events appended.
Extends(c, d) == Len(c) >= Len(d) /\ SubSeq(c, 1, Len(d)) = d

-----------------------------------------------------------------------------
(* Sequences                                                               *)

LEMMA AppendEvent ==
  ASSUME NEW c, c \in Seq(Elems(c)), NEW e
  PROVE  /\ Len(c) \in Nat
         /\ DOMAIN c = 1 .. Len(c)
         /\ Append(c, e) \in Seq(Elems(Append(c, e)))
         /\ Len(Append(c, e)) = Len(c) + 1
         /\ DOMAIN Append(c, e) = 1 .. Len(c) + 1
         /\ \A i \in 1 .. Len(c) : Append(c, e)[i] = c[i]
         /\ Append(c, e)[Len(c) + 1] = e
         /\ SubSeq(Append(c, e), 1, Len(c)) = c
<1> DEFINE S == Elems(c) \cup {e}
           d == Append(c, e)
<1>1. c \in Seq(S)
  BY SeqMonotonic
<1>2. /\ d \in Seq(S)
      /\ Len(d) = Len(c) + 1
      /\ \A i \in 1 .. Len(c) : d[i] = c[i]
      /\ d[Len(c) + 1] = e
  BY <1>1, AppendProperties
<1>3. Len(c) \in Nat /\ DOMAIN c = 1 .. Len(c) /\ DOMAIN d = 1 .. Len(c) + 1
  BY <1>1, <1>2, LenProperties
<1> HIDE DEF d
<1>4. Elems(d) = S
  <2>1. ASSUME NEW x \in S PROVE x \in Elems(d)
    BY <1>2, <1>3, <2>1 DEF Elems
  <2>2. ASSUME NEW x \in Elems(d) PROVE x \in S
    BY <1>2, <1>3, <2>2 DEF Elems
  <2> QED
    BY <2>1, <2>2
<1>5. SubSeq(d, 1, Len(c)) = c
  <2>1. d = c \o <<e>>
    BY <1>1, AppendIsConcat DEF d
  <2>2. <<e>> \in Seq(S)
    OBVIOUS
  <2>3. CASE c = <<>>
    BY <2>3, <1>3, SubSeqEmpty
  <2>4. CASE c # <<>>
    <3>1. Len(c) \in Nat \ {0}
      BY <1>1, <2>4, EmptySeq
    <3>2. SubSeq(c \o <<e>>, 1, Len(c)) = SubSeq(c, 1, Len(c))
      BY <1>1, <2>2, <3>1, SubSeqOfConcat1
    <3> QED
      BY <1>1, <2>1, <3>2, SubSeqFull
  <2> QED
    BY <2>3, <2>4
<1> QED
  BY <1>2, <1>3, <1>4, <1>5 DEF d

LEMMA SameChain ==
  ASSUME NEW c, c \in Seq(Elems(c))
  PROVE  Extends(c, c)
BY LenProperties, SubSeqFull DEF Extends

\* A position of a chain is a position of every extension of it.
LEMMA PointsIntoExtension ==
  ASSUME NEW c, c \in Seq(Elems(c)), NEW e, NEW l, PointsInto(l, c)
  PROVE  PointsInto(l, Append(c, e))
BY AppendEvent DEF PointsInto

-----------------------------------------------------------------------------
(* The append                                                              *)

\* An event that finds its height free extends the chain at its end and keeps
\* it linked: the head it read is still the head.
LEMMA CommitLinks ==
  ASSUME NEW c, c \in Seq(Elems(c)), NEW l, NEW e,
         Linked(c),
         PointsInto(l, c),
         \A i \in DOMAIN c : c[i].height # l.height + 1
  PROVE  Linked(Append(c, Entity(e, l)))
<1> DEFINE x == Entity(e, l)
           d == Append(c, x)
<1>1. /\ Len(c) \in Nat
      /\ DOMAIN c = 1 .. Len(c)
      /\ DOMAIN d = 1 .. Len(c) + 1
      /\ \A i \in 1 .. Len(c) : d[i] = c[i]
      /\ d[Len(c) + 1] = x
  BY AppendEvent
<1>2. l.height = Len(c)
  BY <1>1 DEF PointsInto, Linked
<1>3. x.height = Len(c) + 1 /\ x.prev = IF Len(c) = 0 THEN None ELSE c[Len(c)].hash
  BY <1>2 DEF Entity, PointsInto
<1> HIDE DEF x, d
<1>4. ASSUME NEW i \in DOMAIN d
      PROVE  d[i].height = i /\ d[i].prev = IF i = 1 THEN None ELSE d[i - 1].hash
  <2>1. CASE i \in 1 .. Len(c)
    BY <1>1, <2>1 DEF Linked
  <2>2. CASE i = Len(c) + 1
    BY <1>1, <1>3, <2>2
  <2> QED
    BY <1>1, <1>4, <2>1, <2>2
<1> QED
  BY <1>4 DEF d, x, Linked

\* What every step does to the invariant when it leaves the chains alone.
LEMMA ChainUntouched ==
  ASSUME IInv, UNCHANGED chain, Tasks',
         \A w \in Writers : pc'[w] = "txCommit" => pc[w] = "txCommit" /\ task'[w] = task[w]
  PROVE  IInv'
BY DEF IInv, Chains, ChainLinked, LinkRead

\* A step of writer w that sets its task to an acceptable one.
LEMMA TasksKept ==
  ASSUME Tasks, NEW w \in Writers, NEW t, NEW label, IsTask(t), SetTask(w, t), Goto(w, label)
  PROVE  /\ Tasks'
         /\ \A v \in Writers : v # w => pc'[v] = pc[v] /\ task'[v] = task[v]
         /\ pc'[w] = label /\ task'[w] = t
BY DEF Tasks, SetTask, Goto

LEMMA NoTaskIsTask == IsTask(NoTask)
BY DEF IsTask, NoTask, ReturnLabels

\* A step of writer w outside the transaction: the chains stay, the task is
\* acceptable, and w does not stand before a commit.
LEMMA QuietStep ==
  ASSUME IInv, NEW w \in Writers, NEW t, NEW label, IsTask(t), label # "txCommit",
         SetTask(w, t), Goto(w, label), UNCHANGED chain
  PROVE  IInv'
BY TasksKept, ChainUntouched DEF IInv

LEMMA QuietContinue ==
  ASSUME IInv, NEW w \in Writers, NEW t, NEW label \in ReturnLabels, IsTask(t),
         Continue(w, t, label), UNCHANGED chain
  PROVE  IInv'
<1>1. label # "txCommit"
  BY DEF ReturnLabels
<1>2. CASE label = "idle"
  BY <1>2, NoTaskIsTask, QuietStep DEF Continue, Finish
<1>3. CASE label # "idle"
  BY <1>1, <1>3, QuietStep DEF Continue
<1> QED
  BY <1>2, <1>3

LEMMA QuietAppendIfChanged ==
  ASSUME IInv, NEW w \in Writers, NEW t, IsTask(t), NEW n, NEW source, NEW preferred,
         NEW before, NEW after, NEW at, NEW then \in ReturnLabels,
         AppendIfChanged(w, t, n, source, preferred, before, after, at, then),
         UNCHANGED chain
  PROVE  IInv'
<1> DEFINE e == BuildEvent(n, source, preferred, before, after, at)
           u == [t EXCEPT !.cand = e, !.then = then, !.attempt = 1]
<1>1. CASE ShouldAppend(e)
  <2>1. CallAppend(w, t, e, then)
    BY <1>1 DEF AppendIfChanged
  <2>2. Goto(w, "dedupe") /\ SetTask(w, u)
    BY <2>1 DEF CallAppend
  <2> HIDE DEF e
  <2>3. IsTask(u)
    BY DEF IsTask, NoTask
  <2> HIDE DEF u
  <2> QED
    BY <2>2, <2>3, QuietStep
<1>2. CASE ~ShouldAppend(e)
  BY <1>2, QuietContinue DEF AppendIfChanged
<1> QED
  BY <1>1, <1>2

-----------------------------------------------------------------------------
(* The steps of a transaction                                              *)

LEMMA TxReadKeeps ==
  ASSUME IInv, NEW w \in Writers, TxRead(w)
  PROVE  IInv'
<1> DEFINE n == task[w].cand.num
           l == HeadLink(n)
           t == [task[w] EXCEPT !.link = l]
<1>1. IsTask(task[w])
  BY DEF IInv, Tasks
<1>2. IsTask(t) /\ t.link = l /\ t.cand = task[w].cand
  BY <1>1 DEF IsTask, NoTask
<1>3. SetTask(w, t) /\ Goto(w, "txCommit") /\ UNCHANGED chain
  BY DEF TxRead, db
<1>4. n \in Notices => PointsInto(l, chain[n])
  <2> SUFFICES ASSUME n \in Notices PROVE PointsInto(l, chain[n])
    OBVIOUS
  <2>1. chain[n] \in Seq(Elems(chain[n]))
    BY DEF IInv, Chains
  <2>2. CASE chain[n] = <<>>
    BY <2>2, EmptySeq DEF HeadLink, PointsInto
  <2>3. CASE chain[n] # <<>>
    <3>1. Len(chain[n]) \in Nat \ {0} /\ Len(chain[n]) \in DOMAIN chain[n]
      BY <2>1, <2>3, EmptySeq, LenProperties
    <3>2. chain[n][Len(chain[n])].height = Len(chain[n])
      BY <3>1 DEF IInv, ChainLinked, Linked
    <3> QED
      BY <2>3, <3>1, <3>2 DEF HeadLink, PointsInto
  <2> QED
    BY <2>2, <2>3
<1> HIDE DEF l, t
<1>5. /\ Tasks' /\ pc'[w] = "txCommit" /\ task'[w] = t
      /\ \A v \in Writers : v # w => pc'[v] = pc[v] /\ task'[v] = task[v]
  BY <1>2, <1>3, TasksKept DEF IInv
<1>6. LinkRead'
  BY <1>2, <1>3, <1>4, <1>5 DEF IInv, LinkRead
<1> QED
  BY <1>3, <1>5, <1>6 DEF IInv, Chains, ChainLinked

\* What AppendReturns, AppendThrows and RetryOrThrow leave of writer w.
LEMMA AfterTransaction ==
  ASSUME Tasks, NEW w \in Writers, AppendReturns(w) \/ RetryOrThrow(w)
  PROVE  /\ Tasks'
         /\ pc'[w] # "txCommit"
         /\ \A v \in Writers : v # w => pc'[v] = pc[v] /\ task'[v] = task[v]
<1>1. IsTask(task[w]) /\ task[w].then \in ReturnLabels
  BY DEF Tasks, IsTask
<1>2. CASE AppendReturns(w)
  <2>1. CASE task[w].then = "idle"
    BY <1>2, <2>1, NoTaskIsTask, TasksKept DEF AppendReturns, Continue, Finish
  <2>2. CASE task[w].then # "idle"
    BY <1>1, <1>2, <2>2, TasksKept DEF AppendReturns, Continue, ReturnLabels
  <2> QED
    BY <2>1, <2>2
<1>3. CASE RetryOrThrow(w)
  <2> DEFINE t == [task[w] EXCEPT !.attempt = @ + 1]
  <2>1. IsTask(t)
    BY <1>1 DEF IsTask, NoTask
  <2>2. CASE task[w].attempt < MaxRetries
    <3>1. SetTask(w, t) /\ Goto(w, "txRead")
      BY <1>3, <2>2 DEF RetryOrThrow
    <3> HIDE DEF t
    <3> QED
      BY <2>1, <3>1, TasksKept
  <2>3. CASE ~(task[w].attempt < MaxRetries)
    BY <1>3, <2>3, NoTaskIsTask, TasksKept DEF RetryOrThrow, AppendThrows, Finish
  <2> QED
    BY <2>2, <2>3
<1> QED
  BY <1>2, <1>3

\* A commit keeps the chains linked and every link read by others valid.
LEMMA CommitKeeps ==
  ASSUME IInv, NEW w \in Writers, Committable(w), Commit(w),
         AppendReturns(w) \/ RetryOrThrow(w)
  PROVE  IInv'
<1> DEFINE n == task[w].cand.num
           x == Entity(task[w].cand, task[w].link)
<1>1. /\ Tasks' /\ pc'[w] # "txCommit"
      /\ \A v \in Writers : v # w => pc'[v] = pc[v] /\ task'[v] = task[v]
  BY AfterTransaction DEF IInv
<1>2. chain' = [chain EXCEPT ![n] = Append(chain[n], x)]
  BY DEF Commit
<1>3. DOMAIN chain' = Notices /\ \A m \in Notices : m # n => chain'[m] = chain[m]
  BY <1>2 DEF IInv, Chains
<1>4. CASE n \notin Notices
  <2>1. \A m \in Notices : chain'[m] = chain[m]
    BY <1>3, <1>4
  <2>2. Chains' /\ ChainLinked'
    BY <1>3, <2>1 DEF IInv, Chains, ChainLinked
  <2>3. LinkRead'
    BY <1>1, <2>1 DEF IInv, LinkRead
  <2> QED
    BY <1>1, <2>2, <2>3 DEF IInv
<1>5. CASE n \in Notices
  <2>1. /\ chain[n] \in Seq(Elems(chain[n]))
        /\ PointsInto(task[w].link, chain[n])
        /\ \A i \in DOMAIN chain[n] : chain[n][i].height # task[w].link.height + 1
    BY <1>5 DEF IInv, Chains, LinkRead, Committable, HeightTaken
  <2>2. chain'[n] = Append(chain[n], x)
    BY <1>2, <1>5 DEF IInv, Chains
  <2>3. Append(chain[n], x) \in Seq(Elems(Append(chain[n], x)))
    BY <2>1, AppendEvent
  <2>4. Chains'
    BY <1>3, <2>2, <2>3 DEF IInv, Chains
  <2>5. Linked(chain[n])
    BY <1>5 DEF IInv, ChainLinked
  <2>6. Linked(Append(chain[n], x))
    BY <2>1, <2>5, CommitLinks
  <2>7. ChainLinked'
    BY <1>3, <2>2, <2>6 DEF IInv, ChainLinked
  <2>8. ASSUME NEW v \in Writers, pc'[v] = "txCommit", task'[v].cand.num \in Notices
        PROVE  PointsInto(task'[v].link, chain'[task'[v].cand.num])
    <3>1. v # w /\ pc[v] = "txCommit" /\ task'[v] = task[v]
      BY <1>1, <2>8
    <3>2. PointsInto(task[v].link, chain[task[v].cand.num])
      BY <2>8, <3>1 DEF IInv, LinkRead
    <3>3. CASE task[v].cand.num = n
      <4>1. PointsInto(task[v].link, Append(chain[n], x))
        BY <2>1, <3>2, <3>3, PointsIntoExtension
      <4> QED
        BY <2>2, <3>1, <3>3, <4>1
    <3>4. CASE task[v].cand.num # n
      BY <1>3, <2>8, <3>1, <3>2, <3>4
    <3> QED
      BY <3>3, <3>4
  <2>9. LinkRead'
    BY <2>8 DEF LinkRead
  <2> QED
    BY <1>1, <2>4, <2>7, <2>9 DEF IInv
<1> QED
  BY <1>4, <1>5

\* A step that leaves the chains alone and takes w out of its transaction.
LEMMA AbandonKeeps ==
  ASSUME IInv, NEW w \in Writers, AppendReturns(w) \/ RetryOrThrow(w), UNCHANGED chain
  PROVE  IInv'
BY AfterTransaction, ChainUntouched DEF IInv

-----------------------------------------------------------------------------
(* The other steps of a writer                                             *)

LEMMA StartKeeps ==
  ASSUME IInv, NEW w \in Writers, Start(w)
  PROVE  IInv'
<1> SUFFICES ASSUME NEW t, IsTask(t), NEW label, label # "txCommit",
                    SetTask(w, t), Goto(w, label), UNCHANGED chain
             PROVE  IInv'
  <2>1. CASE UpsertStart(w)
    <3>1. PICK n, inc, before :
            SetTask(w, [NoTask EXCEPT !.num = n, !.inc = inc, !.before = before])
      BY <2>1 DEF UpsertStart
    <3>2. IsTask([NoTask EXCEPT !.num = n, !.inc = inc, !.before = before])
      BY DEF IsTask, NoTask, ReturnLabels
    <3> QED
      BY <2>1, <3>1, <3>2 DEF UpsertStart, db
  <2>2. CASE NsmStart(w)
    <3>1. PICK n, r, before :
            SetTask(w, [NoTask EXCEPT !.num = n, !.inc = r, !.before = before])
      BY <2>2 DEF NsmStart
    <3>2. IsTask([NoTask EXCEPT !.num = n, !.inc = r, !.before = before])
      BY DEF IsTask, NoTask, ReturnLabels
    <3> QED
      BY <2>2, <3>1, <3>2 DEF NsmStart, db
  <2>3. CASE DoneStart(w)
    <3>1. PICK changed : SetTask(w, [NoTask EXCEPT !.todo = changed])
      BY <2>3 DEF DoneStart
    <3>2. IsTask([NoTask EXCEPT !.todo = changed])
      BY DEF IsTask, NoTask, ReturnLabels
    <3> QED
      BY <2>3, <3>1, <3>2 DEF DoneStart, db
  <2>4. CASE DeleteStart(w)
    <3>1. PICK n, before : SetTask(w, [NoTask EXCEPT !.num = n, !.before = before])
      BY <2>4 DEF DeleteStart
    <3>2. IsTask([NoTask EXCEPT !.num = n, !.before = before])
      BY DEF IsTask, NoTask, ReturnLabels
    <3> QED
      BY <2>4, <3>1, <3>2 DEF DeleteStart, db
  <2>5. CASE GenesisStart(w)
    <3>1. PICK todo, rows : SetTask(w, [NoTask EXCEPT !.todo = todo, !.rows = rows])
      BY <2>5 DEF GenesisStart
    <3>2. IsTask([NoTask EXCEPT !.todo = todo, !.rows = rows])
      BY DEF IsTask, NoTask, ReturnLabels
    <3> QED
      BY <2>5, <3>1, <3>2 DEF GenesisStart, db
  <2> QED
    BY <2>1, <2>2, <2>3, <2>4, <2>5 DEF Start
<1> QED
  BY QuietStep

\* The same for a step that keeps the task record.
LEMMA QuietGoto ==
  ASSUME IInv, NEW w \in Writers, NEW label, label # "txCommit", Goto(w, label),
         UNCHANGED <<task, chain>>
  PROVE  IInv'
BY ChainUntouched DEF IInv, Tasks, Goto

LEMMA QuietFinish ==
  ASSUME IInv, NEW w \in Writers, Finish(w), UNCHANGED chain
  PROVE  IInv'
BY NoTaskIsTask, QuietStep DEF Finish

\* A task stays one when the locals that no link depends on are assigned.
LEMMA AssignLocal ==
  ASSUME NEW t, IsTask(t), NEW v
  PROVE  /\ IsTask([t EXCEPT !.after = v])
         /\ IsTask([t EXCEPT !.base = v])
         /\ IsTask([t EXCEPT !.rows = v])
         /\ IsTask([t EXCEPT !.todo = v])
BY DEF IsTask, NoTask

LEMMA UpsertKeeps ==
  ASSUME IInv, NEW w \in Writers,
         UpsertResolve(w) \/ UpsertSave(w) \/ UpsertState(w) \/ UpsertAppend(w)
  PROVE  IInv'
<1>1. IsTask(task[w])
  BY DEF IInv, Tasks
<1>2. CASE UpsertResolve(w)
  <2>1. UNCHANGED chain
    BY <1>2 DEF UpsertResolve, db
  <2>2. PICK after :
          LET u == [task[w] EXCEPT !.after = after] IN
          \/ Goto(w, "upsertSave") /\ SetTask(w, u)
          \/ \E n, source, preferred, before, aft, at :
               AppendIfChanged(w, u, n, source, preferred, before, aft, at, "upsertSave")
    BY <1>2 DEF UpsertResolve
  <2> DEFINE u == [task[w] EXCEPT !.after = after]
  <2>3. IsTask(u)
    BY <1>1, AssignLocal
  <2>4. \/ Goto(w, "upsertSave") /\ SetTask(w, u)
        \/ \E n, source, preferred, before, aft, at :
             AppendIfChanged(w, u, n, source, preferred, before, aft, at, "upsertSave")
    BY <2>2
  <2> HIDE DEF u
  <2>5. "upsertSave" \in ReturnLabels
    BY DEF ReturnLabels
  <2> QED
    BY <2>1, <2>3, <2>4, <2>5, QuietStep, QuietAppendIfChanged
<1>3. CASE UpsertSave(w)
  BY <1>3, QuietGoto, QuietFinish DEF UpsertSave
<1>4. CASE UpsertState(w)
  BY <1>4, QuietGoto DEF UpsertState
<1>5. CASE UpsertAppend(w)
  <2>1. UNCHANGED chain
    BY <1>5 DEF UpsertAppend, db
  <2>2. PICK n, source, preferred, before, after, at :
          AppendIfChanged(w, task[w], n, source, preferred, before, after, at, "idle")
    BY <1>5 DEF UpsertAppend
  <2>3. "idle" \in ReturnLabels
    BY DEF ReturnLabels
  <2> QED
    BY <1>1, <2>1, <2>2, <2>3, QuietAppendIfChanged
<1> QED
  BY <1>2, <1>3, <1>4, <1>5

LEMMA NsmKeeps ==
  ASSUME IInv, NEW w \in Writers, NsmBaseline(w) \/ NsmAppend(w)
  PROVE  IInv'
<1>1. IsTask(task[w]) /\ "idle" \in ReturnLabels
  BY DEF IInv, Tasks, ReturnLabels
<1>2. CASE NsmBaseline(w)
  <2>1. PICK base :
          \/ Finish(w)
          \/ Goto(w, "nsmAppend") /\ SetTask(w, [task[w] EXCEPT !.base = base])
    BY <1>2 DEF NsmBaseline
  <2>2. UNCHANGED chain
    BY <1>2 DEF NsmBaseline, db
  <2> QED
    BY <1>1, <2>1, <2>2, AssignLocal, QuietFinish, QuietStep
<1>3. CASE NsmAppend(w)
  <2>1. PICK n, source, preferred, before, after, at :
          AppendIfChanged(w, task[w], n, source, preferred, before, after, at, "idle")
    BY <1>3 DEF NsmAppend
  <2>2. UNCHANGED chain
    BY <1>3 DEF NsmAppend, db
  <2> QED
    BY <1>1, <2>1, <2>2, QuietAppendIfChanged
<1> QED
  BY <1>2, <1>3

LEMMA DoneKeeps ==
  ASSUME IInv, NEW w \in Writers, DoneRows(w) \/ DoneMark(w) \/ DoneNext(w)
  PROVE  IInv'
<1>1. IsTask(task[w]) /\ "doneNext" \in ReturnLabels
  BY DEF IInv, Tasks, ReturnLabels
<1>2. CASE DoneRows(w)
  <2>1. PICK rows : SetTask(w, [task[w] EXCEPT !.rows = rows])
    BY <1>2 DEF DoneRows
  <2> QED
    BY <1>1, <1>2, <2>1, AssignLocal, QuietStep DEF DoneRows, db
<1>3. CASE DoneMark(w)
  <2>1. PICK todo : SetTask(w, [task[w] EXCEPT !.todo = todo])
    BY <1>3 DEF DoneMark
  <2> QED
    BY <1>1, <1>3, <2>1, AssignLocal, QuietStep DEF DoneMark
<1>4. CASE DoneNext(w)
  <2>1. UNCHANGED chain
    BY <1>4 DEF DoneNext, db
  <2>2. CASE task[w].todo = {}
    BY <1>4, <2>1, <2>2, QuietFinish DEF DoneNext
  <2>3. CASE task[w].todo # {}
    <3>1. PICK todo, n, source, preferred, before, after, at :
            AppendIfChanged(w, [task[w] EXCEPT !.todo = todo], n, source, preferred, before,
                            after, at, "doneNext")
      BY <1>4, <2>3 DEF DoneNext
    <3> QED
      BY <1>1, <2>1, <3>1, AssignLocal, QuietAppendIfChanged
  <2> QED
    BY <2>2, <2>3
<1> QED
  BY <1>2, <1>3, <1>4

LEMMA DeleteKeeps ==
  ASSUME IInv, NEW w \in Writers, DeleteAppend(w) \/ DeleteState(w)
  PROVE  IInv'
<1>1. IsTask(task[w]) /\ "deleteState" \in ReturnLabels
  BY DEF IInv, Tasks, ReturnLabels
<1>2. CASE DeleteAppend(w)
  <2>1. UNCHANGED chain
    BY <1>2 DEF DeleteAppend, db
  <2>2. \/ Finish(w)
        \/ \E n, source, preferred, before, after, at :
             AppendIfChanged(w, task[w], n, source, preferred, before, after, at,
                             "deleteState")
    BY <1>2 DEF DeleteAppend
  <2> QED
    BY <1>1, <2>1, <2>2, QuietFinish, QuietAppendIfChanged
<1>3. CASE DeleteState(w)
  BY <1>3, QuietFinish DEF DeleteState
<1> QED
  BY <1>2, <1>3

LEMMA GenesisKeeps ==
  ASSUME IInv, NEW w \in Writers, GenesisFilter(w) \/ GenesisNext(w)
  PROVE  IInv'
<1>1. IsTask(task[w]) /\ "genesisNext" \in ReturnLabels
  BY DEF IInv, Tasks, ReturnLabels
<1>2. CASE GenesisFilter(w)
  <2>1. PICK todo : SetTask(w, [task[w] EXCEPT !.todo = todo])
    BY <1>2 DEF GenesisFilter
  <2> QED
    BY <1>1, <1>2, <2>1, AssignLocal, QuietStep DEF GenesisFilter, db
<1>3. CASE GenesisNext(w)
  <2>1. UNCHANGED chain
    BY <1>3 DEF GenesisNext, db
  <2>2. CASE task[w].todo = {}
    BY <1>3, <2>1, <2>2, QuietFinish DEF GenesisNext
  <2>3. CASE task[w].todo # {}
    <3>1. PICK todo, n, source, preferred, before, after, at :
            AppendIfChanged(w, [task[w] EXCEPT !.todo = todo], n, source, preferred, before,
                            after, at, "genesisNext")
      BY <1>3, <2>3 DEF GenesisNext
    <3> QED
      BY <1>1, <2>1, <3>1, AssignLocal, QuietAppendIfChanged
  <2> QED
    BY <2>2, <2>3
<1> QED
  BY <1>2, <1>3

LEMMA AppendStepKeeps ==
  ASSUME IInv, NEW w \in Writers, AppendStep(w)
  PROVE  IInv'
<1>1. CASE AppendDedupe(w)
  <2>1. UNCHANGED chain
    BY <1>1 DEF AppendDedupe, db
  <2> QED
    BY <1>1, <2>1, AbandonKeeps, QuietGoto DEF AppendDedupe
<1>2. CASE TxHashConflict(w)
  BY <1>2, AbandonKeeps DEF TxHashConflict, db
<1>3. CASE TxHeightConflict(w)
  BY <1>3, AbandonKeeps DEF TxHeightConflict, db
<1>4. CASE TxCommit(w)
  BY <1>4, CommitKeeps DEF TxCommit
<1>5. CASE TxConflict(w)
  BY <1>5, CommitKeeps, AbandonKeeps DEF TxConflict, db
<1> QED
  BY <1>1, <1>2, <1>3, <1>4, <1>5, TxReadKeeps DEF AppendStep

LEMMA CrashKeeps ==
  ASSUME IInv, Crash
  PROVE  IInv'
<1>1. /\ pc' = [w \in Writers |-> "idle"]
      /\ task' = [w \in Writers |-> NoTask]
      /\ UNCHANGED chain
  BY DEF Crash, db
<1> QED
  BY <1>1, NoTaskIsTask, ChainUntouched DEF Tasks

-----------------------------------------------------------------------------
(* The theorems                                                            *)

LEMMA InitIInv == Init => IInv
<1> SUFFICES ASSUME Init PROVE IInv
  OBVIOUS
<1>1. Chains
  BY EmptySeq DEF Init, Chains
<1>2. Tasks
  BY NoTaskIsTask DEF Init, Tasks
<1> QED
  BY <1>1, <1>2 DEF Init, IInv, ChainLinked, Linked, LinkRead

LEMMA NextIInv == IInv /\ [Next]_vars => IInv'
<1> SUFFICES ASSUME IInv, [Next]_vars PROVE IInv'
  OBVIOUS
<1>1. ASSUME NEW w \in Writers, Progress(w) PROVE IInv'
  BY <1>1, UpsertKeeps, NsmKeeps, DoneKeeps, DeleteKeeps, GenesisKeeps, AppendStepKeeps
     DEF Progress
<1>2. ASSUME NEW w \in Writers, CallThrows(w) PROVE IInv'
  BY <1>2, QuietFinish DEF CallThrows, db
<1>3. CASE UNCHANGED vars
  BY <1>3 DEF vars, IInv, Chains, Tasks, ChainLinked, LinkRead
<1> QED
  BY <1>1, <1>2, <1>3, StartKeeps, CrashKeeps DEF Next, WriterStep

\* The inductive invariant holds in every reachable state.
THEOREM Invariance == Spec => []IInv
<1> QED
  BY InitIInv, NextIInv, PTL DEF Spec

\* The chain of every notice is linked at all times, for any number of writers
\* and notices and any retries, faults and crashes, even without the lock that
\* serializes the appends: the unique index on the height is enough.
THEOREM ChainsAreLinked == Spec => []ChainLinked
<1>1. IInv => ChainLinked
  BY DEF IInv
<1> QED
  BY <1>1, Invariance, PTL

-----------------------------------------------------------------------------
(* What the tables and the tasks hold                                      *)

Appending == {"dedupe", "txRead", "txCommit"}
DoneValues == {"true", "false"}

\* A snapshot, a row of the archive (whose number is a notice), and a row or none.
IsSnapshot(s) == DOMAIN s = Fields /\ s["isDone"] \in DoneValues
IsRow(r) == IsSnapshot(r) /\ r["num"] \in Notices
MaybeRow(r) == r = None \/ IsRow(r)

\* An event says what its hash says, and its details are the difference of the
\* two snapshots that were hashed.
Sound(e) ==
  /\ e.type \in EventTypes
  /\ DOMAIN e.details \subseteq Fields
  /\ "isDone" \in DOMAIN e.details => e.details["isDone"].after \in DoneValues
  /\ e.type = e.hash.type
  /\ e.source = e.hash.source
  /\ e.details = Diff(e.hash.before, e.hash.after)

\* The locals a task needs at a label.
Ready(t, label) ==
  /\ label \in {"upsertBase", "upsertSave", "upsertState", "upsertAppend"} =>
       t.num \in Notices /\ MaybeRow(t.before)
  /\ label \in {"upsertSave", "upsertState", "upsertAppend"} => IsRow(t.after)
  /\ label \in {"nsmBase", "deleteAppend"} => t.num \in Notices /\ IsRow(t.before)
  /\ label = "nsmAppend" => t.num \in Notices /\ IsSnapshot(t.base)
  /\ label \in {"doneRows", "doneMark", "doneNext", "genesisFilter", "genesisNext"} =>
       t.todo \subseteq Notices
  /\ label = "doneMark" => \A n \in t.todo : MaybeRow(t.rows[n])
  /\ label \in {"doneNext", "genesisFilter", "genesisNext"} =>
       \A n \in t.todo : IsRow(t.rows[n])

\* A task inside an append: the event, and what the call needs when it returns.
InAppend(t) ==
  /\ t.cand.num \in Notices /\ Sound(t.cand)
  /\ t.attempt \in 1 .. MaxRetries
  /\ Ready(t, t.then)

TasksReady ==
  /\ pc \in [Writers -> Labels]
  /\ \A w \in Writers :
       /\ task[w].attempt \in 0 .. MaxRetries
       /\ IF pc[w] \in Appending THEN InAppend(task[w]) ELSE Ready(task[w], pc[w])

ChainsSound == \A n \in Notices : \A i \in DOMAIN chain[n] : Sound(chain[n][i])

RowsTyped == DOMAIN row = Notices /\ \A n \in Notices : MaybeRow(row[n])
DoneTyped == done \in [Notices -> {None, "true", "false"}]

DataInv ==
  /\ RowsTyped /\ DoneTyped /\ ChainsSound /\ TasksReady
  /\ faults \in Nat /\ crashes \in Nat

-----------------------------------------------------------------------------
(* Choosing from sets of numbers                                           *)

\* A finite set of numbers has a greatest element: a smallest subset without one
\* would have one.
LEMMA MaxOfFinite ==
  ASSUME NEW S \in SUBSET Nat, S # {}, IsFiniteSet(S)
  PROVE  Max(S) \in S /\ \A y \in S : Max(S) >= y
<1> DEFINE Unbounded == {X \in SUBSET S : X # {} /\ ~\E m \in X : \A y \in X : m >= y}
<1>1. CASE Unbounded = {}
  <2>1. \E m \in S : \A y \in S : m >= y
    BY <1>1
  <2> QED
    BY <2>1 DEF Max
<1>2. CASE Unbounded # {}
  <2>1. FiniteSubsetsOf(S) = SUBSET S
    BY FS_FiniteSubsetsOfFinite
  <2>2. IsWellFoundedOn(StrictSubsetOrdering(S), SUBSET S)
    BY <2>1, FS_StrictSubsetOrderingWellFounded
  <2>3. PICK X \in Unbounded : \A Y \in Unbounded : ~(<<Y, X>> \in StrictSubsetOrdering(S))
    BY <1>2, <2>2, WFMin
  <2>4. PICK x \in X : TRUE
    BY <2>3
  <2>5. X \ {x} \notin Unbounded
    BY <2>3, <2>4 DEF StrictSubsetOrdering
  <2>6. X \ {x} # {}
    BY <2>3, <2>4
  <2>7. PICK m \in X \ {x} : \A y \in X \ {x} : m >= y
    BY <2>5, <2>6
  <2>8. CASE m >= x
    BY <2>3, <2>4, <2>7, <2>8
  <2>9. CASE ~(m >= x)
    <3>1. \A y \in X : x >= y
      BY <2>3, <2>4, <2>7, <2>9
    <3> QED
      BY <2>3, <2>4, <3>1
  <2> QED
    BY <2>8, <2>9
<1> QED
  BY <1>1, <1>2

LEMMA MinIsLeast ==
  ASSUME NEW S \in SUBSET Nat, S # {}
  PROVE  Min(S) \in S /\ \A y \in S : Min(S) <= y
<1>1. PICK n \in S : TRUE
  OBVIOUS
<1> DEFINE T == {i \in 0 .. n : n - i \in S}
<1>2. IsFiniteSet(T)
  <2>1. IsFiniteSet(0 .. n)
    BY FS_Interval
  <2> QED
    BY <2>1, FS_Subset
<1>3. T \in SUBSET Nat /\ 0 \in T
  BY <1>1
<1>4. PICK m \in T : \A y \in T : m >= y
  <2> HIDE DEF T
  <2> QED
    BY <1>2, <1>3, MaxOfFinite
<1>5. ASSUME NEW y \in S PROVE n - m <= y
  <2>1. CASE y > n
    BY <1>4, <2>1
  <2>2. CASE y <= n
    <3>1. n - y \in T
      BY <2>2
    <3> QED
      BY <1>4, <3>1
  <2> QED
    BY <2>1, <2>2
<1>6. n - m \in S
  BY <1>4
<1> QED
  BY <1>5, <1>6 DEF Min

\* The last event that recorded a field is one of the chain.
LEMMA LastTouchInChain ==
  ASSUME NEW c, c \in Seq(Elems(c)), NEW f
  PROVE  \/ LastTouch(c, f) = 0
         \/ LastTouch(c, f) \in DOMAIN c /\ f \in DOMAIN c[LastTouch(c, f)].details
<1> DEFINE S == {0} \cup {i \in DOMAIN c : f \in DOMAIN c[i].details}
<1>1. Len(c) \in Nat /\ DOMAIN c = 1 .. Len(c)
  BY LenProperties
<1>2. S \in SUBSET Nat /\ S # {} /\ S \subseteq 0 .. Len(c)
  BY <1>1
<1>3. IsFiniteSet(S)
  <2>1. IsFiniteSet(0 .. Len(c))
    BY <1>1, FS_Interval
  <2> QED
    BY <1>2, <2>1, FS_Subset
<1>4. Max(S) \in S
  <2> HIDE DEF S
  <2> QED
    BY <1>2, <1>3, MaxOfFinite
<1> QED
  BY <1>4 DEF LastTouch

LEMMA IsDoneAfter ==
  ASSUME NEW c, c \in Seq(Elems(c)), \A i \in DOMAIN c : Sound(c[i]),
         NEW default \in DoneValues
  PROVE  FieldAfter(c, "isDone", default) \in DoneValues
BY LastTouchInChain DEF FieldAfter, Sound

LEMMA BaselineIsSnapshot ==
  ASSUME Chains, ChainsSound, NEW n \in Notices, NEW base, IsSnapshot(base)
  PROVE  IsSnapshot(Baseline(n, base)) \/ Baseline(n, base) = base
<1>1. FieldAfter(chain[n], "isDone", base["isDone"]) \in DoneValues
  BY IsDoneAfter DEF Chains, ChainsSound, IsSnapshot
<1> QED
  BY <1>1 DEF Baseline, IsSnapshot, Fields

-----------------------------------------------------------------------------
(* Events and steps                                                        *)

LEMMA BuiltEventIsSound ==
  ASSUME NEW n \in Notices, NEW source, NEW preferred \in EventTypes \cup {None},
         NEW before, NEW after, IsSnapshot(after), NEW at
  PROVE  LET e == BuildEvent(n, source, preferred, before, after, at) IN
         e.num \in Notices /\ Sound(e)
<1> DEFINE type == EventType(before, after, preferred)
           diff == Diff(before, after)
<1>1. type \in EventTypes
  BY DEF EventType, EventTypes
<1>2. /\ DOMAIN diff \subseteq Fields
      /\ "isDone" \in DOMAIN diff => diff["isDone"].after \in DoneValues
  BY DEF Diff, IsSnapshot
<1> QED
  BY <1>1, <1>2 DEF BuildEvent, Sound

LEMMA EntityIsSound ==
  ASSUME NEW e, Sound(e), NEW link
  PROVE  Sound(Entity(e, link)) /\ Entity(e, link).hash = e.hash
BY DEF Sound, Entity

\* What a step of writer w makes of the writers' control state.
Moves(w, t, label) ==
  /\ pc' = [pc EXCEPT ![w] = label]
  /\ task'[w] = t
  /\ \A v \in Writers \ {w} : task'[v] = task[v]

\* The two kinds of steps outside an append: those that stay outside, and those
\* that call it.
Outside(w) ==
  /\ pc[w] \notin Appending
  /\ \E t, label :
       /\ label \in Labels \ Appending
       /\ Ready(t, label) /\ t.attempt \in 0 .. MaxRetries
       /\ Moves(w, t, label)
  /\ UNCHANGED <<chain, turnQueue, appended>>

Enters(w) ==
  /\ pc[w] \notin Appending
  /\ \E t : InAppend(t) /\ Moves(w, t, "dedupe")
  /\ appended' = [appended EXCEPT ![w] = 0]
  /\ turnQueue' = IF Serialized THEN Append(turnQueue, w) ELSE turnQueue
  /\ UNCHANGED chain

LEMMA SetAndGo ==
  ASSUME Tasks, NEW w \in Writers, NEW t, NEW label, SetTask(w, t), Goto(w, label)
  PROVE  Moves(w, t, label)
BY DEF Tasks, SetTask, Goto, Moves

LEMMA GoOn ==
  ASSUME Tasks, NEW w \in Writers, NEW label, UNCHANGED task, Goto(w, label)
  PROVE  Moves(w, task[w], label)
BY DEF Goto, Moves

LEMMA NoTaskIsReady == Ready(NoTask, "idle") /\ NoTask.attempt \in 0 .. MaxRetries
BY ChainAssumption DEF Ready, NoTask

LEMMA ContinueStaysOutside ==
  ASSUME Tasks, NEW w \in Writers, pc[w] \notin Appending, NEW t, NEW label \in ReturnLabels,
         Ready(t, label), t.attempt \in 0 .. MaxRetries, Continue(w, t, label),
         UNCHANGED <<chain, turnQueue, appended>>
  PROVE  Outside(w)
<1>1. label \in Labels \ Appending /\ "idle" \in Labels \ Appending
  BY DEF ReturnLabels, Labels, Appending
<1>2. CASE label = "idle"
  BY <1>1, <1>2, NoTaskIsReady, SetAndGo DEF Continue, Finish, Outside
<1>3. CASE label # "idle"
  BY <1>1, <1>3, SetAndGo DEF Continue, Outside
<1> QED
  BY <1>2, <1>3

LEMMA FinishStaysOutside ==
  ASSUME Tasks, NEW w \in Writers, pc[w] \notin Appending, Finish(w),
         UNCHANGED <<chain, turnQueue, appended>>
  PROVE  Outside(w)
BY NoTaskIsReady, SetAndGo DEF Finish, Outside, Labels, Appending

LEMMA AppendIfChangedShape ==
  ASSUME Tasks, NEW w \in Writers, pc[w] \notin Appending,
         NEW t, IsTask(t), t.attempt \in 0 .. MaxRetries,
         NEW then \in ReturnLabels, Ready(t, then),
         NEW n \in Notices, NEW source, NEW preferred \in EventTypes \cup {None},
         NEW before, NEW after, IsSnapshot(after), NEW at,
         AppendIfChanged(w, t, n, source, preferred, before, after, at, then),
         UNCHANGED chain
  PROVE  Outside(w) \/ Enters(w)
<1> DEFINE e == BuildEvent(n, source, preferred, before, after, at)
           u == [t EXCEPT !.cand = e, !.then = then, !.attempt = 1]
<1>1. e.num \in Notices /\ Sound(e)
  BY BuiltEventIsSound
<1>2. CASE ShouldAppend(e)
  <2>1. CallAppend(w, t, e, then)
    BY <1>2 DEF AppendIfChanged
  <2>2. SetTask(w, u) /\ Goto(w, "dedupe")
    BY <2>1 DEF CallAppend
  <2> HIDE DEF e
  <2>3. /\ u.cand = e /\ u.then = then /\ u.attempt = 1
        /\ u.num = t.num /\ u.before = t.before /\ u.base = t.base /\ u.after = t.after
        /\ u.todo = t.todo /\ u.rows = t.rows
    BY DEF IsTask, NoTask
  <2> HIDE DEF u
  <2>4. InAppend(u)
    BY <1>1, <2>3, ChainAssumption DEF InAppend, Ready
  <2>5. Moves(w, u, "dedupe")
    BY <2>2, SetAndGo
  <2> QED
    BY <2>1, <2>4, <2>5 DEF Enters, CallAppend
<1>3. CASE ~ShouldAppend(e)
  <2>1. Continue(w, t, then) /\ UNCHANGED <<turnQueue, appended>>
    BY <1>3 DEF AppendIfChanged
  <2> QED
    BY <2>1, ContinueStaysOutside
<1> QED
  BY <1>2, <1>3

-----------------------------------------------------------------------------
(* The steps of a writer outside the append                                *)

\* What a step leaves of the data it may write.
Tables == RowsTyped /\ DoneTyped

LEMMA TrackedRowIsRow ==
  ASSUME Tables, NEW n \in Notices
  PROVE  MaybeRow(TrackedRow(n)) /\ (row[n] # None => IsRow(TrackedRow(n)))
BY DEF Tables, RowsTyped, DoneTyped, MaybeRow, IsRow, IsSnapshot, TrackedRow, Coalesce, DoneValues,
       Fields

LEMMA WriterAtRest ==
  ASSUME IInv, DataInv, NEW w \in Writers, pc[w] \notin Appending
  PROVE  /\ Tasks /\ Tables
         /\ IsTask(task[w]) /\ Ready(task[w], pc[w])
         /\ task[w].attempt \in 0 .. MaxRetries
         /\ "idle" \in ReturnLabels
BY DEF IInv, Tasks, DataInv, TasksReady, Tables, ReturnLabels

\* The same for a baseline that may have been read or not.
LEMMA BaselineReadIsSnapshot ==
  ASSUME Chains, ChainsSound, NEW n \in Notices, NEW before, IsSnapshot(before),
         NEW base, base = Baseline(n, before) \/ base = before
  PROVE  IsSnapshot(base)
BY BaselineIsSnapshot

LEMMA StartShape ==
  ASSUME IInv, DataInv, NEW w \in Writers, Start(w)
  PROVE  Outside(w) /\ Tables'
<1>1. pc[w] = "idle" /\ UNCHANGED <<db, turnQueue, appended>>
  BY DEF Start, UpsertStart, NsmStart, DoneStart, DeleteStart, GenesisStart
<1>2. Tables /\ Tables' /\ Tasks /\ pc[w] \notin Appending
  BY <1>1, WriterAtRest DEF Appending, db, Tables, RowsTyped, DoneTyped
<1>3. \E t : \E label \in Labels \ Appending :
        Ready(t, label) /\ t.attempt = 0 /\ SetTask(w, t) /\ Goto(w, label)
  <2>1. CASE UpsertStart(w)
    <3>1. PICK n \in Notices :
            \E inc \in Incoming(n) :
              LET direct == TrackedRow(n)
                  others == StableMatches(n, inc.contentId)
                  before == IF direct # None \/ others = {} THEN direct
                            ELSE TrackedRow(Max(others))
              IN SetTask(w, [NoTask EXCEPT !.num = n, !.inc = inc, !.before = before])
      BY <2>1 DEF UpsertStart
    <3>8. PICK inc :
            LET direct == TrackedRow(n)
                others == StableMatches(n, inc.contentId)
                before == IF direct # None \/ others = {} THEN direct
                          ELSE TrackedRow(Max(others))
            IN SetTask(w, [NoTask EXCEPT !.num = n, !.inc = inc, !.before = before])
      BY <3>1
    <3> DEFINE others == StableMatches(n, inc.contentId)
               before == IF TrackedRow(n) # None \/ others = {} THEN TrackedRow(n)
                         ELSE TrackedRow(Max(others))
               t == [NoTask EXCEPT !.num = n, !.inc = inc, !.before = before]
    <3>2. SetTask(w, t)
      BY <3>8
    <3>3. others # {} => Max(others) \in Notices
      <4>1. others \subseteq Notices /\ others \in SUBSET Nat
        BY ChainAssumption DEF StableMatches
      <4>2. IsFiniteSet(others)
        BY <4>1, ChainAssumption, FS_Subset
      <4> HIDE DEF others
      <4> QED
        BY <4>1, <4>2, MaxOfFinite
    <3>4. MaybeRow(before)
      <4> HIDE DEF others
      <4> QED
        BY <1>2, <3>3, TrackedRowIsRow
    <3> HIDE DEF before
    <3>5. t.num = n /\ t.before = before /\ t.attempt = 0
      BY DEF NoTask
    <3> HIDE DEF t
    <3>6. Ready(t, "upsertBase") /\ "upsertBase" \in Labels \ Appending
      BY <3>4, <3>5 DEF Ready, Labels, Appending
    <3>7. Goto(w, "upsertBase")
      BY <2>1 DEF UpsertStart
    <3> QED
      BY <3>2, <3>5, <3>6, <3>7
  <2>2. CASE NsmStart(w)
    <3>1. PICK n \in Notices, r \in Reasons \cup {None} :
            /\ TrackedRow(n) # None
            /\ SetTask(w, [NoTask EXCEPT !.num = n, !.inc = r, !.before = TrackedRow(n)])
      BY <2>2 DEF NsmStart
    <3> DEFINE t == [NoTask EXCEPT !.num = n, !.inc = r, !.before = TrackedRow(n)]
    <3>2. t.num = n /\ t.before = TrackedRow(n) /\ t.attempt = 0 /\ SetTask(w, t)
      BY <3>1 DEF NoTask
    <3> HIDE DEF t
    <3>3. Ready(t, "nsmBase") /\ "nsmBase" \in Labels \ Appending
      BY <1>2, <3>1, <3>2, TrackedRowIsRow DEF Ready, Labels, Appending, MaybeRow
    <3>4. Goto(w, "nsmBase")
      BY <2>2 DEF NsmStart
    <3> QED
      BY <3>2, <3>3, <3>4
  <2>3. CASE DoneStart(w)
    <3>1. PICK changed \in SUBSET Notices : SetTask(w, [NoTask EXCEPT !.todo = changed])
      BY <2>3 DEF DoneStart
    <3> DEFINE t == [NoTask EXCEPT !.todo = changed]
    <3>2. t.todo = changed /\ t.attempt = 0 /\ SetTask(w, t)
      BY <3>1 DEF NoTask
    <3> HIDE DEF t
    <3>3. Ready(t, "doneRows") /\ "doneRows" \in Labels \ Appending
      BY <3>2 DEF Ready, Labels, Appending
    <3>4. Goto(w, "doneRows")
      BY <2>3 DEF DoneStart
    <3> QED
      BY <3>2, <3>3, <3>4
  <2>4. CASE DeleteStart(w)
    <3>1. PICK n \in Notices :
            /\ TrackedRow(n) # None
            /\ SetTask(w, [NoTask EXCEPT !.num = n, !.before = TrackedRow(n)])
      BY <2>4 DEF DeleteStart
    <3> DEFINE t == [NoTask EXCEPT !.num = n, !.before = TrackedRow(n)]
    <3>2. t.num = n /\ t.before = TrackedRow(n) /\ t.attempt = 0 /\ SetTask(w, t)
      BY <3>1 DEF NoTask
    <3> HIDE DEF t
    <3>3. Ready(t, "deleteAppend") /\ "deleteAppend" \in Labels \ Appending
      BY <1>2, <3>1, <3>2, TrackedRowIsRow DEF Ready, Labels, Appending, MaybeRow
    <3>4. Goto(w, "deleteAppend")
      BY <2>4 DEF DeleteStart
    <3> QED
      BY <3>2, <3>3, <3>4
  <2>5. CASE GenesisStart(w)
    <3> DEFINE rows == [n \in Eventless |-> TrackedRow(n)]
               t == [NoTask EXCEPT !.todo = Eventless, !.rows = rows]
    <3>1. t.todo = Eventless /\ t.rows = rows /\ t.attempt = 0 /\ SetTask(w, t)
      BY <2>5 DEF NoTask, GenesisStart
    <3> HIDE DEF t
    <3>2. Eventless \subseteq Notices /\ \A n \in Eventless : IsRow(rows[n])
      <4>1. ASSUME NEW n \in Eventless PROVE n \in Notices /\ row[n] # None
        BY DEF Eventless
      <4> QED
        BY <1>2, <4>1, TrackedRowIsRow
    <3>3. Ready(t, "genesisFilter") /\ "genesisFilter" \in Labels \ Appending
      BY <3>1, <3>2 DEF Ready, Labels, Appending
    <3>4. Goto(w, "genesisFilter")
      BY <2>5 DEF GenesisStart
    <3> QED
      BY <3>1, <3>3, <3>4
  <2> QED
    BY <2>1, <2>2, <2>3, <2>4, <2>5 DEF Start
<1>4. PICK t : \E label \in Labels \ Appending :
        Ready(t, label) /\ t.attempt = 0 /\ Moves(w, t, label)
  BY <1>2, <1>3, SetAndGo
<1>5. 0 \in 0 .. MaxRetries
  BY ChainAssumption
<1> QED
  BY <1>1, <1>2, <1>4, <1>5 DEF Outside, db

\* A snapshot stays one whatever is assigned to a field of it.
LEMMA AssignField ==
  ASSUME NEW s, IsSnapshot(s)
  PROVE  /\ IsSnapshot([s EXCEPT !["isDone"] = "true"])
         /\ \A v : IsSnapshot([s EXCEPT !["isDone"] = "true", !["lifecycle"] = v])
         /\ \A v : IsSnapshot([s EXCEPT !["reason"] = v])
BY DEF IsSnapshot, Fields, DoneValues

\* What a task holds after one of its locals is assigned.
LEMMA AssignShape ==
  ASSUME NEW t, IsTask(t), NEW v
  PROVE  /\ LET u == [t EXCEPT !.after = v] IN
            /\ IsTask(u) /\ u.after = v
            /\ u.num = t.num /\ u.before = t.before /\ u.attempt = t.attempt
         /\ LET u == [t EXCEPT !.base = v] IN
            IsTask(u) /\ u.base = v /\ u.num = t.num /\ u.attempt = t.attempt
BY DEF IsTask, NoTask

LEMMA AssignRows ==
  ASSUME NEW t, IsTask(t), NEW v, NEW u, u = [t EXCEPT !.rows = v]
  PROVE  IsTask(u) /\ u.rows = v /\ u.todo = t.todo /\ u.attempt = t.attempt
BY DEF IsTask, NoTask

LEMMA AssignTodo ==
  ASSUME NEW t, IsTask(t), NEW v, NEW u, u = [t EXCEPT !.todo = v]
  PROVE  IsTask(u) /\ u.todo = v /\ u.rows = t.rows /\ u.attempt = t.attempt
BY DEF IsTask, NoTask

LEMMA ResolvedUpsertIsRow ==
  ASSUME NEW n \in Notices, NEW inc, NEW before, NEW base,
         before # None => IsSnapshot(base)
  PROVE  IsRow(ResolvedUpsert(n, inc, before, base))
BY DEF ResolvedUpsert, IsRow, IsSnapshot, Fields, DoneValues

LEMMA UpsertResolveShape ==
  ASSUME IInv, DataInv, NEW w \in Writers, UpsertResolve(w)
  PROVE  (Outside(w) \/ Enters(w)) /\ Tables'
<1> DEFINE t == task[w]
<1>1. pc[w] = "upsertBase" /\ UNCHANGED db /\ pc[w] \notin Appending
  BY DEF UpsertResolve, Appending
<1>2. /\ Tasks /\ Tables /\ Tables' /\ IsTask(t) /\ t.attempt \in 0 .. MaxRetries
      /\ t.num \in Notices /\ MaybeRow(t.before) /\ UNCHANGED chain
  BY <1>1, WriterAtRest DEF db, Tables, RowsTyped, DoneTyped, Ready
<1>3. PICK base \in {Baseline(t.num, t.before), t.before} :
        LET u == [t EXCEPT !.after = ResolvedUpsert(t.num, t.inc, t.before, base)] IN
          IF IsRenumbering(t)
          THEN \E at \in Stamps :
                 AppendIfChanged(w, u, t.before["num"], "archive:renumbered", "invalidated",
                   t.before,
                   [t.before EXCEPT !["isDone"] = "true", !["lifecycle"] = "renumbered"],
                   at, "upsertSave")
          ELSE /\ Goto(w, "upsertSave")
               /\ SetTask(w, u)
               /\ UNCHANGED <<turnQueue, appended>>
  BY DEF UpsertResolve
<1> DEFINE after == ResolvedUpsert(t.num, t.inc, t.before, base)
           u == [t EXCEPT !.after = after]
<1>4. t.before # None => IsSnapshot(base)
  <2> SUFFICES ASSUME t.before # None PROVE IsSnapshot(base)
    OBVIOUS
  <2>1. IsSnapshot(t.before)
    BY <1>2 DEF MaybeRow, IsRow
  <2> QED
    BY <1>2, <2>1, BaselineReadIsSnapshot DEF IInv, DataInv
<1>5. IsRow(after)
  BY <1>2, <1>4, ResolvedUpsertIsRow
<1> HIDE DEF after
<1>6. /\ IsTask(u) /\ u.after = after
      /\ u.num = t.num /\ u.before = t.before /\ u.attempt = t.attempt
  BY <1>2, AssignShape
<1> HIDE DEF u
<1>7. Ready(u, "upsertSave") /\ "upsertSave" \in Labels \ Appending
  BY <1>2, <1>5, <1>6 DEF Ready, Labels, Appending
<1>8. CASE IsRenumbering(t)
  <2>1. PICK at :
          AppendIfChanged(w, u, t.before["num"], "archive:renumbered", "invalidated",
            t.before, [t.before EXCEPT !["isDone"] = "true", !["lifecycle"] = "renumbered"],
            at, "upsertSave")
    BY <1>3, <1>8 DEF u, after
  <2>2. IsRow(t.before)
    BY <1>2, <1>8 DEF IsRenumbering, MaybeRow
  <2>3. /\ t.before["num"] \in Notices
        /\ IsSnapshot([t.before EXCEPT !["isDone"] = "true", !["lifecycle"] = "renumbered"])
    BY <2>2, AssignField DEF IsRow
  <2>4. "invalidated" \in EventTypes /\ "upsertSave" \in ReturnLabels
    BY DEF EventTypes, ReturnLabels
  <2> HIDE DEF t
  <2>5. u.attempt \in 0 .. MaxRetries
    BY <1>2, <1>6
  <2> DEFINE aft == [t.before EXCEPT !["isDone"] = "true", !["lifecycle"] = "renumbered"]
             num == t.before["num"]
             before == t.before
  <2>6. AppendIfChanged(w, u, num, "archive:renumbered", "invalidated", before, aft, at,
                        "upsertSave")
    BY <2>1
  <2>7. num \in Notices /\ IsSnapshot(aft)
    BY <2>3
  <2> HIDE DEF aft, num, before
  <2>8. Outside(w) \/ Enters(w)
    BY <1>1, <1>2, <1>6, <1>7, <2>4, <2>5, <2>6, <2>7, AppendIfChangedShape
  <2> QED
    BY <1>2, <2>8
<1>9. CASE ~IsRenumbering(t)
  <2>1. Goto(w, "upsertSave") /\ SetTask(w, u) /\ UNCHANGED <<turnQueue, appended>>
    BY <1>3, <1>9 DEF u, after
  <2>2. Moves(w, u, "upsertSave")
    BY <1>2, <2>1, SetAndGo
  <2> QED
    BY <1>1, <1>2, <1>6, <1>7, <2>1, <2>2 DEF Outside
<1> QED
  BY <1>8, <1>9

LEMMA UpsertSaveShape ==
  ASSUME IInv, DataInv, NEW w \in Writers, UpsertSave(w)
  PROVE  Outside(w) /\ Tables'
<1> DEFINE t == task[w]
<1>1. /\ pc[w] = "upsertSave" /\ pc[w] \notin Appending
      /\ UNCHANGED <<done, chain, turnQueue, appended>>
  BY DEF UpsertSave, Appending
<1>2. /\ Tasks /\ Tables /\ IsTask(t) /\ t.attempt \in 0 .. MaxRetries
      /\ t.num \in Notices /\ MaybeRow(t.before) /\ IsRow(t.after)
  BY <1>1, WriterAtRest DEF Ready
<1>3. \/ UNCHANGED row
      \/ row' = [row EXCEPT ![t.num] = t.after]
  BY DEF UpsertSave
<1>4. Tables'
  BY <1>1, <1>2, <1>3 DEF Tables, RowsTyped, DoneTyped, MaybeRow
<1>5. CASE Finish(w)
  BY <1>1, <1>2, <1>4, <1>5, FinishStaysOutside
<1>6. CASE Goto(w, "upsertState") /\ UNCHANGED task
  <2>1. Ready(t, "upsertState") /\ "upsertState" \in Labels \ Appending
    BY <1>2 DEF Ready, Labels, Appending
  <2>2. Moves(w, t, "upsertState")
    BY <1>2, <1>6, GoOn
  <2> QED
    BY <1>1, <1>2, <1>4, <2>1, <2>2 DEF Outside
<1> QED
  BY <1>5, <1>6 DEF UpsertSave

LEMMA UpsertStateShape ==
  ASSUME IInv, DataInv, NEW w \in Writers, UpsertState(w)
  PROVE  Outside(w) /\ Tables'
<1> DEFINE t == task[w]
           from == t.before["num"]
           moved == IF IsRenumbering(t) /\ done[from] # None
                    THEN [done EXCEPT ![t.num] = done[from], ![from] = None] ELSE done
<1>1. /\ pc[w] = "upsertState" /\ pc[w] \notin Appending
      /\ UNCHANGED <<row, chain, task, turnQueue, appended>>
      /\ Goto(w, "upsertAppend")
      /\ done' = IF t.inc.summary \/ moved[t.num] = None
                 THEN [moved EXCEPT ![t.num] = t.after["isDone"]] ELSE moved
  BY DEF UpsertState, Appending
<1>2. /\ Tasks /\ Tables /\ IsTask(t) /\ t.attempt \in 0 .. MaxRetries
      /\ t.num \in Notices /\ MaybeRow(t.before) /\ IsRow(t.after)
  BY <1>1, WriterAtRest DEF Ready
<1>3. t.after["isDone"] \in DoneValues
  BY <1>2 DEF IsRow, IsSnapshot
<1>4. moved \in [Notices -> {None, "true", "false"}]
  <2>1. IsRenumbering(t) => from \in Notices
    BY <1>2 DEF IsRenumbering, MaybeRow, IsRow
  <2> QED
    BY <1>2, <2>1 DEF Tables, DoneTyped
<1>5. Tables'
  <2> HIDE DEF moved
  <2> QED
    BY <1>1, <1>2, <1>3, <1>4 DEF Tables, RowsTyped, DoneTyped, DoneValues
<1>6. Ready(t, "upsertAppend") /\ "upsertAppend" \in Labels \ Appending
  BY <1>2 DEF Ready, Labels, Appending
<1>7. Moves(w, t, "upsertAppend")
  BY <1>1, <1>2, GoOn
<1> QED
  BY <1>1, <1>2, <1>5, <1>6, <1>7 DEF Outside

LEMMA UpsertAppendShape ==
  ASSUME IInv, DataInv, NEW w \in Writers, UpsertAppend(w)
  PROVE  (Outside(w) \/ Enters(w)) /\ Tables'
<1> DEFINE t == task[w]
<1>1. pc[w] = "upsertAppend" /\ UNCHANGED db /\ pc[w] \notin Appending
  BY DEF UpsertAppend, Appending
<1>2. /\ Tasks /\ Tables /\ Tables' /\ IsTask(t) /\ t.attempt \in 0 .. MaxRetries
      /\ t.num \in Notices /\ IsSnapshot(t.after) /\ UNCHANGED chain
  BY <1>1, WriterAtRest DEF db, Tables, RowsTyped, DoneTyped, Ready, IsRow
<1>3. PICK base :
        \E at : AppendIfChanged(w, t, t.num, "archive:upsert", None, base, t.after, at, "idle")
  BY DEF UpsertAppend
<1>4. PICK at : AppendIfChanged(w, t, t.num, "archive:upsert", None, base, t.after, at, "idle")
  BY <1>3
<1>5. Ready(t, "idle") /\ "idle" \in ReturnLabels
  BY DEF Ready, ReturnLabels
<1> QED
  BY <1>1, <1>2, <1>4, <1>5, AppendIfChangedShape

LEMMA NsmShape ==
  ASSUME IInv, DataInv, NEW w \in Writers, NsmBaseline(w) \/ NsmAppend(w)
  PROVE  (Outside(w) \/ Enters(w)) /\ Tables'
<1> DEFINE t == task[w]
<1>1. pc[w] \in {"nsmBase", "nsmAppend"} /\ UNCHANGED db /\ pc[w] \notin Appending
  BY DEF NsmBaseline, NsmAppend, Appending
<1>2. /\ Tasks /\ Tables /\ Tables' /\ IsTask(t) /\ t.attempt \in 0 .. MaxRetries
      /\ t.num \in Notices /\ Ready(t, pc[w]) /\ UNCHANGED chain
  BY <1>1, WriterAtRest DEF db, Tables, RowsTyped, DoneTyped, Ready
<1>3. CASE NsmBaseline(w)
  <2>1. PICK base \in {Baseline(t.num, t.before), t.before} :
          \/ Finish(w)
          \/ Goto(w, "nsmAppend") /\ SetTask(w, [t EXCEPT !.base = base])
    BY <1>3 DEF NsmBaseline
  <2>2. UNCHANGED <<turnQueue, appended>> /\ pc[w] = "nsmBase"
    BY <1>3 DEF NsmBaseline
  <2>3. IsSnapshot(t.before)
    BY <1>2, <2>2 DEF Ready, IsRow
  <2>4. IsSnapshot(base)
    BY <1>2, <2>3, BaselineReadIsSnapshot DEF IInv, DataInv
  <2>5. CASE Finish(w)
    BY <1>1, <1>2, <2>2, <2>5, FinishStaysOutside
  <2>6. CASE Goto(w, "nsmAppend") /\ SetTask(w, [t EXCEPT !.base = base])
    <3> DEFINE u == [t EXCEPT !.base = base]
    <3>1. IsTask(u) /\ u.base = base /\ u.num = t.num /\ u.attempt = t.attempt
      BY <1>2, AssignShape
    <3>2. Moves(w, u, "nsmAppend")
      BY <1>2, <2>6, SetAndGo
    <3> HIDE DEF u
    <3>3. Ready(u, "nsmAppend") /\ "nsmAppend" \in Labels \ Appending
      BY <1>2, <2>4, <3>1 DEF Ready, Labels, Appending
    <3> QED
      BY <1>1, <1>2, <2>2, <3>1, <3>2, <3>3 DEF Outside
  <2> QED
    BY <2>1, <2>5, <2>6
<1>4. CASE NsmAppend(w)
  <2> DEFINE latest == FieldAfter(chain[t.num], "reason", None)
             before == [t.base EXCEPT !["reason"] = Coalesce(latest, @)]
             after == [before EXCEPT !["reason"] = Coalesce(t.inc, @)]
  <2>1. PICK at :
          AppendIfChanged(w, t, t.num, "archive:updateNsmHtmlAndDetail", "updated",
                          before, after, at, "idle")
    BY <1>4 DEF NsmAppend
  <2>2. IsSnapshot(t.base)
    BY <1>2, <1>4 DEF NsmAppend, Ready
  <2>3. IsSnapshot(before)
    BY <2>2, AssignField
  <2> HIDE DEF before
  <2>4. IsSnapshot(after)
    BY <2>3, AssignField
  <2> HIDE DEF after
  <2>5. Ready(t, "idle") /\ "idle" \in ReturnLabels /\ "updated" \in EventTypes
    BY DEF Ready, ReturnLabels, EventTypes
  <2> QED
    BY <1>1, <1>2, <2>1, <2>4, <2>5, AppendIfChangedShape
<1> QED
  BY <1>3, <1>4

LEMMA TodoNotices ==
  ASSUME NEW S \in SUBSET Notices, S # {}
  PROVE  Min(S) \in S
<1>1. S \in SUBSET Nat
  BY ChainAssumption
<1> QED
  BY <1>1, MinIsLeast

LEMMA DoneShape ==
  ASSUME IInv, DataInv, NEW w \in Writers, DoneRows(w) \/ DoneMark(w) \/ DoneNext(w)
  PROVE  (Outside(w) \/ Enters(w)) /\ Tables'
<1> DEFINE t == task[w]
<1>1. /\ pc[w] \in {"doneRows", "doneMark", "doneNext"} /\ pc[w] \notin Appending
      /\ UNCHANGED <<row, chain>>
  BY DEF DoneRows, DoneMark, DoneNext, Appending, db
<1>2. /\ Tasks /\ Tables /\ IsTask(t) /\ t.attempt \in 0 .. MaxRetries
      /\ t.todo \subseteq Notices /\ Ready(t, pc[w])
  BY <1>1, WriterAtRest DEF Ready
<1>3. ASSUME UNCHANGED done PROVE Tables'
  BY <1>1, <1>2, <1>3 DEF Tables, RowsTyped, DoneTyped
<1>4. CASE DoneRows(w)
  <2> DEFINE rows == [n \in t.todo |-> TrackedRow(n)]
             u == [t EXCEPT !.rows = rows]
  <2>1. SetTask(w, u) /\ Goto(w, "doneMark") /\ UNCHANGED <<turnQueue, appended, done>>
    BY <1>4 DEF DoneRows, db
  <2>2. \A n \in t.todo : MaybeRow(rows[n])
    BY <1>2, TrackedRowIsRow
  <2> HIDE DEF rows
  <2>3. IsTask(u) /\ u.rows = rows /\ u.todo = t.todo /\ u.attempt = t.attempt
    BY <1>2, AssignRows
  <2>4. Moves(w, u, "doneMark")
    BY <1>2, <2>1, SetAndGo
  <2> HIDE DEF u
  <2>5. Ready(u, "doneMark") /\ "doneMark" \in Labels \ Appending
    BY <1>2, <2>2, <2>3 DEF Ready, Labels, Appending
  <2> QED
    BY <1>1, <1>2, <1>3, <2>1, <2>3, <2>4, <2>5 DEF Outside
<1>5. CASE DoneMark(w)
  <2> DEFINE todo == {n \in t.todo : t.rows[n] # None}
             u == [t EXCEPT !.todo = todo]
  <2>1. /\ SetTask(w, u) /\ Goto(w, "doneNext") /\ UNCHANGED <<turnQueue, appended>>
        /\ done' = [n \in Notices |-> IF n \in t.todo /\ done[n] = "false" THEN "true"
                                      ELSE done[n]]
        /\ pc[w] = "doneMark"
    BY <1>5 DEF DoneMark
  <2>2. \A n \in todo : IsRow(t.rows[n])
    BY <1>2, <2>1 DEF Ready, MaybeRow
  <2>3. todo \subseteq Notices
    BY <1>2
  <2> HIDE DEF todo
  <2>4. IsTask(u) /\ u.todo = todo /\ u.rows = t.rows /\ u.attempt = t.attempt
    BY <1>2, AssignTodo
  <2>5. Moves(w, u, "doneNext")
    BY <1>2, <2>1, SetAndGo
  <2> HIDE DEF u
  <2>6. Ready(u, "doneNext") /\ "doneNext" \in Labels \ Appending
    BY <2>2, <2>3, <2>4 DEF Ready, Labels, Appending
  <2>7. Tables'
    BY <1>1, <1>2, <2>1 DEF Tables, RowsTyped, DoneTyped
  <2> QED
    BY <1>1, <1>2, <2>1, <2>4, <2>5, <2>6, <2>7 DEF Outside
<1>6. CASE DoneNext(w)
  <2>1. pc[w] = "doneNext" /\ UNCHANGED <<done, chain>> /\ Tables'
    BY <1>3, <1>6 DEF DoneNext, db
  <2>2. \A n \in t.todo : IsRow(t.rows[n])
    BY <1>2, <2>1 DEF Ready
  <2>3. CASE t.todo = {}
    <3>1. Finish(w) /\ UNCHANGED <<turnQueue, appended>>
      BY <1>6, <2>3 DEF DoneNext
    <3> QED
      BY <1>1, <1>2, <2>1, <3>1, FinishStaysOutside
  <2>4. CASE t.todo # {}
    <3> DEFINE n == Min(t.todo)
               todo == t.todo \ {n}
               u == [t EXCEPT !.todo = todo]
    <3>1. PICK base \in {Baseline(n, t.rows[n]), t.rows[n]} :
            \E at : AppendIfChanged(w, u, n, "archive:isDoneSync", "updated", base,
                                    [base EXCEPT !["isDone"] = "true"], at, "doneNext")
      BY <1>6, <2>4 DEF DoneNext
    <3>2. PICK at : AppendIfChanged(w, u, n, "archive:isDoneSync", "updated", base,
                                    [base EXCEPT !["isDone"] = "true"], at, "doneNext")
      BY <3>1
    <3>3. n \in t.todo /\ n \in Notices
      BY <1>2, <2>4, TodoNotices
    <3>4. IsSnapshot(base)
      <4>1. IsSnapshot(t.rows[n])
        BY <2>2, <3>3 DEF IsRow
      <4> HIDE DEF n
      <4> QED
        BY <3>1, <3>3, <4>1, BaselineReadIsSnapshot DEF IInv, DataInv
    <3> DEFINE after == [base EXCEPT !["isDone"] = "true"]
    <3>5. IsSnapshot(after)
      BY <3>4, AssignField
    <3>6. IsTask(u) /\ u.todo = todo /\ u.rows = t.rows /\ u.attempt = t.attempt
      BY <1>2, AssignTodo
    <3>7. AppendIfChanged(w, u, n, "archive:isDoneSync", "updated", base, after, at, "doneNext")
      BY <3>2
    <3> HIDE DEF u, after, n
    <3>8. Ready(u, "doneNext") /\ "doneNext" \in ReturnLabels /\ "updated" \in EventTypes
      BY <1>2, <2>2, <3>6 DEF Ready, ReturnLabels, EventTypes
    <3>9. u.attempt \in 0 .. MaxRetries
      BY <1>2, <3>6
    <3> QED
      BY <1>1, <1>2, <2>1, <3>3, <3>5, <3>6, <3>7, <3>8, <3>9, AppendIfChangedShape
  <2> QED
    BY <2>3, <2>4
<1> QED
  BY <1>4, <1>5, <1>6

LEMMA DeleteShape ==
  ASSUME IInv, DataInv, NEW w \in Writers, DeleteAppend(w) \/ DeleteState(w)
  PROVE  (Outside(w) \/ Enters(w)) /\ Tables'
<1> DEFINE t == task[w]
<1>1. /\ pc[w] \in {"deleteAppend", "deleteState"} /\ pc[w] \notin Appending
      /\ UNCHANGED <<row, chain>>
  BY DEF DeleteAppend, DeleteState, Appending, db
<1>2. Tasks /\ Tables /\ IsTask(t) /\ t.attempt \in 0 .. MaxRetries /\ Ready(t, pc[w])
  BY <1>1, WriterAtRest
<1>3. CASE DeleteState(w)
  <2>1. /\ done' = [done EXCEPT ![t.num] = "true"]
        /\ Finish(w) /\ UNCHANGED <<turnQueue, appended>>
    BY <1>3 DEF DeleteState
  <2>2. Tables'
    BY <1>1, <1>2, <2>1 DEF Tables, RowsTyped, DoneTyped
  <2> QED
    BY <1>1, <1>2, <2>1, <2>2, FinishStaysOutside
<1>4. CASE DeleteAppend(w)
  <2>1. pc[w] = "deleteAppend" /\ UNCHANGED done
    BY <1>4 DEF DeleteAppend, db
  <2>2. Tables' /\ t.num \in Notices /\ IsSnapshot(t.before)
    BY <1>1, <1>2, <2>1 DEF Tables, RowsTyped, DoneTyped, Ready, IsRow
  <2>3. PICK base \in {Baseline(t.num, t.before), t.before} :
          \/ Finish(w) /\ UNCHANGED <<turnQueue, appended>>
          \/ \E at :
               AppendIfChanged(w, t, t.num, "archive:source-missing", "invalidated", base,
                 [base EXCEPT !["isDone"] = "true", !["lifecycle"] = "source_deleted"],
                 at, "deleteState")
    BY <1>4 DEF DeleteAppend
  <2>4. IsSnapshot(base)
    BY <2>2, <2>3, BaselineReadIsSnapshot DEF IInv, DataInv
  <2>5. CASE Finish(w) /\ UNCHANGED <<turnQueue, appended>>
    BY <1>1, <1>2, <2>2, <2>5, FinishStaysOutside
  <2>6. ASSUME NEW at,
               AppendIfChanged(w, t, t.num, "archive:source-missing", "invalidated", base,
                 [base EXCEPT !["isDone"] = "true", !["lifecycle"] = "source_deleted"],
                 at, "deleteState")
        PROVE  Outside(w) \/ Enters(w)
    <3> DEFINE after == [base EXCEPT !["isDone"] = "true", !["lifecycle"] = "source_deleted"]
    <3>1. IsSnapshot(after)
      BY <2>4, AssignField
    <3>2. Ready(t, "deleteState") /\ "deleteState" \in ReturnLabels
          /\ "invalidated" \in EventTypes
      BY DEF Ready, ReturnLabels, EventTypes
    <3>3. AppendIfChanged(w, t, t.num, "archive:source-missing", "invalidated", base, after,
                          at, "deleteState")
      BY <2>6
    <3> HIDE DEF after
    <3> QED
      BY <1>1, <1>2, <2>2, <3>1, <3>2, <3>3, AppendIfChangedShape
  <2> QED
    BY <2>2, <2>3, <2>5, <2>6
<1> QED
  BY <1>3, <1>4

LEMMA GenesisShape ==
  ASSUME IInv, DataInv, NEW w \in Writers, GenesisFilter(w) \/ GenesisNext(w)
  PROVE  (Outside(w) \/ Enters(w)) /\ Tables'
<1> DEFINE t == task[w]
<1>1. /\ pc[w] \in {"genesisFilter", "genesisNext"} /\ pc[w] \notin Appending
      /\ UNCHANGED db
  BY DEF GenesisFilter, GenesisNext, Appending
<1>2. /\ Tasks /\ Tables' /\ IsTask(t) /\ t.attempt \in 0 .. MaxRetries
      /\ t.todo \subseteq Notices /\ (\A n \in t.todo : IsRow(t.rows[n]))
      /\ UNCHANGED chain
  BY <1>1, WriterAtRest DEF Ready, db, Tables, RowsTyped, DoneTyped
<1>3. ASSUME NEW todo \in SUBSET t.todo
      PROVE  LET u == [t EXCEPT !.todo = todo] IN
             IsTask(u) /\ u.attempt = t.attempt /\ Ready(u, "genesisNext")
  <2> DEFINE u == [t EXCEPT !.todo = todo]
  <2>1. IsTask(u) /\ u.todo = todo /\ u.rows = t.rows /\ u.attempt = t.attempt
    BY <1>2, AssignTodo
  <2> HIDE DEF u
  <2>2. Ready(u, "genesisNext")
    BY <1>2, <2>1 DEF Ready
  <2> QED
    BY <2>1, <2>2 DEF u
<1>4. "genesisNext" \in Labels \ Appending /\ "genesisNext" \in ReturnLabels
      /\ "created" \in EventTypes
  BY DEF Labels, Appending, ReturnLabels, EventTypes
<1>5. CASE GenesisFilter(w)
  <2>1. PICK todo \in SUBSET t.todo :
          SetTask(w, [t EXCEPT !.todo = todo]) /\ Goto(w, "genesisNext")
    BY <1>5 DEF GenesisFilter
  <2> DEFINE u == [t EXCEPT !.todo = todo]
  <2>2. Moves(w, u, "genesisNext")
    BY <1>2, <2>1, SetAndGo
  <2>3. UNCHANGED <<turnQueue, appended>>
    BY <1>5 DEF GenesisFilter
  <2>4. u.attempt \in 0 .. MaxRetries /\ Ready(u, "genesisNext")
    BY <1>2, <1>3
  <2> HIDE DEF u
  <2> QED
    BY <1>1, <1>2, <1>4, <2>2, <2>3, <2>4 DEF Outside
<1>6. CASE GenesisNext(w)
  <2>1. CASE t.todo = {}
    <3>1. Finish(w) /\ UNCHANGED <<turnQueue, appended>>
      BY <1>6, <2>1 DEF GenesisNext
    <3> QED
      BY <1>1, <1>2, <3>1, FinishStaysOutside
  <2>2. CASE t.todo # {}
    <3> DEFINE n == Min(t.todo)
               u == [t EXCEPT !.todo = t.todo \ {n}]
    <3>1. PICK at :
            AppendIfChanged(w, u, n, "bootstrap:legacy-seed", "created", None, t.rows[n], at,
                            "genesisNext")
      BY <1>6, <2>2 DEF GenesisNext
    <3>2. n \in t.todo /\ n \in Notices
      BY <1>2, <2>2, TodoNotices
    <3>3. IsSnapshot(t.rows[n])
      BY <1>2, <3>2 DEF IsRow
    <3>4. IsTask(u) /\ u.attempt \in 0 .. MaxRetries /\ Ready(u, "genesisNext")
      BY <1>2, <1>3
    <3> HIDE DEF u, n
    <3> QED
      BY <1>1, <1>2, <1>4, <3>1, <3>2, <3>3, <3>4, AppendIfChangedShape
  <2> QED
    BY <2>1, <2>2
<1> QED
  BY <1>5, <1>6

-----------------------------------------------------------------------------
(* The steps of a writer inside the append                                 *)

\* A writer inside the append goes on with its event, or leaves and hands its
\* turn on.
Stays(w) ==
  /\ pc[w] \in Appending
  /\ \E t, label :
       /\ label \in {"txRead", "txCommit"}
       /\ InAppend(t) /\ t.cand = task[w].cand
       /\ Moves(w, t, label)
  /\ UNCHANGED turnQueue

Leaves(w) ==
  /\ pc[w] \in Appending
  /\ \E t, label :
       /\ label \in Labels \ Appending
       /\ Ready(t, label) /\ t.attempt \in 0 .. MaxRetries
       /\ Moves(w, t, label)
  /\ ReleaseTurn

\* It has its turn, and commits its event or leaves the tables alone.
Turn(w) ==
  /\ HasTurn(w)
  /\ Stays(w) \/ Leaves(w)
  /\ UNCHANGED <<db, appended>> \/ (Committable(w) /\ Commit(w))

LEMMA WriterInAppend ==
  ASSUME IInv, DataInv, NEW w \in Writers, pc[w] \in Appending
  PROVE  /\ Tasks /\ IsTask(task[w]) /\ InAppend(task[w])
         /\ task[w].then \in Labels \ Appending
BY DEF IInv, Tasks, DataInv, TasksReady, IsTask, ReturnLabels, Labels, Appending

LEMMA ThrowLeaves ==
  ASSUME IInv, DataInv, NEW w \in Writers, pc[w] \in Appending, Finish(w), ReleaseTurn
  PROVE  Leaves(w)
BY WriterInAppend, NoTaskIsReady, SetAndGo DEF Finish, Leaves, Labels, Appending

LEMMA ReturnLeaves ==
  ASSUME IInv, DataInv, NEW w \in Writers, pc[w] \in Appending, AppendReturns(w)
  PROVE  Leaves(w)
<1> DEFINE t == task[w]
<1>1. Tasks /\ InAppend(t) /\ t.then \in Labels \ Appending
  BY WriterInAppend
<1>2. ReleaseTurn /\ Continue(w, t, t.then)
  BY DEF AppendReturns
<1>3. CASE t.then = "idle"
  BY <1>2, <1>3, ThrowLeaves DEF Continue
<1>4. CASE t.then # "idle"
  <2>1. Moves(w, t, t.then)
    BY <1>1, <1>2, <1>4, SetAndGo DEF Continue
  <2>2. t.attempt \in 0 .. MaxRetries
    BY <1>1 DEF InAppend
  <2> QED
    BY <1>1, <1>2, <2>1, <2>2 DEF Leaves, InAppend
<1> QED
  BY <1>3, <1>4

LEMMA RetryStaysOrLeaves ==
  ASSUME IInv, DataInv, NEW w \in Writers, pc[w] \in Appending, RetryOrThrow(w)
  PROVE  /\ task[w].attempt < MaxRetries => Stays(w)
         /\ Stays(w) \/ Leaves(w)
<1> DEFINE t == task[w]
           u == [t EXCEPT !.attempt = @ + 1]
<1>1. Tasks /\ IsTask(t) /\ InAppend(t)
  BY WriterInAppend
<1>2. CASE t.attempt < MaxRetries
  <2>1. SetTask(w, u) /\ Goto(w, "txRead") /\ UNCHANGED turnQueue
    BY <1>2 DEF RetryOrThrow
  <2>2. /\ u.attempt = t.attempt + 1 /\ u.cand = t.cand /\ u.then = t.then
        /\ u.num = t.num /\ u.before = t.before /\ u.base = t.base /\ u.after = t.after
        /\ u.todo = t.todo /\ u.rows = t.rows
    BY <1>1 DEF IsTask, NoTask
  <2>3. Moves(w, u, "txRead")
    BY <1>1, <2>1, SetAndGo
  <2> HIDE DEF u
  <2>4. u.attempt \in 1 .. MaxRetries
    BY <1>1, <1>2, <2>2, ChainAssumption DEF InAppend
  <2>5. InAppend(u)
    BY <1>1, <2>2, <2>4 DEF InAppend, Ready
  <2> QED
    BY <2>1, <2>2, <2>3, <2>5 DEF Stays
<1>3. CASE ~(t.attempt < MaxRetries)
  BY <1>3, ThrowLeaves DEF RetryOrThrow, AppendThrows
<1> QED
  BY <1>2, <1>3

LEMMA AppendStepShape ==
  ASSUME IInv, DataInv, TurnExclusive, NEW w \in Writers, AppendStep(w)
  PROVE  Turn(w)
<1>1. pc[w] \in Appending
  BY DEF AppendStep, AppendDedupe, TxRead, TxHashConflict, TxHeightConflict, TxCommit,
         TxConflict, Committable, Appending
<1>2. HasTurn(w)
  <2>1. CASE pc[w] = "dedupe"
    BY <2>1 DEF AppendStep, AppendDedupe, TxRead, TxHashConflict, TxHeightConflict, TxCommit,
                TxConflict, Committable
  <2>2. CASE pc[w] # "dedupe"
    BY <1>1, <2>2 DEF Appending, TurnExclusive, HasTurn
  <2> QED
    BY <2>1, <2>2
<1> DEFINE t == task[w]
<1>3. Tasks /\ IsTask(t) /\ InAppend(t)
  BY <1>1, WriterInAppend
<1>4. CASE AppendDedupe(w)
  <2>1. UNCHANGED <<db, appended>>
    BY <1>4 DEF AppendDedupe
  <2>2. CASE AppendReturns(w)
    BY <1>1, <1>2, <2>1, <2>2, ReturnLeaves DEF Turn
  <2>3. CASE Goto(w, "txRead") /\ UNCHANGED <<task, turnQueue>>
    <3>1. Moves(w, t, "txRead")
      BY <1>3, <2>3, GoOn
    <3> QED
      BY <1>1, <1>2, <1>3, <2>1, <2>3, <3>1 DEF Turn, Stays
  <2> QED
    BY <1>4, <2>2, <2>3 DEF AppendDedupe
<1>5. CASE TxRead(w)
  <2> DEFINE u == [t EXCEPT !.link = HeadLink(t.cand.num)]
  <2>1. SetTask(w, u) /\ Goto(w, "txCommit") /\ UNCHANGED <<db, turnQueue, appended>>
    BY <1>5 DEF TxRead
  <2>2. /\ u.attempt = t.attempt /\ u.cand = t.cand /\ u.then = t.then
        /\ u.num = t.num /\ u.before = t.before /\ u.base = t.base /\ u.after = t.after
        /\ u.todo = t.todo /\ u.rows = t.rows
    BY <1>3 DEF IsTask, NoTask
  <2>3. Moves(w, u, "txCommit")
    BY <1>3, <2>1, SetAndGo
  <2> HIDE DEF u
  <2>4. InAppend(u)
    BY <1>3, <2>2 DEF InAppend, Ready
  <2> QED
    BY <1>1, <1>2, <2>1, <2>2, <2>3, <2>4 DEF Turn, Stays
<1>6. CASE TxHashConflict(w)
  BY <1>1, <1>2, <1>6, ReturnLeaves DEF TxHashConflict, Turn
<1>7. CASE TxHeightConflict(w)
  BY <1>1, <1>2, <1>7, RetryStaysOrLeaves DEF TxHeightConflict, Turn
<1>8. CASE TxCommit(w)
  BY <1>1, <1>2, <1>8, ReturnLeaves DEF TxCommit, Turn
<1>9. CASE TxConflict(w)
  BY <1>1, <1>2, <1>9, RetryStaysOrLeaves DEF TxConflict, Turn
<1> QED
  BY <1>4, <1>5, <1>6, <1>7, <1>8, <1>9 DEF AppendStep

LEMMA ThrowShape ==
  ASSUME IInv, DataInv, TurnExclusive, NEW w \in Writers, CallThrows(w)
  PROVE  (Outside(w) \/ Turn(w)) /\ Tables'
<1>1. Finish(w) /\ UNCHANGED <<db, appended>>
  BY DEF CallThrows
<1>2. Tables'
  BY <1>1 DEF db, DataInv, Tables, RowsTyped, DoneTyped
<1>3. CASE pc[w] \in Appending
  <2>1. ReleaseTurn /\ HasTurn(w)
    BY <1>3 DEF CallThrows, Appending, TurnExclusive, HasTurn
  <2> QED
    BY <1>1, <1>2, <1>3, <2>1, ThrowLeaves DEF Turn
<1>4. CASE pc[w] \notin Appending
  <2>1. UNCHANGED <<chain, turnQueue, appended>>
    BY <1>1, <1>4 DEF CallThrows, Appending, db
  <2> QED
    BY <1>1, <1>2, <1>4, <2>1, FinishStaysOutside DEF IInv
<1> QED
  BY <1>3, <1>4

LEMMA WriterStepShape ==
  ASSUME IInv, DataInv, TurnExclusive, NEW w \in Writers, WriterStep(w)
  PROVE  (Outside(w) \/ Enters(w) \/ Turn(w)) /\ Tables'
<1>1. CASE AppendStep(w)
  <2>1. Turn(w)
    BY <1>1, AppendStepShape
  <2>2. UNCHANGED <<row, done>>
    BY <2>1 DEF Turn, db, Commit
  <2> QED
    BY <2>1, <2>2 DEF DataInv, Tables, RowsTyped, DoneTyped
<1> QED
  BY <1>1, StartShape, ThrowShape, UpsertResolveShape, UpsertSaveShape, UpsertStateShape,
     UpsertAppendShape, NsmShape, DoneShape, DeleteShape, GenesisShape DEF WriterStep, Progress

-----------------------------------------------------------------------------
(* The tables and the tasks keep their shape                               *)

LEMMA MovesKeepTasks ==
  ASSUME TasksReady, NEW w \in Writers, NEW t, NEW label \in Labels, Moves(w, t, label),
         t.attempt \in 0 .. MaxRetries,
         IF label \in Appending THEN InAppend(t) ELSE Ready(t, label)
  PROVE  TasksReady'
<1>1. /\ pc' \in [Writers -> Labels]
      /\ pc'[w] = label /\ task'[w] = t
      /\ \A v \in Writers \ {w} : pc'[v] = pc[v] /\ task'[v] = task[v]
  BY DEF TasksReady, Moves
<1> QED
  BY <1>1 DEF TasksReady, InAppend, Ready

LEMMA CommitKeepsSound ==
  ASSUME Chains, ChainsSound, NEW w \in Writers, InAppend(task[w]), Commit(w)
  PROVE  /\ ChainsSound'
         /\ chain' = [chain EXCEPT ![task[w].cand.num] =
                        Append(chain[task[w].cand.num], Entity(task[w].cand, task[w].link))]
<1> DEFINE n == task[w].cand.num
           x == Entity(task[w].cand, task[w].link)
<1>1. n \in Notices /\ Sound(x)
  BY EntityIsSound DEF InAppend
<1>2. chain' = [chain EXCEPT ![n] = Append(chain[n], x)]
  BY DEF Commit
<1>3. chain[n] \in Seq(Elems(chain[n]))
  BY <1>1 DEF Chains
<1> HIDE DEF x
<1>4. \A i \in DOMAIN Append(chain[n], x) : Sound(Append(chain[n], x)[i])
  BY <1>1, <1>3, AppendEvent DEF ChainsSound
<1> DEFINE d == Append(chain[n], x)
<1> HIDE DEF d, n
<1>5. DOMAIN chain = Notices
  BY DEF Chains
<1>6. ChainsSound'
  BY <1>1, <1>2, <1>4, <1>5 DEF ChainsSound, d
<1> QED
  BY <1>2, <1>6 DEF x, n

LEMMA WriterStepKeepsData ==
  ASSUME IInv, DataInv, NEW w \in Writers, Outside(w) \/ Enters(w) \/ Turn(w)
  PROVE  ChainsSound' /\ TasksReady'
<1>1. ASSUME UNCHANGED chain PROVE ChainsSound'
  BY <1>1 DEF DataInv, ChainsSound
<1>2. ASSUME NEW t, NEW label \in Labels \ Appending, Ready(t, label),
             t.attempt \in 0 .. MaxRetries, Moves(w, t, label)
      PROVE  TasksReady'
  BY <1>2, MovesKeepTasks DEF DataInv
<1>3. ASSUME NEW t, NEW label \in Appending, InAppend(t), Moves(w, t, label)
      PROVE  TasksReady'
  <2>1. label \in Labels /\ t.attempt \in 0 .. MaxRetries
    BY <1>3, ChainAssumption DEF Labels, Appending, InAppend
  <2> QED
    BY <1>3, <2>1, MovesKeepTasks DEF DataInv
<1>4. CASE Outside(w)
  BY <1>1, <1>2, <1>4 DEF Outside
<1>5. CASE Enters(w)
  BY <1>1, <1>3, <1>5 DEF Enters, Appending
<1>6. CASE Turn(w)
  <2>1. TasksReady' /\ pc[w] \in Appending
    BY <1>2, <1>3, <1>6 DEF Turn, Stays, Leaves, Appending
  <2>2. CASE UNCHANGED <<db, appended>>
    BY <1>1, <2>1, <2>2 DEF db
  <2>3. CASE Commit(w)
    BY <2>1, <2>3, CommitKeepsSound, WriterInAppend DEF IInv, DataInv
  <2> QED
    BY <1>6, <2>1, <2>2, <2>3 DEF Turn
<1> QED
  BY <1>4, <1>5, <1>6

-----------------------------------------------------------------------------
(* Turns                                                                   *)

Turns == TurnsSerialize /\ (Serialized => turnQueue \in Seq(Writers))

LEMMA WriterStepKeepsTurns ==
  ASSUME IInv, DataInv, Turns, NEW w \in Writers, Outside(w) \/ Enters(w) \/ Turn(w)
  PROVE  Turns'
<1>1. pc \in [Writers -> Labels]
  BY DEF DataInv, TasksReady
<1> SUFFICES ASSUME Serialized' PROVE Turns'
  BY DEF Turns, TurnsSerialize, TurnExclusive, TurnQueueLive
<1>2. Serialized
  BY DEF Outside, Enters, Turn, Stays, Leaves, ReleaseTurn, Serialized
<1>3. /\ turnQueue \in Seq(Writers)
      /\ Len(turnQueue) \in Nat /\ DOMAIN turnQueue = 1 .. Len(turnQueue)
      /\ turnQueue # <<>> => Head(turnQueue) = turnQueue[1]
      /\ turnQueue # <<>> <=> Len(turnQueue) # 0
  BY <1>2, LenProperties, EmptySeq, HeadTailProperties DEF Turns
<1>4. /\ \A v \in Writers : pc[v] \in {"txRead", "txCommit"} =>
           turnQueue # <<>> /\ Head(turnQueue) = v
      /\ \A i, j \in DOMAIN turnQueue : turnQueue[i] = turnQueue[j] => i = j
      /\ \A i \in DOMAIN turnQueue : pc[turnQueue[i]] \in Appending
  BY <1>2 DEF Turns, TurnsSerialize, TurnExclusive, TurnQueueLive, Appending
<1>5. CASE Outside(w)
  <2>1. /\ pc[w] \notin Appending /\ UNCHANGED turnQueue
        /\ pc'[w] \notin Appending
        /\ \A v \in Writers \ {w} : pc'[v] = pc[v]
    BY <1>1, <1>5 DEF Outside, Moves
  <2>2. \A i \in DOMAIN turnQueue : turnQueue[i] \in Writers \ {w}
    BY <1>3, <1>4, <2>1
  <2> QED
    BY <1>2, <1>3, <1>4, <2>1, <2>2
       DEF Turns, TurnsSerialize, TurnExclusive, TurnQueueLive, Appending
<1>6. CASE Enters(w)
  <2> DEFINE q == Append(turnQueue, w)
  <2>1. /\ pc[w] \notin Appending /\ turnQueue' = q
        /\ pc'[w] = "dedupe"
        /\ \A v \in Writers \ {w} : pc'[v] = pc[v]
    BY <1>1, <1>2, <1>6 DEF Enters, Moves
  <2>2. /\ q \in Seq(Writers) /\ Len(q) = Len(turnQueue) + 1
        /\ DOMAIN q = 1 .. Len(turnQueue) + 1 /\ q # <<>>
        /\ \A i \in 1 .. Len(turnQueue) : q[i] = turnQueue[i]
        /\ q[Len(turnQueue) + 1] = w
        /\ Head(q) = q[1]
    <3>1. /\ q \in Seq(Writers) /\ Len(q) = Len(turnQueue) + 1
          /\ \A i \in 1 .. Len(turnQueue) : q[i] = turnQueue[i]
          /\ q[Len(turnQueue) + 1] = w
      BY <1>3, AppendProperties
    <3> QED
      BY <1>3, <3>1, LenProperties, EmptySeq, HeadTailProperties
  <2> HIDE DEF q
  <2>3. \A i \in DOMAIN turnQueue : turnQueue[i] \in Writers \ {w}
    BY <1>3, <1>4, <2>1
  <2>4. TurnExclusive'
    <3> SUFFICES ASSUME NEW v \in Writers, pc'[v] \in {"txRead", "txCommit"}
                 PROVE  q # <<>> /\ Head(q) = v
      BY <2>1 DEF TurnExclusive
    <3>1. pc[v] \in {"txRead", "txCommit"}
      BY <2>1
    <3>2. turnQueue # <<>> /\ turnQueue[1] = v /\ 1 \in 1 .. Len(turnQueue)
      BY <1>3, <1>4, <3>1
    <3> QED
      BY <2>2, <3>2
  <2>5. \A i, j \in DOMAIN q : q[i] = q[j] => i = j
    BY <1>3, <1>4, <2>2, <2>3
  <2>6. \A i \in DOMAIN q : pc'[q[i]] \in Appending
    BY <1>3, <1>4, <2>1, <2>2, <2>3 DEF Appending
  <2> QED
    BY <2>1, <2>2, <2>4, <2>5, <2>6 DEF Turns, TurnsSerialize, TurnQueueLive, Appending
<1>7. CASE Turn(w)
  <2>1. turnQueue # <<>> /\ Head(turnQueue) = w /\ turnQueue[1] = w /\ pc[w] \in Appending
    BY <1>2, <1>3, <1>7 DEF Turn, HasTurn, Stays, Leaves
  <2>2. CASE Stays(w)
    <3>1. /\ UNCHANGED turnQueue /\ pc'[w] \in {"txRead", "txCommit"}
          /\ \A v \in Writers \ {w} : pc'[v] = pc[v]
      BY <1>1, <2>2 DEF Stays, Moves
    <3>2. TurnExclusive'
      BY <1>4, <2>1, <3>1 DEF TurnExclusive
    <3>3. \A i \in DOMAIN turnQueue : pc'[turnQueue[i]] \in Appending
      BY <1>3, <1>4, <3>1 DEF Appending
    <3> QED
      BY <1>3, <1>4, <3>1, <3>2, <3>3 DEF Turns, TurnsSerialize, TurnQueueLive, Appending
  <2>3. CASE Leaves(w)
    <3> DEFINE q == Tail(turnQueue)
    <3>1. /\ turnQueue' = q /\ pc'[w] \notin Appending
          /\ \A v \in Writers \ {w} : pc'[v] = pc[v]
      BY <1>1, <1>2, <2>3 DEF Leaves, Moves, ReleaseTurn
    <3>2. /\ q \in Seq(Writers) /\ Len(q) = Len(turnQueue) - 1
          /\ DOMAIN q = 1 .. Len(turnQueue) - 1
          /\ \A i \in 1 .. Len(turnQueue) - 1 : q[i] = turnQueue[i + 1]
      BY <1>3, <2>1, HeadTailProperties, LenProperties
    <3> HIDE DEF q
    <3>3. \A i \in DOMAIN q : q[i] \in Writers \ {w}
      BY <1>3, <1>4, <2>1, <3>2
    <3>4. TurnExclusive'
      BY <1>4, <2>1, <3>1 DEF TurnExclusive, Appending
    <3>5. ASSUME NEW i \in DOMAIN q, NEW j \in DOMAIN q, q[i] = q[j] PROVE i = j
      <4>1. /\ i \in 1 .. Len(turnQueue) - 1 /\ j \in 1 .. Len(turnQueue) - 1
            /\ i + 1 \in DOMAIN turnQueue /\ j + 1 \in DOMAIN turnQueue
        BY <1>3, <3>2
      <4>2. turnQueue[i + 1] = turnQueue[j + 1]
        BY <3>2, <3>5, <4>1
      <4>3. i + 1 = j + 1
        BY <1>4, <4>1, <4>2
      <4> QED
        BY <4>1, <4>3
    <3>6. \A i \in DOMAIN q : pc'[q[i]] \in Appending
      BY <1>3, <1>4, <3>1, <3>2, <3>3
    <3> QED
      BY <3>1, <3>2, <3>4, <3>5, <3>6 DEF Turns, TurnsSerialize, TurnQueueLive, Appending
  <2> QED
    BY <1>7, <2>2, <2>3 DEF Turn
<1> QED
  BY <1>5, <1>6, <1>7

-----------------------------------------------------------------------------
(* An append commits once                                                  *)

\* Once an append has committed its event, the event is in the chain: a retry
\* runs into the unique index.
Once ==
  /\ appended \in [Writers -> {0, 1}]
  /\ \A w \in Writers : pc[w] \in Appending /\ appended[w] = 1 => HashTaken(task[w].cand)

LEMMA HashStaysTaken ==
  ASSUME IInv, DataInv, NEW w \in Writers, InAppend(task[w]), Commit(w),
         NEW e, e.num \in Notices
  PROVE  /\ HashTaken(e) => HashTaken(e)'
         /\ e = task[w].cand => HashTaken(e)'
<1> DEFINE n == task[w].cand.num
           x == Entity(task[w].cand, task[w].link)
<1>1. n \in Notices /\ x.hash = task[w].cand.hash
  BY EntityIsSound DEF InAppend
<1>2. /\ chain' = [chain EXCEPT ![n] = Append(chain[n], x)]
      /\ chain[n] \in Seq(Elems(chain[n]))
      /\ DOMAIN chain = Notices
  BY <1>1 DEF Commit, IInv, Chains
<1> HIDE DEF x
<1>3. /\ DOMAIN Append(chain[n], x) = 1 .. Len(chain[n]) + 1
      /\ Len(chain[n]) \in Nat /\ DOMAIN chain[n] = 1 .. Len(chain[n])
      /\ \A i \in 1 .. Len(chain[n]) : Append(chain[n], x)[i] = chain[n][i]
      /\ Append(chain[n], x)[Len(chain[n]) + 1] = x
  BY <1>2, AppendEvent
<1> DEFINE d == Append(chain[n], x)
<1> HIDE DEF d
<1>4. chain'[n] = d /\ \A m \in Notices : m # n => chain'[m] = chain[m]
  BY <1>1, <1>2 DEF d
<1>5. ASSUME HashTaken(e) PROVE \E i \in DOMAIN chain'[e.num] : chain'[e.num][i].hash = e.hash
  <2>1. PICK i \in DOMAIN chain[e.num] : chain[e.num][i].hash = e.hash
    BY <1>5 DEF HashTaken
  <2>2. CASE e.num = n
    <3>1. i \in DOMAIN d /\ d[i].hash = e.hash
      BY <1>3, <2>1, <2>2 DEF d
    <3> QED
      BY <1>4, <2>2, <3>1
  <2>3. CASE e.num # n
    BY <1>4, <2>1, <2>3
  <2> QED
    BY <2>2, <2>3
<1>6. ASSUME e = task[w].cand
      PROVE  \E i \in DOMAIN chain'[e.num] : chain'[e.num][i].hash = e.hash
  <2>1. Len(chain[n]) + 1 \in DOMAIN d /\ d[Len(chain[n]) + 1].hash = e.hash
    BY <1>1, <1>3, <1>6 DEF d
  <2> QED
    BY <1>4, <1>6, <2>1
<1> QED
  BY <1>5, <1>6 DEF HashTaken

LEMMA WriterStepKeepsOnce ==
  ASSUME IInv, DataInv, Once, NEW w \in Writers, Outside(w) \/ Enters(w) \/ Turn(w)
  PROVE  Once'
<1>1. pc \in [Writers -> Labels]
  BY DEF DataInv, TasksReady
<1>2. \A v \in Writers : pc[v] \in Appending => task[v].cand.num \in Notices
  BY WriterInAppend DEF InAppend
<1>3. CASE Outside(w)
  <2>1. /\ pc'[w] \notin Appending /\ UNCHANGED <<chain, appended>>
        /\ \A v \in Writers \ {w} : pc'[v] = pc[v] /\ task'[v] = task[v]
    BY <1>1, <1>3 DEF Outside, Moves
  <2> QED
    BY <2>1 DEF Once, HashTaken
<1>4. CASE Enters(w)
  <2>1. /\ UNCHANGED chain /\ appended' = [appended EXCEPT ![w] = 0]
        /\ \A v \in Writers \ {w} : pc'[v] = pc[v] /\ task'[v] = task[v]
    BY <1>1, <1>4 DEF Enters, Moves
  <2> QED
    BY <2>1 DEF Once, HashTaken
<1>5. CASE Turn(w)
  <2>1. /\ pc[w] \in Appending
        /\ pc'[w] \in Appending => task'[w].cand = task[w].cand
        /\ \A v \in Writers \ {w} : pc'[v] = pc[v] /\ task'[v] = task[v]
    BY <1>1, <1>5 DEF Turn, Stays, Leaves, Moves
  <2>2. CASE UNCHANGED <<db, appended>>
    BY <2>1, <2>2 DEF Once, HashTaken, db
  <2>3. CASE Committable(w) /\ Commit(w)
    <3>1. appended[w] = 0
      BY <2>1, <2>3 DEF Once, Committable
    <3>2. appended' = [appended EXCEPT ![w] = appended[w] + 1]
      BY <2>3 DEF Commit
    <3>3. appended' \in [Writers -> {0, 1}] /\ \A v \in Writers \ {w} : appended'[v] = appended[v]
      BY <3>1, <3>2 DEF Once
    <3>4. InAppend(task[w])
      BY <2>1, WriterInAppend
    <3>5. HashTaken(task[w].cand)'
          <=> \E i \in DOMAIN chain'[task'[w].cand.num] :
                chain'[task'[w].cand.num][i].hash = task'[w].cand.hash
      BY DEF HashTaken
    <3>6. ASSUME NEW v \in Writers, pc'[v] \in Appending, appended'[v] = 1
          PROVE  HashTaken(task[v].cand)'
      <4> DEFINE e == task[v].cand
      <4>1. task'[v].cand = e /\ pc[v] \in Appending
        BY <2>1, <3>6
      <4>2. e.num \in Notices
        BY <1>2, <4>1
      <4>3. v = w \/ HashTaken(e)
        BY <2>1, <3>3, <3>6, <4>1 DEF Once
      <4>4. \E i \in DOMAIN chain'[e.num] : chain'[e.num][i].hash = e.hash
        <5> HIDE DEF e
        <5>1. e = task[w].cand \/ HashTaken(e)
          BY <4>3 DEF e
        <5> QED
          BY <2>3, <3>4, <4>2, <5>1, HashStaysTaken DEF HashTaken
      <4> QED
        BY <4>1, <4>4 DEF HashTaken
    <3> QED
      BY <3>3, <3>6 DEF Once
  <2> QED
    BY <1>5, <2>2, <2>3 DEF Turn
<1> QED
  BY <1>3, <1>4, <1>5

-----------------------------------------------------------------------------
(* Everything together                                                     *)

AllInv == IInv /\ DataInv /\ Turns /\ Once

\* A fault or a restart is counted, and nothing else counts them.
LEMMA Counted ==
  ASSUME [Next]_vars, faults \in Nat, crashes \in Nat
  PROVE  faults' \in Nat /\ crashes' \in Nat
<1>1. CASE Crash
  BY <1>1 DEF Crash
<1>2. CASE UNCHANGED vars
  BY <1>2 DEF vars
<1>3. ASSUME NEW w \in Writers, Start(w) PROVE UNCHANGED <<faults, crashes>>
  BY <1>3 DEF Start, UpsertStart, NsmStart, DoneStart, DeleteStart, GenesisStart, Issue
<1>4. ASSUME NEW w \in Writers, AppendStep(w) \/ CallThrows(w)
      PROVE  faults' \in {faults, faults + 1} /\ UNCHANGED crashes
  BY <1>4 DEF AppendStep, AppendDedupe, TxRead, TxHashConflict, TxHeightConflict, TxCommit,
              TxConflict, CallThrows, budget
<1>5. ASSUME NEW w \in Writers,
             \/ UpsertResolve(w) \/ UpsertSave(w) \/ UpsertState(w) \/ UpsertAppend(w)
             \/ NsmBaseline(w) \/ NsmAppend(w)
      PROVE  faults' \in {faults, faults + 1} /\ UNCHANGED crashes
  BY <1>5 DEF UpsertResolve, UpsertSave, UpsertState, UpsertAppend, NsmBaseline, NsmAppend,
              BaselineRead, budget
<1>6. ASSUME NEW w \in Writers,
             \/ DoneRows(w) \/ DoneMark(w) \/ DoneNext(w) \/ DeleteAppend(w) \/ DeleteState(w)
             \/ GenesisFilter(w) \/ GenesisNext(w)
      PROVE  faults' \in {faults, faults + 1} /\ UNCHANGED crashes
  BY <1>6 DEF DoneRows, DoneMark, DoneNext, DeleteAppend, DeleteState, GenesisFilter,
              GenesisNext, BaselineRead, budget
<1>7. faults + 1 \in Nat
  OBVIOUS
<1> QED
  BY <1>1, <1>2, <1>3, <1>4, <1>5, <1>6, <1>7 DEF Next, WriterStep, Progress

LEMMA NobodyQueues == <<>> \in Seq(Writers) /\ DOMAIN <<>> = {}
<1>1. Len(<<>>) = 0 /\ <<>> \in Seq(Writers)
  BY EmptySeq
<1> QED
  BY <1>1, LenProperties

LEMMA InitAllInv == Init => AllInv
<1> SUFFICES ASSUME Init PROVE AllInv
  OBVIOUS
<1>1. IInv
  BY InitIInv
<1>2. TasksReady
  <2>1. "idle" \in Labels \ Appending
    BY DEF Labels, Appending
  <2> QED
    BY <2>1, NoTaskIsReady DEF Init, TasksReady
<1>3. DataInv
  BY <1>2 DEF Init, DataInv, RowsTyped, DoneTyped, ChainsSound, MaybeRow
<1>4. Turns
  <2>1. Serialized => turnQueue = <<>>
    BY DEF Init, Serialized
  <2>2. \A w \in Writers : pc[w] = "idle"
    BY DEF Init
  <2> QED
    BY <2>1, <2>2, NobodyQueues DEF Turns, TurnsSerialize, TurnExclusive, TurnQueueLive
<1>5. Once
  BY DEF Init, Once
<1> QED
  BY <1>1, <1>3, <1>4, <1>5 DEF AllInv

LEMMA CrashKeepsAll ==
  ASSUME AllInv, Crash
  PROVE  RowsTyped' /\ DoneTyped' /\ ChainsSound' /\ TasksReady' /\ Turns' /\ Once'
<1>1. /\ pc' = [w \in Writers |-> "idle"]
      /\ task' = [w \in Writers |-> NoTask]
      /\ turnQueue' = IF Serialized THEN <<>> ELSE turnQueue
      /\ appended' = [w \in Writers |-> 0]
      /\ UNCHANGED <<row, done, chain>>
  BY DEF Crash, db
<1>2. "idle" \in Labels \ Appending
  BY DEF Labels, Appending
<1>3. TasksReady'
  BY <1>1, <1>2, NoTaskIsReady DEF TasksReady, Ready, InAppend
<1>4. RowsTyped' /\ DoneTyped' /\ ChainsSound'
  BY <1>1 DEF AllInv, DataInv, RowsTyped, DoneTyped, ChainsSound
<1>5. Turns'
  <2>1. Serialized' => turnQueue' = <<>>
    BY <1>1 DEF Serialized
  <2> QED
    BY <1>1, <2>1, NobodyQueues DEF Turns, TurnsSerialize, TurnExclusive, TurnQueueLive
<1>6. Once'
  BY <1>1, <1>2 DEF Once
<1> QED
  BY <1>3, <1>4, <1>5, <1>6

LEMMA NextAllInv == AllInv /\ [Next]_vars => AllInv'
<1> SUFFICES ASSUME AllInv, [Next]_vars PROVE AllInv'
  OBVIOUS
<1>1. IInv' /\ faults' \in Nat /\ crashes' \in Nat
  BY NextIInv, Counted DEF AllInv, DataInv
<1>2. ASSUME NEW w \in Writers, WriterStep(w)
      PROVE  RowsTyped' /\ DoneTyped' /\ ChainsSound' /\ TasksReady' /\ Turns' /\ Once'
  <2>1. IInv /\ DataInv /\ Turns /\ Once /\ TurnExclusive
    BY DEF AllInv, Turns, TurnsSerialize
  <2>2. (Outside(w) \/ Enters(w) \/ Turn(w)) /\ RowsTyped' /\ DoneTyped'
    BY <1>2, <2>1, WriterStepShape DEF Tables
  <2> QED
    BY <2>1, <2>2, WriterStepKeepsData, WriterStepKeepsTurns, WriterStepKeepsOnce
<1>3. CASE UNCHANGED vars
  BY <1>3 DEF vars, AllInv, DataInv, RowsTyped, DoneTyped, ChainsSound, TasksReady, Turns,
              TurnsSerialize, TurnExclusive, TurnQueueLive, Serialized, Once, InAppend, Ready,
              HashTaken, IInv, Chains, Tasks, ChainLinked, LinkRead
<1>4. RowsTyped' /\ DoneTyped' /\ ChainsSound' /\ TasksReady' /\ Turns' /\ Once'
  BY <1>2, <1>3, CrashKeepsAll DEF Next, AllInv, DataInv
<1> QED
  BY <1>1, <1>4 DEF AllInv, DataInv

THEOREM AllInvariance == Spec => []AllInv
<1> QED
  BY InitAllInv, NextAllInv, PTL DEF Spec

\* The tables, the control state and the lock have the types the code gives
\* them, whatever the writers do.
THEOREM TypeCorrect == Spec => []TypeOK
<1>1. AllInv => TypeOK
  <2> SUFFICES ASSUME AllInv PROVE TypeOK
    OBVIOUS
  <2>1. \A n \in Notices : \A i \in DOMAIN chain[n] :
          /\ chain[n][i].type \in EventTypes
          /\ DOMAIN chain[n][i].details \subseteq Fields
    BY DEF AllInv, DataInv, ChainsSound, Sound
  <2>2. appended \in [Writers -> 0 .. MaxRetries]
    BY ChainAssumption DEF AllInv, Once
  <2> QED
    BY <2>1, <2>2 DEF AllInv, DataInv, RowsTyped, DoneTyped, TasksReady, Turns, TypeOK
<1> QED
  BY <1>1, AllInvariance, PTL

\* An append commits its event once at most, however often it retries a
\* transaction that failed after the commit; and with the SQLite driver one
\* append runs at a time, in the order of the calls, and nobody who has left
\* keeps the turn.
THEOREM TurnsAreTaken == Spec => []AppendsTakeTurns
<1>1. AllInv => AppendsTakeTurns
  BY DEF AllInv, Turns, Once, AppendsTakeTurns, AppendedAtMostOnce
<1> QED
  BY <1>1, AllInvariance, PTL

-----------------------------------------------------------------------------
(* What a step may do to the history                                       *)

\* No step changes or removes an event that is in a chain.
LEMMA StepExtendsChains ==
  ASSUME AllInv, [Next]_vars, NEW n \in Notices
  PROVE  Extends(chain'[n], chain[n])
<1>1. chain[n] \in Seq(Elems(chain[n])) /\ DOMAIN chain = Notices
  BY DEF AllInv, IInv, Chains
<1>2. ASSUME UNCHANGED chain PROVE Extends(chain'[n], chain[n])
  BY <1>1, <1>2, SameChain
<1>3. ASSUME NEW w \in Writers, Commit(w) PROVE Extends(chain'[n], chain[n])
  <2> DEFINE m == task[w].cand.num
             x == Entity(task[w].cand, task[w].link)
  <2>1. chain' = [chain EXCEPT ![m] = Append(chain[m], x)]
    BY <1>3 DEF Commit
  <2> HIDE DEF x
  <2>2. CASE m = n
    <3>1. chain'[n] = Append(chain[n], x)
      BY <1>1, <2>1, <2>2
    <3> QED
      BY <1>1, <3>1, AppendEvent DEF Extends
  <2>3. CASE m # n
    BY <1>1, <2>1, <2>3, SameChain
  <2> QED
    BY <2>2, <2>3
<1>4. ASSUME NEW w \in Writers, WriterStep(w) PROVE Extends(chain'[n], chain[n])
  <2>1. Outside(w) \/ Enters(w) \/ Turn(w)
    BY <1>4, WriterStepShape DEF AllInv, Turns, TurnsSerialize
  <2> QED
    BY <1>2, <1>3, <2>1 DEF Outside, Enters, Turn, db
<1> QED
  BY <1>2, <1>4 DEF Next, Crash, vars, db

\* No step changes a row that is in the archive.
LEMMA StepKeepsRows ==
  ASSUME AllInv, [Next]_vars, NEW n \in Notices, row[n] # None
  PROVE  row'[n] = row[n]
<1>1. DOMAIN row = Notices
  BY DEF AllInv, DataInv, RowsTyped
<1>2. ASSUME NEW w \in Writers, UpsertSave(w) PROVE row'[n] = row[n]
  BY <1>1, <1>2 DEF UpsertSave
<1>3. ASSUME NEW w \in Writers, Start(w) PROVE UNCHANGED row
  BY <1>3 DEF Start, UpsertStart, NsmStart, DoneStart, DeleteStart, GenesisStart, db
<1>4. ASSUME NEW w \in Writers, AppendStep(w) \/ CallThrows(w) PROVE UNCHANGED row
  BY <1>4 DEF AppendStep, AppendDedupe, TxRead, TxHashConflict, TxHeightConflict, TxCommit,
              TxConflict, CallThrows, Commit, db
<1>5. ASSUME NEW w \in Writers,
             \/ UpsertResolve(w) \/ UpsertState(w) \/ UpsertAppend(w)
             \/ NsmBaseline(w) \/ NsmAppend(w)
             \/ DoneRows(w) \/ DoneMark(w) \/ DoneNext(w)
             \/ DeleteAppend(w) \/ DeleteState(w) \/ GenesisFilter(w) \/ GenesisNext(w)
      PROVE  UNCHANGED row
  BY <1>5 DEF UpsertResolve, UpsertState, UpsertAppend, NsmBaseline, NsmAppend, DoneRows,
              DoneMark, DoneNext, DeleteAppend, DeleteState, GenesisFilter, GenesisNext, db
<1> QED
  BY <1>2, <1>3, <1>4, <1>5 DEF Next, WriterStep, Progress, Crash, vars, db

\* History is append-only: no interleaving, retry, fault or crash rewrites an
\* event or a row of the archive.
THEOREM HistoryIsKept == Spec => History
<1>1. AllInv /\ [Next]_vars =>
        [\A n \in Notices :
           /\ Len(chain'[n]) >= Len(chain[n])
           /\ SubSeq(chain'[n], 1, Len(chain[n])) = chain[n]
           /\ row[n] # None => row'[n] = row[n]]_<<chain, row>>
  BY StepExtendsChains, StepKeepsRows DEF Extends
<1> QED
  BY <1>1, AllInvariance, PTL DEF Spec, History

-----------------------------------------------------------------------------
(* What a returning append leaves behind                                   *)

\* The chain of e's notice records what e says.
Recorded(e, c) ==
  \E i \in DOMAIN c : c[i].type = e.type /\ c[i].source = e.source /\ c[i].details = e.details

LEMMA ReturnRecords ==
  ASSUME AllInv, [Next]_vars, NEW w \in Writers,
         pc[w] \in {"dedupe", "txCommit"}, pc'[w] \notin {"dedupe", "txRead", "txCommit"},
         faults' = faults, crashes' = crashes, task[w].attempt < MaxRetries
  PROVE  Recorded(task[w].cand, chain'[task[w].cand.num])
<1> DEFINE e == task[w].cand
<1>1. /\ IInv /\ DataInv /\ pc \in [Writers -> Labels]
      /\ faults \in Nat /\ crashes \in Nat /\ pc[w] \in Appending
  BY DEF AllInv, DataInv, TasksReady, Appending
<1>2. InAppend(task[w]) /\ e.num \in Notices /\ Sound(e)
  BY <1>1, WriterInAppend DEF InAppend
<1>3. chain[e.num] \in Seq(Elems(chain[e.num])) /\ DOMAIN chain = Notices
  BY <1>1, <1>2 DEF IInv, Chains
<1>4. PICK v \in Writers : WriterStep(v)
  BY <1>1 DEF Next, Crash, vars
<1>5. v = w
  <2>1. TurnExclusive
    BY DEF AllInv, Turns, TurnsSerialize
  <2>2. Outside(v) \/ Enters(v) \/ Turn(v)
    BY <1>1, <1>4, <2>1, WriterStepShape
  <2>3. \E t, label : Moves(v, t, label)
    BY <2>2 DEF Outside, Enters, Turn, Stays, Leaves
  <2> QED
    BY <1>1, <2>3 DEF Moves
<1>6. AppendDedupe(w) \/ TxHashConflict(w) \/ TxHeightConflict(w) \/ TxCommit(w)
  <2>1. ~CallThrows(w) /\ ~TxConflict(w)
    BY <1>1 DEF CallThrows, TxConflict
  <2>2. ~TxRead(w)
    BY DEF TxRead
  <2> QED
    BY <1>4, <1>5, <2>1, <2>2
       DEF WriterStep, Start, Progress, AppendStep, UpsertStart, NsmStart, DoneStart,
           DeleteStart, GenesisStart, UpsertResolve, UpsertSave, UpsertState, UpsertAppend,
           NsmBaseline, NsmAppend, DoneRows, DoneMark, DoneNext, DeleteAppend, DeleteState,
           GenesisFilter, GenesisNext
<1>7. CASE AppendDedupe(w)
  <2>1. UNCHANGED chain
    BY <1>7 DEF AppendDedupe, db
  <2>2. IsLatestDuplicate(e)
    BY <1>1, <1>7 DEF AppendDedupe, Goto
  <2>3. Len(chain[e.num]) \in DOMAIN chain[e.num]
    BY <1>3, <2>2, EmptySeq, LenProperties DEF IsLatestDuplicate
  <2> QED
    BY <2>1, <2>2, <2>3 DEF IsLatestDuplicate, Recorded
<1>8. CASE TxHashConflict(w)
  <2>1. UNCHANGED chain
    BY <1>8 DEF TxHashConflict, db
  <2>2. PICK i \in DOMAIN chain[e.num] : chain[e.num][i].hash = e.hash
    BY <1>8 DEF TxHashConflict, HashTaken
  <2>3. Sound(chain[e.num][i])
    BY <1>1, <1>2, <2>2 DEF DataInv, ChainsSound
  <2> DEFINE x == chain[e.num][i]
  <2>4. x.type = e.type /\ x.source = e.source /\ x.details = e.details
    <3> HIDE DEF x, e
    <3> QED
      BY <1>2, <2>2, <2>3 DEF Sound, x
  <2> QED
    BY <2>1, <2>2, <2>4 DEF Recorded
<1>9. CASE TxHeightConflict(w)
  <2>1. Goto(w, "txRead")
    BY <1>9 DEF TxHeightConflict, RetryOrThrow
  <2> QED
    BY <1>1, <2>1 DEF Goto
<1>10. CASE TxCommit(w)
  <2> DEFINE x == Entity(e, task[w].link)
             d == Append(chain[e.num], x)
  <2>1. chain' = [chain EXCEPT ![e.num] = d]
    BY <1>10 DEF TxCommit, Commit
  <2>2. chain'[e.num] = d
    BY <1>2, <1>3, <2>1
  <2>3. x.type = e.type /\ x.source = e.source /\ x.details = e.details
    BY DEF Entity
  <2> HIDE DEF x
  <2>4. d[Len(chain[e.num]) + 1] = x /\ Len(chain[e.num]) + 1 \in DOMAIN d
    BY <1>3, AppendEvent
  <2> QED
    BY <2>2, <2>3, <2>4 DEF Recorded
<1> QED
  BY <1>6, <1>7, <1>8, <1>9, <1>10

\* An append that returns has its event in the chain, by whichever of its exits
\* it returns.
THEOREM ReturnsAreRecorded == Spec => ReturnedIsRecorded
<1>1. AllInv /\ [Next]_vars =>
        [\A w \in Writers :
           (/\ pc[w] \in {"dedupe", "txCommit"}
            /\ pc'[w] \notin {"dedupe", "txRead", "txCommit"}
            /\ faults' = faults /\ crashes' = crashes
            /\ task[w].attempt < MaxRetries) =>
              LET e == task[w].cand IN
              \E i \in DOMAIN chain'[e.num] :
                /\ chain'[e.num][i].type = e.type
                /\ chain'[e.num][i].source = e.source
                /\ chain'[e.num][i].details = e.details]_vars
  BY ReturnRecords DEF Recorded
<1> QED
  BY <1>1, AllInvariance, PTL DEF Spec, ReturnedIsRecorded
=============================================================================
