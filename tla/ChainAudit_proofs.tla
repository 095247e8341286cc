------------------------- MODULE ChainAudit_proofs -------------------------
(***************************************************************************)
(* Proofs about AuditQueue, for any scopes and any number of requests: the *)
(* queue holds a scope once, whoever asked for an audit has its scope in   *)
(* the queue until the audit begins, and audits run one by one.            *)
(*                                                                         *)
(* And about ChangeChain, for calls that come one after the other and do   *)
(* not fail: archive and chain agree.  The argument follows a notice from  *)
(* its row to its first event to the end of the call at work on it.        *)
(***************************************************************************)
EXTENDS MCChainAudit, ChangeChain_proofs

\* enqueueChangeTrackingAudit drops a scope that is queued already.
ScopesOnce(q) == \A i, j \in DOMAIN q : q[i] = q[j] => i = j

\* The scope of a request stands in the queue until an audit takes it out.
OwedIsQueued == \A s \in owed : Queued(s)

AuditTypes ==
  /\ auditQueue \in Seq(Scopes) /\ draining \in BOOLEAN
  /\ auditing \subseteq Scopes /\ owed \subseteq Scopes /\ audits \in Nat

AuditInv == AuditTypes /\ ScopesOnce(auditQueue) /\ AuditsOneByOne /\ OwedIsQueued

-----------------------------------------------------------------------------
(* The queue                                                               *)

LEMMA OnceIsBounded ==
  ASSUME NEW q \in Seq(Scopes), ScopesOnce(q)
  PROVE  Len(q) <= Cardinality(Scopes)
<1>1. Len(q) \in Nat /\ DOMAIN q = 1 .. Len(q) /\ \A i \in 1 .. Len(q) : q[i] \in Scopes
  BY LenProperties, ElementOfSeq
<1>2. q \in [1 .. Len(q) -> Scopes]
  BY LenProperties
<1>3. q \in Injection(1 .. Len(q), Scopes)
  BY <1>1, <1>2 DEF ScopesOnce, Injection, IsInjective
<1>4. Cardinality(1 .. Len(q)) <= Cardinality(Scopes)
  BY <1>3, AuditAssumption, FS_Injection
<1>5. Cardinality(1 .. Len(q)) = Len(q)
  <2>1. PICK n \in Nat : n = Len(q)
    BY <1>1
  <2>2. Cardinality(1 .. n) = IF 1 > n THEN 0 ELSE n - 1 + 1
    BY FS_Interval
  <2> QED
    BY <2>1, <2>2
<1> QED
  BY <1>4, <1>5

\* The queue with a scope that was not in it.
LEMMA QueueWith ==
  ASSUME NEW q \in Seq(Scopes), ScopesOnce(q), NEW s \in Scopes, \A i \in DOMAIN q : q[i] # s
  PROVE  /\ Append(q, s) \in Seq(Scopes) /\ ScopesOnce(Append(q, s))
         /\ \A u \in Scopes : (u = s \/ \E i \in DOMAIN q : q[i] = u)
                                => \E i \in DOMAIN Append(q, s) : Append(q, s)[i] = u
<1> DEFINE d == Append(q, s)
<1>1. Len(q) \in Nat /\ DOMAIN q = 1 .. Len(q)
  BY LenProperties
<1>2. /\ d \in Seq(Scopes) /\ Len(d) = Len(q) + 1 /\ DOMAIN d = 1 .. Len(q) + 1
      /\ \A i \in 1 .. Len(q) : d[i] = q[i]
      /\ d[Len(q) + 1] = s
  BY AppendProperties, LenProperties
<1> HIDE DEF d
<1>3. ScopesOnce(d)
  BY <1>1, <1>2 DEF ScopesOnce
<1>4. \A u \in Scopes : (u = s \/ \E i \in DOMAIN q : q[i] = u) => \E i \in DOMAIN d : d[i] = u
  <2>1. Len(q) + 1 \in DOMAIN d /\ DOMAIN q \subseteq DOMAIN d
    BY <1>1, <1>2
  <2> QED
    BY <1>1, <1>2, <2>1
<1> QED
  BY <1>2, <1>3, <1>4 DEF d

\* The queue without its first scope.
LEMMA QueueTail ==
  ASSUME NEW q \in Seq(Scopes), ScopesOnce(q), q # <<>>
  PROVE  /\ Head(q) \in Scopes /\ Tail(q) \in Seq(Scopes) /\ ScopesOnce(Tail(q))
         /\ \A u \in Scopes : u # Head(q) /\ (\E i \in DOMAIN q : q[i] = u)
                                => \E i \in DOMAIN Tail(q) : Tail(q)[i] = u
<1> DEFINE d == Tail(q)
<1>1. Len(q) \in Nat /\ DOMAIN q = 1 .. Len(q)
  BY LenProperties
<1>2. /\ Head(q) \in Scopes /\ d \in Seq(Scopes) /\ Len(d) = Len(q) - 1
      /\ \A i \in 1 .. Len(d) : d[i] = q[i + 1]
  BY HeadTailProperties
<1>3. Len(d) \in Nat /\ DOMAIN d = 1 .. Len(d) /\ Head(q) = q[1]
  BY <1>2, LenProperties
<1> HIDE DEF d
<1>4. ScopesOnce(d)
  <2> SUFFICES ASSUME NEW i \in DOMAIN d, NEW j \in DOMAIN d, d[i] = d[j] PROVE i = j
    BY DEF ScopesOnce
  <2>1. i + 1 \in DOMAIN q /\ j + 1 \in DOMAIN q /\ q[i + 1] = q[j + 1]
    BY <1>1, <1>2, <1>3
  <2>2. i + 1 = j + 1
    BY <2>1 DEF ScopesOnce
  <2> QED
    BY <1>3, <2>2
<1>5. ASSUME NEW u \in Scopes, u # Head(q), NEW i \in DOMAIN q, q[i] = u
      PROVE  \E j \in DOMAIN d : d[j] = u
  <2>1. i # 1
    BY <1>3, <1>5
  <2>2. i - 1 \in DOMAIN d /\ d[i - 1] = u
    BY <1>1, <1>2, <1>3, <1>5, <2>1
  <2> QED
    BY <2>2
<1> QED
  BY <1>2, <1>4, <1>5 DEF d

-----------------------------------------------------------------------------
(* The steps                                                               *)

\* The drainer, with nothing running, takes the next scope or leaves.
LEMMA TakesNextKeeps ==
  ASSUME NEW q \in Seq(Scopes), ScopesOnce(q), NEW running, running = {}, NEW asked \in SUBSET Scopes,
         \A s \in asked : \E i \in DOMAIN q : q[i] = s,
         TakesNext(q, running, asked), audits' \in Nat
  PROVE  AuditInv'
<1>1. CASE q = <<>>
  <2>1. auditQueue' = q /\ draining' = FALSE /\ auditing' = {} /\ owed' = asked
    BY <1>1 DEF TakesNext
  <2>2. AuditTypes' /\ ScopesOnce(auditQueue)' /\ OwedIsQueued'
    BY <2>1 DEF AuditTypes, ScopesOnce, OwedIsQueued, Queued
  <2>3. AuditsOneByOne'
    BY <1>1, <2>1 DEF AuditsOneByOne
  <2> QED
    BY <2>2, <2>3 DEF AuditInv
<1>2. CASE q # <<>>
  <2>1. PICK h, rest : h = Head(q) /\ rest = Tail(q)
    OBVIOUS
  <2>2. auditQueue' = rest /\ draining' = TRUE /\ auditing' = {h} /\ owed' = asked \ {h}
    BY <1>2, <2>1 DEF TakesNext
  <2>3. /\ h \in Scopes /\ rest \in Seq(Scopes) /\ ScopesOnce(rest)
        /\ \A u \in Scopes : u # h /\ (\E i \in DOMAIN q : q[i] = u) => \E i \in DOMAIN rest : rest[i] = u
    BY <1>2, <2>1, QueueTail
  <2>4. AuditTypes' /\ ScopesOnce(auditQueue)'
    BY <2>2, <2>3 DEF AuditTypes, ScopesOnce
  <2>5. AuditsOneByOne'
    BY <2>2 DEF AuditsOneByOne
  <2>6. OwedIsQueued'
    BY <2>2, <2>3 DEF OwedIsQueued, Queued
  <2> QED
    BY <2>4, <2>5, <2>6 DEF AuditInv
<1> QED
  BY <1>1, <1>2

LEMMA AsksKeeps ==
  ASSUME AuditInv, NEW s \in Scopes, AsksForAudit(s)
  PROVE  AuditInv'
<1>1. PICK q : q = IF Queued(s) THEN auditQueue ELSE Append(auditQueue, s)
  OBVIOUS
<1>2. PICK asked : asked = owed \cup {s}
  OBVIOUS
<1>3. /\ audits' = audits + 1
      /\ IF draining
         THEN auditQueue' = q /\ owed' = asked /\ UNCHANGED <<draining, auditing>>
         ELSE TakesNext(q, auditing, asked)
  BY <1>1, <1>2 DEF AsksForAudit
<1>4. /\ q \in Seq(Scopes) /\ ScopesOnce(q)
      /\ \A u \in asked : \E i \in DOMAIN q : q[i] = u
  <2>1. CASE Queued(s)
    BY <1>1, <1>2, <2>1 DEF AuditInv, AuditTypes, OwedIsQueued, Queued
  <2>2. CASE ~Queued(s)
    <3>1. q = Append(auditQueue, s) /\ auditQueue \in Seq(Scopes) /\ ScopesOnce(auditQueue)
          /\ \A i \in DOMAIN auditQueue : auditQueue[i] # s
      BY <1>1, <2>2 DEF AuditInv, AuditTypes, Queued
    <3>2. /\ q \in Seq(Scopes) /\ ScopesOnce(q)
          /\ \A u \in Scopes : (u = s \/ \E i \in DOMAIN auditQueue : auditQueue[i] = u)
                                 => \E i \in DOMAIN q : q[i] = u
      BY <3>1, QueueWith
    <3> QED
      BY <1>2, <3>2 DEF AuditInv, AuditTypes, OwedIsQueued, Queued
  <2> QED
    BY <2>1, <2>2
<1>5. asked \in SUBSET Scopes /\ audits' \in Nat
  BY <1>2, <1>3 DEF AuditInv, AuditTypes
<1>6. CASE draining
  <2>1. auditQueue' = q /\ owed' = asked /\ UNCHANGED <<draining, auditing>>
    BY <1>3, <1>6
  <2>2. AuditTypes' /\ ScopesOnce(auditQueue)' /\ AuditsOneByOne'
    BY <1>4, <1>5, <1>6, <2>1 DEF AuditInv, AuditTypes, ScopesOnce, AuditsOneByOne
  <2>3. OwedIsQueued'
    BY <1>4, <2>1 DEF OwedIsQueued, Queued
  <2> QED
    BY <2>2, <2>3 DEF AuditInv
<1>7. CASE ~draining
  <2>1. auditing = {} /\ TakesNext(q, auditing, asked)
    BY <1>3, <1>7 DEF AuditInv, AuditsOneByOne
  <2> QED
    BY <1>4, <1>5, <2>1, TakesNextKeeps
<1> QED
  BY <1>6, <1>7

LEMMA EndsKeeps ==
  ASSUME AuditInv, NEW s \in Scopes, AuditEnds(s)
  PROVE  AuditInv'
<1>1. auditing \ {s} = {}
  BY DEF AuditEnds, AuditInv, AuditsOneByOne
<1> QED
  BY <1>1, TakesNextKeeps DEF AuditEnds, AuditInv, AuditTypes, OwedIsQueued, Queued

LEMMA AuditStart == AuditInit => AuditInv
<1> SUFFICES ASSUME AuditInit PROVE AuditInv
  OBVIOUS
<1>1. AuditTypes /\ auditQueue = <<>>
  <2>1. auditQueue = <<>> /\ draining = FALSE /\ auditing = {} /\ owed = {} /\ audits = 0
    BY DEF AuditInit
  <2>2. auditQueue \in Seq(Scopes)
    BY <2>1, EmptySeq
  <2> QED
    BY <2>1, <2>2 DEF AuditTypes
<1>2. ScopesOnce(auditQueue)
  BY <1>1 DEF ScopesOnce
<1>3. AuditsOneByOne /\ OwedIsQueued
  BY DEF AuditInit, AuditsOneByOne, OwedIsQueued
<1> QED
  BY <1>1, <1>2, <1>3 DEF AuditInv

LEMMA AuditKeeps == AuditInv /\ [AuditNext]_auditVars => AuditInv'
<1> SUFFICES ASSUME AuditInv, [AuditNext]_auditVars PROVE AuditInv'
  OBVIOUS
<1>1. CASE UNCHANGED auditVars
  BY <1>1 DEF auditVars, AuditInv, AuditTypes, ScopesOnce, AuditsOneByOne, OwedIsQueued, Queued
<1> QED
  BY <1>1, AsksKeeps, EndsKeeps DEF AuditNext

LEMMA InvIsSound == AuditInv => AuditsSound
BY OnceIsBounded DEF AuditInv, AuditTypes, AuditsSound, AuditTypeOK

-----------------------------------------------------------------------------
(* The theorems                                                            *)

\* Who asks for an audit finds its scope in the queue until an audit of it begins,
\* although a scope that is queued already is dropped (enqueueChangeTrackingAudit): what
\* is owed is in the queue, and where anything is queued somebody drains.
THEOREM AuditsAreOwed == AuditSpec => []OwedIsQueued
<1>1. AuditInv => OwedIsQueued
  BY DEF AuditInv
<1> QED
  BY <1>1, AuditStart, AuditKeeps, PTL DEF AuditSpec

\* The queue of the audits is well-formed, a queued audit has a drainer, and no two audits
\* run at the same time, whoever asks and whenever (drainChangeTrackingAuditQueue).
THEOREM AuditsAreSound == ChainAuditSpec => []AuditsSound
<1>1. ChainAuditInit => AuditInv
  BY AuditStart DEF ChainAuditInit
<1>2. AuditInv /\ [ChainAuditNext]_all => AuditInv'
  <2>1. [ChainAuditNext]_all => [AuditNext]_auditVars
    BY DEF ChainAuditNext, CallSteps, OverlapSteps, AuditSteps, all
  <2> QED
    BY <2>1, AuditKeeps
<1> QED
  BY <1>1, <1>2, InvIsSound, PTL DEF ChainAuditSpec

-----------------------------------------------------------------------------
(* Calls that do not overlap                                               *)

Nsm == "archive:updateNsmHtmlAndDetail"

\* What the chain c says of a notice, field by field.
Story(c) == [f \in Fields |-> FieldAfter(c, f, None)]
Says(n) == Story(chain[n])

\* The events before i tell what the hash of event i was taken of.
Retold(c, i) ==
  LET e == c[i]
      before == IF i = 1 THEN None ELSE Replay(c, i - 1)
      after == Replay(c, i)
  IN /\ DOMAIN e.details = DOMAIN Diff(before, after)
     /\ e.hash = [num |-> e.hash.num, type |-> e.type, source |-> e.source, at |-> e.at,
                  before |-> before, after |-> after]
     /\ \/ e.type = EventType(before, after, None)
        \/ e.source = Nsm /\ after["lifecycle"] = "source_deleted"

\* A row that was loaded holds nothing but null where the chain is silent.
Loaded(n, b) ==
  /\ b # None /\ IsSnapshot(b) /\ b["num"] = n
  /\ chain[n] # <<>>
  /\ \A f \in Fields : LastTouch(chain[n], f) = 0 => b[f] = None

\* What an event may say of a notice: it is deleted only when done, and stays done.
Lifelike(s) ==
  /\ IsSnapshot(s) /\ s = [f \in Fields |-> s[f]]
  /\ s["lifecycle"] \in {"active", "source_deleted"}
  /\ s["lifecycle"] = "source_deleted" => s["isDone"] = "true"

\* Archive and chain of one notice.
Known(n) ==
  /\ row[n] = None => chain[n] = <<>> /\ done[n] = None
  /\ row[n] # None => row[n]["num"] = n /\ row[n]["contentId"] \in ReportedIds[n]
  /\ chain[n] # <<>> =>
       /\ row[n] # None /\ Loaded(n, TrackedRow(n)) /\ done[n] # None /\ Lifelike(Says(n))
       /\ \A i \in DOMAIN chain[n] :
            /\ chain[n][i].hash.num = n /\ Retold(chain[n], i)
            /\ chain[n][i].hash.after["isDone"] = "true" => Says(n)["isDone"] = "true"

Telling(n) == row[n] # None => chain[n] # <<>> /\ done[n] = Says(n)["isDone"]

\* A row without its first event.
Fresh(n, r, d) == row[n] = r /\ chain[n] = <<>> /\ done[n] = d

\* A notice whose mark as done is not in the chain yet.
Unmarked(n, b) == Loaded(n, b) /\ done[n] = "true" /\ Says(n)["isDone"] = "false"

\* The event that an append is about to add.
Genuine(e) ==
  LET n == e.num  b == e.hash.before  a == e.hash.after IN
  /\ n \in Notices /\ row[n] # None
  /\ e.hash = [num |-> n, type |-> e.type, source |-> e.source, at |-> e.at, before |-> b, after |-> a]
  /\ e.details = Diff(b, a) /\ ShouldAppend(e)
  /\ b = (IF chain[n] = <<>> THEN None ELSE Says(n))
  /\ Lifelike(a)
  /\ \/ e.type = EventType(b, a, None)
     \/ b # None /\ e.type = "updated" /\ e.source = Nsm /\ a["lifecycle"] = "source_deleted"
  /\ b = None => Fresh(n, a, "false") /\ a["isDone"] = "false" /\ a["num"] = n
  /\ b # None => (b["isDone"] = "true" => a["isDone"] = "true")

\* What a call has in hand at a label.
Upserting(t, at) ==
  LET n == t.num IN
  at \in {"upsertBase", "upsertSave", "upsertState", "upsertAppend"} =>
    /\ n \in Notices /\ t.inc \in Incoming(n)
    /\ t.before # None => Loaded(n, t.before)
    /\ t.before = None /\ at \in {"upsertBase", "upsertSave"} => row[n] = None
    /\ at # "upsertBase" =>
         /\ Lifelike(t.after) /\ t.after["lifecycle"] = "active" /\ t.after["num"] = n
         /\ t.before = None => t.after["isDone"] = "false" /\ t.after["contentId"] = t.inc.contentId
         /\ t.before # None => t.after["isDone"] = Says(n)["isDone"]
    /\ t.before = None /\ at = "upsertState" => Fresh(n, t.after, None)
    /\ t.before = None /\ at = "upsertAppend" => Fresh(n, t.after, "false")

Detailing(t, at) ==
  /\ at = "nsmBase" => t.num \in Notices /\ Loaded(t.num, t.before)
  /\ at = "nsmAppend" => t.num \in Notices /\ chain[t.num] # <<>> /\ t.base = Says(t.num)

Marking(t, at) ==
  /\ at \in {"doneRows", "doneMark"} => \A n \in t.todo : n \in Notices /\ done[n] = "false"
  /\ at = "doneMark" => \A n \in t.todo : Loaded(n, t.rows[n])
  /\ at = "doneNext" => \A n \in t.todo : n \in Notices /\ Unmarked(n, t.rows[n])

Deleting(t, at) ==
  /\ at = "deleteAppend" => t.num \in Notices /\ Loaded(t.num, t.before)
  /\ at = "deleteState" => t.num \in Notices /\ chain[t.num] # <<>> /\ Says(t.num)["isDone"] = "true"

\* What an append has to do for the call that it returns to.
Serves(t) ==
  LET e == t.cand  b == e.hash.before  a == e.hash.after IN
  \/ t.then = "idle" /\ (b # None => a["isDone"] = b["isDone"])
  \/ t.then = "deleteState" /\ b # None /\ t.num = e.num /\ a["isDone"] = "true"
  \/ /\ t.then = "doneNext" /\ Marking(t, "doneNext")
     /\ b # None /\ done[e.num] = "true" /\ b["isDone"] = "false"
     /\ a["isDone"] = "true" /\ e.num \notin t.todo

InTurn(t, at) ==
  at \in Appending =>
    /\ Genuine(t.cand) /\ Serves(t)
    /\ at = "txCommit" => t.link = HeadLink(t.cand.num)

Phase(t, at) ==
  /\ Upserting(t, at) /\ Detailing(t, at) /\ Marking(t, at) /\ Deleting(t, at) /\ InTurn(t, at)
  /\ at \notin {"genesisFilter", "genesisNext"}

\* The notices of which a call has not recorded yet what it has done, or not done yet what
\* it has recorded.
Owed(t, at) ==
  IF at \in {"upsertState", "upsertAppend"} /\ t.before = None THEN {t.num}
  ELSE IF at = "doneNext" THEN t.todo
  ELSE IF at = "deleteState" THEN {t.num}
  ELSE IF at \in Appending /\ t.then = "doneNext" THEN t.todo \cup {t.cand.num}
  ELSE IF at \in Appending /\ t.cand.hash.before = None THEN {t.cand.num}
  ELSE {}

\* Archive and chain tell the same of every notice that no call owes anything.
Told == \A n \in Notices : Telling(n) \/ \E w \in Writers : n \in Owed(task[w], pc[w])

OneAtATime == \A v, w \in Writers : pc[v] # "idle" /\ pc[w] # "idle" => v = w

Serial ==
  /\ \A n \in Notices : Known(n)
  /\ \A w \in Writers : Phase(task[w], pc[w])
  /\ Told /\ OneAtATime

-----------------------------------------------------------------------------
(* What a chain says                                                       *)

\* Nothing is null but null.
NullIsNothing == DOMAIN None # Fields /\ None \notin DoneValues

LEMMA LastTouchIs ==
  ASSUME NEW c, c \in Seq(Elems(c)), NEW f
  PROVE  /\ LastTouch(c, f) \in {0} \cup {i \in DOMAIN c : f \in DOMAIN c[i].details}
         /\ \A i \in DOMAIN c : f \in DOMAIN c[i].details => LastTouch(c, f) >= i
         /\ LastTouch(c, f) \in Nat
<1> DEFINE S == {0} \cup {i \in DOMAIN c : f \in DOMAIN c[i].details}
<1>1. Len(c) \in Nat /\ DOMAIN c = 1 .. Len(c)
  BY LenProperties
<1>2. S \in SUBSET Nat /\ S # {} /\ S \subseteq 0 .. Len(c)
  BY <1>1
<1>3. IsFiniteSet(S)
  <2>1. IsFiniteSet(0 .. Len(c))
    BY <1>1, FS_Interval
  <2> QED
    BY <1>2, <2>1, FS_Subset
<1>4. Max(S) \in S /\ \A y \in S : Max(S) >= y
  BY <1>2, <1>3, MaxOfFinite
<1> QED
  BY <1>2, <1>4 DEF LastTouch

\* An event tells what it records, and leaves the rest as it was told before.
LEMMA StoryGoesOn ==
  ASSUME NEW c, c \in Seq(Elems(c)), NEW x, NEW f
  PROVE  /\ f \in DOMAIN x.details =>
              /\ LastTouch(Append(c, x), f) = Len(c) + 1
              /\ FieldAfter(Append(c, x), f, None) = x.details[f].after
         /\ f \notin DOMAIN x.details =>
              LastTouch(Append(c, x), f) = LastTouch(c, f)
              /\ FieldAfter(Append(c, x), f, None) = FieldAfter(c, f, None)
<1> DEFINE d == Append(c, x)
<1>1. /\ Len(c) \in Nat /\ DOMAIN c = 1 .. Len(c)
      /\ d \in Seq(Elems(d)) /\ DOMAIN d = 1 .. Len(c) + 1
      /\ \A i \in 1 .. Len(c) : d[i] = c[i]
      /\ d[Len(c) + 1] = x
  BY AppendEvent
<1> HIDE DEF d
<1>2. /\ LastTouch(d, f) \in {0} \cup {i \in DOMAIN d : f \in DOMAIN d[i].details}
      /\ \A i \in DOMAIN d : f \in DOMAIN d[i].details => LastTouch(d, f) >= i
      /\ LastTouch(d, f) \in Nat
  BY <1>1, LastTouchIs
<1>3. /\ LastTouch(c, f) \in {0} \cup {i \in DOMAIN c : f \in DOMAIN c[i].details}
      /\ \A i \in DOMAIN c : f \in DOMAIN c[i].details => LastTouch(c, f) >= i
      /\ LastTouch(c, f) \in Nat
  BY LastTouchIs
<1>4. CASE f \in DOMAIN x.details
  <2>1. LastTouch(d, f) = Len(c) + 1
    BY <1>1, <1>2, <1>4
  <2> QED
    BY <1>1, <1>4, <2>1 DEF FieldAfter, d
<1>5. CASE f \notin DOMAIN x.details
  <2>1. LastTouch(d, f) # Len(c) + 1
    BY <1>1, <1>2, <1>5
  <2>2. LastTouch(d, f) = LastTouch(c, f)
    <3>1. CASE LastTouch(d, f) = 0
      <4>1. \A i \in DOMAIN c : f \notin DOMAIN c[i].details
        BY <1>1, <1>2, <3>1
      <4> QED
        BY <1>3, <3>1, <4>1
    <3>2. CASE LastTouch(d, f) # 0
      <4>1. LastTouch(d, f) \in 1 .. Len(c) /\ f \in DOMAIN c[LastTouch(d, f)].details
        BY <1>1, <1>2, <2>1, <3>2
      <4>2. LastTouch(c, f) >= LastTouch(d, f)
        BY <1>1, <1>3, <4>1
      <4>3. LastTouch(c, f) \in 1 .. Len(c) /\ f \in DOMAIN d[LastTouch(c, f)].details
        BY <1>1, <1>3, <4>1, <4>2
      <4> QED
        BY <1>1, <1>2, <4>2, <4>3
    <3> QED
      BY <3>1, <3>2
  <2>3. LastTouch(c, f) # 0 => d[LastTouch(c, f)] = c[LastTouch(c, f)]
    BY <1>1, <1>3
  <2> QED
    BY <1>5, <2>2, <2>3 DEF FieldAfter, d
<1> QED
  BY <1>4, <1>5

LEMMA NothingTold ==
  \A f : LastTouch(<<>>, f) = 0 /\ FieldAfter(<<>>, f, None) = None
<1> SUFFICES ASSUME NEW f PROVE LastTouch(<<>>, f) = 0 /\ FieldAfter(<<>>, f, None) = None
  OBVIOUS
<1>1. Max({0}) = 0
  <2>1. IsFiniteSet({0})
    BY FS_Singleton
  <2> QED
    BY <2>1, MaxOfFinite
<1>2. {0} \cup {i \in DOMAIN <<>> : f \in DOMAIN <<>>[i].details} = {0}
  OBVIOUS
<1> QED
  BY <1>1, <1>2 DEF LastTouch, FieldAfter

\* What was retold stays so, whatever is appended.
LEMMA RetoldStays ==
  ASSUME NEW c, c \in Seq(Elems(c)), NEW x, NEW i \in DOMAIN c, Retold(c, i)
  PROVE  Retold(Append(c, x), i)
<1> DEFINE d == Append(c, x)
           S == Elems(c) \cup {x}
<1>1. /\ Len(c) \in Nat /\ DOMAIN c = 1 .. Len(c)
      /\ \A j \in 1 .. Len(c) : d[j] = c[j]
  BY AppendEvent
<1>2. ASSUME NEW j \in 1 .. Len(c) PROVE SubSeq(d, 1, j) = SubSeq(c, 1, j)
  <2>1. c \in Seq(S) /\ <<x>> \in Seq(S) /\ d = c \o <<x>>
    <3>1. c \in Seq(S)
      BY SeqMonotonic
    <3> QED
      BY <3>1, AppendIsConcat
  <2>2. 1 \in 1 .. Len(c)
    BY <1>1
  <2> HIDE DEF d, S
  <2> QED
    BY <2>1, <2>2, SubSeqOfConcat1
<1>3. i \in 1 .. Len(c) /\ d[i] = c[i]
  BY <1>1
<1>4. Replay(d, i) = Replay(c, i)
  BY <1>2, <1>3 DEF Replay
<1> HIDE DEF d
<1>5. i # 1 => Replay(d, i - 1) = Replay(c, i - 1)
  <2>1. i # 1 => i - 1 \in 1 .. Len(c)
    BY <1>1, <1>3
  <2>2. i # 1 => SubSeq(d, 1, i - 1) = SubSeq(c, 1, i - 1)
    BY <1>2, <2>1
  <2> QED
    BY <2>2 DEF Replay
<1>6. Retold(d, i)
  BY <1>3, <1>4, <1>5 DEF Retold
<1> QED
  BY <1>6 DEF d

\* An event that was built on what the chain says turns it into what the event says.
LEMMA StoryBecomes ==
  ASSUME NEW c, c \in Seq(Elems(c)), NEW x, NEW b, NEW a,
         b = (IF c = <<>> THEN None ELSE Story(c)),
         a = [f \in Fields |-> a[f]], x.details = Diff(b, a), NullIsNothing
  PROVE  /\ Story(Append(c, x)) = a
         /\ \A f \in Fields : LastTouch(Append(c, x), f) = 0 => a[f] = None
<1> DEFINE d == Append(c, x)
<1>1. ASSUME NEW f \in Fields PROVE ValueBefore(b, f) = FieldAfter(c, f, None)
  <2>1. CASE c = <<>>
    BY <2>1, NothingTold DEF ValueBefore
  <2>2. CASE c # <<>>
    <3>1. b = Story(c) /\ DOMAIN b = Fields
      BY <2>2 DEF Story
    <3>2. b # None
      BY <3>1 DEF NullIsNothing
    <3> QED
      BY <3>1, <3>2 DEF ValueBefore, Story
  <2> QED
    BY <2>1, <2>2
<1>2. ASSUME NEW f \in Fields PROVE FieldAfter(d, f, None) = a[f]
  <2>1. CASE f \in DOMAIN x.details
    <3>1. x.details[f].after = a[f]
      BY <2>1 DEF Diff
    <3> QED
      BY <2>1, <3>1, StoryGoesOn
  <2>2. CASE f \notin DOMAIN x.details
    <3>1. ValueBefore(b, f) = a[f]
      BY <2>2 DEF Diff
    <3> QED
      BY <1>1, <2>2, <3>1, StoryGoesOn
  <2> QED
    BY <2>1, <2>2
<1>3. ASSUME NEW f \in Fields, LastTouch(d, f) = 0 PROVE a[f] = None
  BY <1>2, <1>3 DEF FieldAfter
<1> HIDE DEF d
<1>4. Story(d) = a
  BY <1>2 DEF Story
<1> QED
  BY <1>3, <1>4 DEF d

\* Such an event is retold from the chain it ends.
LEMMA NewIsRetold ==
  ASSUME NEW c, c \in Seq(Elems(c)), NEW x, NEW b, NEW a, NullIsNothing,
         b = (IF c = <<>> THEN None ELSE Story(c)),
         a = [f \in Fields |-> a[f]], x.details = Diff(b, a),
         x.hash = [num |-> x.hash.num, type |-> x.type, source |-> x.source, at |-> x.at,
                   before |-> b, after |-> a],
         \/ x.type = EventType(b, a, None)
         \/ x.source = Nsm /\ a["lifecycle"] = "source_deleted"
  PROVE  Retold(Append(c, x), Len(c) + 1)
<1> DEFINE d == Append(c, x)
<1>1. /\ Len(c) \in Nat /\ d \in Seq(Elems(d)) /\ Len(d) = Len(c) + 1
      /\ d[Len(c) + 1] = x /\ SubSeq(d, 1, Len(c)) = c
  BY AppendEvent
<1>2. Story(d) = a
  BY StoryBecomes
<1> HIDE DEF d
<1>3. Replay(d, Len(c) + 1) = a
  <2>1. SubSeq(d, 1, Len(c) + 1) = d
    BY <1>1, SubSeqFull
  <2> QED
    BY <1>2, <2>1 DEF Replay, Story
<1>4. b = (IF Len(c) + 1 = 1 THEN None ELSE Replay(d, Len(c) + 1 - 1))
  <2>1. CASE c = <<>>
    BY <2>1
  <2>2. CASE c # <<>>
    <3>1. Len(c) # 0 /\ Len(c) + 1 - 1 = Len(c)
      BY <1>1, <2>2, EmptySeq
    <3>2. Replay(d, Len(c)) = Story(c)
      BY <1>1 DEF Replay, Story
    <3> QED
      BY <1>1, <2>2, <3>1, <3>2
  <2> QED
    BY <2>1, <2>2
<1>5. Retold(d, Len(c) + 1)
  BY <1>1, <1>3, <1>4 DEF Retold
<1> QED
  BY <1>5 DEF d

-----------------------------------------------------------------------------
(* Archive and chain                                                       *)

Writable == Chains /\ Tables /\ ChainsSound /\ ChainLinked

LEMMA SnapshotIsNotNull ==
  ASSUME NullIsNothing, NEW s, DOMAIN s = Fields
  PROVE  s # None
BY DEF NullIsNothing

\* What a baseline read returns of a notice that is known.
LEMMA BaselineSays ==
  ASSUME NEW n \in Notices, NEW b, Loaded(n, b)
  PROVE  Baseline(n, b) = Says(n)
<1>1. \A f \in Fields : FieldAfter(chain[n], f, b[f]) = FieldAfter(chain[n], f, None)
  BY DEF Loaded, FieldAfter
<1> QED
  BY <1>1 DEF Loaded, Baseline, Says, Story

\* isDone is told of every notice whose row was loaded.
LEMMA DoneIsTold ==
  ASSUME NullIsNothing, NEW n, NEW b, Loaded(n, b), NEW c, DOMAIN c = Fields, c["num"] = n,
         c["isDone"] \in DoneValues, \A f \in Fields \ {"isDone"} : c[f] = b[f]
  PROVE  Loaded(n, c)
<1>1. "isDone" \in Fields /\ b["isDone"] # None
  BY DEF Loaded, IsSnapshot, NullIsNothing, Fields
<1>2. LastTouch(chain[n], "isDone") # 0
  BY <1>1 DEF Loaded
<1>3. \A f \in Fields : LastTouch(chain[n], f) = 0 => c[f] = None
  BY <1>2 DEF Loaded
<1>4. c # None
  BY SnapshotIsNotNull
<1> QED
  BY <1>3, <1>4 DEF Loaded, IsSnapshot

LEMMA TrackedRowIs ==
  ASSUME Tables, NullIsNothing, NEW n \in Notices
  PROVE  /\ TrackedRow(n) = None <=> row[n] = None
         /\ row[n] # None =>
              /\ DOMAIN TrackedRow(n) = Fields /\ TrackedRow(n)["num"] = row[n]["num"]
              /\ TrackedRow(n)["isDone"] = (IF done[n] = None THEN "false" ELSE done[n])
              /\ TrackedRow(n)["isDone"] \in DoneValues
              /\ \A f \in Fields \ {"isDone"} : TrackedRow(n)[f] = row[n][f]
<1>1. row[n] # None => DOMAIN row[n] = Fields /\ "isDone" \in Fields /\ "num" \in Fields
  BY DEF Tables, RowsTyped, MaybeRow, IsRow, IsSnapshot, Fields
<1>2. CASE row[n] # None
  <2>1. TrackedRow(n) = [row[n] EXCEPT !["isDone"] = Coalesce(done[n], "false")]
    BY <1>2 DEF TrackedRow
  <2>2. DOMAIN TrackedRow(n) = Fields /\ TrackedRow(n) # None
    BY <1>1, <1>2, <2>1, SnapshotIsNotNull
  <2>3. Coalesce(done[n], "false") = (IF done[n] = None THEN "false" ELSE done[n])
    BY DEF Coalesce
  <2>4. done[n] # None => done[n] \in DoneValues
    BY DEF Tables, DoneTyped, DoneValues
  <2>5. /\ TrackedRow(n)["num"] = row[n]["num"]
        /\ TrackedRow(n)["isDone"] = Coalesce(done[n], "false")
        /\ \A f \in Fields \ {"isDone"} : TrackedRow(n)[f] = row[n][f]
    BY <1>1, <1>2, <2>1
  <2> QED
    BY <1>2, <2>2, <2>3, <2>4, <2>5 DEF DoneValues
<1>3. CASE row[n] = None
  BY <1>3 DEF TrackedRow
<1> QED
  BY <1>2, <1>3

\* A notice whose row, chain and mark are left alone.
LEMMA KnownStays ==
  ASSUME NEW n \in Notices, row'[n] = row[n], chain'[n] = chain[n], done'[n] = done[n]
  PROVE  /\ Known(n) => Known(n)'
         /\ Telling(n) => Telling(n)'
         /\ Says(n)' = Says(n)
         /\ \A b : Loaded(n, b)' <=> Loaded(n, b)
         /\ TrackedRow(n)' = TrackedRow(n)
<1>1. /\ Says(n)' = Says(n) /\ TrackedRow(n)' = TrackedRow(n)
      /\ \A b : Loaded(n, b)' <=> Loaded(n, b)
  BY DEF Says, TrackedRow, Loaded
<1> QED
  BY <1>1 DEF Known, Telling

\* A notice that is marked.
LEMMA KnownWhenMarked ==
  ASSUME NullIsNothing, Tables, Tables', NEW n \in Notices, Known(n), row[n] # None,
         row'[n] = row[n], chain'[n] = chain[n], done'[n] \in DoneValues
  PROVE  /\ Known(n)' /\ Says(n)' = Says(n)
         /\ \A b : Loaded(n, b)' <=> Loaded(n, b)
<1>1. /\ Says(n)' = Says(n)
      /\ \A b : Loaded(n, b)' <=> Loaded(n, b)
  BY DEF Says, Loaded
<1>2. done'[n] # None
  BY DEF NullIsNothing
<1>3. chain[n] # <<>> => Loaded(n, TrackedRow(n)')
  <2>1. PICK b, c : b = TrackedRow(n) /\ c = TrackedRow(n)'
    OBVIOUS
  <2>2. /\ DOMAIN c = Fields /\ c["num"] = row[n]["num"] /\ c["isDone"] \in DoneValues
        /\ \A f \in Fields \ {"isDone"} : c[f] = row[n][f]
    <3>1. TrackedRow(n)' = [row[n] EXCEPT !["isDone"] = Coalesce(done'[n], "false")]
      BY DEF TrackedRow
    <3>2. Coalesce(done'[n], "false") = done'[n]
      BY <1>2 DEF Coalesce
    <3>3. DOMAIN row[n] = Fields /\ "isDone" \in Fields /\ "num" \in Fields
      BY DEF Tables, RowsTyped, MaybeRow, IsRow, IsSnapshot, Fields
    <3> QED
      BY <2>1, <3>1, <3>2, <3>3
  <2>3. \A f \in Fields \ {"isDone"} : b[f] = row[n][f]
    BY <2>1, TrackedRowIs
  <2>4. chain[n] # <<>> => Loaded(n, b) /\ row[n]["num"] = n
    BY <2>1 DEF Known
  <2> QED
    BY <2>1, <2>2, <2>3, <2>4, DoneIsTold
<1>4. chain[n] # <<>> => Loaded(n, TrackedRow(n))'
  BY <1>1, <1>3 DEF Loaded
<1> QED
  BY <1>1, <1>2, <1>4 DEF Known

\* What a commit does to its notice and to the others.
LEMMA CommitTells ==
  ASSUME NullIsNothing, Writable, NEW e, Genuine(e), NEW link,
         \A n \in Notices : Known(n),
         chain' = [chain EXCEPT ![e.num] = Append(@, Entity(e, link))], UNCHANGED <<row, done>>
  PROVE  /\ \A n \in Notices : Known(n)'
         /\ Says(e.num)' = e.hash.after /\ chain'[e.num] # <<>>
         /\ \A n \in Notices \ {e.num} : chain'[n] = chain[n] /\ Says(n)' = Says(n)
         /\ \A n \in Notices : \A b : Loaded(n, b) => Loaded(n, b)'
<1> DEFINE n == e.num  x == Entity(e, link)  b == e.hash.before  a == e.hash.after  c == chain[e.num]
<1>1. /\ n \in Notices /\ row[n] # None /\ c \in Seq(Elems(c)) /\ DOMAIN chain = Notices
      /\ b = (IF c = <<>> THEN None ELSE Story(c)) /\ Lifelike(a) /\ a = [f \in Fields |-> a[f]]
  BY DEF Genuine, Writable, Chains, Says, Lifelike
<1>2. /\ x.details = Diff(b, a) /\ x.type = e.type /\ x.source = e.source /\ x.at = e.at /\ x.hash = e.hash
  BY DEF Genuine, Entity
<1>3. chain'[n] = Append(c, x) /\ \A m \in Notices \ {n} : chain'[m] = chain[m]
  BY <1>1
<1>4. /\ Len(c) \in Nat /\ DOMAIN c = 1 .. Len(c) /\ DOMAIN Append(c, x) = 1 .. Len(c) + 1
      /\ \A i \in 1 .. Len(c) : Append(c, x)[i] = c[i]
      /\ Append(c, x)[Len(c) + 1] = x /\ Append(c, x) # <<>>
  <2>1. /\ Len(c) \in Nat /\ DOMAIN c = 1 .. Len(c) /\ DOMAIN Append(c, x) = 1 .. Len(c) + 1
        /\ \A i \in 1 .. Len(c) : Append(c, x)[i] = c[i]
        /\ Append(c, x)[Len(c) + 1] = x
    BY <1>1, AppendEvent
  <2>2. Append(c, x) # <<>>
    BY <2>1
  <2> QED
    BY <2>1, <2>2
<1>5. /\ Story(Append(c, x)) = a
      /\ \A f \in Fields : LastTouch(Append(c, x), f) = 0 => a[f] = None
  BY <1>1, <1>2, StoryBecomes
<1> HIDE DEF x
<1>6. Retold(Append(c, x), Len(c) + 1)
  <2>1. x.hash = [num |-> x.hash.num, type |-> x.type, source |-> x.source, at |-> x.at,
                  before |-> b, after |-> a]
    BY <1>2 DEF Genuine
  <2>2. x.type = EventType(b, a, None) \/ (x.source = Nsm /\ a["lifecycle"] = "source_deleted")
    BY <1>2 DEF Genuine
  <2> QED
    BY <1>1, <1>2, <2>1, <2>2, NewIsRetold
<1>7. \A f \in Fields : LastTouch(Append(c, x), f) = 0 => LastTouch(c, f) = 0
  <2> SUFFICES ASSUME NEW f \in Fields, LastTouch(Append(c, x), f) = 0 PROVE LastTouch(c, f) = 0
    OBVIOUS
  <2>1. f \notin DOMAIN x.details
    BY <1>1, <1>4, StoryGoesOn
  <2> QED
    BY <1>1, <2>1, StoryGoesOn
<1>8. ASSUME NEW m \in Notices, NEW l, Loaded(m, l) PROVE Loaded(m, l)'
  <2>1. CASE m = n
    BY <1>3, <1>4, <1>7, <1>8, <2>1 DEF Loaded
  <2>2. CASE m # n
    BY <1>3, <1>8, <2>2 DEF Loaded
  <2> QED
    BY <2>1, <2>2
<1>9. Says(n)' = a
  BY <1>3, <1>5 DEF Says
<1>10. Known(n)'
  <2>1. TrackedRow(n)' = TrackedRow(n)
    BY DEF TrackedRow
  <2>2. PICK r : r = TrackedRow(n)
    OBVIOUS
  <2>3. Loaded(n, r)'
    <3>1. CASE b = None
      <4>1. c = <<>> /\ row[n] = a /\ done[n] = "false" /\ a["num"] = n
        BY <3>1 DEF Genuine, Fresh
      <4>2. /\ DOMAIN r = Fields /\ r["num"] = n /\ r["isDone"] \in DoneValues /\ r # None
            /\ \A f \in Fields \ {"isDone"} : r[f] = a[f]
        BY <1>1, <2>2, <4>1, TrackedRowIs DEF Writable
      <4>3. \A f \in Fields : LastTouch(Append(c, x), f) = 0 => f # "isDone"
        <5>1. a["isDone"] # None /\ "isDone" \in Fields
          BY <1>1 DEF Lifelike, IsSnapshot, NullIsNothing, Fields
        <5> QED
          BY <1>5, <5>1
      <4>4. \A f \in Fields : LastTouch(Append(c, x), f) = 0 => r[f] = None
        BY <1>5, <4>2, <4>3
      <4> QED
        BY <1>3, <1>4, <4>2, <4>4 DEF Loaded, IsSnapshot
    <3>2. CASE b # None
      <4>1. c # <<>>
        BY <1>1, <3>2
      <4>2. Loaded(n, r)
        BY <1>1, <2>2, <4>1 DEF Known
      <4> QED
        BY <1>1, <1>8, <4>2
    <3> QED
      BY <3>1, <3>2
  <2>4. Loaded(n, TrackedRow(n))'
    BY <2>1, <2>2, <2>3 DEF Loaded
  <2>5. done[n] # None
    <3>1. CASE b = None
      BY <3>1 DEF Genuine, Fresh, NullIsNothing, DoneValues
    <3>2. CASE b # None
      BY <1>1, <3>2 DEF Known
    <3> QED
      BY <3>1, <3>2
  <2>6. row[n]["num"] = n /\ row[n]["contentId"] \in ReportedIds[n]
    BY <1>1 DEF Known
  <2>7. x.hash.num = n /\ x.hash.after = a
    BY <1>2 DEF Genuine
  <2>8. ASSUME NEW i \in DOMAIN Append(c, x)
        PROVE  /\ Append(c, x)[i].hash.num = n /\ Retold(Append(c, x), i)
               /\ Append(c, x)[i].hash.after["isDone"] = "true" => a["isDone"] = "true"
    <3>1. CASE i = Len(c) + 1
      BY <1>4, <1>6, <2>7, <3>1
    <3>2. CASE i # Len(c) + 1
      <4>1. i \in DOMAIN c /\ Append(c, x)[i] = c[i]
        BY <1>4, <3>2
      <4>2. c # <<>>
        BY <4>1
      <4>3. /\ c[i].hash.num = n /\ Retold(c, i)
            /\ c[i].hash.after["isDone"] = "true" => Says(n)["isDone"] = "true"
        BY <1>1, <4>1, <4>2 DEF Known
      <4>4. Retold(Append(c, x), i)
        BY <1>1, <4>1, <4>3, RetoldStays
      <4>5. b = Says(n) /\ b # None
        <5>1. DOMAIN Says(n) = Fields
          BY DEF Says, Story
        <5> QED
          BY <1>1, <4>2, <5>1, SnapshotIsNotNull DEF Says
      <4>6. Says(n)["isDone"] = "true" => a["isDone"] = "true"
        BY <4>5 DEF Genuine
      <4> QED
        BY <4>1, <4>3, <4>4, <4>6
    <3> QED
      BY <3>1, <3>2
  <2>9. \A i \in DOMAIN chain'[n] :
          /\ chain'[n][i].hash.num = n /\ Retold(chain'[n], i)
          /\ chain'[n][i].hash.after["isDone"] = "true" => Says(n)'["isDone"] = "true"
    BY <1>3, <1>9, <2>8
  <2>10. Lifelike(Says(n))' <=> Lifelike(a)
    BY <1>9 DEF Lifelike, IsSnapshot
  <2>11. row'[n] = row[n] /\ row[n] # None /\ done'[n] = done[n] /\ chain'[n] # <<>>
    BY <1>1, <1>3, <1>4
  <2> QED
    BY <1>1, <2>4, <2>5, <2>6, <2>9, <2>10, <2>11 DEF Known, Retold
<1>11. \A m \in Notices \ {n} : Known(m)'
  BY <1>3, KnownStays
<1> QED
  BY <1>3, <1>4, <1>8, <1>9, <1>10, <1>11 DEF Says

-----------------------------------------------------------------------------
(* Steps of one call                                                       *)

\* A step that nobody else is in the middle of.
Alone(w) == \A v \in Writers \ {w} : pc[v] = "idle" /\ pc'[v] = "idle"

\* Nothing fails.
Flawless == MaxFaults = 0 /\ MaxCrashes = 0

\* No identity is reported for two notices.
OwnIdentities == \A m, n \in Notices : m # n => ReportedIds[m] \cap ReportedIds[n] \subseteq {None}

LEMMA AtRest ==
  ASSUME NEW t
  PROVE  Phase(t, "idle") /\ Owed(t, "idle") = {}
BY DEF Phase, Upserting, Detailing, Marking, Deleting, InTurn, Owed, Appending

\* The notices that the only call at work owes nothing are told.
LEMMA ToldOfOne ==
  ASSUME Serial, NEW w \in Writers, Alone(w), NEW n \in Notices
  PROVE  Telling(n) \/ n \in Owed(task[w], pc[w])
<1>1. ASSUME NEW v \in Writers, v # w PROVE n \notin Owed(task[v], pc[v])
  BY <1>1, AtRest DEF Alone
<1> QED
  BY <1>1 DEF Serial, Told

LEMMA OneGoesOn ==
  ASSUME Serial, NEW w \in Writers, Alone(w), DOMAIN pc = Writers, NEW t, NEW label, Moves(w, t, label),
         \A n \in Notices : Known(n)', Phase(t, label)',
         \A n \in Notices : Telling(n)' \/ n \in Owed(t, label)
  PROVE  Serial'
<1>1. task'[w] = t /\ pc'[w] = label
  BY DEF Moves
<1>2. \A v \in Writers : v # w => pc'[v] = "idle"
  BY DEF Alone
<1>3. ASSUME NEW v \in Writers PROVE Phase(task[v], pc[v])'
  <2>1. CASE v = w
    <3>1. PICK u, at : u = task'[w] /\ at = pc'[w]
      OBVIOUS
    <3>2. Phase(task[w], pc[w])' <=> Phase(t, label)'
      BY <1>1 DEF Phase, Upserting, Detailing, Marking, Deleting, InTurn, Serves
    <3> QED
      BY <2>1, <3>2
  <2>2. CASE v # w
    BY <1>2, <2>2 DEF Phase, Upserting, Detailing, Marking, Deleting, InTurn, Appending
  <2> QED
    BY <2>1, <2>2
<1>4. Told'
  <2>1. Owed(task[w], pc[w])' = Owed(t, label)
    BY <1>1 DEF Owed
  <2> QED
    BY <2>1 DEF Told
<1>5. OneAtATime'
  BY <1>2 DEF OneAtATime
<1> QED
  BY <1>3, <1>4, <1>5 DEF Serial

\* What a call has in hand is about the tables, and stays so as long as they do.
LEMMA PhaseStays ==
  ASSUME NEW t, NEW at, UNCHANGED db, Phase(t, at)
  PROVE  Phase(t, at)'
<1>1. row' = row /\ chain' = chain /\ done' = done
  BY DEF db
<1>2. Upserting(t, at)'
  BY <1>1 DEF Phase, Upserting, Loaded, Fresh, Says
<1>3. Detailing(t, at)' /\ Deleting(t, at)'
  BY <1>1 DEF Phase, Detailing, Deleting, Loaded, Says
<1>4. \A u, l : Marking(u, l) => Marking(u, l)'
  BY <1>1 DEF Marking, Unmarked, Loaded, Says
<1>5. InTurn(t, at)'
  <2>1. Genuine(t.cand) => Genuine(t.cand)'
    BY <1>1 DEF Genuine, Fresh, Says
  <2>2. Serves(t) => Serves(t)'
    BY <1>1, <1>4 DEF Serves
  <2>3. HeadLink(t.cand.num)' = HeadLink(t.cand.num)
    BY <1>1 DEF HeadLink
  <2> QED
    BY <2>1, <2>2, <2>3 DEF Phase, InTurn
<1> QED
  BY <1>2, <1>3, <1>4, <1>5 DEF Phase

\* A step that leaves the tables alone.
LEMMA OneGoesOnQuietly ==
  ASSUME Serial, NEW w \in Writers, Alone(w), DOMAIN pc = Writers, NEW t, NEW label, Moves(w, t, label),
         UNCHANGED db, Phase(t, label),
         Owed(task[w], pc[w]) \subseteq Owed(t, label) \cup {n \in Notices : Telling(n)}
  PROVE  Serial'
<1>1. row' = row /\ chain' = chain /\ done' = done
  BY DEF db
<1>2. \A n \in Notices : Known(n)' /\ (Telling(n) => Telling(n)')
  BY <1>1, KnownStays DEF Serial
<1>3. Phase(t, label)'
  BY PhaseStays
<1>4. \A n \in Notices : Telling(n)' \/ n \in Owed(t, label)
  BY <1>2, ToldOfOne
<1> QED
  BY <1>2, <1>3, <1>4, OneGoesOn

LEMMA OneEnds ==
  ASSUME Serial, NEW w \in Writers, Alone(w), Tasks, Finish(w), UNCHANGED db,
         \A n \in Owed(task[w], pc[w]) : n \in Notices /\ Telling(n)
  PROVE  Serial'
<1>1. Moves(w, NoTask, "idle") /\ DOMAIN pc = Writers
  BY SetAndGo DEF Finish, Tasks
<1> QED
  BY <1>1, AtRest, OneGoesOnQuietly

\* What holds whenever a writer takes a step of a call on its own.
Turning(w) == AllInv /\ Serial /\ Alone(w) /\ Flawless

LEMMA Turned ==
  ASSUME NEW w \in Writers, Turning(w)
  PROVE  /\ Tasks /\ Tables /\ Writable /\ DOMAIN pc = Writers /\ IsTask(task[w])
         /\ Phase(task[w], pc[w])
         /\ \A n \in Notices : Known(n) /\ (Telling(n) \/ n \in Owed(task[w], pc[w]))
         /\ \A n \in Notices : \A b, base : BaselineRead(n, b, base) => base = Baseline(n, b)
<1>1. /\ Tasks /\ Tables /\ Writable /\ DOMAIN pc = Writers /\ IsTask(task[w]) /\ faults \in Nat
  BY DEF Turning, AllInv, IInv, DataInv, Tasks, Tables, Writable
<1>2. \A n \in Notices : \A b, base : BaselineRead(n, b, base) => base = Baseline(n, b)
  BY <1>1 DEF BaselineRead, Turning, Flawless
<1> QED
  BY <1>1, <1>2, ToldOfOne DEF Turning, Serial

\* When nobody is at work, every row has its first event.
LEMMA LoadedAtStart ==
  ASSUME NEW w \in Writers, Turning(w), pc[w] = "idle", NEW n \in Notices, row[n] # None
  PROVE  Telling(n) /\ chain[n] # <<>> /\ Loaded(n, TrackedRow(n))
<1>1. Telling(n)
  BY Turned, AtRest
<1> QED
  BY <1>1, Turned DEF Telling, Known

LEMMA SaysIsNotNull ==
  ASSUME NullIsNothing, NEW n
  PROVE  DOMAIN Says(n) = Fields /\ Says(n) # None
<1>1. DOMAIN Says(n) = Fields
  BY DEF Says, Story
<1> QED
  BY <1>1, SnapshotIsNotNull

\* The event built on what the chain says.
LEMMA BuiltIsGenuine ==
  ASSUME NEW n \in Notices, row[n] # None, NEW source, NEW preferred, NEW at, NEW b, NEW a, NEW e,
         e = BuildEvent(n, source, preferred, b, a, at), ShouldAppend(e),
         b = (IF chain[n] = <<>> THEN None ELSE Says(n)), Lifelike(a),
         \/ preferred \in {None, EventType(b, a, None)}
         \/ b # None /\ preferred = "updated" /\ source = Nsm /\ a["lifecycle"] = "source_deleted",
         b = None => Fresh(n, a, "false") /\ a["isDone"] = "false" /\ a["num"] = n,
         b # None => (b["isDone"] = "true" => a["isDone"] = "true")
  PROVE  Genuine(e)
<1>1. /\ e.num = n /\ e.hash.before = b /\ e.hash.after = a /\ e.source = source
      /\ e.type = EventType(b, a, preferred) /\ e.details = Diff(b, a)
      /\ e.hash = [num |-> n, type |-> e.type, source |-> e.source, at |-> e.at, before |-> b, after |-> a]
  BY DEF BuildEvent
<1>2. \/ e.type = EventType(b, a, None)
      \/ b # None /\ e.type = "updated" /\ e.source = Nsm /\ a["lifecycle"] = "source_deleted"
  BY <1>1 DEF EventType
<1> QED
  BY <1>1, <1>2 DEF Genuine

\* The task with which an append begins that is to add e.
Called(t, e, then) == [t EXCEPT !.cand = e, !.then = then, !.attempt = 1]

LEMMA CalledIs ==
  ASSUME NEW t, IsTask(t), NEW e, NEW then, NEW u, u = Called(t, e, then)
  PROVE  u.cand = e /\ u.then = then /\ u.num = t.num /\ u.todo = t.todo /\ u.rows = t.rows
BY DEF Called, IsTask, NoTask

LEMMA AppendBegins ==
  ASSUME NEW w \in Writers, Turning(w), NEW t, IsTask(t), NEW n, NEW source, NEW preferred,
         NEW b, NEW a, NEW at, NEW then,
         AppendIfChanged(w, t, n, source, preferred, b, a, at, then), UNCHANGED db,
         NEW e, e = BuildEvent(n, source, preferred, b, a, at), ShouldAppend(e), Genuine(e),
         NEW u, u = Called(t, e, then), Serves(u),
         Owed(task[w], pc[w]) \subseteq Owed(u, "dedupe") \cup {m \in Notices : Telling(m)}
  PROVE  Serial'
<1>1. u.cand = e
  BY CalledIs
<1>2. Goto(w, "dedupe") /\ SetTask(w, u)
  BY DEF AppendIfChanged, CallAppend, Called
<1>3. Moves(w, u, "dedupe")
  BY <1>2, Turned, SetAndGo
<1>4. Phase(u, "dedupe")
  BY <1>1 DEF Phase, Upserting, Detailing, Marking, Deleting, InTurn
<1> QED
  BY <1>3, <1>4, Turned, OneGoesOnQuietly DEF Turning

-----------------------------------------------------------------------------
(* Upserts                                                                 *)

LEMMA UpsertStarts ==
  ASSUME NEW w \in Writers, Turning(w), NullIsNothing, OwnIdentities, UpsertStart(w)
  PROVE  Serial'
<1>1. PICK n \in Notices : \E inc \in Incoming(n) :
        SetTask(w, [NoTask EXCEPT !.num = n, !.inc = inc, !.before =
          IF TrackedRow(n) # None \/ StableMatches(n, inc.contentId) = {} THEN TrackedRow(n)
          ELSE TrackedRow(Max(StableMatches(n, inc.contentId)))])
  BY DEF UpsertStart
<1>0. PICK inc \in Incoming(n) :
        SetTask(w, [NoTask EXCEPT !.num = n, !.inc = inc, !.before =
          IF TrackedRow(n) # None \/ StableMatches(n, inc.contentId) = {} THEN TrackedRow(n)
          ELSE TrackedRow(Max(StableMatches(n, inc.contentId)))])
  BY <1>1
<1>2. StableMatches(n, inc.contentId) = {}
  <2> SUFFICES ASSUME NEW m \in StableMatches(n, inc.contentId) PROVE FALSE
    OBVIOUS
  <2>1. /\ m \in Notices /\ m # n /\ inc.contentId # None /\ row[m] # None
        /\ row[m]["contentId"] = inc.contentId
    BY DEF StableMatches
  <2>2. inc.contentId \in ReportedIds[n]
    BY DEF Incoming
  <2>3. row[m]["contentId"] \in ReportedIds[m]
    BY <2>1, Turned DEF Known
  <2> QED
    BY <2>1, <2>2, <2>3 DEF OwnIdentities
<1>3. PICK t : t = [NoTask EXCEPT !.num = n, !.inc = inc, !.before = TrackedRow(n)]
  OBVIOUS
<1>4. Moves(w, t, "upsertBase") /\ pc[w] = "idle" /\ UNCHANGED db
  BY <1>0, <1>2, <1>3, Turned, SetAndGo DEF UpsertStart
<1>5. t.num = n /\ t.inc = inc /\ t.before = TrackedRow(n)
  BY <1>3 DEF NoTask
<1>6. t.before # None => Loaded(n, t.before)
  BY <1>4, <1>5, Turned, LoadedAtStart, TrackedRowIs
<1>7. t.before = None => row[n] = None
  BY <1>5, Turned, TrackedRowIs
<1>8. Phase(t, "upsertBase")
  BY <1>5, <1>6, <1>7 DEF Phase, Upserting, Detailing, Marking, Deleting, InTurn, Appending
<1> QED
  BY <1>4, <1>8, AtRest, Turned, OneGoesOnQuietly DEF Turning

LEMMA UpsertResolves ==
  ASSUME NEW w \in Writers, Turning(w), NullIsNothing, UpsertResolve(w)
  PROVE  Serial'
<1> DEFINE t == task[w]  n == task[w].num  before == task[w].before
<1>1. pc[w] = "upsertBase" /\ UNCHANGED db
  BY DEF UpsertResolve
<1>2. /\ n \in Notices /\ t.inc \in Incoming(n)
      /\ before # None => Loaded(n, before)
      /\ before = None => row[n] = None
  BY <1>1, Turned DEF Phase, Upserting
<1>3. ~ IsRenumbering(t)
  BY <1>2 DEF IsRenumbering, Loaded
<1>4. PICK base, a, u :
        /\ BaselineRead(n, before, base) /\ a = ResolvedUpsert(n, t.inc, before, base)
        /\ u = [t EXCEPT !.after = a]
        /\ Goto(w, "upsertSave") /\ SetTask(w, u)
  BY <1>3 DEF UpsertResolve
<1>5. base = Baseline(n, before)
  BY <1>2, <1>4, Turned
<1>6. before # None => base = Says(n) /\ chain[n] # <<>> /\ Lifelike(Says(n))
  BY <1>2, <1>5, BaselineSays, Turned DEF Loaded, Known
<1>7. IsTask(u) /\ u.after = a /\ u.num = n /\ u.before = before /\ u.inc = t.inc
  <2>1. u.inc = t.inc
    BY <1>4, Turned DEF IsTask, NoTask
  <2> QED
    <3>1. PICK v : v = t
      OBVIOUS
    <3>2. IsTask(v) /\ u = [v EXCEPT !.after = a]
      BY <1>4, <3>1, Turned
    <3>3. IsTask(u) /\ u.after = a /\ u.num = v.num /\ u.before = v.before
      BY <3>2 DEF IsTask, NoTask
    <3> QED
      BY <2>1, <3>1, <3>3
<1>8. /\ Lifelike(a) /\ a["lifecycle"] = "active" /\ a["num"] = n
      /\ before = None => a["isDone"] = "false" /\ a["contentId"] = t.inc.contentId
      /\ before # None => a["isDone"] = Says(n)["isDone"]
  <2>1. DOMAIN a = Fields /\ a = [f \in Fields |-> a[f]]
    BY <1>4 DEF ResolvedUpsert, Fields
  <2>2. /\ a["lifecycle"] = "active" /\ a["num"] = n
        /\ a["isDone"] = IF before # None THEN base["isDone"] ELSE "false"
        /\ before = None => a["contentId"] = t.inc.contentId
    BY <1>4 DEF ResolvedUpsert
  <2>3. a["isDone"] \in DoneValues
    BY <1>6, <2>2 DEF Lifelike, IsSnapshot, DoneValues
  <2> QED
    BY <1>6, <2>1, <2>2, <2>3 DEF Lifelike, IsSnapshot
<1>9. Moves(w, u, "upsertSave")
  BY <1>4, Turned, SetAndGo
<1>10. Phase(u, "upsertSave")
  BY <1>2, <1>7, <1>8 DEF Phase, Upserting, Detailing, Marking, Deleting, InTurn, Appending
<1>11. Owed(task[w], pc[w]) = {}
  BY <1>1 DEF Owed, Appending
<1> QED
  BY <1>1, <1>9, <1>10, <1>11, Turned, OneGoesOnQuietly DEF Turning

LEMMA UpsertSaves ==
  ASSUME NEW w \in Writers, Turning(w), NullIsNothing, UpsertSave(w)
  PROVE  Serial'
<1>0. PICK t, n : t = task[w] /\ n = t.num
  OBVIOUS
<1>1. pc[w] = "upsertSave" /\ chain' = chain /\ done' = done
  BY DEF UpsertSave
<1>2. Owed(task[w], pc[w]) = {}
  BY <1>1 DEF Owed, Appending
<1>3. /\ n \in Notices /\ t.inc \in Incoming(n)
      /\ t.before # None => Loaded(n, t.before)
      /\ t.before = None => row[n] = None
      /\ Lifelike(t.after) /\ t.after["lifecycle"] = "active" /\ t.after["num"] = n
      /\ t.before = None => t.after["isDone"] = "false" /\ t.after["contentId"] = t.inc.contentId
      /\ t.before # None => t.after["isDone"] = Says(n)["isDone"]
  BY <1>0, <1>1, Turned DEF Phase, Upserting
<1>4. Goto(w, "upsertState") /\ task' = task
  BY <1>0, <1>3 DEF UpsertSave
<1>5. Moves(w, t, "upsertState")
  BY <1>0, <1>4, Turned, GoOn
<1>6. CASE t.before # None
  <2>1. UNCHANGED db
    BY <1>0, <1>1, <1>6 DEF UpsertSave, db
  <2>2. Phase(t, "upsertState")
    BY <1>0, <1>3, <1>6 DEF Phase, Upserting, Detailing, Marking, Deleting, InTurn, Appending
  <2> QED
    BY <1>2, <1>5, <2>1, <2>2, Turned, OneGoesOnQuietly DEF Turning
<1>7. CASE t.before = None
  <2>1. PICK a, inc, u : a = t.after /\ inc = t.inc /\ u = t
    OBVIOUS
  <2>2. row' = [row EXCEPT ![n] = a] /\ row[n] = None
    BY <1>0, <1>1, <1>3, <1>7, <2>1 DEF UpsertSave
  <2>3. DOMAIN row = Notices
    BY Turned DEF Tables, RowsTyped
  <2>4. row'[n] = a /\ \A m \in Notices \ {n} : row'[m] = row[m]
    BY <1>3, <2>2, <2>3
  <2>5. chain[n] = <<>> /\ done[n] = None
    BY <1>3, <2>2, Turned DEF Known
  <2>6. a # None /\ a["num"] = n /\ a["contentId"] \in ReportedIds[n]
    BY <1>3, <1>7, <2>1, SnapshotIsNotNull DEF Lifelike, IsSnapshot, Incoming
  <2>7. Known(n)'
    BY <1>1, <2>4, <2>5, <2>6 DEF Known
  <2>8. \A m \in Notices : Known(m)' /\ (Telling(m)' \/ m = n)
    <3>1. ASSUME NEW m \in Notices, m # n PROVE Known(m)' /\ Telling(m)'
      BY <1>1, <1>2, <2>4, <3>1, KnownStays, Turned
    <3> QED
      BY <2>7, <3>1
  <2>9. PICK k : k = n
    OBVIOUS
  <2>10. u.num = k /\ u.before = None /\ u.after = a /\ u.inc = inc
    BY <1>0, <1>7, <2>1, <2>9
  <2>11. Fresh(k, a, None)'
    BY <1>1, <2>4, <2>5, <2>9 DEF Fresh
  <2>12. /\ k \in Notices /\ inc \in Incoming(k)
         /\ Lifelike(a) /\ a["lifecycle"] = "active" /\ a["num"] = k
         /\ a["isDone"] = "false" /\ a["contentId"] = inc.contentId
    BY <1>3, <1>7, <2>1, <2>9
  <2>13. Phase(u, "upsertState")'
    BY <2>10, <2>11, <2>12 DEF Phase, Upserting, Detailing, Marking, Deleting, InTurn, Appending
  <2>14. Owed(u, "upsertState") = {n}
    BY <2>9, <2>10 DEF Owed
  <2> QED
    BY <1>5, <2>1, <2>8, <2>13, <2>14, Turned, OneGoesOn DEF Turning
<1> QED
  BY <1>6, <1>7

LEMMA UpsertStates ==
  ASSUME NEW w \in Writers, Turning(w), NullIsNothing, UpsertState(w)
  PROVE  Serial'
<1>0. PICK t, n : t = task[w] /\ n = t.num
  OBVIOUS
<1>1. pc[w] = "upsertState" /\ chain' = chain /\ row' = row /\ Goto(w, "upsertAppend") /\ task' = task
  BY DEF UpsertState
<1>2. Moves(w, t, "upsertAppend")
  BY <1>0, <1>1, Turned, GoOn
<1>3. /\ n \in Notices /\ t.inc \in Incoming(n)
      /\ t.before # None => Loaded(n, t.before)
      /\ Lifelike(t.after) /\ t.after["lifecycle"] = "active" /\ t.after["num"] = n
      /\ t.before = None => t.after["isDone"] = "false" /\ t.after["contentId"] = t.inc.contentId
      /\ t.before # None => t.after["isDone"] = Says(n)["isDone"]
      /\ t.before = None => Fresh(n, t.after, None)
  BY <1>0, <1>1, Turned DEF Phase, Upserting
<1>4. ~ IsRenumbering(t)
  BY <1>0, <1>3 DEF IsRenumbering, Loaded
<1>5. done' = IF t.inc.summary \/ done[n] = None THEN [done EXCEPT ![n] = t.after["isDone"]] ELSE done
  BY <1>0, <1>4 DEF UpsertState
<1>6. DOMAIN done = Notices
  BY Turned DEF Tables, DoneTyped
<1>7. CASE t.before # None
  <2>1. done[n] = Says(n)["isDone"] /\ done[n] # None
    <3>1. Owed(task[w], pc[w]) = {}
      BY <1>0, <1>1, <1>7 DEF Owed, Appending
    <3>2. chain[n] # <<>>
      BY <1>3, <1>7 DEF Loaded
    <3> QED
      BY <1>3, <3>1, <3>2, Turned DEF Telling, Known
  <2>2. done' = done
    <3>1. done = [m \in Notices |-> done[m]]
      BY Turned DEF Tables, DoneTyped
    <3>2. [done EXCEPT ![n] = done[n]] = done
      BY <1>3, <3>1
    <3> QED
      BY <1>3, <1>5, <1>7, <2>1, <3>2
  <2>3. Phase(t, "upsertAppend")
    BY <1>0, <1>3, <1>7 DEF Phase, Upserting, Detailing, Marking, Deleting, InTurn, Appending
  <2>4. Owed(task[w], pc[w]) = {}
    BY <1>0, <1>1, <1>7 DEF Owed, Appending
  <2>5. UNCHANGED db
    BY <1>1, <2>2 DEF db
  <2> QED
    BY <1>2, <2>3, <2>4, <2>5, Turned, OneGoesOnQuietly DEF Turning
<1>8. CASE t.before = None
  <2>1. PICK a, inc, u, k : a = t.after /\ inc = t.inc /\ u = t /\ k = n
    OBVIOUS
  <2>2. row[n] = a /\ chain[n] = <<>> /\ done[n] = None
    BY <1>3, <1>8, <2>1 DEF Fresh
  <2>3. done'[n] = "false" /\ \A m \in Notices \ {n} : done'[m] = done[m]
    BY <1>3, <1>5, <1>6, <1>8, <2>1, <2>2
  <2>4. a # None
    BY <1>3, <2>1, SnapshotIsNotNull DEF Lifelike, IsSnapshot
  <2>5. Known(n)'
    BY <1>1, <1>3, <2>2, <2>4, Turned DEF Known
  <2>6. \A m \in Notices : Known(m)' /\ (Telling(m)' \/ m = n)
    <3>1. ASSUME NEW m \in Notices, m # n PROVE Known(m)' /\ Telling(m)'
      <4>1. Owed(task[w], pc[w]) = {n}
        BY <1>0, <1>1, <1>8 DEF Owed
      <4> QED
        BY <1>1, <2>3, <3>1, <4>1, KnownStays, Turned
    <3> QED
      BY <2>5, <3>1
  <2>7. u.num = k /\ u.before = None /\ u.after = a /\ u.inc = inc
    BY <1>0, <1>8, <2>1
  <2>8. Fresh(k, a, "false")'
    BY <1>1, <2>1, <2>2, <2>3 DEF Fresh
  <2>9. /\ k \in Notices /\ inc \in Incoming(k)
        /\ Lifelike(a) /\ a["lifecycle"] = "active" /\ a["num"] = k
        /\ a["isDone"] = "false" /\ a["contentId"] = inc.contentId
    BY <1>3, <1>8, <2>1
  <2>10. Phase(u, "upsertAppend")'
    BY <2>7, <2>8, <2>9 DEF Phase, Upserting, Detailing, Marking, Deleting, InTurn, Appending
  <2>11. Owed(u, "upsertAppend") = {n}
    BY <2>1, <2>7 DEF Owed
  <2> QED
    BY <1>2, <2>1, <2>6, <2>10, <2>11, Turned, OneGoesOn DEF Turning
<1> QED
  BY <1>7, <1>8

LEMMA UpsertAppends ==
  ASSUME NEW w \in Writers, Turning(w), NullIsNothing, UpsertAppend(w)
  PROVE  Serial'
<1>1. pc[w] = "upsertAppend" /\ UNCHANGED db
  BY DEF UpsertAppend
<1>2. PICK t, n, b, a : t = task[w] /\ n = t.num /\ a = t.after /\ b = Baseline(n, t.before)
  OBVIOUS
<1>3. /\ n \in Notices /\ Lifelike(a) /\ a["lifecycle"] = "active" /\ a["num"] = n
      /\ t.before # None => Loaded(n, t.before) /\ a["isDone"] = Says(n)["isDone"]
      /\ t.before = None => a["isDone"] = "false" /\ Fresh(n, a, "false")
  BY <1>1, <1>2, Turned DEF Phase, Upserting
<1>4. PICK at \in Stamps : AppendIfChanged(w, t, n, "archive:upsert", None, b, a, at, "idle")
  BY <1>2, <1>3, Turned DEF UpsertAppend
<1>5. PICK e : e = BuildEvent(n, "archive:upsert", None, b, a, at)
  OBVIOUS
<1>6. /\ b = (IF chain[n] = <<>> THEN None ELSE Says(n))
      /\ t.before = None <=> b = None
      /\ row[n] # None
  <2>1. CASE t.before = None
    <3>1. b = None /\ chain[n] = <<>> /\ row[n] = a
      BY <1>2, <1>3, <2>1 DEF Baseline, Fresh
    <3> QED
      BY <1>3, <2>1, <3>1, SnapshotIsNotNull DEF Lifelike, IsSnapshot
  <2>2. CASE t.before # None
    <3>1. b = Says(n) /\ chain[n] # <<>>
      BY <1>2, <1>3, <2>2, BaselineSays DEF Loaded
    <3> QED
      BY <1>3, <2>2, <3>1, SaysIsNotNull, Turned DEF Known
  <2> QED
    BY <2>1, <2>2
<1>7. CASE ShouldAppend(e)
  <2>1. Genuine(e)
    <3>1. b # None => (b["isDone"] = "true" => a["isDone"] = "true")
      BY <1>3, <1>6
    <3> QED
      BY <1>3, <1>5, <1>6, <1>7, <3>1, BuiltIsGenuine
  <2>2. IsTask(t)
    BY <1>2, Turned
  <2>3. PICK u : u = Called(t, e, "idle")
    OBVIOUS
  <2>4. u.cand = e /\ u.then = "idle"
    BY <2>2, <2>3, CalledIs
  <2>5. e.hash.before = b /\ e.hash.after = a /\ e.num = n
    BY <1>5 DEF BuildEvent
  <2>6. Serves(u)
    BY <1>3, <1>6, <2>4, <2>5 DEF Serves
  <2>7. Owed(task[w], pc[w]) \subseteq Owed(u, "dedupe")
    <3>1. CASE t.before = None
      <4>1. b = None
        BY <1>6, <3>1
      <4> QED
        BY <1>1, <1>2, <2>4, <2>5, <3>1, <4>1 DEF Owed, Appending
    <3>2. CASE t.before # None
      BY <1>1, <1>2, <3>2 DEF Owed, Appending
    <3> QED
      BY <3>1, <3>2
  <2> QED
    BY <1>1, <1>4, <1>5, <1>7, <2>1, <2>2, <2>3, <2>6, <2>7, AppendBegins
<1>8. CASE ~ShouldAppend(e)
  <2>1. b # None
    BY <1>5, <1>8 DEF BuildEvent, EventType, ShouldAppend
  <2>2. Finish(w)
    BY <1>4, <1>5, <1>8 DEF AppendIfChanged, Continue
  <2>3. Owed(task[w], pc[w]) = {}
    BY <1>1, <1>2, <1>6, <2>1 DEF Owed, Appending
  <2> QED
    BY <1>1, <2>2, <2>3, Turned, OneEnds DEF Turning
<1> QED
  BY <1>7, <1>8

\* A value that differs is told.
LEMMA DifferenceIsTold ==
  ASSUME NEW e, NEW n, NEW source, NEW preferred, NEW b, NEW a, NEW at, NEW f \in Fields,
         e = BuildEvent(n, source, preferred, b, a, at), b # None, b[f] # a[f]
  PROVE  ShouldAppend(e)
<1>1. f \in DOMAIN Diff(b, a)
  BY DEF Diff, ValueBefore
<1> QED
  BY <1>1 DEF BuildEvent, ShouldAppend

-----------------------------------------------------------------------------
(* Detail updates                                                          *)

LEMMA NsmStarts ==
  ASSUME NEW w \in Writers, Turning(w), NullIsNothing, NsmStart(w)
  PROVE  Serial'
<1>1. PICK n \in Notices : \E r : /\ TrackedRow(n) # None
        /\ SetTask(w, [NoTask EXCEPT !.num = n, !.inc = r, !.before = TrackedRow(n)])
  BY DEF NsmStart
<1>2. PICK r, t : t = [NoTask EXCEPT !.num = n, !.inc = r, !.before = TrackedRow(n)] /\ SetTask(w, t)
  BY <1>1
<1>3. t.num = n /\ t.before = TrackedRow(n)
  BY <1>2 DEF NoTask
<1>4. Moves(w, t, "nsmBase") /\ pc[w] = "idle" /\ UNCHANGED db
  BY <1>2, Turned, SetAndGo DEF NsmStart
<1>5. Loaded(n, t.before)
  BY <1>1, <1>3, <1>4, Turned, TrackedRowIs, LoadedAtStart
<1>6. Phase(t, "nsmBase")
  BY <1>3, <1>5 DEF Phase, Upserting, Detailing, Marking, Deleting, InTurn, Appending
<1> QED
  BY <1>4, <1>6, AtRest, Turned, OneGoesOnQuietly DEF Turning

LEMMA NsmReads ==
  ASSUME NEW w \in Writers, Turning(w), NullIsNothing, NsmBaseline(w)
  PROVE  Serial'
<1>1. pc[w] = "nsmBase" /\ UNCHANGED db
  BY DEF NsmBaseline
<1>2. PICK t, n : t = task[w] /\ n = t.num
  OBVIOUS
<1>3. n \in Notices /\ Loaded(n, t.before)
  BY <1>1, <1>2, Turned DEF Phase, Detailing
<1>4. Owed(task[w], pc[w]) = {}
  BY <1>1 DEF Owed, Appending
<1>5. PICK base : /\ BaselineRead(n, t.before, base)
                  /\ \/ Finish(w)
                     \/ Goto(w, "nsmAppend") /\ SetTask(w, [t EXCEPT !.base = base])
  BY <1>2 DEF NsmBaseline
<1>6. CASE Finish(w)
  BY <1>1, <1>4, <1>6, Turned, OneEnds DEF Turning
<1>7. CASE Goto(w, "nsmAppend") /\ SetTask(w, [t EXCEPT !.base = base])
  <2>1. PICK u : u = [t EXCEPT !.base = base]
    OBVIOUS
  <2>2. u.num = n /\ u.base = base
    <3>1. IsTask(t)
      BY <1>2, Turned
    <3> QED
      BY <1>2, <2>1, <3>1 DEF IsTask, NoTask
  <2>3. base = Says(n) /\ chain[n] # <<>>
    BY <1>3, <1>5, Turned, BaselineSays DEF Loaded
  <2>4. Moves(w, u, "nsmAppend")
    BY <1>7, <2>1, Turned, SetAndGo
  <2>5. Phase(u, "nsmAppend")
    BY <1>3, <2>2, <2>3 DEF Phase, Upserting, Detailing, Marking, Deleting, InTurn, Appending
  <2> QED
    BY <1>1, <1>4, <2>4, <2>5, Turned, OneGoesOnQuietly DEF Turning
<1> QED
  BY <1>5, <1>6, <1>7

LEMMA NsmAppends ==
  ASSUME NEW w \in Writers, Turning(w), NullIsNothing, NsmAppend(w)
  PROVE  Serial'
<1>1. pc[w] = "nsmAppend" /\ UNCHANGED db
  BY DEF NsmAppend, db
<1>2. PICK t, n, b : t = task[w] /\ n = t.num /\ b = t.base
  OBVIOUS
<1>3. n \in Notices /\ chain[n] # <<>> /\ b = Says(n) /\ IsTask(t)
  BY <1>1, <1>2, Turned DEF Phase, Detailing
<1>4. Lifelike(b) /\ row[n] # None /\ b # None
  BY <1>3, Turned, SaysIsNotNull DEF Known
<1>5. [b EXCEPT !["reason"] = Coalesce(FieldAfter(chain[n], "reason", None), @)] = b
  <2>1. "reason" \in Fields
    BY DEF Fields
  <2>2. FieldAfter(chain[n], "reason", None) = b["reason"]
    BY <1>3, <2>1 DEF Says, Story
  <2>3. Coalesce(b["reason"], b["reason"]) = b["reason"]
    BY DEF Coalesce
  <2>4. b = [f \in Fields |-> b[f]]
    BY <1>4 DEF Lifelike
  <2> QED
    BY <2>1, <2>2, <2>3, <2>4
<1>6. PICK a, at :
        /\ a = [b EXCEPT !["reason"] = Coalesce(t.inc, @)]
        /\ AppendIfChanged(w, t, n, Nsm, "updated", b, a, at, "idle")
  BY <1>2, <1>5 DEF NsmAppend, Nsm
<1>7. Lifelike(a) /\ a["lifecycle"] = b["lifecycle"] /\ a["isDone"] = b["isDone"]
  <2>1. DOMAIN b = Fields
    BY <1>4 DEF Lifelike, IsSnapshot
  <2>2. /\ DOMAIN a = Fields /\ a = [f \in Fields |-> a[f]]
        /\ a["lifecycle"] = b["lifecycle"] /\ a["isDone"] = b["isDone"]
    BY <1>6, <2>1 DEF Fields
  <2> QED
    BY <1>4, <2>2 DEF Lifelike, IsSnapshot
<1>8. PICK e : e = BuildEvent(n, Nsm, "updated", b, a, at)
  OBVIOUS
<1>9. Owed(task[w], pc[w]) = {}
  BY <1>1 DEF Owed, Appending
<1>10. CASE ShouldAppend(e)
  <2>1. \/ "updated" = EventType(b, a, None)
        \/ a["lifecycle"] = "source_deleted"
    BY <1>4, <1>7 DEF Lifelike, EventType
  <2>2. Genuine(e)
    BY <1>3, <1>4, <1>7, <1>8, <1>10, <2>1, BuiltIsGenuine
  <2>3. PICK u : u = Called(t, e, "idle")
    OBVIOUS
  <2>5. u.cand = e /\ u.then = "idle" /\ e.hash.before = b /\ e.hash.after = a
    BY <1>3, <1>8, <2>3, CalledIs DEF BuildEvent
  <2>4. Serves(u)
    BY <1>7, <2>5 DEF Serves
  <2> QED
    BY <1>1, <1>3, <1>6, <1>8, <1>9, <1>10, <2>2, <2>3, <2>4, AppendBegins
<1>11. CASE ~ShouldAppend(e)
  <2>1. Finish(w)
    BY <1>6, <1>8, <1>11 DEF AppendIfChanged, Continue
  <2> QED
    BY <1>1, <1>9, <2>1, Turned, OneEnds DEF Turning
<1> QED
  BY <1>10, <1>11

-----------------------------------------------------------------------------
(* Marks                                                                   *)

LEMMA DoneStarts ==
  ASSUME NEW w \in Writers, Turning(w), DoneStart(w)
  PROVE  Serial'
<1>1. PICK nums \in SUBSET Notices :
        SetTask(w, [NoTask EXCEPT !.todo = {n \in nums : done[n] = "false"}])
  BY DEF DoneStart
<1>2. PICK t : t = [NoTask EXCEPT !.todo = {n \in nums : done[n] = "false"}]
  OBVIOUS
<1>3. \A n \in t.todo : n \in Notices /\ done[n] = "false"
  BY <1>2 DEF NoTask
<1>4. Moves(w, t, "doneRows") /\ pc[w] = "idle" /\ UNCHANGED db
  BY <1>1, <1>2, Turned, SetAndGo DEF DoneStart
<1>5. Phase(t, "doneRows")
  BY <1>3 DEF Phase, Upserting, Detailing, Marking, Deleting, InTurn, Appending
<1> QED
  BY <1>4, <1>5, AtRest, Turned, OneGoesOnQuietly DEF Turning

LEMMA DoneLoads ==
  ASSUME NEW w \in Writers, Turning(w), NullIsNothing, DoneRows(w)
  PROVE  Serial'
<1>1. pc[w] = "doneRows" /\ UNCHANGED db
  BY DEF DoneRows
<1>2. PICK t, u : t = task[w] /\ u = [t EXCEPT !.rows = [n \in t.todo |-> TrackedRow(n)]]
  OBVIOUS
<1>3. \A n \in t.todo : n \in Notices /\ done[n] = "false"
  BY <1>1, <1>2, Turned DEF Phase, Marking
<1>4. Owed(task[w], pc[w]) = {}
  BY <1>1 DEF Owed, Appending
<1>5. \A n \in t.todo : Loaded(n, TrackedRow(n))
  <2> SUFFICES ASSUME NEW n \in t.todo PROVE Loaded(n, TrackedRow(n))
    OBVIOUS
  <2>1. Known(n) /\ Telling(n) /\ done[n] # None
    BY <1>3, <1>4, Turned DEF NullIsNothing, DoneValues
  <2> QED
    BY <2>1 DEF Known, Telling
<1>6. u.todo = t.todo /\ \A n \in t.todo : u.rows[n] = TrackedRow(n)
  <2>1. IsTask(t)
    BY <1>2, Turned
  <2> QED
    BY <1>2, <2>1 DEF IsTask, NoTask
<1>7. Moves(w, u, "doneMark")
  BY <1>2, Turned, SetAndGo DEF DoneRows
<1>8. Phase(u, "doneMark")
  BY <1>3, <1>5, <1>6 DEF Phase, Upserting, Detailing, Marking, Deleting, InTurn, Appending
<1> QED
  BY <1>1, <1>4, <1>7, <1>8, Turned, OneGoesOnQuietly DEF Turning

LEMMA DoneMarks ==
  ASSUME NEW w \in Writers, Turning(w), NullIsNothing, Tables', DoneMark(w)
  PROVE  Serial'
<1>1. pc[w] = "doneMark" /\ row' = row /\ chain' = chain
  BY DEF DoneMark
<1>2. PICK t, todo, u : /\ t = task[w] /\ todo = t.todo
                        /\ u = [t EXCEPT !.todo = {n \in todo : t.rows[n] # None}]
  OBVIOUS
<1>3. \A n \in todo : n \in Notices /\ done[n] = "false" /\ Loaded(n, t.rows[n])
  BY <1>1, <1>2, Turned DEF Phase, Marking
<1>4. Owed(task[w], pc[w]) = {}
  BY <1>1 DEF Owed, Appending
<1>5. u.todo = todo /\ u.rows = t.rows
  <2>1. IsTask(t)
    BY <1>2, Turned
  <2>2. {n \in todo : t.rows[n] # None} = todo
    BY <1>3 DEF Loaded
  <2> QED
    BY <1>2, <2>1, <2>2 DEF IsTask, NoTask
<1>6. done' = [n \in Notices |-> IF n \in todo /\ done[n] = "false" THEN "true" ELSE done[n]]
  BY <1>2 DEF DoneMark
<1>7. ASSUME NEW n \in Notices, n \in todo
      PROVE  Known(n)' /\ Unmarked(n, t.rows[n])'
  <2>1. done'[n] = "true" /\ done[n] = "false" /\ Loaded(n, t.rows[n])
    BY <1>3, <1>6, <1>7
  <2>2. row[n] # None /\ Telling(n)
    <3>1. done[n] # None
      BY <2>1 DEF NullIsNothing, DoneValues
    <3> QED
      BY <1>4, <3>1, Turned DEF Known
  <2>3. Says(n)["isDone"] = "false"
    BY <2>1, <2>2 DEF Telling
  <2>4. row'[n] = row[n] /\ chain'[n] = chain[n] /\ done'[n] \in DoneValues
    BY <1>1, <2>1 DEF DoneValues
  <2>5. /\ Known(n)' /\ Says(n)' = Says(n)
        /\ \A b : Loaded(n, b)' <=> Loaded(n, b)
    BY <2>2, <2>4, Turned, KnownWhenMarked
  <2> QED
    BY <2>1, <2>3, <2>5 DEF Unmarked
<1>8. ASSUME NEW n \in Notices, n \notin todo
      PROVE  Known(n)' /\ Telling(n)'
  <2>1. row'[n] = row[n] /\ chain'[n] = chain[n] /\ done'[n] = done[n]
    BY <1>1, <1>6, <1>8
  <2> QED
    BY <1>4, <2>1, KnownStays, Turned
<1>9. Moves(w, u, "doneNext")
  BY <1>2, Turned, SetAndGo DEF DoneMark
<1>10. Phase(u, "doneNext")'
  BY <1>3, <1>5, <1>7 DEF Phase, Upserting, Detailing, Marking, Deleting, InTurn, Appending
<1>11. Owed(u, "doneNext") = todo
  BY <1>5 DEF Owed
<1> QED
  BY <1>7, <1>8, <1>9, <1>10, <1>11, Turned, OneGoesOn DEF Turning

LEMMA DoneAppends ==
  ASSUME NEW w \in Writers, Turning(w), NullIsNothing, DoneNext(w)
  PROVE  Serial'
<1>1. pc[w] = "doneNext" /\ UNCHANGED db
  BY DEF DoneNext
<1>2. PICK t, todo : t = task[w] /\ todo = t.todo
  OBVIOUS
<1>3. /\ \A n \in todo : n \in Notices /\ Unmarked(n, t.rows[n])
      /\ IsTask(t)
  BY <1>1, <1>2, Turned DEF Phase, Marking
<1>4. Owed(task[w], pc[w]) = todo
  BY <1>1, <1>2 DEF Owed
<1>5. CASE todo = {}
  <2>1. Finish(w)
    BY <1>2, <1>5 DEF DoneNext
  <2> QED
    BY <1>1, <1>4, <1>5, <2>1, Turned, OneEnds DEF Turning
<1>6. CASE todo # {}
  <2>1. PICK n, s : n = Min(todo) /\ s = [t EXCEPT !.todo = todo \ {n}]
    OBVIOUS
  <2>2. n \in todo /\ n \in Notices
    <3>1. todo \in SUBSET Notices
      BY <1>3
    <3> QED
      BY <1>3, <1>6, <2>1, <3>1, TodoNotices
  <2>3. PICK b, at :
          /\ BaselineRead(n, t.rows[n], b)
          /\ AppendIfChanged(w, s, n, "archive:isDoneSync", "updated", b,
                             [b EXCEPT !["isDone"] = "true"], at, "doneNext")
    BY <1>2, <1>6, <2>1 DEF DoneNext
  <2>4. Unmarked(n, t.rows[n]) /\ b = Says(n) /\ chain[n] # <<>>
    BY <1>3, <2>2, <2>3, Turned, BaselineSays DEF Unmarked, Loaded
  <2>5. Lifelike(b) /\ row[n] # None /\ b # None /\ b["isDone"] = "false" /\ done[n] = "true"
    BY <2>2, <2>4, Turned, SaysIsNotNull DEF Known, Unmarked
  <2>6. PICK a, e : /\ a = [b EXCEPT !["isDone"] = "true"]
                    /\ e = BuildEvent(n, "archive:isDoneSync", "updated", b, a, at)
    OBVIOUS
  <2>7. /\ Lifelike(a) /\ a["isDone"] = "true" /\ a["lifecycle"] = "active"
        /\ "isDone" \in Fields
    <3>1. DOMAIN b = Fields /\ b["lifecycle"] = "active"
      BY <2>5 DEF Lifelike, IsSnapshot
    <3>2. /\ DOMAIN a = Fields /\ a = [f \in Fields |-> a[f]] /\ a["isDone"] = "true"
          /\ a["lifecycle"] = "active" /\ "isDone" \in Fields
      BY <2>6, <3>1 DEF Fields
    <3> QED
      BY <3>2 DEF Lifelike, IsSnapshot, DoneValues
  <2>8. ShouldAppend(e)
    <3>1. e = BuildEvent(n, "archive:isDoneSync", "updated", b, a, at)
      BY <2>6
    <3>2. b["isDone"] # a["isDone"] /\ "isDone" \in Fields /\ b # None
      BY <2>5, <2>7
    <3> QED
      BY <3>1, <3>2, DifferenceIsTold
  <2>9. Genuine(e)
    <3>1. "updated" = EventType(b, a, None)
      BY <2>5, <2>7 DEF EventType
    <3> QED
      BY <2>2, <2>4, <2>5, <2>6, <2>7, <2>8, <3>1, BuiltIsGenuine
  <2>10. IsTask(s) /\ s.todo = todo \ {n} /\ s.rows = t.rows
    BY <1>3, <2>1, AssignTodo
  <2>14. PICK u : u = Called(s, e, "doneNext")
    OBVIOUS
  <2>11. /\ u.cand = e /\ u.then = "doneNext" /\ u.todo = s.todo /\ u.rows = s.rows
         /\ e.num = n /\ e.hash.before = b /\ e.hash.after = a
    <3>1. e.num = n /\ e.hash.before = b /\ e.hash.after = a
      BY <2>6 DEF BuildEvent
    <3> QED
      BY <2>10, <2>14, <3>1, CalledIs
  <2>12. Serves(u)
    <3>1. Marking(u, "doneNext")
      BY <1>3, <2>10, <2>11 DEF Marking
    <3> QED
      BY <2>5, <2>7, <2>10, <2>11, <3>1 DEF Serves
  <2>13. Owed(task[w], pc[w]) \subseteq Owed(u, "dedupe")
    BY <1>4, <2>10, <2>11 DEF Owed, Appending
  <2> QED
    <3>1. AppendIfChanged(w, s, n, "archive:isDoneSync", "updated", b, a, at, "doneNext")
      BY <2>3, <2>6
    <3> QED
      BY <1>1, <2>6, <2>8, <2>9, <2>10, <2>12, <2>13, <2>14, <3>1, AppendBegins
<1> QED
  BY <1>5, <1>6

-----------------------------------------------------------------------------
(* Deletions and seeds                                                     *)

LEMMA DeleteStarts ==
  ASSUME NEW w \in Writers, Turning(w), NullIsNothing, DeleteStart(w)
  PROVE  Serial'
<1>1. PICK n \in Notices : /\ TrackedRow(n) # None
                           /\ SetTask(w, [NoTask EXCEPT !.num = n, !.before = TrackedRow(n)])
  BY DEF DeleteStart
<1>2. PICK t : t = [NoTask EXCEPT !.num = n, !.before = TrackedRow(n)]
  OBVIOUS
<1>3. t.num = n /\ t.before = TrackedRow(n)
  BY <1>2 DEF NoTask
<1>4. Moves(w, t, "deleteAppend") /\ pc[w] = "idle" /\ UNCHANGED db
  BY <1>1, <1>2, Turned, SetAndGo DEF DeleteStart
<1>5. Loaded(n, t.before)
  BY <1>1, <1>3, <1>4, Turned, TrackedRowIs, LoadedAtStart
<1>6. Phase(t, "deleteAppend")
  BY <1>3, <1>5 DEF Phase, Upserting, Detailing, Marking, Deleting, InTurn, Appending
<1> QED
  BY <1>4, <1>6, AtRest, Turned, OneGoesOnQuietly DEF Turning

LEMMA DeleteAppends ==
  ASSUME NEW w \in Writers, Turning(w), NullIsNothing, DeleteAppend(w)
  PROVE  Serial'
<1>1. pc[w] = "deleteAppend" /\ UNCHANGED db
  BY DEF DeleteAppend
<1>2. PICK t, n : t = task[w] /\ n = t.num
  OBVIOUS
<1>3. n \in Notices /\ Loaded(n, t.before) /\ IsTask(t)
  BY <1>1, <1>2, Turned DEF Phase, Deleting
<1>4. PICK b, at :
        /\ BaselineRead(n, t.before, b)
        /\ IF b["lifecycle"] = "source_deleted"
           THEN Finish(w) /\ UNCHANGED <<turnQueue, appended>>
           ELSE AppendIfChanged(w, t, n, "archive:source-missing", "invalidated", b,
                  [b EXCEPT !["isDone"] = "true", !["lifecycle"] = "source_deleted"],
                  at, "deleteState")
  BY <1>2 DEF DeleteAppend
<1>5. b = Says(n) /\ chain[n] # <<>>
  BY <1>3, <1>4, Turned, BaselineSays DEF Loaded
<1>6. Lifelike(b) /\ row[n] # None /\ b # None
  BY <1>3, <1>5, Turned, SaysIsNotNull DEF Known
<1>7. Owed(task[w], pc[w]) = {}
  BY <1>1 DEF Owed, Appending
<1>8. CASE b["lifecycle"] = "source_deleted"
  BY <1>1, <1>4, <1>7, <1>8, Turned, OneEnds DEF Turning
<1>9. CASE b["lifecycle"] # "source_deleted"
  <2>1. PICK a, e : /\ a = [b EXCEPT !["isDone"] = "true", !["lifecycle"] = "source_deleted"]
                    /\ e = BuildEvent(n, "archive:source-missing", "invalidated", b, a, at)
    OBVIOUS
  <2>2. /\ Lifelike(a) /\ a["isDone"] = "true" /\ a["lifecycle"] = "source_deleted"
        /\ "lifecycle" \in Fields
    <3>1. DOMAIN b = Fields
      BY <1>6 DEF Lifelike, IsSnapshot
    <3>2. /\ DOMAIN a = Fields /\ a = [f \in Fields |-> a[f]] /\ a["isDone"] = "true"
          /\ a["lifecycle"] = "source_deleted" /\ "lifecycle" \in Fields
      BY <2>1, <3>1 DEF Fields
    <3> QED
      BY <3>2 DEF Lifelike, IsSnapshot, DoneValues
  <2>3. ShouldAppend(e)
    <3>1. e = BuildEvent(n, "archive:source-missing", "invalidated", b, a, at)
      BY <2>1
    <3>2. b["lifecycle"] # a["lifecycle"] /\ "lifecycle" \in Fields /\ b # None
      BY <1>6, <1>9, <2>2
    <3> QED
      BY <3>1, <3>2, DifferenceIsTold
  <2>4. Genuine(e)
    <3>1. "invalidated" = EventType(b, a, None)
      BY <1>6, <2>2 DEF EventType
    <3> QED
      BY <1>3, <1>5, <1>6, <2>1, <2>2, <2>3, <3>1, BuiltIsGenuine
  <2>5. AppendIfChanged(w, t, n, "archive:source-missing", "invalidated", b, a, at, "deleteState")
    BY <1>4, <1>9, <2>1
  <2>6. PICK u : u = Called(t, e, "deleteState")
    OBVIOUS
  <2>8. /\ u.cand = e /\ u.then = "deleteState" /\ u.num = t.num
        /\ e.num = n /\ e.hash.before = b /\ e.hash.after = a
    <3>1. e.num = n /\ e.hash.before = b /\ e.hash.after = a
      BY <2>1 DEF BuildEvent
    <3> QED
      BY <1>3, <2>6, <3>1, CalledIs
  <2>7. Serves(u)
    BY <1>2, <1>6, <2>2, <2>8 DEF Serves
  <2> QED
    BY <1>1, <1>3, <1>7, <2>1, <2>3, <2>4, <2>5, <2>6, <2>7, AppendBegins
<1> QED
  BY <1>8, <1>9

LEMMA DeleteStates ==
  ASSUME NEW w \in Writers, Turning(w), NullIsNothing, Tables', DeleteState(w)
  PROVE  Serial'
<1>1. pc[w] = "deleteState" /\ row' = row /\ chain' = chain /\ Finish(w)
  BY DEF DeleteState
<1>2. PICK t, n : t = task[w] /\ n = t.num
  OBVIOUS
<1>3. n \in Notices /\ chain[n] # <<>> /\ Says(n)["isDone"] = "true"
  BY <1>1, <1>2, Turned DEF Phase, Deleting
<1>4. Owed(task[w], pc[w]) = {n}
  BY <1>1, <1>2 DEF Owed
<1>5. done' = [done EXCEPT ![n] = "true"] /\ DOMAIN done = Notices
  BY <1>2, Turned DEF DeleteState, Tables, DoneTyped
<1>6. Known(n)' /\ Telling(n)'
  <2>1. done'[n] = "true" /\ done'[n] \in DoneValues /\ row[n] # None
    BY <1>3, <1>5, Turned DEF Known, DoneValues
  <2>2. row'[n] = row[n] /\ chain'[n] = chain[n]
    BY <1>1
  <2>3. Known(n)' /\ Says(n)' = Says(n)
    BY <1>3, <2>1, <2>2, Turned, KnownWhenMarked
  <2> QED
    BY <1>3, <2>1, <2>2, <2>3 DEF Telling
<1>7. ASSUME NEW m \in Notices, m # n PROVE Known(m)' /\ Telling(m)'
  <2>1. row'[m] = row[m] /\ chain'[m] = chain[m] /\ done'[m] = done[m]
    BY <1>1, <1>5, <1>7
  <2> QED
    BY <1>4, <1>7, <2>1, KnownStays, Turned
<1>8. Moves(w, NoTask, "idle")
  BY <1>1, Turned, SetAndGo DEF Finish
<1>9. Phase(NoTask, "idle")'
  BY DEF Phase, Upserting, Detailing, Marking, Deleting, InTurn, Appending
<1> QED
  BY <1>6, <1>7, <1>8, <1>9, Turned, OneGoesOn DEF Turning

\* Every row has its first event when nobody is at work, so that there is nothing to seed.
LEMMA NothingToSeed ==
  ASSUME NEW w \in Writers, Turning(w)
  PROVE  ~ (GenesisStart(w) \/ GenesisFilter(w) \/ GenesisNext(w))
<1>1. pc[w] \notin {"genesisFilter", "genesisNext"}
  BY Turned DEF Phase
<1>2. pc[w] = "idle" => Eventless = {}
  BY LoadedAtStart DEF Eventless
<1> QED
  BY <1>1, <1>2 DEF GenesisStart, GenesisFilter, GenesisNext

-----------------------------------------------------------------------------
(* Appends                                                                 *)

\* What is known of the task of an append.
LEMMA TurnIs ==
  ASSUME NEW w \in Writers, Turning(w), pc[w] \in Appending, NEW t, t = task[w]
  PROVE  /\ IsTask(t) /\ Genuine(t.cand) /\ Serves(t)
         /\ pc[w] = "txCommit" => t.link = HeadLink(t.cand.num)
         /\ t.cand.num \in Notices /\ chain[t.cand.num] \in Seq(Elems(chain[t.cand.num]))
         /\ Known(t.cand.num)
<1>1. IsTask(t) /\ Genuine(t.cand) /\ Serves(t) /\ (pc[w] = "txCommit" => t.link = HeadLink(t.cand.num))
  BY Turned DEF Phase, InTurn
<1>2. t.cand.num \in Notices
  BY <1>1 DEF Genuine
<1> QED
  BY <1>1, <1>2, Turned DEF Writable, Chains

LEMMA ReturnMoves ==
  ASSUME NEW w \in Writers, Turning(w), NEW t, t = task[w], AppendReturns(w)
  PROVE  Moves(w, IF t.then = "idle" THEN NoTask ELSE t, t.then)
<1>1. CASE t.then = "idle"
  <2>1. Goto(w, t.then) /\ SetTask(w, NoTask)
    BY <1>1 DEF AppendReturns, Continue, Finish
  <2> QED
    BY <1>1, <2>1, Turned, SetAndGo
<1>2. CASE t.then # "idle"
  <2>1. Goto(w, t.then) /\ SetTask(w, t)
    BY <1>2 DEF AppendReturns, Continue
  <2> QED
    BY <1>2, <2>1, Turned, SetAndGo
<1> QED
  BY <1>1, <1>2

\* The head of a chain that a genuine event builds on does not say what the event says.
LEMMA NoDuplicate ==
  ASSUME NullIsNothing, NEW e, Genuine(e), chain[e.num] \in Seq(Elems(chain[e.num]))
  PROVE  ~ IsLatestDuplicate(e)
<1> DEFINE c == chain[e.num]  b == e.hash.before  a == e.hash.after
<1> SUFFICES ASSUME c # <<>>, c[Len(c)].details = e.details PROVE FALSE
  BY DEF IsLatestDuplicate
<1>1. b = Says(e.num) /\ b # None
  BY SaysIsNotNull DEF Genuine
<1>2. e.type # "created"
  BY <1>1 DEF Genuine, EventType
<1>3. PICK f \in DOMAIN e.details : TRUE
  BY <1>2 DEF Genuine, ShouldAppend
<1>4. f \in Fields /\ b[f] # a[f] /\ e.details[f].after = a[f]
  BY <1>1, <1>3 DEF Genuine, Diff, ValueBefore
<1>5. Len(c) \in Nat /\ Len(c) # 0 /\ DOMAIN c = 1 .. Len(c)
  BY LenProperties, EmptySeq
<1>6. LastTouch(c, f) = Len(c)
  <2>1. /\ LastTouch(c, f) \in {0} \cup {i \in DOMAIN c : f \in DOMAIN c[i].details}
        /\ \A i \in DOMAIN c : f \in DOMAIN c[i].details => LastTouch(c, f) >= i
        /\ LastTouch(c, f) \in Nat
    BY LastTouchIs
  <2>2. Len(c) \in DOMAIN c /\ f \in DOMAIN c[Len(c)].details
    BY <1>3, <1>5
  <2>3. LastTouch(c, f) >= Len(c)
    BY <2>1, <2>2
  <2> QED
    BY <1>5, <2>1, <2>3
<1>7. FieldAfter(c, f, None) = a[f]
  BY <1>4, <1>5, <1>6 DEF FieldAfter
<1>8. b[f] = FieldAfter(c, f, None)
  BY <1>1, <1>4 DEF Says, Story
<1> QED
  BY <1>4, <1>7, <1>8

LEMMA Dedupes ==
  ASSUME NEW w \in Writers, Turning(w), NullIsNothing, AppendDedupe(w)
  PROVE  Serial'
<1>1. PICK t : t = task[w]
  OBVIOUS
<1>2. pc[w] = "dedupe" /\ pc[w] \in Appending /\ UNCHANGED db
  BY DEF AppendDedupe, Appending
<1>3. Genuine(t.cand) /\ Serves(t) /\ ~IsLatestDuplicate(t.cand)
  BY <1>1, <1>2, TurnIs, NoDuplicate
<1>4. Goto(w, "txRead") /\ task' = task
  BY <1>1, <1>3 DEF AppendDedupe
<1>5. Moves(w, t, "txRead")
  BY <1>1, <1>4, Turned, GoOn
<1>6. Phase(t, "txRead")
  BY <1>3 DEF Phase, Upserting, Detailing, Marking, Deleting, InTurn
<1>7. Owed(task[w], pc[w]) = Owed(t, "txRead")
  BY <1>1, <1>2 DEF Owed, Appending
<1> QED
  BY <1>2, <1>5, <1>6, <1>7, Turned, OneGoesOnQuietly DEF Turning

LEMMA Reads ==
  ASSUME NEW w \in Writers, Turning(w), TxRead(w)
  PROVE  Serial'
<1>1. PICK t, u : t = task[w] /\ u = [t EXCEPT !.link = HeadLink(t.cand.num)]
  OBVIOUS
<1>2. pc[w] = "txRead" /\ pc[w] \in Appending /\ UNCHANGED db
  BY DEF TxRead, Appending
<1>3. Genuine(t.cand) /\ Serves(t) /\ IsTask(t)
  BY <1>1, <1>2, TurnIs
<1>4. /\ u.cand = t.cand /\ u.then = t.then /\ u.num = t.num /\ u.todo = t.todo /\ u.rows = t.rows
      /\ u.link = HeadLink(t.cand.num)
  BY <1>1, <1>3 DEF IsTask, NoTask
<1>5. Moves(w, u, "txCommit")
  BY <1>1, Turned, SetAndGo DEF TxRead
<1>6. Phase(u, "txCommit")
  <2>1. Serves(u)
    BY <1>3, <1>4 DEF Serves, Marking
  <2> QED
    BY <1>3, <1>4, <2>1 DEF Phase, Upserting, Detailing, Marking, Deleting, InTurn, Appending
<1>7. Owed(task[w], pc[w]) = Owed(u, "txCommit")
  BY <1>1, <1>2, <1>4 DEF Owed, Appending
<1> QED
  BY <1>2, <1>5, <1>6, <1>7, Turned, OneGoesOnQuietly DEF Turning

\* The hash of a genuine event is in the chain only if nothing has become of isDone since.
LEMMA HashConflicts ==
  ASSUME NEW w \in Writers, Turning(w), NullIsNothing, TxHashConflict(w)
  PROVE  Serial'
<1>1. PICK t, e, n : t = task[w] /\ e = t.cand /\ n = e.num
  OBVIOUS
<1>2. pc[w] = "txCommit" /\ pc[w] \in Appending /\ UNCHANGED db /\ AppendReturns(w) /\ HashTaken(e)
  BY <1>1 DEF TxHashConflict, Appending
<1>3. Genuine(e) /\ Serves(t) /\ n \in Notices /\ Known(n)
  BY <1>1, <1>2, TurnIs
<1>4. PICK i \in DOMAIN chain[n] : chain[n][i].hash = e.hash
  BY <1>1, <1>2 DEF HashTaken
<1>5. chain[n] # <<>>
  BY <1>4
<1>6. e.hash.before = Says(n) /\ e.hash.before # None
  BY <1>1, <1>3, <1>5, SaysIsNotNull DEF Genuine
<1>7. e.hash.after["isDone"] = "true" => Says(n)["isDone"] = "true"
  BY <1>3, <1>4, <1>5 DEF Known
<1>8. PICK u, then : u = (IF t.then = "idle" THEN NoTask ELSE t) /\ then = t.then
  OBVIOUS
<1>9. Moves(w, u, then)
  BY <1>1, <1>2, <1>8, ReturnMoves
<1>10. then # "doneNext"
  BY <1>1, <1>3, <1>6, <1>7, <1>8 DEF Serves
<1>11. CASE then = "idle"
  <2>1. Owed(task[w], pc[w]) = {}
    BY <1>1, <1>2, <1>6, <1>8, <1>11 DEF Owed, Appending
  <2>2. Phase(u, then)
    BY <1>11, AtRest
  <2> QED
    BY <1>2, <1>9, <2>1, <2>2, Turned, OneGoesOnQuietly DEF Turning
<1>12. CASE then = "deleteState"
  <2>1. u = t /\ t.num = n /\ e.hash.after["isDone"] = "true"
    BY <1>1, <1>3, <1>8, <1>12 DEF Serves
  <2>2. Phase(u, then)
    BY <1>3, <1>5, <1>7, <1>12, <2>1 DEF Phase, Upserting, Detailing, Marking, Deleting, InTurn, Appending
  <2>3. Owed(task[w], pc[w]) = {}
    BY <1>1, <1>2, <1>6, <1>8, <1>12 DEF Owed, Appending
  <2> QED
    BY <1>2, <1>9, <2>2, <2>3, Turned, OneGoesOnQuietly DEF Turning
<1> QED
  BY <1>3, <1>8, <1>10, <1>11, <1>12 DEF Serves

\* Nobody takes the height after the head that was read.
LEMMA NoHeightConflict ==
  ASSUME NEW w \in Writers, Turning(w)
  PROVE  ~ TxHeightConflict(w)
<1> SUFFICES ASSUME TxHeightConflict(w) PROVE FALSE
  OBVIOUS
<1>1. PICK t, n, c : t = task[w] /\ n = t.cand.num /\ c = chain[n]
  OBVIOUS
<1>2. pc[w] = "txCommit" /\ pc[w] \in Appending /\ HeightTaken(n, t.link.height + 1)
  BY <1>1 DEF TxHeightConflict, Appending
<1>3. t.link = HeadLink(n) /\ n \in Notices /\ c \in Seq(Elems(c))
  BY <1>1, <1>2, TurnIs
<1>4. Linked(c)
  BY <1>1, <1>3, Turned DEF Writable, ChainLinked
<1>5. Len(c) \in Nat /\ DOMAIN c = 1 .. Len(c) /\ (c = <<>> <=> Len(c) = 0)
  BY <1>3, LenProperties, EmptySeq
<1>6. t.link.height = Len(c)
  <2>1. CASE c = <<>>
    BY <1>1, <1>3, <1>5, <2>1 DEF HeadLink
  <2>2. CASE c # <<>>
    <3>1. HeadLink(n) = [height |-> c[Len(c)].height, hash |-> c[Len(c)].hash]
      BY <1>1, <2>2 DEF HeadLink
    <3>2. Len(c) \in DOMAIN c
      BY <1>5, <2>2
    <3> QED
      BY <1>3, <1>4, <3>1, <3>2 DEF Linked
  <2> QED
    BY <2>1, <2>2
<1>7. PICK i \in DOMAIN c : c[i].height = Len(c) + 1
  BY <1>1, <1>2, <1>6 DEF HeightTaken
<1>8. c[i].height = i
  BY <1>4 DEF Linked
<1> QED
  BY <1>5, <1>7, <1>8

LEMMA Commits ==
  ASSUME NEW w \in Writers, Turning(w), NullIsNothing, TxCommit(w)
  PROVE  Serial'
<1>1. PICK t, e, n : t = task[w] /\ e = t.cand /\ n = e.num
  OBVIOUS
<1>2. /\ pc[w] = "txCommit" /\ pc[w] \in Appending /\ AppendReturns(w)
      /\ chain' = [chain EXCEPT ![n] = Append(@, Entity(e, t.link))] /\ row' = row /\ done' = done
  BY <1>1 DEF TxCommit, Committable, Commit, Appending
<1>3. Genuine(e) /\ Serves(t) /\ n \in Notices
  BY <1>1, <1>2, TurnIs
<1>4. PICK b, a : b = e.hash.before /\ a = e.hash.after
  OBVIOUS
<1>5. /\ \A m \in Notices : Known(m)'
      /\ Says(n)' = a /\ chain'[n] # <<>>
      /\ \A m \in Notices \ {n} : chain'[m] = chain[m] /\ Says(m)' = Says(m)
      /\ \A m \in Notices : \A r : Loaded(m, r) => Loaded(m, r)'
  BY <1>1, <1>2, <1>3, <1>4, Turned, CommitTells
<1>6. PICK u, then : u = (IF t.then = "idle" THEN NoTask ELSE t) /\ then = t.then
  OBVIOUS
<1>7. Moves(w, u, then)
  BY <1>1, <1>2, <1>6, ReturnMoves
<1>8. ASSUME NEW m \in Notices, m # n, m \notin Owed(task[w], pc[w])
      PROVE  Telling(m)'
  <2>1. row'[m] = row[m] /\ chain'[m] = chain[m] /\ done'[m] = done[m]
    BY <1>2, <1>5, <1>8
  <2> QED
    BY <1>8, <2>1, KnownStays, Turned
<1>9. CASE then = "idle"
  <2>1. Owed(task[w], pc[w]) \subseteq {n}
    BY <1>1, <1>2, <1>6, <1>9 DEF Owed, Appending
  <2>2. done[n] = a["isDone"]
    <3>1. CASE b = None
      BY <1>1, <1>3, <1>4, <3>1 DEF Genuine, Fresh
    <3>2. CASE b # None
      <4>1. n \notin Owed(task[w], pc[w])
        BY <1>1, <1>2, <1>4, <1>6, <1>9, <3>2 DEF Owed, Appending
      <4>2. Telling(n) /\ b = Says(n) /\ row[n] # None /\ a["isDone"] = b["isDone"]
        BY <1>1, <1>3, <1>4, <1>6, <1>9, <3>2, <4>1, Turned DEF Genuine, Serves
      <4> QED
        BY <4>2 DEF Telling
    <3> QED
      BY <3>1, <3>2
  <2>3. Telling(n)'
    BY <1>2, <1>5, <2>2 DEF Telling
  <2>4. Phase(u, then)'
    BY <1>9 DEF Phase, Upserting, Detailing, Marking, Deleting, InTurn, Appending
  <2>5. \A m \in Notices : Telling(m)'
    <3>1. ASSUME NEW m \in Notices, m # n PROVE Telling(m)'
      BY <1>8, <2>1, <3>1
    <3> QED
      BY <2>3, <3>1
  <2> QED
    BY <1>5, <1>7, <2>4, <2>5, Turned, OneGoesOn DEF Turning
<1>10. CASE then = "deleteState"
  <2>1. u = t /\ t.num = n /\ a["isDone"] = "true" /\ b # None
    BY <1>1, <1>3, <1>4, <1>6, <1>10 DEF Serves
  <2>2. Owed(task[w], pc[w]) = {}
    BY <1>1, <1>2, <1>4, <1>6, <1>10, <2>1 DEF Owed, Appending
  <2>3. Phase(u, then)'
    <3>1. chain'[n] # <<>> /\ Says(n)'["isDone"] = "true"
      BY <1>5, <2>1
    <3> QED
      BY <1>3, <1>10, <2>1, <3>1 DEF Phase, Upserting, Detailing, Marking, Deleting, InTurn, Appending
  <2>4. n \in Owed(u, then)
    BY <1>10, <2>1 DEF Owed
  <2>5. \A m \in Notices : Telling(m)' \/ m \in Owed(u, then)
    <3>1. ASSUME NEW m \in Notices, m # n PROVE Telling(m)'
      BY <1>8, <2>2, <3>1
    <3> QED
      BY <2>4, <3>1
  <2> QED
    BY <1>5, <1>7, <2>3, <2>5, Turned, OneGoesOn DEF Turning
<1>11. CASE then = "doneNext"
  <2>1. /\ u = t /\ Marking(t, "doneNext") /\ done[n] = "true" /\ a["isDone"] = "true" /\ n \notin t.todo
    BY <1>1, <1>3, <1>4, <1>6, <1>11 DEF Serves
  <2>2. Owed(task[w], pc[w]) = t.todo \cup {n}
    BY <1>1, <1>2, <1>6, <1>11 DEF Owed, Appending
  <2>3. Telling(n)'
    BY <1>2, <1>5, <2>1 DEF Telling
  <2>4. \A m \in u.todo : m \in Notices /\ Unmarked(m, u.rows[m])'
    <3> SUFFICES ASSUME NEW m \in u.todo PROVE m \in Notices /\ Unmarked(m, u.rows[m])'
      OBVIOUS
    <3>1. m \in Notices /\ m # n /\ Unmarked(m, u.rows[m])
      BY <2>1 DEF Marking
    <3> QED
      BY <1>2, <1>5, <3>1 DEF Unmarked
  <2>5. Phase(u, then)'
    BY <1>11, <2>4 DEF Phase, Upserting, Detailing, Marking, Deleting, InTurn, Appending
  <2>6. Owed(u, then) = t.todo
    BY <1>11, <2>1 DEF Owed
  <2>7. \A m \in Notices : Telling(m)' \/ m \in Owed(u, then)
    <3>1. ASSUME NEW m \in Notices, m # n, m \notin t.todo PROVE Telling(m)'
      BY <1>8, <2>2, <3>1
    <3> QED
      BY <2>3, <2>6, <3>1
  <2> QED
    BY <1>5, <1>7, <2>5, <2>7, Turned, OneGoesOn DEF Turning
<1> QED
  BY <1>3, <1>6, <1>9, <1>10, <1>11 DEF Serves

-----------------------------------------------------------------------------
(* The theorem                                                             *)

LEMMA InitSerial == Init => Serial
<1> SUFFICES ASSUME Init PROVE Serial
  OBVIOUS
<1>1. \A n \in Notices : row[n] = None /\ chain[n] = <<>> /\ done[n] = None
  BY DEF Init
<1>2. \A n \in Notices : Known(n) /\ Telling(n)
  BY <1>1 DEF Known, Telling
<1>3. \A w \in Writers : pc[w] = "idle"
  BY DEF Init
<1>4. \A w \in Writers : Phase(task[w], pc[w])
  BY <1>3, AtRest
<1> QED
  BY <1>2, <1>3, <1>4 DEF Serial, Told, OneAtATime

\* A step of calls that come one after the other, and do not fail.
LEMMA SerialStep ==
  ASSUME NullIsNothing, OwnIdentities, Flawless, AllInv, Serial, Next, OneAtATime'
  PROVE  Serial'
<1>1. ~ Crash
  <2>1. crashes \in Nat
    BY DEF AllInv, DataInv
  <2> QED
    BY <2>1 DEF Crash, Flawless
<1>2. PICK w \in Writers : WriterStep(w)
  BY <1>1 DEF Next
<1>3. ~ CallThrows(w) /\ ~ TxConflict(w)
  <2>1. faults \in Nat
    BY DEF AllInv, DataInv
  <2> QED
    BY <2>1 DEF CallThrows, TxConflict, Flawless
<1>4. Tables'
  BY NextAllInv DEF AllInv, DataInv, Tables
<1>5. Alone(w)
  <2>1. (Outside(w) \/ Enters(w) \/ Turn(w))
    BY <1>2, WriterStepShape DEF AllInv, Turns, TurnsSerialize
  <2>2. \A v \in Writers \ {w} : pc'[v] = pc[v]
    BY <2>1 DEF Outside, Enters, Turn, Stays, Leaves, Moves, AllInv, IInv, Tasks
  <2>3. pc[w] # "idle" \/ pc'[w] # "idle"
    <3>1. DOMAIN pc = Writers
      BY DEF AllInv, IInv, Tasks
    <3>2. CASE pc[w] = "idle"
      <4>1. Start(w)
        BY <1>2, <1>3, <3>2 DEF WriterStep, Progress, AppendStep, UpsertResolve, UpsertSave, UpsertState,
             UpsertAppend, NsmBaseline, NsmAppend, DoneRows, DoneMark, DoneNext, DeleteAppend,
             DeleteState, GenesisFilter, GenesisNext, AppendDedupe, TxRead, TxHashConflict,
             TxHeightConflict, TxCommit, Committable
      <4> QED
        BY <3>1, <4>1 DEF Start, UpsertStart, NsmStart, DoneStart, DeleteStart, GenesisStart, Goto
    <3> QED
      BY <3>2
  <2> QED
    BY <2>2, <2>3 DEF Alone, Serial, OneAtATime
<1>6. Turning(w)
  BY <1>5 DEF Turning
<1>7. CASE Start(w)
  BY <1>6, <1>7, UpsertStarts, NsmStarts, DoneStarts, DeleteStarts, NothingToSeed DEF Start
<1>8. CASE UpsertResolve(w) \/ UpsertSave(w) \/ UpsertState(w) \/ UpsertAppend(w)
  BY <1>6, <1>8, UpsertResolves, UpsertSaves, UpsertStates, UpsertAppends
<1>9. CASE NsmBaseline(w) \/ NsmAppend(w)
  BY <1>6, <1>9, NsmReads, NsmAppends
<1>10. CASE DoneRows(w) \/ DoneMark(w) \/ DoneNext(w)
  BY <1>4, <1>6, <1>10, DoneLoads, DoneMarks, DoneAppends
<1>11. CASE DeleteAppend(w) \/ DeleteState(w)
  BY <1>4, <1>6, <1>11, DeleteAppends, DeleteStates
<1>12. CASE AppendStep(w)
  BY <1>3, <1>6, <1>12, Dedupes, Reads, HashConflicts, NoHeightConflict, Commits DEF AppendStep
<1> QED
  BY <1>2, <1>3, <1>6, <1>7, <1>8, <1>9, <1>10, <1>11, <1>12, NothingToSeed DEF WriterStep, Progress

LEMMA SerialStutters ==
  ASSUME Serial, UNCHANGED <<db, task, pc>>
  PROVE  Serial'
<1>1. row' = row /\ chain' = chain /\ done' = done /\ task' = task /\ pc' = pc
  BY DEF db
<1>2. \A n \in Notices : Known(n)' /\ (Telling(n) => Telling(n)')
  BY <1>1, KnownStays DEF Serial
<1>3. ASSUME NEW w \in Writers PROVE Phase(task[w], pc[w])'
  <2>1. PICK t, at : t = task[w] /\ at = pc[w]
    OBVIOUS
  <2>2. Phase(t, at)
    BY <2>1 DEF Serial
  <2>3. Phase(t, at)'
    BY <2>2, PhaseStays
  <2>4. t = task'[w] /\ at = pc'[w]
    BY <1>1, <2>1
  <2>5. Phase(task[w], pc[w])' <=> Phase(t, at)'
    BY <2>4 DEF Phase, Upserting, Detailing, Marking, Deleting, InTurn, Serves
  <2> QED
    BY <2>3, <2>5
<1>4. Told'
  <2>1. \A w \in Writers : Owed(task[w], pc[w])' = Owed(task[w], pc[w])
    BY <1>1 DEF Owed
  <2> QED
    BY <1>2, <2>1 DEF Serial, Told
<1>5. OneAtATime'
  BY <1>1 DEF Serial, OneAtATime
<1> QED
  BY <1>2, <1>3, <1>4, <1>5 DEF Serial

\* What is known of archive and chain is what the audit rebuilds.
LEMMA AuditAgrees ==
  ASSUME AllInv, Serial
  PROVE  ArchiveConsistent
<1>1. AuditCleanUnlessDeleted
  <2> SUFFICES ASSUME NEW n \in Notices, NEW i \in DOMAIN chain[n], AuditIssue(n, chain[n], i)
               PROVE  /\ chain[n][i].source = Nsm
                      /\ Replay(chain[n], i)["lifecycle"] = "source_deleted"
    BY DEF AuditCleanUnlessDeleted, Nsm
  <2>1. PICK c, e, b, a : /\ c = chain[n] /\ e = c[i] /\ b = (IF i = 1 THEN None ELSE Replay(c, i - 1))
                          /\ a = Replay(c, i)
    OBVIOUS
  <2>2. c # <<>>
    BY <2>1
  <2>3. e.hash.num = n /\ Retold(c, i)
    BY <2>1, <2>2 DEF Serial, Known
  <2>4. e.height = i /\ e.prev = IF i = 1 THEN None ELSE c[i - 1].hash
    BY <2>1 DEF AllInv, IInv, ChainLinked, Linked
  <2>5. /\ DOMAIN e.details = DOMAIN Diff(b, a)
        /\ e.hash = [num |-> n, type |-> e.type, source |-> e.source, at |-> e.at, before |-> b, after |-> a]
        /\ \/ e.type = EventType(b, a, None)
           \/ e.source = Nsm /\ a["lifecycle"] = "source_deleted"
    BY <2>1, <2>3 DEF Retold
  <2>6. ASSUME e.type = EventType(b, a, None) PROVE FALSE
    <3>1. PICK r : r = Rebuilt(n, c, i)
      OBVIOUS
    <3>2. r = BuildEvent(n, e.source, None, b, a, e.at)
      BY <2>1, <3>1 DEF Rebuilt
    <3>3. r.type = e.type /\ r.hash = e.hash /\ DOMAIN r.details = DOMAIN e.details
      BY <2>5, <2>6, <3>2 DEF BuildEvent
    <3> QED
      BY <2>1, <2>4, <3>1, <3>3 DEF AuditIssue
  <2> QED
    BY <2>1, <2>5, <2>6
<1>2. DoneRecorded
  <2> SUFFICES ASSUME \A w \in Writers : pc[w] = "idle", NEW n \in Notices, row[n] # None, chain[n] # <<>>
               PROVE  done[n] = FieldAfter(chain[n], "isDone", None)
    BY DEF DoneRecorded
  <2>1. Telling(n)
    BY AtRest DEF Serial, Told
  <2>2. "isDone" \in Fields
    BY DEF Fields
  <2> QED
    BY <2>1, <2>2 DEF Telling, Says, Story
<1> QED
  BY <1>1, <1>2 DEF ArchiveConsistent

\* The same of ChangeChain on its own: whatever is written by calls of which none begins
\* before the one before it has ended, archive and chain agree.
THEOREM SerialCallsAgree ==
  ASSUME NullIsNothing, OwnIdentities, Flawless
  PROVE  Spec /\ []OneAtATime => []ArchiveConsistent
<1>1. Init => AllInv /\ Serial
  BY InitAllInv, InitSerial
<1>2. AllInv /\ Serial /\ OneAtATime' /\ [Next]_vars => AllInv' /\ Serial'
  <2> SUFFICES ASSUME AllInv, Serial, OneAtATime', [Next]_vars PROVE AllInv' /\ Serial'
    OBVIOUS
  <2>1. AllInv'
    BY NextAllInv
  <2>2. CASE Next
    BY <2>1, <2>2, SerialStep
  <2>3. CASE UNCHANGED vars
    <3>1. UNCHANGED <<db, task, pc>>
      BY <2>3 DEF vars, db
    <3> QED
      BY <2>1, <3>1, SerialStutters
  <2> QED
    BY <2>2, <2>3
<1>3. AllInv /\ Serial => ArchiveConsistent
  BY AuditAgrees
<1> QED
  BY <1>1, <1>2, <1>3, PTL DEF Spec

\* Calls of one writer that do not fail leave archive and chain in agreement, for any number
\* of notices, calls and retries (appendChangeEventWithDetails, upsertNoticeArchive,
\* markNoticesDoneByNums, appendSourceDeletedEventByNoticeNum).
THEOREM CallsAreConsistent ==
  ASSUME NullIsNothing, OwnIdentities, Flawless, Writers = {w1, w2}
  PROVE  ChainAuditSpec => []CallsConsistent
<1> DEFINE SInv == AllInv /\ (component = "calls" => Serial /\ pc[w2] = "idle")
<1>1. ChainAuditInit => SInv
  <2> SUFFICES ASSUME ChainAuditInit PROVE SInv
    OBVIOUS
  <2>1. Init
    BY DEF ChainAuditInit
  <2>2. pc[w2] = "idle"
    BY <2>1 DEF Init
  <2> QED
    BY <2>1, <2>2, InitAllInv, InitSerial
<1>2. SInv /\ [ChainAuditNext]_all => SInv'
  <2> SUFFICES ASSUME SInv, [ChainAuditNext]_all PROVE SInv'
    OBVIOUS
  <2>1. CASE UNCHANGED vars
    <3>1. AllInv'
      BY <2>1, NextAllInv
    <3>2. Serial => Serial'
      <4>1. UNCHANGED <<db, task, pc>>
        BY <2>1 DEF vars, db
      <4> QED
        BY <4>1, SerialStutters
    <3>3. component' = component /\ pc' = pc
      BY <2>1 DEF ChainAuditNext, all, vars
    <3> QED
      BY <3>1, <3>2, <3>3
  <2>2. CASE CallSteps /\ UNCHANGED component
    <3>1. Next /\ pc'[w2] = "idle" /\ component = "calls" /\ component' = component
      BY <2>2 DEF CallSteps
    <3>2. AllInv'
      BY <3>1, NextAllInv
    <3>3. OneAtATime'
      BY <3>1 DEF OneAtATime
    <3> QED
      BY <3>1, <3>2, <3>3, SerialStep
  <2>3. CASE OverlapSteps /\ UNCHANGED component
    <3>1. AllInv' /\ component' # "calls"
      BY <2>3, NextAllInv DEF OverlapSteps
    <3> QED
      BY <3>1
  <2> QED
    BY <2>1, <2>2, <2>3 DEF ChainAuditNext, all
<1>3. SInv => CallsConsistent
  BY AuditAgrees DEF CallsConsistent
<1> QED
  BY <1>1, <1>2, <1>3, PTL DEF ChainAuditSpec
=============================================================================
