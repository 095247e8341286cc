------------------------- MODULE Operations_proofs -------------------------
(***************************************************************************)
(* Proofs about what the admins operate.  DbMirror: its types, that what   *)
(* is announced is complete and public, that dumps are removed, that no    *)
(* chunk is forgotten, and that the channel tells of the latest run.       *)
(* AdminAnnouncement: its types, and that what was confirmed goes out,     *)
(* once unless two clicks overlap.                                         *)
(***************************************************************************)
EXTENDS MCOperations, TLAPS, FiniteSetTheorems, WellFoundedInduction

Pcs == {"unbegun", "copy", "prune", "folder", "upload", "find", "post", "trim",
        "remove", "done", "failed", "killed"}
RunRecords == [pc : Pcs, source : Sources, dump : Nat, made : BOOLEAN, total : Nat \ {0},
               todo : Seq(Nat), job : {"clear", "link", "error"}, seen : SUBSET Nat]
Messages == [id : Nat, kind : Kinds, of : Runs]

\* The parts of the type invariant.
RunsOK ==
  /\ run \in [Runs -> RunRecords]
  /\ \A r \in Runs : run[r].pc = "post" => run[r].job # "clear"
FilesOK == files \subseteq Nat /\ pruned \subseteq Nat /\ excused \subseteq Nat
StoredOK == stored \in [Runs -> SUBSET Nat] /\ public \subseteq Runs
ChannelOK ==
  channel \subseteq Messages /\ posted \in Nat /\ buried \subseteq Nat /\ clean \subseteq Runs
LatestOK == latest \in [of : Runs, sent : BOOLEAN, known : BOOLEAN, tidy : BOOLEAN]
RestOK ==
  /\ process \in {"booting", "up", "closing", "down"} /\ bridge \in BOOLEAN
  /\ second \in Nat /\ mirrorFaults \in Nat
  /\ reply \in [Runs -> {"none", "triggered", "failed"}]
Typed == RunsOK /\ FilesOK /\ StoredOK /\ ChannelOK /\ LatestOK /\ RestOK

Uncopied == {"unbegun", "copy", "prune"}
Unsent == Uncopied \cup {"folder"}
Ended == {"done", "failed", "killed"}

\* What a run has not done yet.
Begun ==
  \A r \in Runs :
    /\ run[r].pc \in Unsent => stored[r] = {}
    /\ run[r].pc \in Uncopied => ~run[r].made

\* A run that has a file of its own on the disk.
Holds(r) == run[r].pc = "prune" \/ (run[r].made /\ run[r].pc \notin Ended)

\* It is there, nobody else's, and pruned once the run says so.
Held ==
  /\ \A r \in Runs : Holds(r) => run[r].dump \in files
  /\ \A r, q \in Runs : Holds(r) /\ Holds(q) /\ run[r].dump = run[q].dump => r = q
  /\ \A r \in Runs : run[r].pc = "folder" => run[r].made /\ run[r].dump \in pruned

\* Every file is somebody's, or was left behind.
Tended == \A f \in files : f \in excused \/ \E r \in Runs : Holds(r) /\ run[r].dump = f

\* What a run that is about to announce its link has seen to.
Verified ==
  \A r \in Runs :
    /\ run[r].pc = "upload" => r \in public
    /\ run[r].pc \in {"find", "post", "trim"} /\ run[r].job # "error" =>
         r \in public /\ Complete(r)

\* What is announced belongs to a run that will not upload any more.
Linked ==
  \A m \in channel : m.kind = "link" =>
    /\ m.of \in public /\ Complete(m.of)
    /\ run[m.of].pc \notin Unsent /\ run[m.of].pc # "upload"

\* The chunks of a run that are still to be sent, none of them twice, and those
\* that are stored make up the dump.
Chunked ==
  \A r \in Runs : run[r].pc = "upload" /\ mirrorFaults = 0 =>
    LET todo == run[r].todo IN
    /\ stored[r] \cup {todo[i] : i \in DOMAIN todo} = 0 .. run[r].total - 1
    /\ Cardinality(stored[r]) + Len(todo) = run[r].total
    /\ \A i \in DOMAIN todo : todo[i] \notin stored[r]
    /\ \A i, j \in DOMAIN todo : todo[i] = todo[j] => i = j
    /\ IsFiniteSet(stored[r])

Sound == Begun /\ Held /\ Tended /\ Verified /\ Linked
IInv == Typed /\ Sound /\ Chunked

-----------------------------------------------------------------------------
(* The order of the chunks                                                 *)

\* The first chunk, the last and those between: each of them once.
THEOREM ChunkOrderIsPermutation ==
  ASSUME NEW total \in Nat \ {0}
  PROVE  /\ ChunkOrder(total) \in Seq(Nat) /\ Len(ChunkOrder(total)) = total
         /\ {ChunkOrder(total)[i] : i \in DOMAIN ChunkOrder(total)} = 0 .. total - 1
         /\ \A i, j \in DOMAIN ChunkOrder(total) :
              ChunkOrder(total)[i] = ChunkOrder(total)[j] => i = j
<1> DEFINE order == ChunkOrder(total)
<1>1. DOMAIN order = 1 .. total
  BY DEF ChunkOrder
<1>2. \A i \in 1 .. total : order[i] = IF i = 1 THEN 0 ELSE IF i = 2 THEN total - 1 ELSE i - 2
  BY DEF ChunkOrder
<1>3. \A i \in 1 .. total : order[i] \in 0 .. total - 1
  BY <1>2
<1>4. \A i, j \in 1 .. total : order[i] = order[j] => i = j
  BY <1>2
<1>5. ASSUME NEW k \in 0 .. total - 1 PROVE \E i \in 1 .. total : order[i] = k
  <2>1. CASE k = 0
    BY <1>2, <2>1
  <2>2. CASE k # 0 /\ k = total - 1
    <3>1. 2 \in 1 .. total /\ order[2] = total - 1
      BY <1>2, <2>2
    <3> QED
      BY <2>2, <3>1
  <2>3. CASE k # 0 /\ k # total - 1
    <3>1. k + 2 \in 1 .. total /\ order[k + 2] = k
      BY <1>2, <2>3
    <3> QED
      BY <3>1
  <2> QED
    BY <2>1, <2>2, <2>3
<1>6. {order[i] : i \in DOMAIN order} = 0 .. total - 1
  BY <1>1, <1>3, <1>5
<1>7. order \in [1 .. total -> Nat]
  <2>1. order = [i \in 1 .. total |-> order[i]]
    BY DEF ChunkOrder
  <2>2. \A i \in 1 .. total : order[i] \in Nat
    BY <1>3
  <2> QED
    BY <2>1, <2>2
<1>8. order \in Seq(Nat) /\ Len(order) = total
  BY <1>7
<1> QED
  BY <1>1, <1>4, <1>6, <1>8

-----------------------------------------------------------------------------
(* The initial states                                                      *)

LEMMA TypedIsTypeOK == Typed => MirrorTypeOK
BY DEF Typed, RunsOK, FilesOK, StoredOK, ChannelOK, LatestOK, RestOK, RunRecords, Pcs,
       Messages, MirrorTypeOK

LEMMA InitTyped == MirrorInit => Typed
<1> SUFFICES ASSUME MirrorInit PROVE Typed
  OBVIOUS
<1> USE MirrorAssumption
<1>1. \A pc \in {"unbegun", "done"} : NotRunning(pc) \in RunRecords /\ NotRunning(pc).pc = pc
  BY DEF NotRunning, RunRecords, Pcs, Sources
<1>2. RunsOK
  BY <1>1 DEF MirrorInit, RunsOK
<1>3. FilesOK /\ StoredOK
  BY DEF MirrorInit, FilesOK, StoredOK
<1>4. Leftovers \subseteq Messages
  BY DEF Leftovers, Messages, Kinds
<1>5. IsFiniteSet(channel)
  <2>1. IsFiniteSet(Leftovers)
    <3> DEFINE a == [id |-> 0, kind |-> "link", of |-> Past]
               b == [id |-> 1, kind |-> "link", of |-> Past]
               c == [id |-> 2, kind |-> "error", of |-> Past]
    <3>1. IsFiniteSet({} \cup {a})
      BY FS_EmptySet, FS_AddElement
    <3>2. IsFiniteSet(({} \cup {a}) \cup {b})
      BY <3>1, FS_AddElement
    <3>3. IsFiniteSet((({} \cup {a}) \cup {b}) \cup {c})
      BY <3>2, FS_AddElement
    <3>4. Leftovers = (({} \cup {a}) \cup {b}) \cup {c}
      BY DEF Leftovers
    <3> QED
      BY <3>3, <3>4
  <2> QED
    BY <2>1, FS_EmptySet DEF MirrorInit
<1>6. ChannelOK
  BY <1>4, <1>5, FS_CardinalityType DEF MirrorInit, ChannelOK
<1>7. LatestOK /\ RestOK
  BY DEF MirrorInit, LatestOK, RestOK, Nothing
<1> QED
  BY <1>2, <1>3, <1>6, <1>7 DEF Typed

LEMMA InitSound == MirrorInit => Sound /\ Chunked
<1> SUFFICES ASSUME MirrorInit PROVE Sound /\ Chunked
  OBVIOUS
<1> USE MirrorAssumption
<1>1. \A r \in Runs : /\ run[r].pc \in {"unbegun", "done"} /\ ~run[r].made
                      /\ run[r].total = 1
                      /\ run[r].pc = "unbegun" => stored[r] = {}
  BY DEF MirrorInit, NotRunning
<1>2. Begun /\ Verified /\ Chunked
  BY <1>1 DEF Begun, Verified, Chunked, Unsent, Uncopied
<1>3. Held /\ Tended
  BY <1>1 DEF Held, Tended, Holds, MirrorInit
<1>4. Past \in public /\ stored[Past] = {0} /\ run[Past].pc = "done" /\ run[Past].total = 1
  BY DEF MirrorInit, NotRunning
<1>5. Complete(Past)
  BY <1>4 DEF Complete
<1>6. \A m \in channel : m.of = Past
  BY DEF MirrorInit, Leftovers
<1>7. Linked
  BY <1>4, <1>5, <1>6 DEF Linked, Unsent, Uncopied
<1> QED
  BY <1>2, <1>3, <1>7 DEF Sound

-----------------------------------------------------------------------------
(* Steps that leave the dumps alone                                        *)

\* A step counts a fault or none.
LEMMA FaultFacts ==
  ASSUME RestOK, Fault \/ NoFault
  PROVE  mirrorFaults' \in Nat /\ (mirrorFaults' = 0 => mirrorFaults = 0)
BY DEF RestOK, Fault, NoFault

\* A run other than r is as it was, and r keeps its dump and its parts.
Onward(r) ==
  /\ \A q \in Runs \ {r} : run'[q] = run[q]
  /\ run'[r].dump = run[r].dump /\ run'[r].made = run[r].made
  /\ run'[r].total = run[r].total
  /\ run'[r].pc \in {"find", "post", "trim", "remove"}

\* What is in the channel after a step was there before, or is about r.
Retold(r) ==
  \A m \in channel' : m.kind = "link" =>
    (m.of = r /\ r \in public /\ Complete(r)) \/ m \in channel

\* A run that turns to the channel or goes on there.
LEMMA OnwardIsSound ==
  ASSUME Typed, Sound, Chunked, NEW r \in Runs, Onward(r), Retold(r),
         run[r].pc \notin {"unbegun", "prune"} \cup Ended,
         run'[r].pc # "remove" /\ run'[r].job # "error" => r \in public /\ Complete(r),
         UNCHANGED <<files, pruned, excused, stored, public>>,
         mirrorFaults' = 0 => mirrorFaults = 0
  PROVE  (Sound /\ Chunked)'
<1>1. \A q \in Runs : Holds(q)' <=> Holds(q)
  BY DEF Sound, Onward, Holds, Begun, Uncopied, Ended
<1>2. \A q \in Runs : run'[q].dump = run[q].dump /\ (Complete(q)' <=> Complete(q))
  BY DEF Onward, Complete
<1>3. Begun'
  BY DEF Sound, Onward, Begun, Unsent, Uncopied
<1>4. Held'
  BY <1>1, <1>2 DEF Sound, Held, Onward
<1>5. Tended'
  BY <1>1, <1>2 DEF Sound, Tended
<1>6. Verified'
  BY <1>2 DEF Sound, Verified, Onward
<1>7. Linked'
  <2> SUFFICES ASSUME NEW m \in channel', m.kind = "link"
               PROVE  /\ m.of \in public /\ Complete(m.of)'
                      /\ run'[m.of].pc \notin Unsent /\ run'[m.of].pc # "upload"
    BY DEF Linked
  <2>1. CASE m.of = r /\ r \in public /\ Complete(r)
    BY <1>2, <2>1 DEF Onward, Unsent, Uncopied
  <2>2. CASE m \in channel
    <3>1. m.of \in Runs
      BY <2>2 DEF Typed, ChannelOK, Messages
    <3>2. m.of \in public /\ Complete(m.of) /\ run[m.of].pc \notin Unsent /\ run[m.of].pc # "upload"
      BY <2>2 DEF Sound, Linked
    <3>3. run'[m.of].pc \notin Unsent /\ run'[m.of].pc # "upload"
      BY <3>1, <3>2 DEF Onward, Unsent, Uncopied
    <3> QED
      BY <1>2, <3>1, <3>2, <3>3
  <2> QED
    BY <2>1, <2>2 DEF Retold
<1>8. Chunked'
  BY DEF Chunked, Onward
<1> QED
  BY <1>3, <1>4, <1>5, <1>6, <1>7, <1>8 DEF Sound

\* The other conditions of a step that only leads r to or through the channel.
LEMMA ToChannelFacts ==
  ASSUME RunsOK, NEW r \in Runs, NEW job \in {"clear", "error"}, ToChannel(r, job),
         ChannelOK
  PROVE  /\ RunsOK' /\ Onward(r) /\ run'[r].pc = "find" /\ run'[r].job = job
         /\ clean' \subseteq Runs
<1>1. /\ run' \in [Runs -> RunRecords] /\ run'[r].pc = "find" /\ run'[r].job = job
      /\ run'[r].dump = run[r].dump /\ run'[r].made = run[r].made
      /\ run'[r].total = run[r].total /\ \A q \in Runs \ {r} : run'[q] = run[q]
  BY ZenonT(60) DEF RunsOK, RunRecords, Pcs, ToChannel
<1>2. \A q \in Runs : run'[q].pc = "post" => run'[q].job # "clear"
  BY <1>1 DEF RunsOK
<1>3. clean' \subseteq Runs
  BY DEF ToChannel
<1> QED
  BY <1>1, <1>2, <1>3 DEF RunsOK, Onward

LEMMA LeavesFacts ==
  ASSUME RunsOK, NEW r \in Runs, NEW ok \in BOOLEAN, Leaves(r, ok), ChannelOK, LatestOK
  PROVE  /\ RunsOK' /\ Onward(r) /\ clean' \subseteq Runs /\ LatestOK'
         /\ run'[r].pc # "remove" /\ run'[r].job # "error" => run[r].job = "clear"
<1>1. CASE run[r].job = "clear"
  <2>1. /\ run' \in [Runs -> RunRecords] /\ run'[r].pc = "find"
        /\ run'[r].dump = run[r].dump /\ run'[r].made = run[r].made
        /\ run'[r].total = run[r].total /\ \A q \in Runs \ {r} : run'[q] = run[q]
    <3>1. run' = [run EXCEPT ![r] = [@ EXCEPT !.pc = "find", !.job = "link", !.seen = {}]]
      BY <1>1 DEF Leaves
    <3> QED
      BY <3>1, ZenonT(60) DEF RunsOK, RunRecords, Pcs
  <2>2. RunsOK'
    BY <2>1 DEF RunsOK
  <2>3. clean' \subseteq Runs /\ LatestOK'
    BY <1>1 DEF Leaves, ChannelOK, LatestOK
  <2> QED
    BY <1>1, <2>1, <2>2, <2>3 DEF Onward
<1>2. CASE run[r].job # "clear"
  <2>1. /\ run' \in [Runs -> RunRecords] /\ run'[r].pc = "remove"
        /\ run'[r].dump = run[r].dump /\ run'[r].made = run[r].made
        /\ run'[r].total = run[r].total /\ \A q \in Runs \ {r} : run'[q] = run[q]
    <3>1. run' = [run EXCEPT ![r] = [@ EXCEPT !.pc = "remove"]]
      BY <1>2 DEF Leaves, At
    <3> QED
      BY <3>1, ZenonT(60) DEF RunsOK, RunRecords, Pcs
  <2>2. RunsOK'
    BY <2>1 DEF RunsOK
  <2>3. clean' \subseteq Runs
    BY <1>2 DEF Leaves, ChannelOK
  <2>4. LatestOK'
    <3> DEFINE sent == run[r].job = "link"
               good == ok /\ r \in clean
               tidy == IF sent THEN good ELSE good /\ latest.tidy
    <3>1. latest' = [of |-> r, sent |-> sent, known |-> good, tidy |-> tidy]
      BY <1>2 DEF Leaves
    <3>2. sent \in BOOLEAN /\ good \in BOOLEAN /\ tidy \in BOOLEAN
      OBVIOUS
    <3> HIDE DEF sent, good, tidy
    <3> QED
      BY <3>1, <3>2 DEF LatestOK
  <2> QED
    BY <2>1, <2>2, <2>3, <2>4 DEF Onward
<1> QED
  BY <1>1, <1>2

-----------------------------------------------------------------------------
(* The steps, one by one                                                   *)

LEMMA VerifiesKeeps ==
  ASSUME IInv, NEW r \in Runs, Verifies(r)
  PROVE  IInv'
<1> USE DEF IInv, Typed
<1>1. PICK job \in {"clear", "error"} : ToChannel(r, job) /\ (job = "clear" => Complete(r))
  BY DEF Verifies
<1>2. RunsOK' /\ Onward(r) /\ run'[r].pc = "find" /\ run'[r].job = job /\ clean' \subseteq Runs
  BY <1>1, ToChannelFacts
<1>3. mirrorFaults' \in Nat /\ (mirrorFaults' = 0 => mirrorFaults = 0)
  BY FaultFacts DEF Verifies
<1>4. Typed'
  BY <1>2, <1>3 DEF Verifies, FilesOK, StoredOK, ChannelOK, LatestOK, RestOK, messages
<1>5. r \in public
  BY DEF Verifies, Sound, Verified
<1>6. Retold(r)
  BY DEF Verifies, Retold, messages
<1>7. Sound' /\ Chunked'
  BY <1>1, <1>2, <1>3, <1>5, <1>6, OnwardIsSound DEF Verifies, Ended
<1> QED
  BY <1>4, <1>7

LEMMA FindsKeeps ==
  ASSUME IInv, NEW r \in Runs, Finds(r)
  PROVE  IInv'
<1> USE DEF IInv, Typed
<1>1. mirrorFaults' \in Nat /\ (mirrorFaults' = 0 => mirrorFaults = 0)
  BY FaultFacts DEF Finds
<1>2. /\ RunsOK' /\ Onward(r) /\ clean' \subseteq Runs /\ LatestOK'
      /\ run'[r].pc # "remove" /\ run'[r].job # "error" => run[r].job # "error"
      /\ buried' \subseteq Nat
  <2>1. CASE Leaves(r, FALSE) /\ UNCHANGED buried
    BY <2>1, LeavesFacts DEF ChannelOK
  <2>2. CASE ~ (Leaves(r, FALSE) /\ UNCHANGED buried)
    <3>1. IdsOf(KindOf(run[r].job)) \in SUBSET Nat
      BY DEF ChannelOK, Messages, IdsOf
    <3>2. PICK ids \in SUBSET Nat :
            /\ run' = [run EXCEPT ![r] = [@ EXCEPT !.pc = AfterFind(run[r].job), !.seen = ids]]
            /\ buried' = (buried \cup IdsOf(KindOf(run[r].job))) \ ids
            /\ UNCHANGED <<clean, latest>>
      <4>1. PICK oldest \in 0 .. posted :
              LET seen == {i \in IdsOf(KindOf(run[r].job)) : i >= oldest} IN
              /\ run' = [run EXCEPT ![r] = [@ EXCEPT !.pc = AfterFind(run[r].job), !.seen = seen]]
              /\ buried' = (buried \cup IdsOf(KindOf(run[r].job))) \ seen
              /\ UNCHANGED <<clean, latest>>
        BY <2>2 DEF Finds
      <4>2. {i \in IdsOf(KindOf(run[r].job)) : i >= oldest} \in SUBSET Nat
        BY <3>1
      <4> QED
        BY <4>1, <4>2
    <3>3. /\ run' \in [Runs -> RunRecords] /\ run'[r].pc \in {"trim", "post"}
          /\ run'[r].pc = "post" => run[r].job # "clear"
          /\ run'[r].dump = run[r].dump /\ run'[r].made = run[r].made
          /\ run'[r].job = run[r].job
          /\ run'[r].total = run[r].total /\ \A q \in Runs \ {r} : run'[q] = run[q]
      <4>1. PICK pc \in {"trim", "post"} :
              /\ pc = "post" => run[r].job # "clear"
              /\ run' = [run EXCEPT ![r] = [@ EXCEPT !.pc = pc, !.seen = ids]]
        BY <3>2 DEF AfterFind
      <4> QED
        BY <4>1, ZenonT(60) DEF RunsOK, RunRecords, Pcs
    <3>4. RunsOK'
      BY <3>3 DEF RunsOK
    <3> QED
      BY <3>1, <3>2, <3>3, <3>4 DEF Onward, ChannelOK, LatestOK
  <2> QED
    BY <2>1, <2>2
<1>3. Typed'
  BY <1>1, <1>2 DEF Finds, FilesOK, StoredOK, ChannelOK, RestOK
<1>4. run[r].job # "error" => r \in public /\ Complete(r)
  BY DEF Finds, Sound, Verified
<1>5. Retold(r)
  BY DEF Finds, Retold
<1>6. Sound' /\ Chunked'
  BY <1>1, <1>2, <1>4, <1>5, OnwardIsSound DEF Finds, Ended
<1> QED
  BY <1>3, <1>6

LEMMA PostsKeeps ==
  ASSUME IInv, NEW r \in Runs, Posts(r)
  PROVE  IInv'
<1> USE DEF IInv, Typed
<1>1. mirrorFaults' \in Nat /\ (mirrorFaults' = 0 => mirrorFaults = 0)
  BY FaultFacts DEF Posts
<1>b. buried' = buried
  BY DEF Posts
<1>2. run[r].pc = "post" /\ run[r].job \in Kinds
  BY DEF Posts, RunsOK, RunRecords, Kinds
<1>3. run[r].job # "error" => r \in public /\ Complete(r)
  BY <1>2 DEF Sound, Verified
<1>4. /\ RunsOK' /\ Onward(r) /\ clean' \subseteq Runs /\ LatestOK'
      /\ run'[r].pc # "remove" /\ run'[r].job # "error" => run[r].job # "error"
      /\ ChannelOK' /\ Retold(r)
  <2>1. CASE Leaves(r, FALSE) /\ UNCHANGED <<channel, posted>>
    BY <1>b, <2>1, LeavesFacts DEF ChannelOK, Retold
  <2>2. ASSUME NEW id \in Nat, NEW others \in SUBSET channel, NEW seen \in SUBSET Nat,
               channel' = others \cup {[id |-> id, kind |-> run[r].job, of |-> r]},
               run' = [run EXCEPT ![r] = [@ EXCEPT !.pc = "trim", !.seen = seen]],
               posted' \in Nat, UNCHANGED <<clean, latest>>
        PROVE  /\ RunsOK' /\ Onward(r) /\ clean' \subseteq Runs /\ LatestOK'
               /\ run'[r].pc # "remove" /\ run'[r].job # "error" => run[r].job # "error"
               /\ ChannelOK' /\ Retold(r)
    <3>1. /\ run' \in [Runs -> RunRecords] /\ run'[r].pc = "trim" /\ run'[r].job = run[r].job
          /\ run'[r].dump = run[r].dump /\ run'[r].made = run[r].made
          /\ run'[r].total = run[r].total /\ \A q \in Runs \ {r} : run'[q] = run[q]
      BY <2>2, ZenonT(60) DEF RunsOK, RunRecords, Pcs
    <3>2. RunsOK' /\ Onward(r)
      BY <3>1 DEF RunsOK, Onward
    <3>3. [id |-> id, kind |-> run[r].job, of |-> r] \in Messages
      BY <1>2 DEF Messages
    <3>4. ChannelOK'
      BY <1>b, <2>2, <3>3 DEF ChannelOK
    <3>5. Retold(r)
      BY <1>3, <2>2 DEF Retold
    <3> QED
      BY <2>2, <3>1, <3>2, <3>4, <3>5 DEF ChannelOK, LatestOK
  <2>3. CASE /\ run[r].seen = {} /\ channel' = channel \cup {[id |-> posted, kind |-> run[r].job, of |-> r]}
             /\ posted' = posted + 1 /\ At(r, "trim") /\ UNCHANGED <<clean, latest>>
    <3>1. posted \in Nat /\ posted' \in Nat
      BY <2>3 DEF ChannelOK
    <3>2. run' = [run EXCEPT ![r] = [@ EXCEPT !.pc = "trim", !.seen = {}]]
      BY <2>3 DEF At, RunsOK, RunRecords
    <3> QED
      BY <2>2, <2>3, <3>1, <3>2
  <2>4. CASE /\ Max(run[r].seen) \in Ids
             /\ channel' = {m \in channel : m.id # Max(run[r].seen)}
                             \cup {[id |-> Max(run[r].seen), kind |-> run[r].job, of |-> r]}
             /\ run' = [run EXCEPT ![r] = [@ EXCEPT !.pc = "trim", !.seen = run[r].seen \ {Max(run[r].seen)}]]
             /\ UNCHANGED <<posted, clean, latest>>
    <3> DEFINE newest == Max(run[r].seen)
    <3>1. newest \in Nat
      BY <2>4 DEF Ids, ChannelOK, Messages
    <3> HIDE DEF newest
    <3>2. run[r].seen \ {newest} \in SUBSET Nat
      BY DEF RunsOK, RunRecords
    <3>3. {m \in channel : m.id # newest} \in SUBSET channel
      OBVIOUS
    <3>4. /\ channel' = {m \in channel : m.id # newest}
                          \cup {[id |-> newest, kind |-> run[r].job, of |-> r]}
          /\ run' = [run EXCEPT ![r] = [@ EXCEPT !.pc = "trim", !.seen = run[r].seen \ {newest}]]
      BY <2>4 DEF newest, RunsOK
    <3>5. posted' \in Nat
      BY <2>4 DEF ChannelOK
    <3> QED
      BY <2>2, <2>4, <3>1, <3>2, <3>3, <3>4, <3>5
  <2> QED
    BY <2>1, <2>3, <2>4 DEF Posts
<1>5. Typed'
  BY <1>1, <1>4 DEF Posts, FilesOK, StoredOK, RestOK
<1>6. Sound' /\ Chunked'
  BY <1>1, <1>2, <1>3, <1>4, OnwardIsSound DEF Posts, Ended
<1> QED
  BY <1>5, <1>6

LEMMA TrimsKeeps ==
  ASSUME IInv, NEW r \in Runs, Trims(r)
  PROVE  IInv'
<1> USE DEF IInv, Typed
<1>1. mirrorFaults' \in Nat /\ (mirrorFaults' = 0 => mirrorFaults = 0)
  BY FaultFacts DEF Trims
<1>2. /\ RunsOK' /\ Onward(r) /\ clean' \subseteq Runs /\ LatestOK'
      /\ run'[r].pc # "remove" /\ run'[r].job # "error" => run[r].job # "error"
      /\ channel' \subseteq channel
  <2>1. CASE Leaves(r, TRUE) /\ UNCHANGED channel
    BY <2>1, LeavesFacts
  <2>2. CASE ~ (Leaves(r, TRUE) /\ UNCHANGED channel)
    <3> DEFINE newest == Max(run[r].seen)
    <3>1. /\ run[r].pc = "trim" /\ run' = [run EXCEPT ![r] = [@ EXCEPT !.seen = run[r].seen \ {newest}]]
          /\ UNCHANGED latest /\ clean' \subseteq clean
          /\ channel' \subseteq channel
      BY <2>2 DEF Trims
    <3> HIDE DEF newest
    <3>2. /\ run' \in [Runs -> RunRecords] /\ run'[r].pc = "trim" /\ run'[r].job = run[r].job
          /\ run'[r].dump = run[r].dump /\ run'[r].made = run[r].made
          /\ run'[r].total = run[r].total /\ \A q \in Runs \ {r} : run'[q] = run[q]
      BY <3>1, ZenonT(60) DEF RunsOK, RunRecords, Pcs
    <3>3. RunsOK' /\ Onward(r)
      BY <3>2 DEF RunsOK, Onward
    <3> QED
      BY <3>1, <3>2, <3>3 DEF ChannelOK, LatestOK
  <2> QED
    BY <2>1, <2>2
<1>3. Typed'
  BY <1>1, <1>2 DEF Trims, FilesOK, StoredOK, ChannelOK, RestOK
<1>4. run[r].job # "error" => r \in public /\ Complete(r)
  BY DEF Trims, Sound, Verified
<1>5. Retold(r)
  BY <1>2 DEF Retold
<1>6. Sound' /\ Chunked'
  BY <1>1, <1>2, <1>4, <1>5, OnwardIsSound DEF Trims, Ended
<1> QED
  BY <1>3, <1>6

\* A run that has not gone beyond its folder is not what the channel tells of.
LEMMA NotTold ==
  ASSUME Typed, Sound, NEW r \in Runs, run[r].pc \in Unsent \cup {"upload"},
         NEW m \in channel, m.kind = "link"
  PROVE  /\ m.of \in Runs /\ m.of # r /\ m.of \in public /\ Complete(m.of)
         /\ run[m.of].pc \notin Unsent /\ run[m.of].pc # "upload"
BY DEF Typed, ChannelOK, Messages, Sound, Linked

\* Steps that change neither a run nor what there is of it.
LEMMA QuietKeeps ==
  ASSUME IInv, UNCHANGED <<run, files, pruned, stored, public, excused, channel>>,
         ChannelOK', LatestOK', RestOK', mirrorFaults' = 0 => mirrorFaults = 0
  PROVE  IInv'
<1> USE DEF IInv, Typed
<1>1. Typed'
  BY DEF RunsOK, FilesOK, StoredOK
<1>2. \A r \in Runs : (Holds(r)' <=> Holds(r)) /\ (Complete(r)' <=> Complete(r))
  BY DEF Holds, Complete
<1>3. Sound'
  <2>1. Begun' /\ Verified'
    BY <1>2 DEF Sound, Begun, Verified
  <2>2. Held' /\ Tended'
    BY <1>2 DEF Sound, Held, Tended
  <2>3. Linked'
    BY <1>2 DEF Sound, Linked, ChannelOK, Messages
  <2> QED
    BY <2>1, <2>2, <2>3 DEF Sound
<1>4. Chunked'
  BY DEF Chunked
<1> QED
  BY <1>1, <1>3, <1>4

\* A run is begun.
LEMMA BeginsKeeps ==
  ASSUME IInv, NEW r \in Runs, NEW source \in Sources, Begins(r, source), RestOK',
         UNCHANGED <<files, pruned, stored, public, excused, channelVars, mirrorFaults>>
  PROVE  IInv'
<1> USE DEF IInv, Typed
<1>1. second \in Nat
  BY DEF RestOK
<1>2. /\ run' \in [Runs -> RunRecords] /\ run'[r].pc = "copy" /\ run'[r].made = run[r].made
      /\ \A q \in Runs \ {r} : run'[q] = run[q]
  <2> DEFINE new == [run[r] EXCEPT !.pc = "copy", !.source = source, !.dump = second]
  <2>1. run \in [Runs -> RunRecords] /\ run' = [run EXCEPT ![r] = new]
    BY DEF Begins, RunsOK
  <2>2. new \in RunRecords /\ new.pc = "copy" /\ new.made = run[r].made
    <3>1. run[r] \in RunRecords
      BY <2>1
    <3> QED
      BY <1>1, <3>1 DEF RunRecords, Pcs
  <2> HIDE DEF new
  <2> QED
    BY <2>1, <2>2
<1>3. run[r].pc = "unbegun" /\ ~run[r].made /\ stored[r] = {}
  BY DEF Begins, Sound, Begun, Unsent, Uncopied
<1>4. Typed'
  BY <1>2 DEF RunsOK, FilesOK, StoredOK, ChannelOK, LatestOK, channelVars, messages
<1>5. ~Holds(r) /\ ~Holds(r)' /\ \A q \in Runs \ {r} : Holds(q)' <=> Holds(q)
  BY <1>2, <1>3 DEF Holds
<1>6. Begun' /\ Verified'
  BY <1>2, <1>3 DEF Sound, Begun, Verified, Complete, Unsent, Uncopied
<1>7. Held' /\ Tended'
  BY <1>2, <1>5 DEF Sound, Held, Tended
<1>8. Linked'
  <2>1. run[r].pc \in Unsent
    BY <1>3 DEF Unsent, Uncopied
  <2>2. \A q \in Runs \ {r} : Complete(q)' <=> Complete(q)
    BY <1>2 DEF Complete
  <2> QED
    BY <1>2, <2>1, <2>2, NotTold DEF Linked, channelVars, messages
<1>9. Chunked'
  BY <1>2 DEF Chunked
<1> QED
  BY <1>4, <1>6, <1>7, <1>8, <1>9 DEF Sound

LEMMA CopiesKeeps ==
  ASSUME IInv, NEW r \in Runs, Copies(r)
  PROVE  IInv'
<1> USE DEF IInv, Typed
<1>1. mirrorFaults' \in Nat /\ (mirrorFaults' = 0 => mirrorFaults = 0)
  BY FaultFacts DEF Copies
<1>2. CASE ToChannel(r, "error") /\ UNCHANGED <<files, pruned>>
  <2>1. RunsOK' /\ Onward(r) /\ run'[r].pc = "find" /\ run'[r].job = "error" /\ clean' \subseteq Runs
    BY <1>2, ToChannelFacts
  <2>2. Typed'
    BY <1>1, <1>2, <2>1 DEF Copies, FilesOK, StoredOK, ChannelOK, LatestOK, RestOK, messages
  <2>3. Retold(r)
    BY DEF Copies, Retold, messages
  <2>4. Sound' /\ Chunked'
    BY <1>1, <1>2, <2>1, <2>3, OnwardIsSound DEF Copies, Ended
  <2> QED
    BY <2>2, <2>4
<1>3. CASE /\ run[r].dump \notin files /\ files' = files \cup {run[r].dump}
           /\ pruned' = pruned \ {run[r].dump} /\ At(r, "prune") /\ UNCHANGED clean
  <2>1. /\ run' \in [Runs -> RunRecords] /\ run'[r].pc = "prune" /\ run'[r].made = run[r].made
        /\ run'[r].dump = run[r].dump /\ \A q \in Runs \ {r} : run'[q] = run[q]
    BY <1>3, ZenonT(60) DEF At, RunsOK, RunRecords, Pcs
  <2>2. run[r].pc = "copy" /\ ~run[r].made /\ stored[r] = {} /\ run[r].dump \in Nat
    BY DEF Copies, Sound, Begun, Unsent, Uncopied, RunsOK, RunRecords
  <2>3. Typed'
    <3>1. RunsOK' /\ FilesOK'
      BY <1>3, <2>1, <2>2 DEF Copies, RunsOK, FilesOK
    <3> QED
      BY <1>1, <1>3, <3>1 DEF Copies, StoredOK, ChannelOK, LatestOK, RestOK, messages
  <2>4. ~Holds(r) /\ Holds(r)' /\ \A q \in Runs \ {r} : Holds(q)' <=> Holds(q)
    BY <2>1, <2>2 DEF Holds
  <2>5. Begun' /\ Verified'
    BY <2>1, <2>2 DEF Copies, Sound, Begun, Verified, Complete, Unsent, Uncopied
  <2>6. \A q \in Runs \ {r} : Holds(q) => run[q].dump # run[r].dump
    BY <1>3 DEF Sound, Held
  <2>7. Held'
    <3>1. \A q \in Runs \ {r} : run'[q].pc = "folder" => run[q].made /\ run[q].dump \in pruned /\ Holds(q)
      BY <2>1 DEF Sound, Held, Holds, Ended
    <3>2. \A q \in Runs : run'[q].pc = "folder" => run'[q].made /\ run'[q].dump \in pruned'
      BY <1>3, <2>1, <2>6, <3>1
    <3>3. \A q \in Runs : Holds(q)' => run'[q].dump \in files'
      BY <1>3, <2>1, <2>4 DEF Sound, Held
    <3>4. \A p, q \in Runs : Holds(p)' /\ Holds(q)' /\ run'[p].dump = run'[q].dump => p = q
      BY <2>1, <2>4, <2>6 DEF Sound, Held
    <3> QED
      BY <3>2, <3>3, <3>4 DEF Held
  <2>8. Tended'
    BY <1>3, <2>1, <2>4 DEF Copies, Sound, Tended
  <2>9. Linked'
    <3>1. run[r].pc \in Unsent
      BY <2>2 DEF Unsent, Uncopied
    <3>2. \A q \in Runs \ {r} : Complete(q)' <=> Complete(q)
      BY <2>1 DEF Copies, Complete
    <3> QED
      BY <2>1, <3>1, <3>2, NotTold DEF Copies, Linked, messages
  <2>10. Chunked'
    BY <1>1, <2>1 DEF Copies, Chunked
  <2> QED
    BY <2>3, <2>5, <2>7, <2>8, <2>9, <2>10 DEF Sound
<1> QED
  BY <1>2, <1>3 DEF Copies

LEMMA PrunesKeeps ==
  ASSUME IInv, NEW r \in Runs, Prunes(r)
  PROVE  IInv'
<1> USE DEF IInv, Typed
<1>1. mirrorFaults' \in Nat /\ (mirrorFaults' = 0 => mirrorFaults = 0)
  BY FaultFacts DEF Prunes
<1>2. run[r].pc = "prune" /\ ~run[r].made /\ stored[r] = {} /\ run[r].dump \in Nat /\ Holds(r)
  BY DEF Prunes, Sound, Begun, Unsent, Uncopied, RunsOK, RunRecords, Holds
<1>3. \A q \in Runs \ {r} : Holds(q) => run[q].dump # run[r].dump
  BY <1>2 DEF Sound, Held
<1>4. /\ RunsOK' /\ FilesOK' /\ clean' \subseteq Runs
      /\ run'[r].dump = run[r].dump /\ \A q \in Runs \ {r} : run'[q] = run[q]
      /\ \/ /\ run'[r].pc = "folder" /\ run'[r].made /\ pruned' = pruned \cup {run[r].dump}
            /\ UNCHANGED excused
         \/ /\ run'[r].pc = "find" /\ ~run'[r].made /\ run'[r].job = "error"
            /\ excused' = excused \cup {run[r].dump} /\ UNCHANGED pruned
  <2>1. CASE /\ pruned' = pruned \cup {run[r].dump} /\ UNCHANGED <<excused, clean>>
             /\ run' = [run EXCEPT ![r] = [@ EXCEPT !.pc = "folder", !.made = TRUE]]
    <3>1. /\ run' \in [Runs -> RunRecords] /\ run'[r].pc = "folder" /\ run'[r].made
          /\ run'[r].dump = run[r].dump /\ \A q \in Runs \ {r} : run'[q] = run[q]
      BY <2>1, ZenonT(60) DEF RunsOK, RunRecords, Pcs
    <3>2. RunsOK' /\ FilesOK'
      BY <1>2, <2>1, <3>1 DEF Prunes, RunsOK, FilesOK
    <3> QED
      BY <2>1, <3>1, <3>2 DEF ChannelOK
  <2>2. CASE ToChannel(r, "error") /\ excused' = excused \cup {run[r].dump} /\ UNCHANGED pruned
    <3>1. RunsOK' /\ Onward(r) /\ run'[r].pc = "find" /\ run'[r].job = "error" /\ clean' \subseteq Runs
      BY <2>2, ToChannelFacts
    <3> QED
      BY <1>2, <2>2, <3>1 DEF Prunes, FilesOK, Onward
  <2> QED
    BY <2>1, <2>2 DEF Prunes
<1>5. Typed'
  BY <1>1, <1>4 DEF Prunes, StoredOK, ChannelOK, LatestOK, RestOK, messages
<1>6. /\ \A q \in Runs \ {r} : Holds(q)' <=> Holds(q)
      /\ Holds(r)' => run'[r].pc = "folder"
  BY <1>4 DEF Holds
<1>7. Begun' /\ Verified'
  BY <1>2, <1>4 DEF Prunes, Sound, Begun, Verified, Complete, Unsent, Uncopied
<1>8. Held'
  <2>1. \A q \in Runs : Holds(q)' => Holds(q) /\ run'[q].dump = run[q].dump
    BY <1>2, <1>4, <1>6
  <2>2. \A q \in Runs : run'[q].pc = "folder" => run'[q].made /\ run'[q].dump \in pruned'
    BY <1>4 DEF Sound, Held
  <2> QED
    BY <2>1, <2>2 DEF Prunes, Sound, Held
<1>9. Tended'
  <2> SUFFICES ASSUME NEW f \in files
               PROVE  f \in excused' \/ \E q \in Runs : Holds(q)' /\ run'[q].dump = f
    BY DEF Prunes, Tended
  <2>1. CASE f = run[r].dump
    BY <1>4, <2>1 DEF Holds, Ended
  <2>2. CASE f # run[r].dump
    BY <1>4, <1>6, <2>2 DEF Sound, Tended
  <2> QED
    BY <2>1, <2>2
<1>10. Linked'
  <2>1. run[r].pc \in Unsent
    BY <1>2 DEF Unsent, Uncopied
  <2>2. \A q \in Runs \ {r} : Complete(q)' <=> Complete(q)
    BY <1>4 DEF Prunes, Complete
  <2> QED
    BY <1>4, <2>1, <2>2, NotTold DEF Prunes, Linked, messages
<1>11. Chunked'
  BY <1>1, <1>4 DEF Prunes, Chunked
<1> QED
  BY <1>5, <1>7, <1>8, <1>9, <1>10, <1>11 DEF Sound

LEMMA CreatesFolderKeeps ==
  ASSUME IInv, NEW r \in Runs, CreatesFolder(r)
  PROVE  IInv'
<1> USE DEF IInv, Typed
<1>1. mirrorFaults' \in Nat /\ (mirrorFaults' = 0 => mirrorFaults = 0)
  BY FaultFacts DEF CreatesFolder
<1>2. run[r].pc = "folder" /\ stored[r] = {} /\ run[r].made /\ run[r].dump \in pruned
  BY DEF CreatesFolder, Sound, Begun, Held, Unsent
<1>3. CASE ToChannel(r, "error") /\ UNCHANGED public
  <2>1. RunsOK' /\ Onward(r) /\ run'[r].pc = "find" /\ run'[r].job = "error" /\ clean' \subseteq Runs
    BY <1>3, ToChannelFacts
  <2>2. Typed'
    BY <1>1, <1>3, <2>1 DEF CreatesFolder, FilesOK, StoredOK, ChannelOK, LatestOK, RestOK, messages
  <2>3. Retold(r)
    BY DEF CreatesFolder, Retold, messages
  <2>4. Sound' /\ Chunked'
    BY <1>1, <1>3, <2>1, <2>3, OnwardIsSound DEF CreatesFolder, Ended
  <2> QED
    BY <2>2, <2>4
<1>4. ASSUME NEW total \in 1 .. Chunks, UNCHANGED clean,
             run' = [run EXCEPT ![r] = [@ EXCEPT !.pc = "upload", !.total = total,
                                                 !.todo = ChunkOrder(total)]],
             public' = IF run[r].dump \in pruned THEN public \cup {r} ELSE public
      PROVE  IInv'
  <2> DEFINE order == ChunkOrder(total)
  <2>1. total \in Nat \ {0}
    BY MirrorAssumption
  <2>2. /\ order \in Seq(Nat) /\ Len(order) = total
        /\ {order[i] : i \in DOMAIN order} = 0 .. total - 1
        /\ \A i, j \in DOMAIN order : order[i] = order[j] => i = j
    BY <2>1, ChunkOrderIsPermutation
  <2>3. run' = [run EXCEPT ![r] = [@ EXCEPT !.pc = "upload", !.total = total, !.todo = order]]
    BY <1>4
  <2> HIDE DEF order
  <2>4. /\ run' \in [Runs -> RunRecords] /\ run'[r].pc = "upload" /\ run'[r].made = run[r].made
        /\ run'[r].dump = run[r].dump /\ run'[r].total = total /\ run'[r].todo = order
        /\ \A q \in Runs \ {r} : run'[q] = run[q]
    <3>1. order \in Seq(Nat)
      BY <2>2
    <3> QED
      BY <2>1, <2>3, <3>1, ZenonT(60) DEF RunsOK, RunRecords, Pcs
  <2>5. public' = public \cup {r}
    BY <1>2, <1>4
  <2>6. Typed'
    BY <1>1, <1>4, <2>4, <2>5
       DEF CreatesFolder, RunsOK, FilesOK, StoredOK, ChannelOK, LatestOK, RestOK, messages
  <2>7. \A q \in Runs : Holds(q)' <=> Holds(q)
    BY <1>2, <2>4 DEF Holds, Ended
  <2>8. \A q \in Runs \ {r} : Complete(q)' <=> Complete(q)
    BY <2>4 DEF CreatesFolder, Complete
  <2>9. Begun' /\ Verified'
    <3>1. Begun'
      BY <1>2, <2>4 DEF CreatesFolder, Sound, Begun, Unsent, Uncopied
    <3>2. Verified'
      BY <2>4, <2>5, <2>8 DEF Sound, Verified
    <3> QED
      BY <3>1, <3>2
  <2>10. Held' /\ Tended'
    <3>1. \A q \in Runs : run'[q].dump = run[q].dump
      BY <2>4
    <3>2. \A q \in Runs : run'[q].pc = "folder" => run'[q].made /\ run'[q].dump \in pruned'
      BY <2>4 DEF CreatesFolder, Sound, Held
    <3>3. Held'
      BY <2>7, <3>1, <3>2 DEF CreatesFolder, Sound, Held
    <3>4. Tended'
      BY <2>7, <3>1 DEF CreatesFolder, Sound, Tended
    <3> QED
      BY <3>3, <3>4
  <2>11. Linked'
    <3>1. run[r].pc \in Unsent
      BY <1>2 DEF Unsent
    <3> QED
      BY <2>4, <2>5, <2>8, <3>1, NotTold DEF CreatesFolder, Linked, messages
  <2>12. Chunked'
    <3>1. stored'[r] = {} /\ IsFiniteSet({}) /\ Cardinality({}) = 0
      BY <1>2, FS_EmptySet DEF CreatesFolder
    <3>2. Cardinality(stored'[r]) + Len(order) = total
      BY <2>1, <2>2, <3>1
    <3>3. ASSUME NEW q \in Runs, q # r, run'[q].pc = "upload", mirrorFaults' = 0
          PROVE  run'[q] = run[q] /\ run[q].pc = "upload" /\ stored'[q] = stored[q] /\ mirrorFaults = 0
      BY <1>1, <2>4, <3>3 DEF CreatesFolder
    <3>4. /\ {} \cup {order[i] : i \in DOMAIN order} = 0 .. total - 1
          /\ \A i \in DOMAIN order : order[i] \notin {}
          /\ \A i, j \in DOMAIN order : order[i] = order[j] => i = j
      BY <2>2
    <3>5. /\ stored'[r] \cup {order[i] : i \in DOMAIN order} = 0 .. total - 1
          /\ Cardinality(stored'[r]) + Len(order) = total
          /\ \A i \in DOMAIN order : order[i] \notin stored'[r]
          /\ \A i, j \in DOMAIN order : order[i] = order[j] => i = j
          /\ IsFiniteSet(stored'[r])
      BY <3>1, <3>2, <3>4
    <3> QED
      BY <2>4, <3>3, <3>5 DEF Chunked
  <2> QED
    BY <2>6, <2>9, <2>10, <2>11, <2>12 DEF Sound
<1> QED
  BY <1>3, <1>4 DEF CreatesFolder

LEMMA UploadsChunkKeeps ==
  ASSUME IInv, NEW r \in Runs, UploadsChunk(r)
  PROVE  IInv'
<1> USE DEF IInv, Typed
<1>1. mirrorFaults' \in Nat /\ (mirrorFaults' = 0 => mirrorFaults = 0)
  BY FaultFacts DEF UploadsChunk
<1>2. run[r].pc = "upload" /\ run[r].todo \in Seq(Nat) /\ run[r].todo # <<>> /\ r \in public
  BY DEF UploadsChunk, Sound, Verified, RunsOK, RunRecords
<1>3. CASE ToChannel(r, "error") /\ UNCHANGED stored
  <2>1. RunsOK' /\ Onward(r) /\ run'[r].pc = "find" /\ run'[r].job = "error" /\ clean' \subseteq Runs
    BY <1>3, ToChannelFacts
  <2>2. Typed'
    BY <1>1, <1>3, <2>1 DEF UploadsChunk, FilesOK, StoredOK, ChannelOK, LatestOK, RestOK, messages
  <2>3. Retold(r)
    BY DEF UploadsChunk, Retold, messages
  <2>4. Sound' /\ Chunked'
    BY <1>1, <1>3, <2>1, <2>3, OnwardIsSound DEF UploadsChunk, Ended
  <2> QED
    BY <2>2, <2>4
<1>4. CASE /\ run' = [run EXCEPT ![r] = [@ EXCEPT !.todo = Tail(run[r].todo)]] /\ UNCHANGED clean
           /\ \/ stored' = [stored EXCEPT ![r] = @ \cup {Head(run[r].todo)}]
              \/ Fault /\ UNCHANGED stored
  <2> DEFINE todo == run[r].todo
             rest == Tail(run[r].todo)
             first == Head(run[r].todo)
  <2>1. /\ rest \in Seq(Nat) /\ first \in Nat /\ Len(todo) \in Nat \ {0}
        /\ Len(rest) = Len(todo) - 1 /\ first = todo[1]
        /\ \A i \in 1 .. Len(todo) - 1 : rest[i] = todo[i + 1]
        /\ DOMAIN todo = 1 .. Len(todo) /\ DOMAIN rest = 1 .. Len(todo) - 1
    BY <1>2
  <2>2. /\ run' = [run EXCEPT ![r] = [@ EXCEPT !.todo = rest]]
        /\ \/ stored' = [stored EXCEPT ![r] = @ \cup {first}]
           \/ Fault /\ UNCHANGED stored
    BY <1>4
  <2> HIDE DEF todo, rest, first
  <2>3. /\ run' \in [Runs -> RunRecords] /\ run'[r].pc = "upload" /\ run'[r].made = run[r].made
        /\ run'[r].dump = run[r].dump /\ run'[r].total = run[r].total /\ run'[r].todo = rest
        /\ \A q \in Runs \ {r} : run'[q] = run[q]
    BY <1>2, <2>1, <2>2, ZenonT(60) DEF RunsOK, RunRecords, Pcs
  <2>4. stored' \in [Runs -> SUBSET Nat] /\ \A q \in Runs \ {r} : stored'[q] = stored[q]
    BY <2>1, <2>2 DEF StoredOK
  <2>5. Typed'
    BY <1>1, <1>2, <1>4, <2>3, <2>4
       DEF UploadsChunk, RunsOK, FilesOK, StoredOK, ChannelOK, LatestOK, RestOK, messages
  <2>6. \A q \in Runs : Holds(q)' <=> Holds(q)
    BY <1>2, <2>3 DEF Holds
  <2>7. \A q \in Runs \ {r} : Complete(q)' <=> Complete(q)
    BY <2>3, <2>4 DEF Complete
  <2>8. Begun' /\ Verified'
    BY <1>2, <2>3, <2>4, <2>7 DEF UploadsChunk, Sound, Begun, Verified, Unsent, Uncopied
  <2>9. Held' /\ Tended'
    BY <2>3, <2>6 DEF UploadsChunk, Sound, Held, Tended
  <2>10. Linked'
    BY <1>2, <2>3, <2>7, NotTold DEF UploadsChunk, Linked, messages
  <2>11. Chunked'
    <3>1. ASSUME mirrorFaults' = 0
          PROVE  /\ stored'[r] \cup {rest[i] : i \in DOMAIN rest} = 0 .. run[r].total - 1
                 /\ Cardinality(stored'[r]) + Len(rest) = run[r].total
                 /\ \A i \in DOMAIN rest : rest[i] \notin stored'[r]
                 /\ \A i, j \in DOMAIN rest : rest[i] = rest[j] => i = j
                 /\ IsFiniteSet(stored'[r])
      <4>1. mirrorFaults = 0
        BY <1>1, <3>1
      <4>2. stored'[r] = stored[r] \cup {first}
        BY <2>2, <3>1, <4>1 DEF Fault, RestOK, StoredOK
      <4>3. /\ stored[r] \cup {todo[i] : i \in DOMAIN todo} = 0 .. run[r].total - 1
            /\ Cardinality(stored[r]) + Len(todo) = run[r].total
            /\ \A i \in DOMAIN todo : todo[i] \notin stored[r]
            /\ \A i, j \in DOMAIN todo : todo[i] = todo[j] => i = j
            /\ IsFiniteSet(stored[r])
        BY <1>2, <4>1 DEF Chunked, todo
      <4>4. first \notin stored[r]
        BY <2>1, <4>3
      <4>5. /\ IsFiniteSet(stored'[r]) /\ Cardinality(stored[r]) \in Nat
            /\ Cardinality(stored'[r]) = Cardinality(stored[r]) + 1
        BY <4>2, <4>3, <4>4, FS_AddElement, FS_CardinalityType
      <4>6. Cardinality(stored'[r]) + Len(rest) = run[r].total
        BY <2>1, <4>3, <4>5
      <4>7. {todo[i] : i \in DOMAIN todo} = {first} \cup {rest[i] : i \in DOMAIN rest}
        <5>1. \A i \in DOMAIN todo : i = 1 \/ (i - 1 \in DOMAIN rest /\ todo[i] = rest[i - 1])
          BY <2>1
        <5>2. \A i \in DOMAIN rest : i + 1 \in DOMAIN todo /\ rest[i] = todo[i + 1]
          BY <2>1
        <5>3. 1 \in DOMAIN todo /\ first = todo[1]
          BY <2>1
        <5> QED
          BY <5>1, <5>2, <5>3
      <4>8. \A i \in DOMAIN rest : i + 1 \in DOMAIN todo /\ i + 1 # 1 /\ rest[i] = todo[i + 1]
        BY <2>1
      <4>9. \A i \in DOMAIN rest : rest[i] # first /\ rest[i] \notin stored[r]
        BY <2>1, <4>3, <4>8
      <4>10. \A i, j \in DOMAIN rest : rest[i] = rest[j] => i = j
        <5>1. ASSUME NEW i \in DOMAIN rest, NEW j \in DOMAIN rest, rest[i] = rest[j]
              PROVE  i + 1 = j + 1 /\ i \in Int /\ j \in Int
          <6>1. i \in Int /\ j \in Int
            BY <2>1
          <6>2. i + 1 \in DOMAIN todo /\ j + 1 \in DOMAIN todo /\ todo[i + 1] = todo[j + 1]
            BY <4>8, <5>1
          <6> QED
            BY <4>3, <6>1, <6>2
        <5> QED
          BY <5>1
      <4> QED
        BY <4>2, <4>3, <4>5, <4>6, <4>7, <4>9, <4>10
    <3>2. ASSUME NEW q \in Runs, q # r, run'[q].pc = "upload", mirrorFaults' = 0
          PROVE  run'[q] = run[q] /\ run[q].pc = "upload" /\ stored'[q] = stored[q] /\ mirrorFaults = 0
      BY <1>1, <2>3, <2>4, <3>2
    <3> QED
      BY <2>3, <3>1, <3>2 DEF Chunked
  <2> QED
    BY <2>5, <2>8, <2>9, <2>10, <2>11 DEF Sound
<1> QED
  BY <1>3, <1>4 DEF UploadsChunk

LEMMA EndsKeeps ==
  ASSUME IInv, NEW r \in Runs, Ends(r)
  PROVE  IInv'
<1> USE DEF IInv, Typed
<1>1. mirrorFaults' \in Nat /\ (mirrorFaults' = 0 => mirrorFaults = 0)
  BY FaultFacts DEF Ends
<1>2. PICK pc \in {"done", "failed"} : At(r, pc)
  BY DEF Ends
<1>3. /\ run' \in [Runs -> RunRecords] /\ run'[r].pc = pc /\ run'[r].made = run[r].made
      /\ run'[r].dump = run[r].dump /\ run'[r].total = run[r].total
      /\ \A q \in Runs \ {r} : run'[q] = run[q]
  BY <1>2, ZenonT(60) DEF At, RunsOK, RunRecords, Pcs
<1>4. run[r].pc = "remove" /\ run[r].dump \in Nat
  BY DEF Ends, RunsOK, RunRecords
<1>5. \/ run[r].made /\ files' = files \ {run[r].dump} /\ UNCHANGED excused
      \/ ~run[r].made /\ UNCHANGED <<files, excused>>
      \/ run[r].made /\ UNCHANGED files /\ excused' = excused \cup {run[r].dump}
  BY DEF Ends, HasDump
<1>6. Typed'
  <2>1. RunsOK' /\ FilesOK'
    BY <1>3, <1>4, <1>5 DEF Ends, RunsOK, FilesOK
  <2>2. process' \in {"booting", "up", "closing", "down"}
    BY DEF Ends, ProcessAfter, RestOK
  <2> QED
    BY <1>1, <2>1, <2>2 DEF Ends, StoredOK, ChannelOK, LatestOK, RestOK, channelVars, messages
<1>7. /\ ~Holds(r)' /\ (Holds(r) <=> run[r].made)
      /\ \A q \in Runs \ {r} : Holds(q)' <=> Holds(q)
  BY <1>3, <1>4 DEF Holds, Ended
<1>8. run[r].made => \A q \in Runs \ {r} : Holds(q) => run[q].dump # run[r].dump
  BY <1>7 DEF Sound, Held
<1>9. \A q \in Runs : Complete(q)' <=> Complete(q)
  BY <1>3 DEF Ends, Complete
<1>10. Begun' /\ Verified'
  BY <1>3, <1>9 DEF Ends, Sound, Begun, Verified, Unsent, Uncopied
<1>11. Held'
  <2>1. \A q \in Runs : Holds(q)' => q # r /\ Holds(q) /\ run'[q] = run[q]
    BY <1>3, <1>7
  <2>2. \A q \in Runs : Holds(q)' => run'[q].dump \in files'
    BY <1>5, <1>8, <2>1 DEF Sound, Held
  <2>3. \A q \in Runs : run'[q].pc = "folder" => run'[q].made /\ run'[q].dump \in pruned'
    BY <1>3 DEF Ends, Sound, Held
  <2> QED
    BY <2>1, <2>2, <2>3 DEF Sound, Held
<1>12. Tended'
  <2> SUFFICES ASSUME NEW f \in files'
               PROVE  f \in excused' \/ \E q \in Runs : Holds(q)' /\ run'[q].dump = f
    BY DEF Tended
  <2>1. f \in files /\ (f \in excused => f \in excused')
    BY <1>5
  <2>2. CASE f \in excused
    BY <2>1, <2>2
  <2>3. ASSUME NEW q \in Runs, Holds(q), run[q].dump = f PROVE f \in excused' \/ (Holds(q)' /\ run'[q].dump = f)
    <3>1. CASE q = r
      BY <1>5, <1>7, <2>3, <3>1
    <3>2. CASE q # r
      BY <1>3, <1>7, <2>3, <3>2
    <3> QED
      BY <3>1, <3>2
  <2> QED
    BY <2>1, <2>2, <2>3 DEF Sound, Tended
<1>13. Linked'
  <2> SUFFICES ASSUME NEW m \in channel, m.kind = "link"
               PROVE  /\ m.of \in public /\ Complete(m.of)'
                      /\ run'[m.of].pc \notin Unsent /\ run'[m.of].pc # "upload"
    BY DEF Ends, Linked, channelVars, messages
  <2>1. /\ m.of \in Runs /\ m.of \in public /\ Complete(m.of)
        /\ run[m.of].pc \notin Unsent /\ run[m.of].pc # "upload"
    BY DEF ChannelOK, Messages, Sound, Linked
  <2> QED
    BY <1>3, <1>9, <2>1 DEF Unsent, Uncopied
<1>14. Chunked'
  BY <1>1, <1>3 DEF Ends, Chunked
<1> QED
  BY <1>6, <1>10, <1>11, <1>12, <1>13, <1>14 DEF Sound

LEMMA DiesKeeps ==
  ASSUME IInv, Dies
  PROVE  IInv'
<1> USE DEF IInv, Typed
<1>1. mirrorFaults' \in Nat /\ (mirrorFaults' = 0 => mirrorFaults = 0)
  BY FaultFacts DEF Dies
<1>2. \A r \in Runs : run[r] \in RunRecords /\ run[r].dump \in Nat
  BY DEF RunsOK, RunRecords
<1>3. \A rec \in RunRecords :
        /\ [rec EXCEPT !.pc = "killed"] \in RunRecords
        /\ [rec EXCEPT !.pc = "killed"].pc = "killed"
        /\ [rec EXCEPT !.pc = "killed"].dump = rec.dump
        /\ [rec EXCEPT !.pc = "killed"].total = rec.total
  BY DEF RunRecords, Pcs
<1>4. /\ run' \in [Runs -> RunRecords]
      /\ \A r \in Running : run'[r].pc = "killed" /\ run'[r].dump = run[r].dump
                            /\ run'[r].total = run[r].total
      /\ \A r \in Runs \ Running : run'[r] = run[r]
  <2>1. run' = [r \in Runs |-> IF r \in Running THEN [run[r] EXCEPT !.pc = "killed"] ELSE run[r]]
    BY DEF Dies
  <2>2. Running \subseteq Runs
    BY DEF Running
  <2> QED
    BY <1>2, <1>3, <2>1, <2>2
<1>5. \A r \in Runs \ Running : run[r].pc \in {"unbegun"} \cup Ended
  BY DEF Running, Ended
<1>6. \A r \in Runs : run'[r].pc \in {"unbegun"} \cup Ended
  BY <1>4, <1>5 DEF Ended
<1>7. Typed'
  <2>1. {run[r].dump : r \in Running} \subseteq Nat
    BY <1>2 DEF Running
  <2>2. RunsOK' /\ FilesOK'
    BY <1>4, <1>6, <2>1 DEF Dies, RunsOK, FilesOK, Ended
  <2>3. LatestOK'
    BY DEF Dies, LatestOK
  <2> QED
    BY <1>1, <2>2, <2>3 DEF Dies, StoredOK, ChannelOK, RestOK, messages
<1>8. \A r \in Runs : ~Holds(r)'
  <2>1. \A r \in Runs : run'[r].pc = "unbegun" => ~run'[r].made
    BY <1>4 DEF Sound, Begun, Uncopied
  <2> QED
    BY <1>6, <2>1 DEF Holds, Ended
<1>9. \A r \in Runs : Complete(r)' <=> Complete(r)
  BY <1>4 DEF Dies, Complete
<1>10. Begun'
  <2>1. ASSUME NEW r \in Runs, run'[r].pc \in Unsent PROVE stored'[r] = {} /\ ~run'[r].made
    <3>1. run'[r] = run[r] /\ run[r].pc = "unbegun"
      BY <1>4, <1>6, <2>1 DEF Unsent, Uncopied, Ended
    <3> QED
      BY <3>1 DEF Dies, Sound, Begun, Unsent, Uncopied
  <2> QED
    BY <2>1 DEF Begun, Unsent
<1>11. Verified' /\ Chunked'
  BY <1>6 DEF Verified, Chunked, Ended
<1>12. Held'
  BY <1>6, <1>8 DEF Held, Ended
<1>13. Tended'
  <2>1. \A r \in Runs : Holds(r) => r \in Running
    BY <1>5 DEF Sound, Begun, Uncopied, Holds, Ended
  <2> QED
    BY <2>1 DEF Dies, Sound, Tended
<1>14. Linked'
  <2> SUFFICES ASSUME NEW m \in channel, m.kind = "link"
               PROVE  /\ m.of \in public /\ Complete(m.of)'
                      /\ run'[m.of].pc \notin Unsent /\ run'[m.of].pc # "upload"
    BY DEF Dies, Linked, messages
  <2>1. /\ m.of \in Runs /\ m.of \in public /\ Complete(m.of)
        /\ run[m.of].pc \notin Unsent /\ run[m.of].pc # "upload"
    BY DEF ChannelOK, Messages, Sound, Linked, messages
  <2>2. CASE m.of \in Running
    BY <1>4, <1>9, <2>1, <2>2 DEF Unsent, Uncopied
  <2>3. CASE m.of \notin Running
    BY <1>4, <1>9, <2>1, <2>3
  <2> QED
    BY <2>2, <2>3
<1> QED
  BY <1>7, <1>10, <1>11, <1>12, <1>13, <1>14 DEF Sound

LEMMA StartsKeeps ==
  ASSUME IInv, Starts
  PROVE  IInv'
<1> USE DEF IInv, Typed
<1>1. RestOK'
  BY DEF Starts, Begins, RestOK
<1>2. CASE UNCHANGED run
  <2>1. ChannelOK' /\ LatestOK'
    BY DEF Starts, ChannelOK, LatestOK, channelVars, messages
  <2> QED
    BY <1>1, <1>2, <2>1, QuietKeeps DEF Starts, channelVars, messages
<1>3. ASSUME NEW r \in Runs, Begins(r, "startup") PROVE IInv'
  BY <1>1, <1>3, BeginsKeeps DEF Starts, Sources
<1> QED
  BY <1>2, <1>3 DEF Starts

-----------------------------------------------------------------------------
(* The theorems                                                            *)

LEMMA StepKeeps == IInv /\ [MirrorNext]_mirrorVars => IInv'
<1> SUFFICES ASSUME IInv, [MirrorNext]_mirrorVars PROVE IInv'
  OBVIOUS
<1>1. ASSUME NEW r \in Runs, CronBegins(r) \/ CommandBegins(r) PROVE IInv'
  <2>1. PICK source \in Sources : Begins(r, source)
    BY <1>1 DEF CronBegins, CommandBegins, Sources
  <2>2. RestOK'
    BY <1>1 DEF CronBegins, CommandBegins, Begins, IInv, Typed, RestOK
  <2> QED
    BY <1>1, <2>1, <2>2, BeginsKeeps DEF CronBegins, CommandBegins
<1>2. ASSUME NEW r \in Runs, RunStep(r) PROVE IInv'
  BY <1>2, CopiesKeeps, PrunesKeeps, CreatesFolderKeeps, UploadsChunkKeeps, VerifiesKeeps,
     FindsKeeps, PostsKeeps, TrimsKeeps, EndsKeeps DEF RunStep
<1>3. CASE Ticks \/ BridgeReady \/ BridgeCloses \/ UNCHANGED mirrorVars
  <2>1. UNCHANGED <<run, files, pruned, stored, public, excused, channelVars, mirrorFaults>>
    <3>1. CASE Ticks \/ BridgeReady \/ BridgeCloses
      BY <3>1 DEF Ticks, BridgeReady, BridgeCloses, runVars
    <3>2. CASE UNCHANGED mirrorVars
      BY <3>2 DEF mirrorVars, runVars
    <3> QED
      BY <1>3, <3>1, <3>2
  <2>2. RestOK'
    <3> USE DEF IInv, Typed, RestOK, runVars
    <3>1. CASE Ticks
      BY <3>1 DEF Ticks
    <3>2. CASE BridgeReady
      BY <3>2 DEF BridgeReady
    <3>3. CASE BridgeCloses
      BY <3>3 DEF BridgeCloses
    <3>4. CASE UNCHANGED mirrorVars
      BY <3>4 DEF mirrorVars
    <3> QED
      BY <1>3, <3>1, <3>2, <3>3, <3>4
  <2>3. ChannelOK' /\ LatestOK'
    BY <2>1 DEF IInv, Typed, ChannelOK, LatestOK, channelVars, messages
  <2> QED
    BY <2>1, <2>2, <2>3, QuietKeeps DEF channelVars, messages
<1>4. CASE Dies
  BY <1>4, DiesKeeps
<1>5. CASE Starts
  BY <1>5, StartsKeeps
<1> QED
  BY <1>1, <1>2, <1>3, <1>4, <1>5 DEF MirrorNext

LEMMA Invariance == MirrorSpec => []IInv
<1>1. MirrorInit => IInv
  BY InitTyped, InitSound DEF IInv
<1> QED
  BY <1>1, StepKeeps, PTL DEF MirrorSpec

\* The variables have their types (MirrorTypeOK).
THEOREM MirrorTypeCorrect == MirrorSpec => []MirrorTypeOK
<1>1. IInv => MirrorTypeOK
  BY TypedIsTypeOK DEF IInv
<1> QED
  BY <1>1, Invariance, PTL

\* Every link in the channel leads to a complete upload of a pruned copy, for any
\* number of runs and chunks, whatever fails (LinksComplete).
THEOREM LinksAreComplete == MirrorSpec => []LinksComplete
<1>1. IInv => LinksComplete
  BY DEF IInv, Sound, Linked, LinksComplete
<1> QED
  BY <1>1, Invariance, PTL

\* Chunks are all sent, each of them once, for any number of them (NoChunkForgotten).
THEOREM ChunksAreRemembered == MirrorSpec => []NoChunkForgotten
<1>1. IInv => NoChunkForgotten
  BY DEF IInv, Chunked, NoChunkForgotten
<1> QED
  BY <1>1, Invariance, PTL

\* Both, for the uploads as a whole (UploadsComplete).
THEOREM UploadsAreComplete == MirrorSpec => []UploadsComplete
<1>1. LinksComplete /\ NoChunkForgotten => UploadsComplete
  BY DEF UploadsComplete
<1> QED
  BY <1>1, LinksAreComplete, ChunksAreRemembered, PTL

\* A dump that stays was left by a failure or belongs to a running upload (DumpsRemoved).
THEOREM DumpsAreRemoved == MirrorSpec => []DumpsRemoved
<1>1. IInv => DumpsRemoved
  <2> SUFFICES ASSUME IInv, NEW f \in files, f \notin excused
               PROVE  \E r \in Running : run[r].dump = f /\ (run[r].pc = "prune" \/ run[r].made)
    BY DEF DumpsRemoved
  <2>1. PICK r \in Runs : Holds(r) /\ run[r].dump = f
    BY DEF IInv, Sound, Tended
  <2>2. r \in Running
    BY <2>1 DEF Running, Holds, Ended, IInv, Sound, Begun, Uncopied
  <2> QED
    BY <2>1, <2>2 DEF Holds
<1> QED
  BY <1>1, Invariance, PTL

-----------------------------------------------------------------------------
(* What the channel tells                                                  *)

\* A set of numbers with a bound has a greatest one.
LEMMA BoundedMax ==
  ASSUME NEW S \in SUBSET Nat, S # {}, NEW n \in Nat, \A x \in S : x <= n
  PROVE  Max(S) \in S /\ \A x \in S : x <= Max(S)
<1> DEFINE T == {m \in Nat : \E x \in S : x + m = n}
           Less == OpToRel(<, Nat)
<1>1. \A x \in S : x \in Nat /\ x <= n /\ n - x \in Nat /\ x + (n - x) = n
  OBVIOUS
<1>2. PICK x0 \in S : TRUE
  OBVIOUS
<1>3. n - x0 \in T
  BY <1>1
<1>4. PICK t \in T : \A y \in T : ~(<<y, t>> \in Less)
  <2>1. IsWellFoundedOn(Less, Nat)
    BY NatLessThanWellFounded
  <2>2. T \subseteq Nat /\ T # {}
    BY <1>3
  <2> HIDE DEF Less, T
  <2> QED
    BY <2>1, <2>2, WFMin
<1>5. \A y \in T : ~(y < t)
  BY <1>4 DEF OpToRel
<1>6. PICK x \in S : x + t = n
  OBVIOUS
<1>7. ASSUME NEW y \in S PROVE x >= y
  <2>1. n - y \in T
    BY <1>1
  <2>2. ~(n - y < t) /\ t \in Nat
    BY <1>5, <2>1
  <2> QED
    BY <1>1, <1>6, <2>2
<1> QED
  BY <1>7 DEF Max

InTheChannel == {"find", "post", "trim"}

\* A message is known by its id, and a new one gets an id of its own.
IdsTell ==
  /\ \A m \in channel : m.id < posted
  /\ \A m, n \in channel : m.id = n.id => m = n

\* An undisturbed run is alone in the channel.
AloneThere == \A r \in clean : InChannel = {r}

\* S is what a search for messages of a kind saw: it missed only older ones.
Reached(kind, S) ==
  /\ S \subseteq IdsOf(kind) /\ IdsOf(kind) \ S \subseteq buried
  /\ \A i \in S, j \in IdsOf(kind) \ S : j < i

\* m is the newest of its kind; the others are in S or were missed.
Outlives(m, S) ==
  \A i \in IdsOf(m.kind) \ {m.id} : i < m.id /\ (i \in S \/ i \in buried)

\* At most one link is within reach.
Tidy == \A m \in Posted("link") : Heads(m) \/ m.id \in buried

\* It knows what the channel shows of the kind it looks for.
Aware(r) ==
  LET job == run[r].job  seen == run[r].seen IN
  /\ run[r].pc = "post" => Reached(KindOf(job), seen)
  /\ run[r].pc = "trim" /\ job = "clear" =>
       seen \subseteq IdsOf("error") /\ IdsOf("error") \ seen \subseteq buried
  /\ run[r].pc = "trim" /\ job # "clear" =>
       /\ seen \subseteq IdsOf(job)
       /\ \E m \in Posted(job) : m.of = r /\ m.id \notin seen /\ Outlives(m, seen)
  /\ job = "link" => IdsOf("error") \subseteq buried
  /\ job # "link" /\ latest.tidy => Tidy

Telling == IdsTell /\ AloneThere /\ (\A r \in clean : Aware(r)) /\ ChannelTellsLatest

LEMMA WhoIsThere ==
  /\ InChannel = {r \in Runs : run[r].pc \in InTheChannel}
  /\ InChannel' = {r \in Runs : run'[r].pc \in InTheChannel}
BY DEF InChannel, Running, InTheChannel

LEMMA KnownIds ==
  ASSUME ChannelOK, IdsTell, NEW kind \in Kinds
  PROVE  /\ IdsOf(kind) \in SUBSET Nat /\ \A i \in IdsOf(kind) : i < posted
         /\ \A m \in Posted(kind) : m.id \in IdsOf(kind) /\ m \in channel /\ m.kind = kind
         /\ posted \in Nat
         /\ IdsOf(kind) = {} => Posted(kind) = {}
         /\ \A m \in Posted(kind) : IdsOf(kind) \ {m.id} = {} => Posted(kind) = {m}
BY DEF ChannelOK, IdsTell, IdsOf, Posted, Messages

\* The newest of the messages that a run has seen is one of them.
LEMMA NewestIsSeen ==
  ASSUME ChannelOK, IdsTell, NEW kind \in Kinds, NEW S \in SUBSET IdsOf(kind), S # {}
  PROVE  Max(S) \in S /\ \A x \in S : x <= Max(S)
<1>1. /\ S \in SUBSET Nat /\ posted \in Nat
      /\ \A x \in S : x <= posted
  BY KnownIds DEF ChannelOK
<1> QED
  BY <1>1, BoundedMax

\* The deletion of a message leaves those of the other kind alone.
LEMMA AfterDeletion ==
  ASSUME ChannelOK, IdsTell, NEW kind \in Kinds, NEW d \in IdsOf(kind),
         channel' = {m \in channel : m.id # d}
  PROVE  /\ \A other \in Kinds \ {kind} : Posted(other)' = Posted(other)
         /\ IdsOf(kind)' = IdsOf(kind) \ {d}
         /\ \A m \in Posted(kind) : m.id # d => m \in Posted(kind)'
<1>1. PICK x \in channel : x.id = d /\ x.kind = kind
  BY DEF IdsOf, Posted
<1>2. \A m \in channel : m.id = d => m = x
  BY <1>1 DEF IdsTell
<1>3. \A m \in channel : m.kind # kind => m \in channel'
  BY <1>1, <1>2
<1> QED
  BY <1>3 DEF Posted, IdsOf

\* So does an edit of one.
LEMMA AfterEdit ==
  ASSUME ChannelOK, IdsTell, NEW kind \in Kinds, NEW d \in IdsOf(kind), NEW r \in Runs,
         NEW new, new = [id |-> d, kind |-> kind, of |-> r],
         channel' = {m \in channel : m.id # d} \cup {new}
  PROVE  /\ \A other \in Kinds \ {kind} : Posted(other)' = Posted(other)
         /\ IdsOf(kind)' = IdsOf(kind) /\ new \in Posted(kind)'
<1>1. PICK x \in channel : x.id = d /\ x.kind = kind
  BY DEF IdsOf, Posted
<1>2. \A m \in channel : m.id = d => m = x
  BY <1>1 DEF IdsTell
<1>3. new.id = d /\ new.kind = kind
  OBVIOUS
<1>4. \A other \in Kinds \ {kind} : Posted(other)' = Posted(other)
  BY <1>1, <1>2, <1>3 DEF Posted
<1>5. new \in Posted(kind)'
  BY <1>3 DEF Posted
<1>6. IdsOf(kind)' = IdsOf(kind)
  <2>1. \A m \in Posted(kind)' : m = new \/ m \in Posted(kind)
    BY DEF Posted
  <2>2. \A m \in Posted(kind) : m.id = d \/ m \in Posted(kind)'
    BY DEF Posted
  <2> QED
    BY <1>3, <1>5, <2>1, <2>2 DEF IdsOf
<1> QED
  BY <1>4, <1>5, <1>6

\* What is said of the channel stays true while it stays as it is.
LEMMA SameChannel ==
  ASSUME UNCHANGED messages
  PROVE  /\ \A kind : Posted(kind)' = Posted(kind) /\ IdsOf(kind)' = IdsOf(kind)
         /\ \A kind, S : Reached(kind, S)' <=> Reached(kind, S)
         /\ \A m : Heads(m)' <=> Heads(m)
         /\ \A m, S : Outlives(m, S)' <=> Outlives(m, S)
         /\ Tidy' <=> Tidy
<1>1. \A kind : Posted(kind)' = Posted(kind) /\ IdsOf(kind)' = IdsOf(kind)
  BY DEF Posted, IdsOf, messages
<1> QED
  BY <1>1 DEF Reached, Heads, Outlives, Tidy, messages

-----------------------------------------------------------------------------
(* Steps of the runs elsewhere, and those of the process                   *)

LEMMA ElsewhereTells ==
  ASSUME Telling, UNCHANGED <<messages, clean, latest>>,
         \A r \in Runs : run[r].pc \in InTheChannel \/ run'[r].pc \in InTheChannel => run'[r] = run[r]
  PROVE  Telling'
<1>1. InChannel' = InChannel
  BY WhoIsThere
<1>2. UNCHANGED <<channel, posted, buried>>
  BY DEF messages
<1>3. IdsTell' /\ AloneThere' /\ ChannelTellsLatest'
  BY <1>1, <1>2, SameChannel DEF Telling, IdsTell, AloneThere, ChannelTellsLatest
<1>4. ASSUME NEW r \in clean PROVE Aware(r)'
  <2>1. r \in Runs /\ run[r].pc \in InTheChannel
    BY WhoIsThere DEF Telling, AloneThere
  <2>2. run'[r] = run[r] /\ Aware(r)
    BY <2>1 DEF Telling
  <2> QED
    BY <1>2, <2>2, SameChannel DEF Aware
<1> QED
  BY <1>3, <1>4 DEF Telling

\* A run that comes to the channel.
LEMMA EntersTells ==
  ASSUME Telling, RunsOK, NEW r \in Runs, run[r].pc \notin InTheChannel, NEW job \in {"clear", "error"},
         ToChannel(r, job), UNCHANGED <<messages, latest>>
  PROVE  Telling'
<1>1. /\ run'[r].pc = "find" /\ run'[r].job = job
      /\ \A q \in Runs \ {r} : run'[q] = run[q]
  BY DEF ToChannel, RunsOK, RunRecords
<1>2. InChannel' = InChannel \cup {r}
  BY <1>1, WhoIsThere DEF InTheChannel
<1>3. Tidy' <=> Tidy
  BY SameChannel
<1>4. IdsTell' /\ AloneThere' /\ ChannelTellsLatest'
  BY <1>2 DEF Telling, IdsTell, AloneThere, ChannelTellsLatest, ToChannel, messages
<1>5. ASSUME NEW q \in clean' PROVE Aware(q)'
  <2>1. q = r /\ InChannel = {}
    BY <1>5 DEF ToChannel
  <2>2. latest.tidy => Tidy
    BY <2>1 DEF Telling, ChannelTellsLatest, Tidy
  <2> QED
    BY <1>1, <1>3, <2>1, <2>2 DEF Aware
<1> QED
  BY <1>4, <1>5 DEF Telling

-----------------------------------------------------------------------------
(* Steps in the channel                                                    *)

\* A run that stays there.
LEMMA StaysTells ==
  ASSUME Telling, NEW r \in Runs, run[r].pc \in InTheChannel, run'[r].pc \in InTheChannel,
         \A q \in Runs \ {r} : run'[q] = run[q],
         clean' \subseteq clean, IdsTell', r \in clean' => Aware(r)'
  PROVE  Telling'
<1>1. InChannel' = InChannel /\ r \in InChannel
  BY WhoIsThere
<1>2. AloneThere'
  BY <1>1 DEF Telling, AloneThere
<1>3. \A q \in clean' : q = r
  BY <1>1 DEF Telling, AloneThere
<1>4. ChannelTellsLatest'
  BY <1>1 DEF ChannelTellsLatest
<1> QED
  BY <1>2, <1>3, <1>4 DEF Telling

\* A run that has done with one of its calls there.
LEMMA LeavesTells ==
  ASSUME Telling, RunsOK, NEW r \in Runs, run[r].pc \in InTheChannel, NEW ok \in BOOLEAN, Leaves(r, ok),
         UNCHANGED messages,
         ok /\ r \in clean /\ run[r].job = "clear" => IdsOf("error") \subseteq buried,
         ok /\ r \in clean /\ run[r].job # "clear" =>
           \E m \in Posted(run[r].job) : m.of = r /\ Heads(m)
  PROVE  Telling'
<1>1. UNCHANGED <<channel, posted, buried>>
  BY DEF messages
<1>2. IdsTell'
  BY <1>1 DEF Telling, IdsTell
<1>3. CASE run[r].job = "clear"
  <2>1. /\ run'[r].pc = "find" /\ run'[r].job = "link"
        /\ \A q \in Runs \ {r} : run'[q] = run[q]
        /\ clean' = IF ok THEN clean ELSE clean \ {r}
    <3>1. PICK new : new = [run[r] EXCEPT !.pc = "find", !.job = "link", !.seen = {}]
      OBVIOUS
    <3>2. new.pc = "find" /\ new.job = "link"
      BY <3>1 DEF RunsOK, RunRecords
    <3>3. run' = [run EXCEPT ![r] = new] /\ clean' = IF ok THEN clean ELSE clean \ {r}
      BY <1>3, <3>1 DEF Leaves
    <3> QED
      BY <3>2, <3>3 DEF RunsOK
  <2>2. r \in clean' => Aware(r)'
    BY <1>1, <1>3, <2>1, SameChannel DEF Aware
  <2> QED
    BY <1>2, <2>1, <2>2, StaysTells DEF InTheChannel
<1>4. CASE run[r].job # "clear"
  <2> DEFINE sent == run[r].job = "link"
             good == ok /\ r \in clean
  <2>1. /\ run'[r].pc = "remove" /\ \A q \in Runs \ {r} : run'[q] = run[q]
        /\ clean' = clean \ {r}
        /\ latest' = [of |-> r, sent |-> sent, known |-> good,
                      tidy |-> IF sent THEN good ELSE good /\ latest.tidy]
    BY <1>4 DEF Leaves, RunsOK, RunRecords, At
  <2>2. clean' = {}
    BY <2>1, WhoIsThere DEF Telling, AloneThere
  <2>3. run[r].job \in Kinds
    BY <1>4 DEF RunsOK, RunRecords, Kinds
  <2>4. latest'.of = r /\ latest'.sent = sent /\ latest'.known = good
        /\ latest'.tidy = (IF sent THEN good ELSE good /\ latest.tidy)
    BY <2>1
  <2>5. ASSUME good PROVE ChannelTellsLatest'
    <3>1. PICK m \in Posted(run[r].job) : m.of = r /\ Heads(m)
      BY <1>4, <2>5
    <3>2. /\ run[r].job = "link" => IdsOf("error") \subseteq buried
          /\ run[r].job # "link" /\ latest.tidy => Tidy
      BY <2>5 DEF Telling, Aware
    <3>3. m.kind = run[r].job
      BY <3>1 DEF Posted
    <3>4. CASE sent
      <4>1. Tidy
        BY <3>1, <3>3, <3>4 DEF Heads, Tidy
      <4> QED
        BY <1>1, <2>4, <2>5, <3>1, <3>2, <3>4, <4>1, SameChannel DEF ChannelTellsLatest, Tidy
    <3>5. CASE ~sent
      <4>1. run[r].job = "error"
        BY <2>3, <3>5 DEF Kinds
      <4> QED
        BY <1>1, <2>4, <2>5, <3>1, <3>2, <3>5, <4>1, SameChannel DEF ChannelTellsLatest, Tidy
    <3> QED
      BY <3>4, <3>5
  <2>6. ASSUME ~good PROVE ChannelTellsLatest'
    BY <2>4, <2>6 DEF ChannelTellsLatest
  <2> QED
    BY <1>2, <2>2, <2>5, <2>6 DEF Telling, AloneThere
<1> QED
  BY <1>3, <1>4

LEMMA FindsTells ==
  ASSUME Telling, IInv, NEW r \in Runs, Finds(r)
  PROVE  Telling'
<1> USE DEF IInv, Typed
<1>1. run[r].pc = "find" /\ UNCHANGED <<channel, posted>> /\ IdsTell'
  BY DEF Finds, Telling, IdsTell
<1>2. CASE Leaves(r, FALSE) /\ UNCHANGED buried
  BY <1>1, <1>2, LeavesTells DEF InTheChannel, messages
<1>3. CASE ~(Leaves(r, FALSE) /\ UNCHANGED buried)
  <2>1. PICK job, kind, found : job = run[r].job /\ kind = KindOf(job) /\ found = IdsOf(kind)
    OBVIOUS
  <2>2. /\ kind \in Kinds /\ found \in SUBSET Nat
        /\ job = "link" <=> kind = "link"
    BY <2>1, KnownIds DEF KindOf, Kinds, Telling
  <2>3. PICK oldest \in Nat, S \in SUBSET Nat :
          /\ S = {i \in found : i >= oldest}
          /\ run' = [run EXCEPT ![r] = [@ EXCEPT !.pc = AfterFind(job), !.seen = S]]
          /\ buried' = (buried \cup found) \ S
          /\ UNCHANGED <<clean, latest>>
    <3>1. PICK oldest \in 0 .. posted :
            LET seen == {i \in found : i >= oldest} IN
            /\ run' = [run EXCEPT ![r] = [@ EXCEPT !.pc = AfterFind(job), !.seen = seen]]
            /\ buried' = (buried \cup found) \ seen
            /\ UNCHANGED <<clean, latest>>
      BY <1>3, <2>1 DEF Finds
    <3>2. oldest \in Nat
      BY DEF ChannelOK
    <3>3. {i \in found : i >= oldest} \in SUBSET Nat
      BY <2>2
    <3> QED
      BY <3>1, <3>2, <3>3
  <2>4. /\ run'[r].pc = AfterFind(job) /\ run'[r].job = job /\ run'[r].seen = S
        /\ \A q \in Runs \ {r} : run'[q] = run[q]
    BY <2>1, <2>3 DEF RunsOK, RunRecords
  <2>5. \A k : Posted(k)' = Posted(k) /\ IdsOf(k)' = IdsOf(k)
    BY <1>1 DEF Posted, IdsOf
  <2>6. S \subseteq found /\ found \ S \subseteq buried' /\ \A i \in S, j \in found \ S : j < i
    BY <2>2, <2>3
  <2>7. \A other \in Kinds \ {kind} : \A i \in IdsOf(other) : i \in buried => i \in buried'
    <3>1. \A other \in Kinds \ {kind} : \A i \in IdsOf(other) : i \notin found
      BY <2>1 DEF Telling, IdsTell, IdsOf
    <3> QED
      BY <2>3, <2>6, <3>1
  <2>8. ASSUME r \in clean PROVE Aware(r)'
    <3>1. Aware(r)
      BY <2>8 DEF Telling
    <3>2. run'[r].pc = "post" => Reached(kind, S)'
      BY <2>1, <2>4, <2>5, <2>6 DEF Reached
    <3>3. run'[r].pc = "trim" =>
            /\ run'[r].job = "clear"
            /\ run'[r].seen \subseteq IdsOf("error")' /\ IdsOf("error")' \ run'[r].seen \subseteq buried'
      BY <2>1, <2>4, <2>5, <2>6 DEF AfterFind, KindOf
    <3>4. run'[r].job = "link" => IdsOf("error")' \subseteq buried'
      BY <2>1, <2>2, <2>4, <2>5, <2>7, <3>1 DEF Aware, Kinds
    <3>5. ASSUME run'[r].job # "link", latest'.tidy PROVE Tidy'
      <4>1. Tidy /\ kind = "error"
        BY <2>1, <2>2, <2>3, <2>4, <3>1, <3>5 DEF Aware, Kinds
      <4>2. \A m \in Posted("link") : m.kind = "link" /\ m.id \in IdsOf("link")
        BY DEF Posted, IdsOf
      <4>3. \A i \in IdsOf("link") : i \in buried => i \in buried'
        BY <2>7, <4>1 DEF Kinds
      <4> QED
        BY <2>5, <4>1, <4>2, <4>3 DEF Tidy, Heads
    <3> QED
      <4>1. KindOf(run'[r].job) = kind
        BY <2>1, <2>4
      <4> QED
        BY <2>4, <3>2, <3>3, <3>4, <3>5, <4>1 DEF Aware, AfterFind
  <2>9. run'[r].pc \in InTheChannel
    BY <2>4 DEF AfterFind, InTheChannel
  <2> QED
    BY <1>1, <2>3, <2>4, <2>8, <2>9, StaysTells DEF InTheChannel
<1> QED
  BY <1>2, <1>3

LEMMA PostsTells ==
  ASSUME Telling, IInv, NEW r \in Runs, Posts(r)
  PROVE  Telling'
<1> USE DEF IInv, Typed
<1>0. PICK job, newest, seen : job = run[r].job /\ seen = run[r].seen /\ newest = Max(seen)
  OBVIOUS
<1>1. /\ run[r].pc = "post" /\ job \in Kinds /\ job # "clear" /\ KindOf(job) = job /\ seen \in SUBSET Nat
      /\ posted \in Nat /\ buried' = buried
  BY <1>0 DEF Posts, RunsOK, RunRecords, Kinds, KindOf, ChannelOK
<1>2. r \in clean => Aware(r) /\ Reached(job, seen)
  BY <1>0, <1>1 DEF Telling, Aware
<1>3. CASE Leaves(r, FALSE) /\ UNCHANGED <<channel, posted>>
  BY <1>1, <1>3, LeavesTells DEF InTheChannel, messages
<1>4. ASSUME NEW new, new.kind = job, new.of = r, new \in Posted(job)', IdsTell',
             NEW rest \in SUBSET Nat, run' = [run EXCEPT ![r] = [@ EXCEPT !.pc = "trim", !.seen = rest]],
             UNCHANGED <<clean, latest>>,
             r \in clean => /\ rest \subseteq IdsOf(job)' /\ new.id \notin rest /\ Outlives(new, rest)'
                            /\ \A other \in Kinds \ {job} : Posted(other)' = Posted(other)
      PROVE  Telling'
  <2>1. /\ run'[r].pc = "trim" /\ run'[r].job = job /\ run'[r].seen = rest
        /\ \A q \in Runs \ {r} : run'[q] = run[q]
    BY <1>0, <1>4 DEF RunsOK, RunRecords
  <2>2. ASSUME r \in clean PROVE Aware(r)'
    <3>1. \A other \in Kinds \ {job} : Posted(other)' = Posted(other) /\ IdsOf(other)' = IdsOf(other)
      BY <1>4, <2>2 DEF Posted, IdsOf
    <3>2. job = "link" => IdsOf("error")' \subseteq buried'
      BY <1>0, <1>1, <1>2, <2>2, <3>1 DEF Aware, Kinds
    <3>3. ASSUME job # "link", latest'.tidy PROVE Tidy'
      <4>1. Tidy /\ Posted("link")' = Posted("link")
        BY <1>0, <1>2, <1>4, <2>2, <3>1, <3>3 DEF Aware, Kinds
      <4>2. \A m \in Posted("link") : m.kind = "link"
        BY DEF Posted
      <4> QED
        BY <1>1, <4>1, <4>2 DEF Tidy, Heads
    <3> QED
      BY <1>1, <1>4, <2>1, <2>2, <3>2, <3>3 DEF Aware
  <2> QED
    BY <1>1, <1>4, <2>1, <2>2, StaysTells DEF InTheChannel
<1>5. CASE /\ seen = {} /\ channel' = channel \cup {[id |-> posted, kind |-> job, of |-> r]}
           /\ posted' = posted + 1 /\ At(r, "trim") /\ UNCHANGED <<clean, latest>>
  <2>1. PICK new : new = [id |-> posted, kind |-> job, of |-> r]
    OBVIOUS
  <2>2. new.id = posted /\ new.kind = job /\ new.of = r /\ channel' = channel \cup {new}
    BY <1>5, <2>1
  <2>3. \A m \in channel : m.id \in Nat /\ m.id < posted
    BY DEF Telling, IdsTell, ChannelOK, Messages
  <2>4. IdsTell'
    BY <1>1, <1>5, <2>2, <2>3 DEF Telling, IdsTell
  <2>5. new \in Posted(job)' /\ \A other \in Kinds \ {job} : Posted(other)' = Posted(other)
    BY <2>2 DEF Posted
  <2>6. PICK rest \in SUBSET Nat : rest = {}
    OBVIOUS
  <2>7. run' = [run EXCEPT ![r] = [@ EXCEPT !.pc = "trim", !.seen = rest]]
    BY <1>0, <1>5, <2>6 DEF At, RunsOK, RunRecords
  <2>8. ASSUME r \in clean PROVE Outlives(new, rest)'
    <3>1. IdsOf(job) \subseteq buried /\ \A i \in IdsOf(job) : i < posted
      BY <1>1, <1>2, <1>5, <2>8, KnownIds DEF Reached, Telling
    <3>2. IdsOf(job)' \subseteq IdsOf(job) \cup {posted}
      BY <2>2 DEF IdsOf
    <3> QED
      BY <1>1, <2>2, <3>1, <3>2 DEF Outlives
  <2> QED
    BY <1>4, <1>5, <2>2, <2>4, <2>5, <2>6, <2>7, <2>8
<1>6. CASE /\ seen # {} /\ newest \in Ids
           /\ channel' = {m \in channel : m.id # newest} \cup {[id |-> newest, kind |-> job, of |-> r]}
           /\ run' = [run EXCEPT ![r] = [@ EXCEPT !.pc = "trim", !.seen = seen \ {newest}]]
           /\ UNCHANGED <<posted, clean, latest>>
  <2>1. PICK new : new = [id |-> newest, kind |-> job, of |-> r]
    OBVIOUS
  <2>2. /\ new.id = newest /\ new.kind = job /\ new.of = r
        /\ channel' = {m \in channel : m.id # newest} \cup {new}
    BY <1>6, <2>1
  <2>3. IdsTell'
    <3>1. newest < posted
      BY <1>6 DEF Ids, Telling, IdsTell
    <3> QED
      BY <1>6, <2>2, <3>1 DEF Telling, IdsTell
  <2>4. new \in Posted(job)'
    BY <2>2 DEF Posted
  <2>5. PICK rest \in SUBSET Nat : rest = seen \ {newest}
    BY <1>1
  <2>6. run' = [run EXCEPT ![r] = [@ EXCEPT !.pc = "trim", !.seen = rest]]
    BY <1>6, <2>5
  <2>7. ASSUME r \in clean
        PROVE  /\ rest \subseteq IdsOf(job)' /\ new.id \notin rest /\ Outlives(new, rest)'
               /\ \A other \in Kinds \ {job} : Posted(other)' = Posted(other)
    <3>1. newest \in seen /\ newest \in IdsOf(job) /\ \A x \in seen : x <= newest
      BY <1>0, <1>1, <1>2, <1>6, <2>7, NewestIsSeen DEF Telling, Reached
    <3>2. IdsOf(job)' = IdsOf(job) /\ \A other \in Kinds \ {job} : Posted(other)' = Posted(other)
      BY <1>1, <2>1, <2>2, <3>1, AfterEdit DEF Telling
    <3>3. seen \subseteq IdsOf(job) /\ IdsOf(job) \ seen \subseteq buried
          /\ \A i \in seen, j \in IdsOf(job) \ seen : j < i
      BY <1>2, <2>7 DEF Reached
    <3>4. \A i \in rest : i < newest
      BY <1>1, <2>5, <3>1
    <3>5. ASSUME NEW i \in IdsOf(job)', i # newest PROVE i < newest /\ (i \in rest \/ i \in buried')
      BY <1>1, <2>5, <3>1, <3>2, <3>3, <3>4, <3>5
    <3>6. Outlives(new, rest)'
      BY <2>2, <3>5 DEF Outlives
    <3> QED
      BY <2>2, <2>5, <3>2, <3>3, <3>6
  <2> QED
    BY <1>4, <1>6, <2>2, <2>3, <2>4, <2>6, <2>7
<1> QED
  BY <1>0, <1>3, <1>5, <1>6 DEF Posts


LEMMA TrimsTells ==
  ASSUME Telling, IInv, NEW r \in Runs, Trims(r)
  PROVE  Telling'
<1> USE DEF IInv, Typed
<1> DEFINE seen == run[r].seen
<1>0. PICK job, newest, kind : job = run[r].job /\ newest = Max(seen) /\ kind = KindOf(job)
  OBVIOUS
<1>1. run[r].pc = "trim" /\ UNCHANGED <<posted, buried>> /\ seen \in SUBSET Nat
      /\ kind \in Kinds /\ (job = "clear" => kind = "error") /\ (job # "clear" => kind = job)
      /\ run[r].pc \in InTheChannel
  BY <1>0 DEF Trims, RunsOK, RunRecords, Kinds, KindOf, InTheChannel
<1>2. ASSUME r \in clean
      PROVE  /\ Aware(r) /\ seen \subseteq IdsOf(kind)
             /\ job = "clear" => IdsOf(kind) \ seen \subseteq buried
             /\ job # "clear" => \E m \in Posted(kind) : m.of = r /\ m.id \notin seen /\ Outlives(m, seen)
  BY <1>0, <1>1, <1>2 DEF Telling, Aware
<1>3. CASE seen = {} /\ Leaves(r, TRUE) /\ UNCHANGED channel
  <2>1. r \in clean /\ job = "clear" => IdsOf("error") \subseteq buried
    BY <1>1, <1>2, <1>3
  <2>2. ASSUME r \in clean, job # "clear" PROVE \E m \in Posted(job) : m.of = r /\ Heads(m)
    <3>1. PICK m \in Posted(kind) : m.of = r /\ Outlives(m, {})
      BY <1>2, <1>3, <2>2
    <3>2. \A x \in Posted(kind) \ {m} : x.id \in IdsOf(kind) \ {m.id}
      BY DEF Telling, IdsTell, Posted, IdsOf
    <3>3. m.kind = kind
      BY DEF Posted
    <3>4. Heads(m)
      BY <3>1, <3>2, <3>3 DEF Outlives, Heads
    <3> QED
      BY <1>1, <2>2, <3>1, <3>4
  <2> QED
    BY <1>0, <1>1, <1>3, <2>1, <2>2, LeavesTells DEF messages
<1>4. CASE /\ seen # {}
           /\ run' = [run EXCEPT ![r] = [@ EXCEPT !.seen = seen \ {newest}]]
           /\ \/ UNCHANGED clean /\ channel' = {m \in channel : m.id # newest}
              \/ clean' = clean \ {r} /\ UNCHANGED channel
           /\ UNCHANGED latest
  <2>1. PICK rest \in SUBSET Nat : rest = seen \ {newest}
    BY <1>1
  <2>2. run' = [run EXCEPT ![r] = [@ EXCEPT !.seen = rest]]
    BY <1>4, <2>1
  <2>3. /\ run'[r].pc = "trim" /\ run'[r].job = job /\ run'[r].seen = rest
        /\ \A q \in Runs \ {r} : run'[q] = run[q]
    <3> HIDE DEF seen
    <3> QED
      BY <1>0, <1>1, <2>2 DEF RunsOK, RunRecords
  <2>4. IdsTell'
    BY <1>1, <1>4 DEF Telling, IdsTell
  <2>5. ASSUME r \in clean' PROVE Aware(r)'
    <3>1. r \in clean /\ channel' = {m \in channel : m.id # newest} /\ latest' = latest
      BY <1>4, <2>5
    <3>2. newest \in seen /\ newest \in IdsOf(kind)
      BY <1>0, <1>1, <1>2, <1>4, <3>1, NewestIsSeen DEF Telling
    <3>3. /\ \A other \in Kinds \ {kind} : Posted(other)' = Posted(other)
          /\ IdsOf(kind)' = IdsOf(kind) \ {newest}
          /\ \A m \in Posted(kind) : m.id # newest => m \in Posted(kind)'
      BY <1>1, <3>1, <3>2, AfterDeletion DEF Telling
    <3>4. rest \subseteq IdsOf(kind)' /\ (job = "clear" => IdsOf("error")' \ rest \subseteq buried')
      BY <1>1, <1>2, <2>1, <3>1, <3>3
    <3>5. ASSUME job # "clear"
          PROVE  \E m \in Posted(job)' : m.of = r /\ m.id \notin rest /\ Outlives(m, rest)'
      <4>1. PICK m \in Posted(kind) : m.of = r /\ m.id \notin seen /\ Outlives(m, seen)
        BY <1>2, <3>1, <3>5
      <4>2. m.id # newest /\ m.kind = kind
        BY <3>2, <4>1 DEF Posted
      <4>3. Outlives(m, rest)'
        BY <1>1, <2>1, <3>3, <4>1, <4>2 DEF Outlives
      <4> QED
        BY <1>1, <2>1, <3>3, <3>5, <4>1, <4>2, <4>3
    <3>6. \A other \in Kinds \ {kind} : IdsOf(other)' = IdsOf(other)
      BY <3>3 DEF IdsOf, Posted
    <3>7. job = "link" => IdsOf("error")' \subseteq buried'
      BY <1>0, <1>1, <1>2, <3>1, <3>6 DEF Aware, Kinds
    <3>8. ASSUME job # "link", latest.tidy PROVE Tidy'
      <4>1. kind = "error"
        BY <1>1, <3>8 DEF Kinds
      <4>2. Tidy /\ Posted("link")' = Posted("link")
        BY <1>0, <1>2, <3>1, <3>3, <3>8, <4>1 DEF Aware, Kinds
      <4>3. \A m \in Posted("link") : m.kind = "link"
        BY DEF Posted
      <4> QED
        BY <1>1, <4>2, <4>3 DEF Tidy, Heads
    <3> QED
      BY <1>1, <2>3, <3>1, <3>4, <3>5, <3>7, <3>8 DEF Aware
  <2> QED
    BY <1>1, <1>4, <2>3, <2>4, <2>5, StaysTells DEF InTheChannel
<1> QED
  BY <1>0, <1>3, <1>4 DEF Trims

\* A step of a run that is not in the channel, nor comes there.
LEMMA OneElsewhere ==
  ASSUME Telling, RunsOK, NEW r \in Runs, NEW new, run' = [run EXCEPT ![r] = new],
         run[r].pc \notin InTheChannel, new.pc \notin InTheChannel,
         UNCHANGED <<messages, clean, latest>>
  PROVE  Telling'
<1>1. run'[r] = new /\ \A q \in Runs \ {r} : run'[q] = run[q]
  BY DEF RunsOK
<1> QED
  BY <1>1, ElsewhereTells

LEMMA BeginsTells ==
  ASSUME Telling, RunsOK, NEW r \in Runs, NEW source, Begins(r, source),
         UNCHANGED <<messages, clean, latest>>
  PROVE  Telling'
<1>1. PICK new : new = [run[r] EXCEPT !.pc = "copy", !.source = source, !.dump = second]
  OBVIOUS
<1>2. new.pc = "copy"
  BY <1>1 DEF RunsOK, RunRecords
<1>3. run' = [run EXCEPT ![r] = new] /\ run[r].pc = "unbegun"
  BY <1>1 DEF Begins
<1> QED
  BY <1>2, <1>3, OneElsewhere DEF InTheChannel

LEMMA TellingNext == Telling /\ IInv /\ [MirrorNext]_mirrorVars => Telling'
<1> SUFFICES ASSUME Telling, IInv, [MirrorNext]_mirrorVars PROVE Telling'
  OBVIOUS
<1> USE DEF IInv, Typed
<1>1. ASSUME NEW r \in Runs, CronBegins(r) \/ CommandBegins(r) PROVE Telling'
  BY <1>1, BeginsTells DEF CronBegins, CommandBegins, channelVars
<1>2. CASE Starts
  <2>1. UNCHANGED <<messages, clean, latest>>
    BY <1>2 DEF Starts, channelVars
  <2>2. CASE run' = run
    BY <2>1, <2>2, ElsewhereTells
  <2>3. ASSUME NEW r \in Runs, Begins(r, "startup") PROVE Telling'
    BY <2>1, <2>3, BeginsTells
  <2> QED
    BY <1>2, <2>2, <2>3 DEF Starts
<1>3. CASE Ticks \/ BridgeReady \/ BridgeCloses \/ UNCHANGED mirrorVars
  <2>1. UNCHANGED <<run, messages, clean, latest>>
    BY <1>3 DEF Ticks, BridgeReady, BridgeCloses, mirrorVars, runVars, channelVars
  <2> QED
    BY <2>1, ElsewhereTells
<1>4. ASSUME NEW r \in Runs, Copies(r) \/ Prunes(r) \/ CreatesFolder(r) \/ UploadsChunk(r) \/ Verifies(r)
      PROVE  Telling'
  <2>1. run[r].pc \notin InTheChannel /\ UNCHANGED <<messages, latest>>
    BY <1>4 DEF Copies, Prunes, CreatesFolder, UploadsChunk, Verifies, InTheChannel
  <2>2. CASE \E job \in {"clear", "error"} : ToChannel(r, job)
    BY <2>1, <2>2, EntersTells
  <2>4. CASE Copies(r)
    <3>1. CASE At(r, "prune") /\ UNCHANGED clean
      <4>1. PICK new : new = [run[r] EXCEPT !.pc = "prune"]
        OBVIOUS
      <4>2. new.pc = "prune"
        BY <4>1 DEF RunsOK, RunRecords
      <4> QED
        BY <2>1, <3>1, <4>1, <4>2, OneElsewhere DEF InTheChannel, At
    <3> QED
      BY <2>2, <2>4, <3>1 DEF Copies
  <2>5. CASE Prunes(r)
    <3>1. CASE run' = [run EXCEPT ![r] = [@ EXCEPT !.pc = "folder", !.made = TRUE]] /\ UNCHANGED clean
      <4>1. PICK new : new = [run[r] EXCEPT !.pc = "folder", !.made = TRUE]
        OBVIOUS
      <4>2. new.pc = "folder"
        BY <4>1 DEF RunsOK, RunRecords
      <4> QED
        BY <2>1, <3>1, <4>1, <4>2, OneElsewhere DEF InTheChannel
    <3> QED
      BY <2>2, <2>5, <3>1 DEF Prunes
  <2>6. CASE CreatesFolder(r)
    <3>1. ASSUME NEW total \in 1 .. Chunks, UNCHANGED clean,
                 run' = [run EXCEPT ![r] = [@ EXCEPT !.pc = "upload", !.total = total, !.todo = ChunkOrder(total)]]
          PROVE  Telling'
      <4>1. PICK new : new = [run[r] EXCEPT !.pc = "upload", !.total = total, !.todo = ChunkOrder(total)]
        OBVIOUS
      <4>2. new.pc = "upload"
        BY <4>1 DEF RunsOK, RunRecords
      <4> QED
        BY <2>1, <3>1, <4>1, <4>2, OneElsewhere DEF InTheChannel
    <3> QED
      BY <2>2, <2>6, <3>1 DEF CreatesFolder
  <2>7. CASE UploadsChunk(r)
    <3>1. CASE run' = [run EXCEPT ![r] = [@ EXCEPT !.todo = Tail(run[r].todo)]] /\ UNCHANGED clean
      <4>1. PICK new : new = [run[r] EXCEPT !.todo = Tail(run[r].todo)]
        OBVIOUS
      <4>2. new.pc = run[r].pc
        BY <4>1 DEF RunsOK, RunRecords
      <4> QED
        BY <2>1, <3>1, <4>1, <4>2, OneElsewhere
    <3> QED
      BY <2>2, <2>7, <3>1 DEF UploadsChunk
  <2> QED
    BY <1>4, <2>2, <2>4, <2>5, <2>6, <2>7 DEF Verifies
<1>5. ASSUME NEW r \in Runs, Ends(r) PROVE Telling'
  <2>1. PICK pc \in {"done", "failed"} : At(r, pc)
    BY <1>5 DEF Ends
  <2>2. PICK new : new = [run[r] EXCEPT !.pc = pc]
    OBVIOUS
  <2>3. new.pc = pc
    BY <2>2 DEF RunsOK, RunRecords
  <2> QED
    BY <1>5, <2>1, <2>2, <2>3, OneElsewhere DEF Ends, InTheChannel, At, channelVars
<1>6. CASE Dies
  <2>1. \A r \in Runs : run'[r].pc \notin InTheChannel
    <3>1. run' = [r \in Runs |-> IF r \in Running THEN [run[r] EXCEPT !.pc = "killed"] ELSE run[r]]
      BY <1>6 DEF Dies
    <3>2. ASSUME NEW r \in Runs, r \in Running PROVE run'[r].pc = "killed"
      <4>1. PICK new : new = [run[r] EXCEPT !.pc = "killed"]
        OBVIOUS
      <4>2. new.pc = "killed"
        BY <4>1 DEF RunsOK, RunRecords
      <4> QED
        BY <3>1, <3>2, <4>1, <4>2
    <3>3. ASSUME NEW r \in Runs, r \notin Running PROVE run'[r] = run[r] /\ run[r].pc \notin InTheChannel
      BY <3>1, <3>3 DEF Running, InTheChannel
    <3> QED
      BY <3>2, <3>3 DEF InTheChannel
  <2>2. InChannel' = {}
    BY <2>1, WhoIsThere
  <2>3. UNCHANGED messages /\ clean' = {}
        /\ IF InChannel = {} THEN latest' = latest ELSE ~latest'.known /\ ~latest'.tidy
    BY <1>6 DEF Dies, LatestOK
  <2>4. ChannelTellsLatest'
    <3>1. CASE InChannel = {}
      <4>1. ChannelTellsLatest /\ UNCHANGED <<latest, buried>>
        BY <2>3, <3>1 DEF Telling, messages
      <4> QED
        BY <2>2, <2>3, <3>1, <4>1, SameChannel DEF ChannelTellsLatest
    <3>2. CASE InChannel # {}
      BY <2>3, <3>2 DEF ChannelTellsLatest
    <3> QED
      BY <3>1, <3>2
  <2> QED
    BY <2>3, <2>4 DEF Telling, IdsTell, AloneThere, messages
<1> QED
  BY <1>1, <1>2, <1>3, <1>4, <1>5, <1>6, FindsTells, PostsTells, TrimsTells DEF MirrorNext, RunStep

LEMMA TellingStart == MirrorInit => Telling
<1> SUFFICES ASSUME MirrorInit PROVE Telling
  OBVIOUS
<1> USE MirrorAssumption
<1>1. InChannel = {} /\ clean = {} /\ ~latest.known /\ ~latest.tidy
  BY DEF MirrorInit, InChannel, Running, NotRunning, Nothing
<1>2. ASSUME channel = Leftovers PROVE posted = 3
  <2>1. PICK a, b, c : a # b /\ a # c /\ b # c /\ Leftovers = ({a} \cup {b}) \cup {c}
    <3> WITNESS [id |-> 0, kind |-> "link", of |-> Past], [id |-> 1, kind |-> "link", of |-> Past],
                [id |-> 2, kind |-> "error", of |-> Past]
    <3> QED
      BY DEF Leftovers
  <2>2. IsFiniteSet({a}) /\ Cardinality({a}) = 1
    BY FS_Singleton
  <2>3. IsFiniteSet({a} \cup {b}) /\ Cardinality({a} \cup {b}) = 2
    BY <2>1, <2>2, FS_AddElement
  <2>4. Cardinality(({a} \cup {b}) \cup {c}) = 3
    BY <2>1, <2>3, FS_AddElement
  <2> QED
    BY <1>2, <2>1, <2>4 DEF MirrorInit
<1>3. IdsTell
  BY <1>2 DEF MirrorInit, Leftovers, IdsTell
<1> QED
  BY <1>1, <1>3 DEF Telling, AloneThere, ChannelTellsLatest

\* When nobody writes to the channel and the last run that did was disturbed neither by
\* another nor by a failing call, the newest message there tells what became of that run,
\* and whatever stands beside it was beyond the reach of the run's search: the upserts of
\* Discord's announcement service find the messages before they edit, send and delete, but
\* look back over maxScanBatches times pageSize messages only.
THEOREM ChannelIsTrue == MirrorSpec => []ChannelTellsLatest
<1>1. MirrorInit => IInv /\ Telling
  BY InitTyped, InitSound, TellingStart DEF IInv
<1>2. IInv /\ Telling /\ [MirrorNext]_mirrorVars => (IInv /\ Telling)'
  BY StepKeeps, TellingNext
<1>3. Telling => ChannelTellsLatest
  BY DEF Telling
<1> QED
  BY <1>1, <1>2, <1>3, PTL DEF MirrorSpec

-----------------------------------------------------------------------------
(* Announcements                                                           *)

ClickPcs == {"free", "pressed", "defer", "list", "send", "over"}
Appearances == {"nothing", "offer", "text", "busy", "error", "sent", "cancelled"}

\* What AnnounceTypeOK says of requests, messages and clicks.
RequestTypes == [Requests -> [pending : BOOLEAN, expired : BOOLEAN, draft : Texts \cup {"none"}]]
MessageTypes == [Requests -> [shows : Appearances, text : Texts \cup {"none"}]]
ClickTypes ==
  [Clicks -> [pc : ClickPcs, of : Requests, text : Texts \cup {"none"},
              left : SUBSET Receivers, perm : SUBSET Receivers]]

\* A request that was made has a message; one that has ended is pending no more.
Asked ==
  /\ \A t \in Requests : request[t].pending => message[t].shows # "nothing"
  /\ \A t \in ended : message[t].shows # "nothing" /\ ~Pending(t)

\* While no two clicks overlap, a request has one dispatch at most, and who heard
\* of it is not on the list of another.
OneDispatch ==
  \A t \in Requests \ overlapped :
    /\ \A c, d \in Handling(t) : c = d
    /\ \A h \in Receivers : told[t][h] # 0 =>
         /\ told[t][h] = 1
         /\ \A c \in Handling(t) : click[c].pc = "send" /\ h \notin click[c].left
         /\ Handling(t) = {} => message[t].shows # "nothing" /\ ~Pending(t)

\* A draft was confirmed, and a click is handled only when there is one.
Drafted ==
  /\ \A t \in Requests : request[t].draft # "none" => request[t].draft \in confirmed[t]
  /\ \A c \in Clicks : click[c].pc = "defer" => request[click[c].of].draft # "none"

\* A click's steps: where it is and what is left, the others are what they were.
ClickBecomes(c, pc, of, text, left, perm) ==
  /\ click' \in ClickTypes
  /\ \A d \in Clicks : d # c => click'[d] = click[d]
  /\ click'[c].pc = pc /\ click'[c].of = of /\ click'[c].text = text /\ click'[c].left = left
  /\ click'[c].perm = perm

LEMMA ClickMoves ==
  ASSUME AnnounceTypeOK, NEW c \in Clicks
  PROVE  /\ \A t \in Requests : PressesSend(c, t) =>
              ClickBecomes(c, "pressed", t, click[c].text, click[c].left, click[c].perm)
         /\ Accepts(c) =>
              \E pc \in {"defer", "over"} :
                ClickBecomes(c, pc, click[c].of, click[c].text, click[c].left, click[c].perm)
         /\ ShowsBusy(c) =>
              ClickBecomes(c, "list", click[c].of, request[click[c].of].draft, click[c].left, click[c].perm)
         /\ Lists(c) =>
              \/ ClickBecomes(c, "send", click[c].of, click[c].text, Active, click[c].perm)
              \/ ClickBecomes(c, "over", click[c].of, click[c].text, click[c].left, click[c].perm)
         /\ Finishes(c) =>
              ClickBecomes(c, "over", click[c].of, click[c].text, click[c].left, click[c].perm)
<1> USE DEF RequestTypes, MessageTypes, ClickTypes, ClickPcs, Appearances
<1>1. /\ click \in ClickTypes
      /\ Active \subseteq Receivers
      /\ \A t \in Requests : request[t].draft \in Texts \cup {"none"}
  BY DEF AnnounceTypeOK, Active
<1>2. ASSUME NEW t \in Requests, PressesSend(c, t)
      PROVE  ClickBecomes(c, "pressed", t, click[c].text, click[c].left, click[c].perm)
  BY <1>1, <1>2 DEF PressesSend, ClickBecomes
<1>3. ASSUME Accepts(c)
      PROVE  \E pc \in {"defer", "over"} :
               ClickBecomes(c, pc, click[c].of, click[c].text, click[c].left, click[c].perm)
  <2>1. PICK pc \in {"defer", "over"} : click' = [click EXCEPT ![c].pc = pc]
    BY <1>3 DEF Accepts
  <2>2. ClickBecomes(c, pc, click[c].of, click[c].text, click[c].left, click[c].perm)
    BY <1>1, <2>1 DEF ClickBecomes
  <2> QED
    BY <2>2
<1>4. ASSUME ShowsBusy(c)
      PROVE  ClickBecomes(c, "list", click[c].of, request[click[c].of].draft, click[c].left, click[c].perm)
  <2>1. request[click[c].of].draft \in Texts \cup {"none"}
    BY <1>1
  <2> QED
    BY <1>1, <1>4, <2>1 DEF ShowsBusy, ClickBecomes
<1>5. ASSUME Lists(c)
      PROVE  \/ ClickBecomes(c, "send", click[c].of, click[c].text, Active, click[c].perm)
             \/ ClickBecomes(c, "over", click[c].of, click[c].text, click[c].left, click[c].perm)
  <2>1. CASE click' = [click EXCEPT ![c].pc = "send", ![c].left = Active]
    BY <1>1, <2>1 DEF ClickBecomes
  <2>2. CASE click' = [click EXCEPT ![c].pc = "over"]
    BY <1>1, <2>2 DEF ClickBecomes
  <2> QED
    BY <1>5, <2>1, <2>2 DEF Lists
<1>6. ASSUME Finishes(c)
      PROVE  ClickBecomes(c, "over", click[c].of, click[c].text, click[c].left, click[c].perm)
  BY <1>1, <1>6 DEF Finishes, ClickBecomes
<1> QED
  BY <1>2, <1>3, <1>4, <1>5, <1>6

LEMMA SendMoves ==
  ASSUME AnnounceTypeOK, NEW c \in Clicks
  PROVE  /\ Sends(c) => \E h \in click[c].left :
              /\ ClickBecomes(c, "send", click[c].of, click[c].text, click[c].left \ {h}, click[c].perm)
                 \/ ClickBecomes(c, "send", click[c].of, click[c].text, click[c].left \ {h},
                                 click[c].perm \cup {h})
              /\ \/ /\ ClickBecomes(c, "send", click[c].of, click[c].text, click[c].left \ {h},
                                    click[c].perm \cup {h})
                    /\ failedFlags' \subseteq failedFlags \cup {h} /\ h \in Receivers /\ told' = told
                 \/ /\ told' = [told EXCEPT ![click[c].of][h] = IF @ < 2 THEN @ + 1 ELSE @]
                    /\ failedFlags' = failedFlags \ {h}
                 \/ UNCHANGED <<told, failedFlags>>
         /\ Removes(c) => \E h \in click[c].perm :
              /\ ClickBecomes(c, "send", click[c].of, click[c].text, click[c].left, click[c].perm \ {h})
              /\ failedFlags' = failedFlags \ {h}
<1> USE DEF RequestTypes, MessageTypes, ClickTypes, ClickPcs, Appearances
<1>1. /\ click \in ClickTypes
  BY DEF AnnounceTypeOK
<1>2. ASSUME NEW h \in click[c].left
      PROVE  /\ click[c].pc = "send" /\ click' = [click EXCEPT ![c].left = @ \ {h}] =>
                  ClickBecomes(c, "send", click[c].of, click[c].text, click[c].left \ {h}, click[c].perm)
             /\ click[c].pc = "send"
                /\ click' = [click EXCEPT ![c].left = @ \ {h}, ![c].perm = @ \cup {h}] =>
                  ClickBecomes(c, "send", click[c].of, click[c].text, click[c].left \ {h},
                               click[c].perm \cup {h})
  BY <1>1 DEF ClickBecomes
<1>3. ASSUME Sends(c)
      PROVE  \E h \in click[c].left :
              /\ ClickBecomes(c, "send", click[c].of, click[c].text, click[c].left \ {h}, click[c].perm)
                 \/ ClickBecomes(c, "send", click[c].of, click[c].text, click[c].left \ {h},
                                 click[c].perm \cup {h})
              /\ \/ /\ ClickBecomes(c, "send", click[c].of, click[c].text, click[c].left \ {h},
                                    click[c].perm \cup {h})
                    /\ failedFlags' \subseteq failedFlags \cup {h} /\ h \in Receivers /\ told' = told
                 \/ /\ told' = [told EXCEPT ![click[c].of][h] = IF @ < 2 THEN @ + 1 ELSE @]
                    /\ failedFlags' = failedFlags \ {h}
                 \/ UNCHANGED <<told, failedFlags>>
  <2>1. PICK h \in click[c].left :
          \/ /\ click' = [click EXCEPT ![c].left = @ \ {h}, ![c].perm = @ \cup {h}]
             /\ failedFlags' \subseteq failedFlags \cup {h} /\ told' = told
          \/ /\ click' = [click EXCEPT ![c].left = @ \ {h}]
             /\ told' = [told EXCEPT ![click[c].of][h] = IF @ < 2 THEN @ + 1 ELSE @]
             /\ failedFlags' = failedFlags \ {h}
          \/ click' = [click EXCEPT ![c].left = @ \ {h}] /\ UNCHANGED <<told, failedFlags>>
    BY <1>3 DEF Sends
  <2>2. click[c].pc = "send" /\ h \in Receivers
    BY <1>1, <1>3 DEF Sends
  <2> QED
    BY <1>2, <2>1, <2>2
<1>4. ASSUME Removes(c)
      PROVE  \E h \in click[c].perm :
               /\ ClickBecomes(c, "send", click[c].of, click[c].text, click[c].left, click[c].perm \ {h})
               /\ failedFlags' = failedFlags \ {h}
  <2>1. PICK h \in click[c].perm :
          click' = [click EXCEPT ![c].perm = @ \ {h}] /\ failedFlags' = failedFlags \ {h}
    BY <1>4 DEF Removes, Unflagged
  <2>2. click[c].pc = "send"
    BY <1>4 DEF Removes
  <2> QED
    BY <1>1, <2>1, <2>2 DEF ClickBecomes
<1> QED
  BY <1>3, <1>4

\* A request changes one of its fields.
LEMMA RequestsTyped ==
  ASSUME request \in RequestTypes, NEW t \in Requests, NEW d \in Texts \cup {"none"}
  PROVE  /\ [request EXCEPT ![t].pending = TRUE] \in RequestTypes
         /\ [request EXCEPT ![t].pending = FALSE] \in RequestTypes
         /\ [request EXCEPT ![t].expired = TRUE] \in RequestTypes
         /\ [request EXCEPT ![t].draft = d] \in RequestTypes
<1> USE DEF RequestTypes, MessageTypes, ClickTypes, ClickPcs, Appearances
<1>1. [request EXCEPT ![t].pending = TRUE] \in RequestTypes
  OBVIOUS
<1>2. [request EXCEPT ![t].pending = FALSE] \in RequestTypes
  OBVIOUS
<1>3. [request EXCEPT ![t].expired = TRUE] \in RequestTypes
  OBVIOUS
<1>4. [request EXCEPT ![t].draft = d] \in RequestTypes
  OBVIOUS
<1> QED
  BY <1>1, <1>2, <1>3, <1>4

\* One more message to a receiver.
LEMMA AddedToTold ==
  ASSUME told \in [Requests -> [Receivers -> 0 .. 2]], NEW t \in Requests, NEW h \in Receivers,
         told' = [told EXCEPT ![t][h] = IF @ < 2 THEN @ + 1 ELSE @]
  PROVE  /\ told' \in [Requests -> [Receivers -> 0 .. 2]]
         /\ \A u \in Requests, g \in Receivers :
              IF u = t /\ g = h THEN told[t][h] < 2 => told'[t][h] = told[t][h] + 1
                                ELSE told'[u][g] = told[u][g]
<1> DEFINE v == IF told[t][h] < 2 THEN told[t][h] + 1 ELSE told[t][h]
<1>1. v \in 0 .. 2 /\ told' = [told EXCEPT ![t] = [told[t] EXCEPT ![h] = v]]
  OBVIOUS
<1> HIDE DEF v
<1>2. [told[t] EXCEPT ![h] = v] \in [Receivers -> 0 .. 2]
  BY <1>1
<1>3. told' \in [Requests -> [Receivers -> 0 .. 2]]
  BY <1>1, <1>2
<1>4. ASSUME NEW u \in Requests, NEW g \in Receivers
      PROVE  IF u = t /\ g = h THEN told'[t][h] = v ELSE told'[u][g] = told[u][g]
  BY <1>1
<1> QED
  BY <1>3, <1>4 DEF v

LEMMA AnnounceTypes == AnnounceTypeOK /\ [AnnounceNext]_announceVars => AnnounceTypeOK'
<1> USE DEF RequestTypes, MessageTypes, ClickTypes, ClickPcs, Appearances
<1> SUFFICES ASSUME AnnounceTypeOK, [AnnounceNext]_announceVars PROVE AnnounceTypeOK'
  OBVIOUS
<1> USE DEF AnnounceTypeOK, pastRequests
<1>1. ASSUME NEW t \in Requests, NEW what \in Appearances,
             Shows(t, what)
      PROVE  message' \in MessageTypes
  BY <1>1 DEF Shows
<1>2. ASSUME NEW t \in Requests, Over(t)
      PROVE  ended' \subseteq Requests /\ inHand' \in [Requests -> SUBSET Clicks]
  BY <1>2 DEF Over, Handling
<1>3. ASSUME NEW t \in Requests
      PROVE  Deleted(t) \in RequestTypes
  BY RequestsTyped DEF Deleted
<1>4. AnnounceFails \/ announceFaults' = announceFaults => announceFaults' \in Nat
  BY DEF AnnounceFails
<1>5. ASSUME NEW t \in Requests, Asks(t) PROVE AnnounceTypeOK'
  <2>1. request' \in RequestTypes
    BY <1>5, RequestsTyped DEF Asks
  <2>2. message' \in MessageTypes
    BY <1>1, <1>5 DEF Asks
  <2> QED
    BY <1>5, <2>1, <2>2 DEF Asks
<1>6. ASSUME NEW t \in Requests, OpensModal(t) \/ PressesCancel(t) \/ RefusedModal(t) PROVE AnnounceTypeOK'
  <2>1. CASE OpensModal(t)
    BY <1>6, <2>1 DEF OpensModal
  <2>2. CASE PressesCancel(t)
    BY <1>6, <2>2 DEF PressesCancel
  <2>3. CASE RefusedModal(t)
    BY <1>6, <2>3 DEF RefusedModal
  <2> QED
    BY <1>6, <2>1, <2>2, <2>3
<1>7. ASSUME NEW t \in Requests, Expires(t) PROVE AnnounceTypeOK'
  <2>1. request' \in RequestTypes
    BY <1>7, RequestsTyped DEF Expires
  <2>2. ended' \subseteq Requests /\ inHand' \in [Requests -> SUBSET Clicks]
    BY <1>2, <1>7 DEF Expires
  <2> QED
    BY <1>7, <2>1, <2>2 DEF Expires
<1>8. ASSUME NEW t \in Requests, ShowsSummary(t) PROVE AnnounceTypeOK'
  BY <1>8 DEF ShowsSummary
<1>9. ASSUME NEW t \in Requests, Cancels(t) PROVE AnnounceTypeOK'
  BY <1>1, <1>2, <1>3, <1>9 DEF Cancels
<1>10. ASSUME NEW t \in Requests, NEW text \in Texts, NEW keyword \in BOOLEAN, Submits(t, text, keyword)
       PROVE  AnnounceTypeOK'
  <2>1. Draft(t, text, keyword) \in Texts \cup {"none"}
    BY DEF Draft
  <2>2. request' = [request EXCEPT ![t].draft = Draft(t, text, keyword)]
    BY <1>10 DEF Submits
  <2>3. request' \in RequestTypes
    BY <2>1, <2>2, RequestsTyped
  <2>4. message' \in MessageTypes
    BY <1>1, <1>10 DEF Submits
  <2>5. modal' \in [Requests -> Texts \cup {"closed", "open"}] /\ confirmed' \in [Requests -> SUBSET Texts]
    <3>1. CASE keyword
      <4>1. modal' = [modal EXCEPT ![t] = text] /\ confirmed' = [confirmed EXCEPT ![t] = @ \cup {text}]
        BY <1>10, <3>1 DEF Submits
      <4>2. modal' \in [Requests -> Texts \cup {"closed", "open"}]
        BY <4>1
      <4>3. confirmed' \in [Requests -> SUBSET Texts]
        BY <4>1
      <4> QED
        BY <4>2, <4>3
    <3>2. CASE ~keyword
      BY <1>10, <3>2 DEF Submits
    <3> QED
      BY <3>1, <3>2
  <2> QED
    BY <1>10, <2>3, <2>4, <2>5 DEF Submits
<1>11. ASSUME NEW c \in Clicks, NEW t \in Requests, PressesSend(c, t) PROVE AnnounceTypeOK'
  BY <1>11, ClickMoves DEF PressesSend, ClickBecomes
<1>12. ASSUME NEW c \in Clicks, Accepts(c) PROVE AnnounceTypeOK'
  <2>1. click' \in ClickTypes
    BY <1>12, ClickMoves DEF ClickBecomes
  <2>2. overlapped' \subseteq Requests
    BY <1>12 DEF Accepts
  <2> QED
    BY <1>12, <2>1, <2>2 DEF Accepts
<1>13. ASSUME NEW c \in Clicks, ShowsBusy(c) PROVE AnnounceTypeOK'
  BY <1>1, <1>13, ClickMoves DEF ShowsBusy, ClickBecomes
<1>14. ASSUME NEW c \in Clicks, Lists(c) PROVE AnnounceTypeOK'
  <2>1. message' \in MessageTypes
    BY <1>1, <1>14 DEF Lists
  <2> QED
    BY <1>4, <1>14, <2>1, ClickMoves DEF Lists, ClickBecomes
<1>15. ASSUME NEW c \in Clicks, Sends(c) PROVE AnnounceTypeOK'
  <2>1. /\ click' \in ClickTypes
        /\ failedFlags' \subseteq Receivers
    <3>1. PICK h \in click[c].left :
            /\ click' \in ClickTypes
            /\ \/ failedFlags' \subseteq failedFlags \cup {h} /\ h \in Receivers
               \/ failedFlags' \subseteq failedFlags
      BY <1>15, SendMoves DEF ClickBecomes
    <3> QED
      BY <3>1
  <2>2. PICK h \in Receivers :
          told' = told \/ told' = [told EXCEPT ![click[c].of][h] = IF @ < 2 THEN @ + 1 ELSE @]
    BY <1>15 DEF Sends
  <2>3. told' \in [Requests -> [Receivers -> 0 .. 2]]
    BY <2>2, AddedToTold
  <2>4. announceFaults' \in Nat
    BY <1>4, <1>15 DEF Sends
  <2> QED
    BY <1>15, <2>1, <2>3, <2>4 DEF Sends
<1>16. ASSUME NEW c \in Clicks, Removes(c) PROVE AnnounceTypeOK'
  <2>1. failedFlags' \subseteq Receivers /\ receiver' \in [Receivers -> {"active", "gone", "inactive"}]
    BY <1>16 DEF Removes, Unflagged
  <2>2. announceFaults' \in Nat
    BY <1>4, <1>16 DEF Removes
  <2> QED
    BY <1>16, <2>1, <2>2, SendMoves DEF Removes, ClickBecomes
<1>17. ASSUME NEW c \in Clicks, Finishes(c) PROVE AnnounceTypeOK'
  <2>1. click[c].of \in Requests
    OBVIOUS
  <2>2. ended' \subseteq Requests /\ inHand' \in [Requests -> SUBSET Clicks]
    BY <1>2, <1>17, <2>1 DEF Finishes
  <2>3. message' \in MessageTypes
    BY <1>1, <1>17, <2>1 DEF Finishes
  <2>4. request' \in RequestTypes
    BY <1>3, <1>17, <2>1 DEF Finishes
  <2> QED
    BY <1>17, <2>2, <2>3, <2>4, ClickMoves DEF Finishes, ClickBecomes
<1>18. CASE UNCHANGED announceVars
  BY <1>18 DEF announceVars
<1> QED
  BY <1>5, <1>6, <1>7, <1>8, <1>9, <1>10, <1>11, <1>12, <1>13, <1>14, <1>15, <1>16, <1>17, <1>18
  DEF AnnounceNext, ClickStep

LEMMA AnnounceInitTyped == AnnounceInit => AnnounceTypeOK
<1> USE DEF RequestTypes, MessageTypes, ClickTypes, ClickPcs, Appearances
<1> SUFFICES ASSUME AnnounceInit PROVE AnnounceTypeOK
  OBVIOUS
<1>1. (CHOOSE t \in Requests : TRUE) \in Requests
  BY AnnounceAssumption
<1>2. Free \in [pc : ClickPcs,
                of : Requests, text : Texts \cup {"none"},
                left : SUBSET Receivers, perm : SUBSET Receivers]
  BY <1>1 DEF Free
<1> QED
  BY <1>2 DEF AnnounceInit, AnnounceTypeOK

\* What no step does to the requests: nobody asks twice, an ended one stays ended,
\* a draft is only ever replaced by a confirmed one.
RequestsGoOn ==
  /\ \A u \in Requests :
       /\ message'[u].shows = "nothing" => message[u].shows = "nothing"
       /\ request'[u].pending =>
            request[u].pending \/ (message[u].shows = "nothing" /\ message'[u].shows # "nothing")
       /\ Pending(u)' => Pending(u) \/ message[u].shows = "nothing"
       /\ confirmed[u] \subseteq confirmed'[u]
       /\ \/ request'[u].draft = request[u].draft
          \/ request'[u].draft \in confirmed'[u] /\ request'[u].draft # "none"
  /\ \A u \in ended' :
       /\ message'[u].shows # "nothing" /\ ~Pending(u)'
       /\ \/ u \in ended /\ inHand'[u] = inHand[u]
          \/ inHand'[u] = Handling(u)

LEMMA PendingAfter ==
  ASSUME AnnounceTypeOK, NEW t \in Requests
  PROVE  /\ \A u \in Requests : u # t =>
              /\ [request EXCEPT ![t].pending = TRUE][u] = request[u]
              /\ [request EXCEPT ![t].pending = FALSE][u] = request[u]
              /\ [request EXCEPT ![t].expired = TRUE][u] = request[u]
         /\ LET r == [request EXCEPT ![t].pending = TRUE][t]
            IN  r.pending /\ r.draft = request[t].draft
         /\ LET r == [request EXCEPT ![t].pending = FALSE][t]
            IN  ~r.pending /\ r.draft = request[t].draft
         /\ LET r == [request EXCEPT ![t].expired = TRUE][t]
            IN  r.expired /\ r.draft = request[t].draft /\ (r.pending <=> request[t].pending)
  BY DEF AnnounceTypeOK

LEMMA ShowsWhat ==
  ASSUME AnnounceTypeOK, NEW t \in Requests, NEW what, Shows(t, what)
  PROVE  message'[t].shows = what /\ \A u \in Requests : u # t => message'[u] = message[u]
  BY DEF AnnounceTypeOK, Shows

LEMMA OverWhat ==
  ASSUME AnnounceTypeOK, NEW t \in Requests, Over(t)
  PROVE  /\ ended' = ended \cup {t}
         /\ \A u \in Requests : u # t => inHand'[u] = inHand[u]
         /\ IF t \in ended THEN inHand'[t] = inHand[t] ELSE inHand'[t] = Handling(t)
  BY DEF AnnounceTypeOK, Over

LEMMA GoesOn ==
  ASSUME AnnounceTypeOK, Asked, [AnnounceNext]_announceVars
  PROVE  RequestsGoOn
<1> USE DEF RequestTypes, MessageTypes, ClickTypes, ClickPcs, Appearances
<1> USE DEF pastRequests
<1>0. ended \subseteq Requests
  BY DEF AnnounceTypeOK
<1>1. ASSUME UNCHANGED <<request, ended, inHand, confirmed>>,
             \A u \in Requests : message'[u].shows = "nothing" => message[u].shows = "nothing"
      PROVE  RequestsGoOn
  BY <1>0, <1>1 DEF RequestsGoOn, Asked, Pending
<1>2. ASSUME NEW t \in Requests, Asks(t) PROVE RequestsGoOn
  <2>1. /\ message[t].shows = "nothing" /\ t \notin ended
        /\ request' = [request EXCEPT ![t].pending = TRUE] /\ Shows(t, "offer")
        /\ UNCHANGED <<ended, inHand, confirmed>>
    BY <1>2 DEF Asks, Asked
  <2>2. message'[t].shows = "offer" /\ \A u \in Requests : u # t => message'[u] = message[u]
    BY <2>1, ShowsWhat
  <2>3. /\ \A u \in Requests : u # t => request'[u] = request[u]
        /\ request'[t].pending /\ request'[t].draft = request[t].draft
    BY <2>1, PendingAfter
  <2> QED
    BY <1>0, <2>1, <2>2, <2>3 DEF RequestsGoOn, Asked, Pending
<1>3. ASSUME NEW t \in Requests, OpensModal(t) \/ PressesCancel(t) \/ RefusedModal(t) PROVE RequestsGoOn
  BY <1>1, <1>3 DEF OpensModal, PressesCancel, RefusedModal
<1>4. ASSUME NEW t \in Requests, Expires(t) PROVE RequestsGoOn
  <2>1. /\ Pending(t) /\ request' = [request EXCEPT ![t].expired = TRUE] /\ Over(t)
        /\ UNCHANGED <<message, confirmed>>
    BY <1>4 DEF Expires
  <2>2. /\ \A u \in Requests : u # t => request'[u] = request[u]
        /\ request'[t].expired /\ request'[t].draft = request[t].draft
        /\ request'[t].pending <=> request[t].pending
    BY <2>1, PendingAfter
  <2>3. message[t].shows # "nothing"
    BY <2>1 DEF Asked, Pending
  <2>4. /\ ended' = ended \cup {t}
        /\ \A u \in Requests : u # t => inHand'[u] = inHand[u]
        /\ IF t \in ended THEN inHand'[t] = inHand[t] ELSE inHand'[t] = Handling(t)
    BY <2>1, OverWhat
  <2> QED
    BY <1>0, <2>1, <2>2, <2>3, <2>4 DEF RequestsGoOn, Asked, Pending
<1>5. ASSUME NEW t \in Requests, ShowsSummary(t) PROVE RequestsGoOn
  <2>1. message' = [message EXCEPT ![t] = [shows |-> "text", text |-> modal[t]]]
    BY <1>5 DEF ShowsSummary
  <2>2. \A u \in Requests : message'[u].shows = "nothing" => message[u].shows = "nothing"
    BY <2>1 DEF AnnounceTypeOK
  <2> QED
    BY <1>1, <1>5, <2>2 DEF ShowsSummary
<1>6. ASSUME NEW t \in Requests, Deleted(t) = request', Over(t), confirmed' = confirmed,
             Shows(t, "cancelled") \/ Shows(t, "sent")
      PROVE  RequestsGoOn
  <2>1. request' = [request EXCEPT ![t].pending = FALSE]
    BY <1>6 DEF Deleted
  <2>2. /\ \A u \in Requests : u # t => request'[u] = request[u]
        /\ ~request'[t].pending /\ request'[t].draft = request[t].draft
    BY <2>1, PendingAfter
  <2>3. message'[t].shows # "nothing" /\ \A u \in Requests : u # t => message'[u] = message[u]
    BY <1>6, ShowsWhat
  <2>4. /\ ended' = ended \cup {t}
        /\ \A u \in Requests : u # t => inHand'[u] = inHand[u]
        /\ IF t \in ended THEN inHand'[t] = inHand[t] ELSE inHand'[t] = Handling(t)
    BY <1>6, OverWhat
  <2> QED
    BY <1>0, <1>6, <2>2, <2>3, <2>4 DEF RequestsGoOn, Asked, Pending
<1>7. ASSUME NEW t \in Requests, Cancels(t) PROVE RequestsGoOn
  <2>1. CASE Pending(t)
    BY <1>6, <1>7, <2>1 DEF Cancels
  <2>2. CASE ~Pending(t)
    BY <1>1, <1>7, <2>2 DEF Cancels
  <2> QED
    BY <2>1, <2>2
<1>8. ASSUME NEW t \in Requests, NEW text \in Texts, NEW keyword \in BOOLEAN, Submits(t, text, keyword)
      PROVE  RequestsGoOn
  <2>1. request' = [request EXCEPT ![t].draft = Draft(t, text, keyword)] /\ UNCHANGED <<ended, inHand>>
    BY <1>8 DEF Submits
  <2>2. /\ \A u \in Requests : u # t => request'[u] = request[u]
        /\ request'[t].draft = Draft(t, text, keyword)
        /\ request'[t].pending = request[t].pending /\ request'[t].expired = request[t].expired
    BY <2>1 DEF AnnounceTypeOK
  <2>3. text # "none"
    BY AnnounceAssumption
  <2>4. CASE keyword
    <3>1. confirmed' = [confirmed EXCEPT ![t] = @ \cup {text}] /\ message' = message
      BY <1>8, <2>4 DEF Submits
    <3>2. /\ \A u \in Requests : confirmed[u] \subseteq confirmed'[u]
          /\ text \in confirmed'[t]
      BY <3>1 DEF AnnounceTypeOK
    <3> QED
      BY <1>0, <2>1, <2>2, <2>3, <2>4, <3>1, <3>2 DEF RequestsGoOn, Asked, Pending, Draft
  <2>5. CASE ~keyword
    <3>1. confirmed' = confirmed /\ Shows(t, "offer")
      BY <1>8, <2>5 DEF Submits
    <3>2. message'[t].shows # "nothing" /\ \A u \in Requests : u # t => message'[u] = message[u]
      BY <3>1, ShowsWhat
    <3> QED
      BY <1>0, <2>1, <2>2, <2>5, <3>1, <3>2 DEF RequestsGoOn, Asked, Pending, Draft
  <2> QED
    BY <2>4, <2>5
<1>9. ASSUME NEW c \in Clicks, NEW t \in Requests, PressesSend(c, t) PROVE RequestsGoOn
  BY <1>1, <1>9 DEF PressesSend
<1>10. ASSUME NEW c \in Clicks, Accepts(c) \/ Sends(c) \/ Removes(c) PROVE RequestsGoOn
  BY <1>1, <1>10 DEF Accepts, Sends, Removes
<1>11. ASSUME NEW c \in Clicks, ShowsBusy(c) \/ Lists(c) PROVE RequestsGoOn
  <2>1. click[c].of \in Requests
    BY DEF AnnounceTypeOK
  <2>2. \/ Shows(click[c].of, "busy") \/ Shows(click[c].of, "error") \/ message' = message
    BY <1>11 DEF ShowsBusy, Lists
  <2>3. \A u \in Requests : message'[u].shows = "nothing" => message[u].shows = "nothing"
    BY <2>1, <2>2, ShowsWhat
  <2> QED
    BY <1>1, <1>11, <2>3 DEF ShowsBusy, Lists
<1>12. ASSUME NEW c \in Clicks, Finishes(c) PROVE RequestsGoOn
  <2>1. click[c].of \in Requests
    BY DEF AnnounceTypeOK
  <2> QED
    BY <1>6, <1>12, <2>1 DEF Finishes
<1>13. CASE UNCHANGED announceVars
  BY <1>1, <1>13 DEF announceVars
<1> QED
  BY <1>2, <1>3, <1>4, <1>5, <1>7, <1>8, <1>9, <1>10, <1>11, <1>12, <1>13 DEF AnnounceNext, ClickStep

LEMMA AskedStep == Asked /\ RequestsGoOn /\ ended' \subseteq Requests => Asked'
  BY DEF Asked, RequestsGoOn

LoopInv == OneDispatch /\ Drafted /\ EndedIsFinal /\ SentIsConfirmed /\ FlagsAreTended

\* With the clicks and what was told as they were.
LEMMA ClicksRest ==
  ASSUME AnnounceTypeOK, LoopInv, RequestsGoOn, ended' \subseteq Requests,
         UNCHANGED <<click, told, overlapped, failedFlags>>
  PROVE  LoopInv'
<1> USE DEF RequestTypes, MessageTypes, ClickTypes, ClickPcs, Appearances
<1>1. \A t \in Requests : Handling(t)' = Handling(t)
  BY DEF Handling
<1>2. OneDispatch'
  BY <1>1 DEF LoopInv, OneDispatch, RequestsGoOn
<1>3. Drafted'
  BY DEF LoopInv, Drafted, RequestsGoOn, AnnounceTypeOK
<1>4. EndedIsFinal'
  BY <1>1 DEF LoopInv, EndedIsFinal, RequestsGoOn
<1>5. SentIsConfirmed'
  BY DEF LoopInv, SentIsConfirmed, RequestsGoOn, AnnounceTypeOK
<1>6. FlagsAreTended'
  BY DEF LoopInv, FlagsAreTended
<1> QED
  BY <1>2, <1>3, <1>4, <1>5, <1>6 DEF LoopInv

Dealt == {"defer", "list", "send"}

LEMMA HandlingAfter ==
  ASSUME AnnounceTypeOK, NEW c \in Clicks, NEW pc \in ClickPcs,
         NEW of \in Requests, NEW text, NEW left, NEW perm,
         ClickBecomes(c, pc, of, text, left, perm), of = click[c].of \/ click[c].pc \notin Dealt
  PROVE  /\ \A t \in Requests : t # of => Handling(t)' = Handling(t)
         /\ pc \in Dealt => Handling(of)' = Handling(of) \cup {c}
         /\ pc \notin Dealt => Handling(of)' = Handling(of) \ {c}
         /\ click[c].pc \in Dealt => c \in Handling(click[c].of)
         /\ click[c].pc \notin Dealt => \A t \in Requests : c \notin Handling(t)
<1> USE DEF RequestTypes, MessageTypes, ClickTypes, ClickPcs, Appearances
<1>1. \A d \in Clicks, t \in Requests : d \in Handling(t) <=> click[d].of = t /\ click[d].pc \in Dealt
  BY DEF Handling, Dealt, AnnounceTypeOK
<1>2. \A d \in Clicks, t \in Requests : d \in Handling(t)' <=> click'[d].of = t /\ click'[d].pc \in Dealt
  BY DEF Handling, Dealt, ClickBecomes
<1>3. \A t \in Requests : Handling(t) \subseteq Clicks /\ Handling(t)' \subseteq Clicks
  BY DEF Handling
<1>4. click'[c].of = of /\ click'[c].pc = pc /\ \A d \in Clicks : d # c => click'[d] = click[d]
  BY DEF ClickBecomes
<1>5. \A t \in Requests, d \in Clicks : d # c => (d \in Handling(t)' <=> d \in Handling(t))
  BY <1>1, <1>2, <1>4
<1>6. \A t \in Requests : c \in Handling(t)' <=> of = t /\ pc \in Dealt
  BY <1>2, <1>4
<1>7. ASSUME NEW t \in Requests, t # of PROVE Handling(t)' = Handling(t)
  <2>1. c \notin Handling(t)' /\ c \notin Handling(t)
    BY <1>1, <1>6, <1>7
  <2> QED
    BY <1>3, <1>5, <2>1
<1>8. pc \in Dealt => Handling(of)' = Handling(of) \cup {c}
  BY <1>3, <1>5, <1>6
<1>9. pc \notin Dealt => Handling(of)' = Handling(of) \ {c}
  BY <1>3, <1>5, <1>6
<1>10. click[c].of \in Requests
  BY DEF AnnounceTypeOK
<1> QED
  BY <1>1, <1>7, <1>8, <1>9, <1>10

\* A step of one click, all but OneDispatch.
LEMMA ClickCommon ==
  ASSUME AnnounceTypeOK, LoopInv, RequestsGoOn, ended' \subseteq Requests,
         NEW c \in Clicks, NEW pc \in ClickPcs,
         NEW of \in Requests, NEW text, NEW left, NEW perm,
         ClickBecomes(c, pc, of, text, left, perm), of = click[c].of \/ click[c].pc \notin Dealt,
         pc \in Dealt => click[c].pc \in Dealt \/ of \notin ended',
         pc = "defer" => request'[of].draft # "none",
         pc \in {"list", "send"} => text \in confirmed'[of],
         \A h \in failedFlags' : h \in perm \/ (h \in failedFlags /\ h \notin click[c].perm)
  PROVE  Drafted' /\ EndedIsFinal' /\ SentIsConfirmed' /\ FlagsAreTended'
<1> USE DEF RequestTypes, MessageTypes, ClickTypes, ClickPcs, Appearances
<1>1. /\ \A t \in Requests : t # of => Handling(t)' = Handling(t)
      /\ pc \in Dealt => Handling(of)' = Handling(of) \cup {c}
      /\ pc \notin Dealt => Handling(of)' = Handling(of) \ {c}
      /\ click[c].pc \in Dealt => c \in Handling(click[c].of)
  BY HandlingAfter
<1>2. /\ \A d \in Clicks : d # c => click'[d] = click[d]
      /\ click'[c].pc = pc /\ click'[c].of = of /\ click'[c].text = text /\ click'[c].perm = perm
  BY DEF ClickBecomes
<1>3. \A d \in Clicks : click[d].of \in Requests
  BY DEF AnnounceTypeOK
<1>4. Drafted'
  <2>1. \A t \in Requests : request'[t].draft # "none" => request'[t].draft \in confirmed'[t]
    BY DEF LoopInv, Drafted, RequestsGoOn
  <2>2. ASSUME NEW d \in Clicks, click'[d].pc = "defer" PROVE request'[click'[d].of].draft # "none"
    BY <1>2, <1>3, <2>2 DEF LoopInv, Drafted, RequestsGoOn
  <2> QED
    BY <2>1, <2>2 DEF Drafted
<1>5. EndedIsFinal'
  <2>1. ASSUME NEW t \in ended' PROVE Handling(t)' \subseteq inHand'[t]
    <3>1. (t \in ended /\ inHand'[t] = inHand[t]) \/ inHand'[t] = Handling(t)
      BY DEF RequestsGoOn
    <3>2. Handling(t) \subseteq inHand'[t]
      BY <3>1 DEF LoopInv, EndedIsFinal
    <3>3. Handling(t)' \subseteq Handling(t)
      BY <1>1
    <3> QED
      BY <3>2, <3>3
  <2> QED
    BY <2>1 DEF EndedIsFinal
<1>6. SentIsConfirmed'
  <2>1. ASSUME NEW d \in Clicks, click'[d].pc \in {"list", "send"}
        PROVE  click'[d].text \in confirmed'[click'[d].of]
    BY <1>2, <1>3, <2>1 DEF LoopInv, SentIsConfirmed, RequestsGoOn
  <2> QED
    BY <2>1 DEF SentIsConfirmed
<1>7. FlagsAreTended'
  <2>1. ASSUME NEW h \in failedFlags' PROVE \E d \in Clicks : h \in click'[d].perm
    <3>1. CASE h \in perm
      BY <1>2, <3>1
    <3>2. CASE h \in failedFlags /\ h \notin click[c].perm
      BY <1>2, <3>2 DEF LoopInv, FlagsAreTended
    <3> QED
      BY <2>1, <3>1, <3>2
  <2> QED
    BY <2>1 DEF FlagsAreTended
<1> QED
  BY <1>4, <1>5, <1>6, <1>7

\* A step of a click that is being handled: with no overlap it is the only one.
LEMMA Alone ==
  ASSUME LoopInv, AnnounceTypeOK, NEW c \in Clicks, click[c].pc \in Dealt,
         click[c].of \notin overlapped
  PROVE  /\ Handling(click[c].of) = {c}
         /\ \A h \in Receivers : told[click[c].of][h] # 0 =>
              told[click[c].of][h] = 1 /\ click[c].pc = "send" /\ h \notin click[c].left
<1> USE DEF RequestTypes, MessageTypes, ClickTypes, ClickPcs, Appearances
<1>1. click[c].of \in Requests /\ c \in Handling(click[c].of)
  BY DEF AnnounceTypeOK, Handling, Dealt
<1> QED
  BY <1>1 DEF LoopInv, OneDispatch

LEMMA ClickLoop ==
  ASSUME AnnounceTypeOK, LoopInv, RequestsGoOn, ended' \subseteq Requests, NEW c \in Clicks,
         (\E t \in Requests : PressesSend(c, t)) \/ ClickStep(c)
  PROVE  LoopInv'
<1> USE DEF RequestTypes, MessageTypes, ClickTypes, ClickPcs, Appearances
<1>1. click[c].of \in Requests /\ told \in [Requests -> [Receivers -> 0 .. 2]]
  BY DEF AnnounceTypeOK
<1> USE DEF pastRequests
<1>2. ASSUME NEW t \in Requests, PressesSend(c, t) PROVE LoopInv'
  <2>1. /\ click[c].pc \notin Dealt
        /\ ClickBecomes(c, "pressed", t, click[c].text, click[c].left, click[c].perm)
        /\ UNCHANGED <<request, message, told, overlapped, failedFlags>>
    BY <1>2, ClickMoves DEF PressesSend, Dealt
  <2>2. Drafted' /\ EndedIsFinal' /\ SentIsConfirmed' /\ FlagsAreTended'
    <3>1. \A h \in failedFlags' : h \in click[c].perm \/ (h \in failedFlags /\ h \notin click[c].perm)
      BY <2>1
    <3> QED
      BY <2>1, <3>1, ClickCommon DEF Dealt
  <2>3. /\ \A u \in Requests : c \notin Handling(u)
        /\ \A u \in Requests : u # t => Handling(u)' = Handling(u)
        /\ Handling(t)' = Handling(t) \ {c}
    BY <2>1, HandlingAfter DEF Dealt
  <2>4. \A u \in Requests : Handling(u)' = Handling(u)
    BY <2>3
  <2>5. \A u \in Requests : \A d \in Handling(u) : click'[d] = click[d]
    BY <2>1, <2>3 DEF ClickBecomes, Handling
  <2>6. OneDispatch'
    BY <2>1, <2>4, <2>5 DEF LoopInv, OneDispatch, Pending
  <2> QED
    BY <2>2, <2>6 DEF LoopInv
<1>t. PICK t \in Requests : t = click[c].of
  BY <1>1
<1> USE <1>t
<1>3. CASE Accepts(c)
  <2>1. /\ click[c].pc = "pressed" /\ UNCHANGED <<request, message, told, failedFlags, ended>>
        /\ IF Pending(t) /\ request[t].draft # "none"
           THEN /\ click' = [click EXCEPT ![c].pc = "defer"]
                /\ overlapped' = IF Handling(t) = {} THEN overlapped ELSE overlapped \cup {t}
           ELSE /\ click' = [click EXCEPT ![c].pc = "over"] /\ overlapped' = overlapped
    BY <1>3 DEF Accepts
  <2>2. PICK pc \in {"defer", "over"} :
          ClickBecomes(c, pc, t, click[c].text, click[c].left, click[c].perm)
    BY <1>3, ClickMoves
  <2>3. pc = click'[c].pc
    BY <2>2 DEF ClickBecomes
  <2>4. pc = "defer" => Pending(t) /\ request[t].draft # "none"
    BY <2>1, <2>3 DEF AnnounceTypeOK
  <2>5. t \in ended' => ~Pending(t)
    BY <2>1 DEF RequestsGoOn, Pending
  <2>6. Drafted' /\ EndedIsFinal' /\ SentIsConfirmed' /\ FlagsAreTended'
    <3>1. \A h \in failedFlags' : h \in click[c].perm \/ (h \in failedFlags /\ h \notin click[c].perm)
      BY <2>1
    <3> QED
      BY <1>1, <2>1, <2>2, <2>4, <2>5, <3>1, ClickCommon DEF Dealt
  <2>7. /\ \A u \in Requests : u # t => Handling(u)' = Handling(u)
        /\ pc \in Dealt => Handling(t)' = Handling(t) \cup {c}
        /\ pc \notin Dealt => Handling(t)' = Handling(t) \ {c}
        /\ \A u \in Requests : c \notin Handling(u)
    BY <1>1, <2>1, <2>2, HandlingAfter DEF Dealt
  <2>8. \A u \in Requests : \A d \in Handling(u) : click'[d] = click[d]
    BY <2>2, <2>7 DEF ClickBecomes, Handling
  <2>9. ASSUME NEW u \in Requests, u \notin overlapped'
        PROVE  /\ \A e, d \in Handling(u)' : e = d
               /\ \A h \in Receivers : told'[u][h] # 0 =>
                    /\ told'[u][h] = 1
                    /\ \A d \in Handling(u)' : click'[d].pc = "send" /\ h \notin click'[d].left
                    /\ Handling(u)' = {} => message'[u].shows # "nothing" /\ ~Pending(u)'
    <3>1. u \notin overlapped
      BY <2>1, <2>9
    <3>2. CASE u # t \/ pc = "over"
      <4>1. Handling(u)' = Handling(u)
        BY <2>7, <3>2 DEF Dealt
      <4> QED
        BY <2>1, <2>8, <3>1, <4>1 DEF LoopInv, OneDispatch, Pending
    <3>3. CASE u = t /\ pc = "defer"
      <4>1. Handling(t) = {}
        BY <2>1, <2>4, <2>9, <3>3
      <4>2. Handling(t)' = {c}
        BY <2>7, <3>3, <4>1 DEF Dealt
      <4>3. \A h \in Receivers : told[t][h] = 0
        BY <2>4, <3>1, <3>3, <4>1 DEF LoopInv, OneDispatch
      <4> QED
        BY <2>1, <3>3, <4>2, <4>3
    <3> QED
      BY <3>2, <3>3
  <2>10. OneDispatch'
    BY <2>9 DEF OneDispatch
  <2> QED
    BY <2>6, <2>10 DEF LoopInv
\* A click that goes on: the request is dealt with by the same clicks as before.
<1>4. ASSUME NEW pc \in Dealt, NEW text, NEW left, NEW perm, ClickBecomes(c, pc, t, text, left, perm),
             click[c].pc \in Dealt, overlapped' = overlapped,
             \A u \in Requests : u # t => told'[u] = told[u],
             t \notin overlapped =>
               \A h \in Receivers : told'[t][h] # 0 =>
                 told'[t][h] = 1 /\ pc = "send" /\ h \notin left
      PROVE  OneDispatch'
  <2>1. /\ \A u \in Requests : u # t => Handling(u)' = Handling(u)
        /\ Handling(t)' = Handling(t) \cup {c} /\ c \in Handling(t)
    BY <1>1, <1>4, HandlingAfter DEF Dealt
  <2>2. /\ \A d \in Clicks : d # c => click'[d] = click[d]
        /\ click'[c].pc = pc /\ click'[c].left = left
    BY <1>4 DEF ClickBecomes
  <2>3. ASSUME NEW u \in Requests, u \notin overlapped
        PROVE  /\ \A e, d \in Handling(u)' : e = d
               /\ \A h \in Receivers : told'[u][h] # 0 =>
                    /\ told'[u][h] = 1
                    /\ \A d \in Handling(u)' : click'[d].pc = "send" /\ h \notin click'[d].left
                    /\ Handling(u)' = {} => message'[u].shows # "nothing" /\ ~Pending(u)'
    <3>1. CASE u = t
      <4>1. Handling(t)' = {c}
        BY <1>4, <2>1, <2>3, <3>1, Alone
      <4> QED
        BY <1>4, <2>2, <2>3, <3>1, <4>1
    <3>2. CASE u # t
      <4>1. \A d \in Handling(u) : d # c /\ click'[d] = click[d]
        BY <2>2, <3>2 DEF Handling
      <4> QED
        BY <1>4, <2>1, <2>3, <3>2, <4>1 DEF LoopInv, OneDispatch, RequestsGoOn
    <3> QED
      BY <3>1, <3>2
  <2> QED
    BY <1>4, <2>3 DEF OneDispatch
\* A click that ends.
<1>5. ASSUME NEW text, NEW left, NEW perm, ClickBecomes(c, "over", t, text, left, perm),
             click[c].pc \in Dealt, UNCHANGED <<overlapped, told>>,
             click[c].pc = "send" => message'[t].shows # "nothing" /\ ~Pending(t)'
      PROVE  OneDispatch'
  <2>1. /\ \A u \in Requests : u # t => Handling(u)' = Handling(u)
        /\ Handling(t)' = Handling(t) \ {c} /\ c \in Handling(t)
    BY <1>1, <1>5, HandlingAfter DEF Dealt
  <2>2. \A d \in Clicks : d # c => click'[d] = click[d]
    BY <1>5 DEF ClickBecomes
  <2>3. ASSUME NEW u \in Requests, u \notin overlapped
        PROVE  /\ \A e, d \in Handling(u)' : e = d
               /\ \A h \in Receivers : told'[u][h] # 0 =>
                    /\ told'[u][h] = 1
                    /\ \A d \in Handling(u)' : click'[d].pc = "send" /\ h \notin click'[d].left
                    /\ Handling(u)' = {} => message'[u].shows # "nothing" /\ ~Pending(u)'
    <3>1. CASE u = t
      <4>1. /\ Handling(t)' = {}
            /\ \A h \in Receivers : told[t][h] # 0 => told[t][h] = 1 /\ click[c].pc = "send"
        BY <1>5, <2>1, <2>3, <3>1, Alone
      <4> QED
        BY <1>5, <2>3, <3>1, <4>1
    <3>2. CASE u # t
      <4>1. \A d \in Handling(u) : d # c /\ click'[d] = click[d]
        BY <2>2, <3>2 DEF Handling
      <4> QED
        BY <1>5, <2>1, <2>3, <3>2, <4>1 DEF LoopInv, OneDispatch, RequestsGoOn
    <3> QED
      BY <3>1, <3>2
  <2> QED
    BY <1>5, <2>3 DEF OneDispatch
<1>6. CASE ShowsBusy(c)
  <2>1. /\ click[c].pc = "defer" /\ UNCHANGED <<request, told, overlapped, failedFlags, confirmed>>
        /\ ClickBecomes(c, "list", t, request[t].draft, click[c].left, click[c].perm)
    BY <1>6, ClickMoves DEF ShowsBusy
  <2>2. request[t].draft \in confirmed'[t]
    BY <1>1, <2>1 DEF LoopInv, Drafted
  <2>3. Drafted' /\ EndedIsFinal' /\ SentIsConfirmed' /\ FlagsAreTended'
    <3>1. \A h \in failedFlags' : h \in click[c].perm \/ (h \in failedFlags /\ h \notin click[c].perm)
      BY <2>1
    <3> QED
      BY <1>1, <2>1, <2>2, <3>1, ClickCommon DEF Dealt
  <2>4. t \notin overlapped => \A h \in Receivers : told[t][h] = 0
    BY <2>1, Alone DEF Dealt
  <2>5. OneDispatch'
    BY <1>4, <2>1, <2>4 DEF Dealt
  <2> QED
    BY <2>3, <2>5 DEF LoopInv
<1>7. CASE Lists(c)
  <2>1. click[c].pc = "list" /\ UNCHANGED <<request, told, overlapped, failedFlags, confirmed>>
    BY <1>7 DEF Lists
  <2>2. t \notin overlapped => \A h \in Receivers : told[t][h] = 0
    BY <2>1, Alone DEF Dealt
  <2>3. click[c].text \in confirmed'[t]
    BY <2>1 DEF LoopInv, SentIsConfirmed
  <2>4. \A h \in failedFlags' : h \in click[c].perm \/ (h \in failedFlags /\ h \notin click[c].perm)
    BY <2>1
  <2>5. CASE ClickBecomes(c, "send", t, click[c].text, Active, click[c].perm)
    <3>1. Drafted' /\ EndedIsFinal' /\ SentIsConfirmed' /\ FlagsAreTended'
      BY <1>1, <2>1, <2>3, <2>4, <2>5, ClickCommon DEF Dealt
    <3>2. OneDispatch'
      BY <1>4, <2>1, <2>2, <2>5 DEF Dealt
    <3> QED
      BY <3>1, <3>2 DEF LoopInv
  <2>6. CASE ClickBecomes(c, "over", t, click[c].text, click[c].left, click[c].perm)
    <3>1. Drafted' /\ EndedIsFinal' /\ SentIsConfirmed' /\ FlagsAreTended'
      BY <1>1, <2>1, <2>4, <2>6, ClickCommon DEF Dealt
    <3>2. OneDispatch'
      BY <1>5, <2>1, <2>6 DEF Dealt
    <3> QED
      BY <3>1, <3>2 DEF LoopInv
  <2> QED
    BY <1>7, <2>5, <2>6, ClickMoves
<1>8. CASE Sends(c)
  <2>1. click[c].pc = "send" /\ UNCHANGED <<request, overlapped, confirmed>>
    BY <1>8 DEF Sends
  <2>2. click[c].text \in confirmed'[t]
    BY <2>1 DEF LoopInv, SentIsConfirmed
  <2>3. PICK h \in click[c].left :
          /\ ClickBecomes(c, "send", t, click[c].text, click[c].left \ {h}, click[c].perm)
             \/ ClickBecomes(c, "send", t, click[c].text, click[c].left \ {h}, click[c].perm \cup {h})
          /\ \/ /\ ClickBecomes(c, "send", t, click[c].text, click[c].left \ {h}, click[c].perm \cup {h})
                /\ failedFlags' \subseteq failedFlags \cup {h} /\ h \in Receivers /\ told' = told
             \/ /\ told' = [told EXCEPT ![t][h] = IF @ < 2 THEN @ + 1 ELSE @]
                /\ failedFlags' = failedFlags \ {h}
             \/ UNCHANGED <<told, failedFlags>>
    BY <1>8, SendMoves
  <2>4. h \in Receivers
    BY DEF AnnounceTypeOK
  <2>5. /\ \A u \in Requests : u # t => told'[u] = told[u]
        /\ \A g \in Receivers : g # h => told'[t][g] = told[t][g]
        /\ told[t][h] = 0 => told'[t][h] \in {0, 1}
    BY <1>1, <2>3, <2>4
  <2>6. t \notin overlapped =>
          \A g \in Receivers : told'[t][g] # 0 => told'[t][g] = 1 /\ g \notin click[c].left \ {h}
    <3> SUFFICES ASSUME t \notin overlapped, NEW g \in Receivers, told'[t][g] # 0
                 PROVE  told'[t][g] = 1 /\ g \notin click[c].left \ {h}
      OBVIOUS
    <3>1. \A f \in Receivers : told[t][f] # 0 => told[t][f] = 1 /\ f \notin click[c].left
      BY <2>1, Alone DEF Dealt
    <3> QED
      BY <2>5, <3>1
  <2>7. CASE ClickBecomes(c, "send", t, click[c].text, click[c].left \ {h}, click[c].perm \cup {h})
    <3>1. \A g \in failedFlags' :
            g \in click[c].perm \cup {h} \/ (g \in failedFlags /\ g \notin click[c].perm)
      BY <2>3
    <3>2. Drafted' /\ EndedIsFinal' /\ SentIsConfirmed' /\ FlagsAreTended'
      BY <1>1, <2>1, <2>2, <2>7, <3>1, ClickCommon DEF Dealt
    <3>3. OneDispatch'
      BY <1>4, <2>1, <2>5, <2>6, <2>7 DEF Dealt
    <3> QED
      BY <3>2, <3>3 DEF LoopInv
  <2>8. CASE /\ ClickBecomes(c, "send", t, click[c].text, click[c].left \ {h}, click[c].perm)
             /\ failedFlags' \subseteq failedFlags
    <3>1. \A g \in failedFlags' : g \in click[c].perm \/ (g \in failedFlags /\ g \notin click[c].perm)
      BY <2>8
    <3>2. Drafted' /\ EndedIsFinal' /\ SentIsConfirmed' /\ FlagsAreTended'
      BY <1>1, <2>1, <2>2, <2>8, <3>1, ClickCommon DEF Dealt
    <3>3. OneDispatch'
      BY <1>4, <2>1, <2>5, <2>6, <2>8 DEF Dealt
    <3> QED
      BY <3>2, <3>3 DEF LoopInv
  <2> QED
    BY <2>3, <2>7, <2>8
<1>9. CASE Removes(c)
  <2>1. click[c].pc = "send" /\ UNCHANGED <<request, told, overlapped, confirmed>>
    BY <1>9 DEF Removes
  <2>2. PICK h \in click[c].perm :
          /\ ClickBecomes(c, "send", t, click[c].text, click[c].left, click[c].perm \ {h})
          /\ failedFlags' = failedFlags \ {h}
    BY <1>9, SendMoves
  <2>3. click[c].text \in confirmed'[t]
    BY <2>1 DEF LoopInv, SentIsConfirmed
  <2>4. Drafted' /\ EndedIsFinal' /\ SentIsConfirmed' /\ FlagsAreTended'
    <3>1. \A g \in failedFlags' :
            g \in click[c].perm \ {h} \/ (g \in failedFlags /\ g \notin click[c].perm)
      BY <2>2
    <3> QED
      BY <1>1, <2>1, <2>2, <2>3, <3>1, ClickCommon DEF Dealt
  <2>5. t \notin overlapped =>
          \A g \in Receivers : told[t][g] # 0 => told[t][g] = 1 /\ g \notin click[c].left
    BY <2>1, Alone DEF Dealt
  <2>6. OneDispatch'
    BY <1>4, <2>1, <2>2, <2>5 DEF Dealt
  <2> QED
    BY <2>4, <2>6 DEF LoopInv
<1>10. CASE Finishes(c)
  <2>1. /\ click[c].pc = "send" /\ UNCHANGED <<told, overlapped, failedFlags, confirmed>>
        /\ Over(t) /\ click[c].perm = {}
        /\ ClickBecomes(c, "over", t, click[c].text, click[c].left, click[c].perm)
    BY <1>10, ClickMoves DEF Finishes
  <2>2. t \in ended'
    BY <1>1, <2>1, OverWhat
  <2>3. message'[t].shows # "nothing" /\ ~Pending(t)'
    BY <2>2 DEF RequestsGoOn
  <2>4. Drafted' /\ EndedIsFinal' /\ SentIsConfirmed' /\ FlagsAreTended'
    <3>1. \A g \in failedFlags' : g \in click[c].perm \/ (g \in failedFlags /\ g \notin click[c].perm)
      BY <2>1
    <3> QED
      BY <1>1, <2>1, <3>1, ClickCommon DEF Dealt
  <2>5. OneDispatch'
    BY <1>5, <2>1, <2>3 DEF Dealt
  <2> QED
    BY <2>4, <2>5 DEF LoopInv
<1> QED
  BY <1>2, <1>3, <1>6, <1>7, <1>8, <1>9, <1>10 DEF ClickStep

LEMMA AnnounceStep ==
  AnnounceTypeOK /\ Asked /\ LoopInv /\ [AnnounceNext]_announceVars => Asked' /\ LoopInv'
<1> USE DEF RequestTypes, MessageTypes, ClickTypes, ClickPcs, Appearances
<1> SUFFICES ASSUME AnnounceTypeOK, Asked, LoopInv, [AnnounceNext]_announceVars PROVE Asked' /\ LoopInv'
  OBVIOUS
<1>1. RequestsGoOn
  BY GoesOn
<1>2. AnnounceTypeOK'
  BY AnnounceTypes
<1>3. ended' \subseteq Requests
  BY <1>2 DEF AnnounceTypeOK
<1>4. Asked'
  BY <1>1, <1>3, AskedStep
<1>5. ASSUME NEW c \in Clicks, (\E t \in Requests : PressesSend(c, t)) \/ ClickStep(c) PROVE LoopInv'
  BY <1>1, <1>3, <1>5, ClickLoop
<1>6. ASSUME NEW t \in Requests,
             \/ Asks(t) \/ OpensModal(t) \/ PressesCancel(t) \/ Expires(t)
             \/ RefusedModal(t) \/ ShowsSummary(t) \/ Cancels(t)
      PROVE  LoopInv'
  <2>1. UNCHANGED <<click, told, overlapped, failedFlags>>
    BY <1>6 DEF Asks, OpensModal, PressesCancel, Expires, RefusedModal, ShowsSummary, Cancels, pastRequests
  <2> QED
    BY <1>1, <1>3, <2>1, ClicksRest
<1>7. ASSUME NEW t \in Requests, NEW text \in Texts, NEW keyword \in BOOLEAN, Submits(t, text, keyword)
      PROVE  LoopInv'
  <2>1. UNCHANGED <<click, told, overlapped, failedFlags>>
    BY <1>7 DEF Submits
  <2> QED
    BY <1>1, <1>3, <2>1, ClicksRest
<1>8. CASE UNCHANGED announceVars
  <2>1. UNCHANGED <<click, told, overlapped, failedFlags>>
    BY <1>8 DEF announceVars, pastRequests
  <2> QED
    BY <1>1, <1>3, <1>4, <2>1, ClicksRest
<1> QED
  BY <1>4, <1>5, <1>6, <1>7, <1>8 DEF AnnounceNext

LEMMA AnnounceStart == AnnounceInit => Asked /\ LoopInv
<1> SUFFICES ASSUME AnnounceInit PROVE Asked /\ LoopInv
  OBVIOUS
<1>1. \A t \in Requests : Handling(t) = {}
  BY DEF AnnounceInit, Handling, Free
<1>2. \A c \in Clicks : click[c].pc = "free"
  BY DEF AnnounceInit, Free
<1>3. Asked
  BY DEF AnnounceInit, Asked
<1>4. OneDispatch /\ EndedIsFinal /\ FlagsAreTended
  BY <1>1 DEF AnnounceInit, OneDispatch, EndedIsFinal, FlagsAreTended
<1>5. Drafted /\ SentIsConfirmed
  BY <1>2 DEF AnnounceInit, Drafted, SentIsConfirmed
<1> QED
  BY <1>3, <1>4, <1>5 DEF LoopInv

-----------------------------------------------------------------------------
\* Every variable of the announcements has its type.
THEOREM AnnounceTypeCorrect == AnnounceSpec => []AnnounceTypeOK
  BY AnnounceInitTyped, AnnounceTypes, PTL DEF AnnounceSpec

\* What the admin confirmed is what goes out, once unless two clicks overlapped, and
\* not after the request ended; and no receiver keeps a flag nobody will clear.
THEOREM AnnouncementsAreSound == AnnounceSpec => []AnnouncementsSound
<1>1. AnnounceTypeOK /\ LoopInv => AnnouncementsSound
  BY SMTT(30) DEF AnnounceTypeOK, LoopInv, OneDispatch, TwiceOnlyByOverlap, AnnouncementsSound
<1>2. AnnounceSpec => [](AnnounceTypeOK /\ Asked /\ LoopInv)
  BY AnnounceInitTyped, AnnounceTypes, AnnounceStart, AnnounceStep, PTL DEF AnnounceSpec
<1> QED
  BY <1>1, <1>2, PTL

-----------------------------------------------------------------------------
(* Side by side                                                            *)

\* Every variable of both components has its type, whichever of them moves.
THEOREM OperationsTypeCorrect == OperationsSpec => []OperationsTypeOK
<1> DEFINE Inv == IInv /\ AnnounceTypeOK
<1>1. OperationsInit => Inv
  BY InitTyped, InitSound, AnnounceInitTyped DEF OperationsInit, IInv
<1>2. Inv /\ [OperationsNext]_all => Inv'
  <2> SUFFICES ASSUME Inv, [OperationsNext]_all PROVE Inv'
    OBVIOUS
  <2>1. [MirrorNext]_mirrorVars /\ [AnnounceNext]_announceVars
    BY DEF OperationsNext, MirrorSteps, AnnouncementSteps, all
  <2> QED
    BY <2>1, StepKeeps, AnnounceTypes
<1>3. Inv => OperationsTypeOK
  BY TypedIsTypeOK DEF IInv, OperationsTypeOK
<1> QED
  BY <1>1, <1>2, <1>3, PTL DEF OperationsSpec
=============================================================================
