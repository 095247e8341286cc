------------------------- MODULE CrawlCycle_proofs -------------------------
(***************************************************************************)
(* Proofs about CrawlCycle: no notice is forgotten or announced twice      *)
(* without a reason, nothing is said ahead of the archive, and a write of  *)
(* the cache loses nothing it was merged from.                             *)
(***************************************************************************)
EXTENDS CrawlCycle, SequenceTheorems, FiniteSetTheorems, WellFoundedInduction, TLAPS

Labels == {"idle", "load", "find", "filter", "enrich", "archive", "retry", "get", "write"}
Writes == [by : Tasks, list : Lists, base : Lists]

\* The writes under way.
Sent == {wire[i] : i \in DOMAIN wire}

\* A task waits for the one write it has sent.
WireTyped ==
  /\ wire \in Seq(Writes)
  /\ \A t \in Tasks : pc[t] = "write" <=> \E i \in DOMAIN wire : wire[i].by = t
  /\ \A i, j \in DOMAIN wire : wire[i].by = wire[j].by => i = j

WorldTyped ==
  /\ scope \in Scopes
  /\ listed \subseteq Notices /\ archived \subseteq listed
  /\ summary \in [Notices -> Statuses]

CacheTyped ==
  /\ cached \in Lists /\ snap \in Lists /\ loaded \in BOOLEAN /\ initialized \in BOOLEAN

LocalTyped ==
  /\ pc \in [Tasks -> Labels]
  /\ old \in [Tasks -> Lists] /\ list \in [Tasks -> Lists]
  /\ news \in [Tasks -> SUBSET Notices] /\ todo \subseteq Notices

HistoryTyped ==
  /\ announced \in [Notices -> 0 .. 2]
  /\ claims \subseteq Notices /\ written \subseteq Notices /\ repeats \subseteq Notices
  /\ seeded \subseteq Notices /\ excused \subseteq Notices

CountsTyped == faults \in Nat /\ restarts \in Nat /\ faults + restarts <= scope.failures

\* What the tasks have in hand is on the PAL list; process-new-notices archives
\* only what it was given, and has nothing when it is not at work.
InHandListed ==
  /\ news["crawl"] \cup news["new"] \cup todo \subseteq listed
  /\ \A n \in Notices : list["crawl"][n] # "absent" => n \in listed
  /\ pc["new"] = "idle" => news["new"] = {}
  /\ pc["new"] = "archive" =>
       todo \subseteq news["new"] /\ \A n \in todo : list["new"][n] # "absent"
  /\ pc["crawl"] \in {"idle", "find", "filter", "get", "write"}

TypeInv ==
  /\ WireTyped /\ WorldTyped /\ CacheTyped /\ LocalTyped /\ HistoryTyped /\ CountsTyped
  /\ InHandListed

LEMMA TypesFollow == TypeInv => TypeOK
<1> SUFFICES ASSUME TypeInv PROVE TypeOK
  OBVIOUS
<1>1. \A s \in {claims, written, repeats, seeded, excused} : s \subseteq Notices
  BY DEF TypeInv, HistoryTyped
<1>2. /\ wire \in Seq([by : Tasks, list : Lists, base : Lists])
      /\ \A t \in Tasks : pc[t] = "write" <=> \E i \in DOMAIN wire : wire[i].by = t
  BY DEF TypeInv, WireTyped, Writes
<1> QED
  BY <1>1, <1>2 DEF TypeInv, WorldTyped, CacheTyped, LocalTyped, HistoryTyped, CountsTyped,
     Labels, TypeOK

-----------------------------------------------------------------------------
(* Lists                                                                   *)

LEMMA EmptyIsList == Empty \in Lists /\ \A n \in Notices : Empty[n] = "absent"
BY DEF Empty, Lists, Entries

LEMMA CrawledIsList ==
  ASSUME NEW before \in Lists
  PROVE  /\ Crawled(before) \in Lists
         /\ \A n \in Notices : Crawled(before)[n] # "absent" => n \in listed
         /\ \A n \in Notices : Crawled(before)[n] = "ready" => before[n] = "ready"
<1>1. ASSUME NEW n \in Notices
      PROVE  /\ Crawled(before)[n] \in Entries
             /\ Crawled(before)[n] # "absent" => n \in listed
             /\ Crawled(before)[n] = "ready" => before[n] = "ready"
  <2>1. Crawled(before)[n] = IF n \notin listed THEN "absent"
                             ELSE IF before[n] = "absent" THEN "none" ELSE before[n]
    BY DEF Crawled
  <2>2. before[n] \in Entries /\ "absent" \in Entries /\ "none" \in Entries
    BY DEF Lists, Entries, Statuses
  <2> QED
    BY <2>1, <2>2
<1>2. Crawled(before) = [n \in Notices |-> Crawled(before)[n]]
  BY DEF Crawled
<1> QED
  BY <1>1, <1>2 DEF Lists

LEMMA EnrichedIsList ==
  ASSUME NEW nums, NEW before \in Lists, NEW again \in BOOLEAN,
         NEW generated \in [Notices -> Outcomes], summary \in [Notices -> Statuses]
  PROVE  /\ Enriched(nums, before, again, generated) \in Lists
         /\ \A n \in Notices : Enriched(nums, before, again, generated)[n] # "absent" <=> n \in nums
<1> DEFINE f == Enriched(nums, before, again, generated)
<1>1. ASSUME NEW n \in Notices
      PROVE  f[n] \in Entries /\ (f[n] # "absent" <=> n \in nums)
  <2>1. f[n] \in IF n \notin nums THEN {"absent"} ELSE {"ready", summary[n], generated[n]}
    BY DEF Enriched
  <2>2. /\ summary[n] \in Entries /\ generated[n] \in Entries
        /\ "absent" \in Entries /\ "ready" \in Entries
        /\ summary[n] # "absent" /\ generated[n] # "absent"
    BY DEF Entries, Statuses, Outcomes
  <2> HIDE DEF f
  <2> QED
    BY <2>1, <2>2
<1>2. f = [n \in Notices |-> f[n]]
  BY DEF Enriched
<1> HIDE DEF f
<1>3. f \in Lists
  BY <1>1, <1>2 DEF Lists
<1> QED
  BY <1>1, <1>3 DEF f

LEMMA VisibleIsList ==
  ASSUME NEW merged \in Lists, NEW saved
  PROVE  /\ Visible(merged, saved) \in Lists
         /\ \A n \in Notices : Visible(merged, saved)[n] # "absent" =>
                                 n \in saved /\ Visible(merged, saved)[n] = merged[n]
BY DEF Visible, Lists, Entries

\* Before the list is cut to its size.
Joined(new, base) ==
  [n \in Notices |->
     CASE new[n] = "absent" -> base[n]
       [] base[n] = "ready" -> "ready"
       [] OTHER -> new[n]]

LEMMA MergeIsJoined ==
  ASSUME NEW new, NEW base
  PROVE  Merge(new, base) = Newest(Joined(new, base))
BY DEF Merge, Joined

LEMMA JoinedIsList ==
  ASSUME NEW new \in Lists, NEW base \in Lists
  PROVE  /\ Joined(new, base) \in Lists
         /\ \A n \in Notices :
              /\ Joined(new, base)[n] # "absent" <=> new[n] # "absent" \/ base[n] # "absent"
              /\ Joined(new, base)[n] = "ready" => new[n] = "ready" \/ base[n] = "ready"
              /\ base[n] = "ready" => Joined(new, base)[n] = "ready"
BY DEF Joined, Lists, Entries, Statuses

LEMMA NewestIsList ==
  ASSUME NEW f \in Lists
  PROVE  /\ Newest(f) \in Lists
         /\ \A n \in Notices : Newest(f)[n] \in {f[n], "absent"}
BY DEF Newest, Lists, Entries

LEMMA MergeIsList ==
  ASSUME NEW new \in Lists, NEW base \in Lists
  PROVE  /\ Merge(new, base) \in Lists
         /\ \A n \in Notices :
              /\ Merge(new, base)[n] # "absent" => new[n] # "absent" \/ base[n] # "absent"
              /\ Merge(new, base)[n] = "ready" => new[n] = "ready" \/ base[n] = "ready"
<1> DEFINE j == Joined(new, base)
<1>1. /\ j \in Lists
      /\ \A n \in Notices :
              /\ j[n] # "absent" => new[n] # "absent" \/ base[n] # "absent"
              /\ j[n] = "ready" => new[n] = "ready" \/ base[n] = "ready"
  BY JoinedIsList
<1>2. Merge(new, base) = Newest(j)
  BY MergeIsJoined
<1> HIDE DEF j
<1> QED
  BY <1>1, <1>2, NewestIsList

-----------------------------------------------------------------------------
(* The writes under way                                                    *)

\* A write is sent by a task that has none under way.
LEMMA Posting ==
  ASSUME WireTyped, pc \in [Tasks -> Labels], NEW t \in Tasks, pc[t] # "write",
         NEW e \in Writes, e.by = t, wire' = Append(wire, e), pc' = [pc EXCEPT ![t] = "write"]
  PROVE  WireTyped' /\ Sent' = Sent \cup {e}
<1> DEFINE k == Len(wire) + 1
<1>1. wire \in Seq(Writes)
  BY DEF WireTyped
<1>2. /\ wire' \in Seq(Writes) /\ k \in Nat /\ Len(wire) \in Nat
      /\ DOMAIN wire = 1 .. Len(wire) /\ DOMAIN wire' = 1 .. k
      /\ \A i \in 1 .. Len(wire) : wire'[i] = wire[i]
      /\ wire'[k] = e
  BY <1>1, AppendProperties, LenProperties
<1> HIDE DEF k
<1>3. DOMAIN wire' = DOMAIN wire \cup {k} /\ k \notin DOMAIN wire
  BY <1>2 DEF k
<1>4. \A i \in DOMAIN wire : wire[i].by # t
  BY DEF WireTyped
<1>5. \A i, j \in DOMAIN wire' : wire'[i].by = wire'[j].by => i = j
  BY <1>2, <1>3, <1>4 DEF WireTyped
<1>6. \A u \in Tasks : pc'[u] = "write" <=> \E i \in DOMAIN wire' : wire'[i].by = u
  BY <1>2, <1>3 DEF WireTyped
<1>7. Sent' = Sent \cup {e}
  BY <1>2, <1>3 DEF Sent
<1> QED
  BY <1>2, <1>5, <1>6, <1>7 DEF WireTyped

\* The first write is answered; its task goes on to something else.
LEMMA Answering ==
  ASSUME WireTyped, NEW t \in Tasks, wire # <<>>, Head(wire).by = t, wire' = Tail(wire),
         pc'[t] # "write", \A u \in Tasks \ {t} : pc'[u] = "write" <=> pc[u] = "write"
  PROVE  /\ WireTyped' /\ Sent' \subseteq Sent
         /\ Head(wire) \in Sent /\ pc[t] = "write"
         /\ \A e \in Sent' : e.by # t
<1>1. wire \in Seq(Writes)
  BY DEF WireTyped
<1>2. /\ wire' \in Seq(Writes) /\ Len(wire) \in Nat /\ Len(wire') = Len(wire) - 1
      /\ DOMAIN wire = 1 .. Len(wire) /\ DOMAIN wire' = 1 .. Len(wire')
      /\ \A i \in 1 .. Len(wire') : wire'[i] = wire[i + 1]
  BY <1>1, HeadTailProperties, LenProperties
<1>3. Len(wire) # 0 /\ Head(wire) = wire[1]
  BY <1>1, EmptySeq
<1>4. 1 \in DOMAIN wire /\ wire[1].by = t
  BY <1>2, <1>3
<1>5. \A i \in DOMAIN wire' : i + 1 \in DOMAIN wire /\ i + 1 # 1
  BY <1>2, <1>3
<1>6. \A i \in DOMAIN wire' : wire'[i].by # t
  BY <1>2, <1>4, <1>5 DEF WireTyped
<1>7. \A i, j \in DOMAIN wire' : wire'[i].by = wire'[j].by => i = j
  <2> SUFFICES ASSUME NEW i \in DOMAIN wire', NEW j \in DOMAIN wire', wire'[i].by = wire'[j].by
               PROVE  i = j
    OBVIOUS
  <2>1. wire[i + 1].by = wire[j + 1].by
    BY <1>2
  <2>2. i + 1 = j + 1
    BY <1>5, <2>1 DEF WireTyped
  <2> QED
    BY <1>2, <2>2
<1>8. \A u \in Tasks : pc'[u] = "write" <=> \E i \in DOMAIN wire' : wire'[i].by = u
  <2>1. CASE TRUE
    <3> TAKE u \in Tasks
    <3>1. CASE u = t
      BY <1>6, <3>1
    <3>2. CASE u # t
      <4>1. pc'[u] = "write" <=> \E i \in DOMAIN wire : wire[i].by = u
        BY <3>2 DEF WireTyped
      <4>2. ASSUME NEW i \in DOMAIN wire, wire[i].by = u
            PROVE  i - 1 \in DOMAIN wire' /\ wire'[i - 1].by = u
        <5>1. i # 1
          BY <1>4, <3>2, <4>2
        <5>2. i - 1 \in 1 .. Len(wire')
          BY <1>2, <5>1
        <5> QED
          BY <1>2, <4>2, <5>2
      <4>3. ASSUME NEW i \in DOMAIN wire', wire'[i].by = u
            PROVE  i + 1 \in DOMAIN wire /\ wire[i + 1].by = u
        BY <1>2, <1>5, <4>3
      <4> QED
        BY <4>1, <4>2, <4>3
    <3> QED
      BY <3>1, <3>2
  <2> QED
    BY <2>1
<1>9. Sent' \subseteq Sent
  BY <1>2, <1>5 DEF Sent
<1>10. \A e \in Sent' : e.by # t
  BY <1>6 DEF Sent
<1>11. Head(wire) \in Sent /\ pc[t] = "write"
  BY <1>3, <1>4 DEF Sent, WireTyped
<1> QED
  BY <1>2, <1>7, <1>8, <1>9, <1>10, <1>11 DEF WireTyped

LEMMA Resting ==
  ASSUME WireTyped, wire' = wire, \A u \in Tasks : pc'[u] = "write" <=> pc[u] = "write"
  PROVE  WireTyped' /\ Sent' = Sent
BY DEF WireTyped, Sent

LEMMA SentTyped == WireTyped => Sent \subseteq Writes
<1> SUFFICES ASSUME WireTyped PROVE Sent \subseteq Writes
  OBVIOUS
<1>1. wire \in Seq(Writes)
  BY DEF WireTyped
<1>2. DOMAIN wire = 1 .. Len(wire) /\ \A i \in 1 .. Len(wire) : wire[i] \in Writes
  BY <1>1, LenProperties, ElementOfSeq
<1> QED
  BY <1>2 DEF Sent

-----------------------------------------------------------------------------
(* The types, step by step                                                 *)

LEMMA ScopesTyped ==
  ASSUME WorldTyped
  PROVE  /\ scope.notices \subseteq Notices /\ scope.elsewhere \subseteq Notices
         /\ scope.size \in Nat \ {0} /\ scope.failures \in Nat
BY CrawlAssumption DEF WorldTyped

LEMMA FaultCounts ==
  ASSUME TypeInv, Fault, UNCHANGED <<scope, restarts>>
  PROVE  CountsTyped'
BY ScopesTyped DEF TypeInv, CountsTyped, Fault

LEMMA CountsKept ==
  ASSUME TypeInv, UNCHANGED faults \/ Fault, UNCHANGED <<scope, restarts>>
  PROVE  CountsTyped'
BY FaultCounts DEF TypeInv, CountsTyped

\* What updateCache does first.
LEMMA Updating ==
  ASSUME TypeInv, NEW t \in Tasks, NEW new \in Lists, pc[t] # "write", Update(t, new)
  PROVE  /\ WireTyped'
         /\ list' = [list EXCEPT ![t] = new] /\ list' \in [Tasks -> Lists]
         /\ \E l \in {"get", "write"} : pc' = [pc EXCEPT ![t] = l]
         /\ pc' \in [Tasks -> Labels]
         /\ \A e \in Sent' : e \in Sent \/ (e.by = t /\ e.list = Merge(new, snap) /\ e.base = snap)
<1> DEFINE e == [by |-> t, list |-> Merge(new, snap), base |-> snap]
<1>1. WireTyped /\ pc \in [Tasks -> Labels] /\ snap \in Lists /\ list \in [Tasks -> Lists]
  BY DEF TypeInv, LocalTyped, CacheTyped
<1>2. e \in Writes /\ e.by = t /\ e.list = Merge(new, snap) /\ e.base = snap
  BY <1>1, MergeIsList DEF Writes
<1> HIDE DEF e
<1>3. list' = [list EXCEPT ![t] = new]
  BY DEF Update
<1>4. \/ wire' = wire /\ pc' = [pc EXCEPT ![t] = "get"]
      \/ wire' = Append(wire, e) /\ pc' = [pc EXCEPT ![t] = "write"]
  BY DEF Update, Goto, e
<1>5. CASE wire' = wire /\ pc' = [pc EXCEPT ![t] = "get"]
  <2>1. \A u \in Tasks : pc'[u] = "write" <=> pc[u] = "write"
    BY <1>1, <1>5
  <2>2. WireTyped' /\ Sent' = Sent
    BY <1>1, <1>5, <2>1, Resting
  <2> QED
    BY <1>1, <1>3, <1>5, <2>2 DEF Labels
<1>6. CASE wire' = Append(wire, e) /\ pc' = [pc EXCEPT ![t] = "write"]
  <2>1. WireTyped' /\ Sent' = Sent \cup {e}
    BY <1>1, <1>2, <1>6, Posting
  <2> QED
    BY <1>1, <1>2, <1>3, <1>6, <2>1 DEF Labels
<1> QED
  BY <1>4, <1>5, <1>6

LEMMA GetSends ==
  ASSUME TypeInv, NEW t \in Tasks, UpdateGet(t)
  PROVE  /\ WireTyped'
         /\ pc' = [pc EXCEPT ![t] = "write"] /\ pc' \in [Tasks -> Labels]
         /\ \A e \in Sent' : e \in Sent
              \/ (e.by = t /\ e.list = Merge(list[t], cached) /\ e.base = cached)
<1> DEFINE e == [by |-> t, list |-> Merge(list[t], cached), base |-> cached]
<1>1. WireTyped /\ pc \in [Tasks -> Labels] /\ cached \in Lists /\ list[t] \in Lists
  BY DEF TypeInv, LocalTyped, CacheTyped
<1>2. e \in Writes /\ e.by = t /\ e.list = Merge(list[t], cached) /\ e.base = cached
  BY <1>1, MergeIsList DEF Writes
<1> HIDE DEF e
<1>3. wire' = Append(wire, e) /\ pc' = [pc EXCEPT ![t] = "write"] /\ pc[t] = "get"
  BY DEF UpdateGet, Goto, e
<1>4. WireTyped' /\ Sent' = Sent \cup {e}
  BY <1>1, <1>2, <1>3, Posting
<1> QED
  BY <1>1, <1>2, <1>3, <1>4 DEF Labels

\* A task that is not at a write goes somewhere else.
LEMMA Going ==
  ASSUME TypeInv, NEW t \in Tasks, NEW l \in Labels \ {"write"}, pc[t] # "write",
         Goto(t, l), wire' = wire
  PROVE  /\ WireTyped' /\ Sent' = Sent
         /\ pc' = [pc EXCEPT ![t] = l] /\ pc' \in [Tasks -> Labels]
<1>1. pc \in [Tasks -> Labels] /\ WireTyped
  BY DEF TypeInv, LocalTyped
<1>2. pc' = [pc EXCEPT ![t] = l] /\ pc' \in [Tasks -> Labels]
  BY <1>1 DEF Goto
<1>3. \A u \in Tasks : pc'[u] = "write" <=> pc[u] = "write"
  BY <1>1, <1>2
<1> QED
  BY <1>1, <1>2, <1>3, Resting

LEMMA Ending ==
  ASSUME TypeInv, NEW t \in Tasks, End(t)
  PROVE  /\ pc' = [pc EXCEPT ![t] = "idle"] /\ pc' \in [Tasks -> Labels]
         /\ old' = [old EXCEPT ![t] = Empty] /\ old' \in [Tasks -> Lists]
         /\ list' = [list EXCEPT ![t] = Empty] /\ list' \in [Tasks -> Lists]
         /\ news' = [news EXCEPT ![t] = {}] /\ news' \in [Tasks -> SUBSET Notices]
         /\ claims' \subseteq claims
BY EmptyIsList DEF TypeInv, LocalTyped, End, Goto, Labels

\* The answer to a task's write.
LEMMA Taking ==
  ASSUME TypeInv, NEW t \in Tasks, wire # <<>>, Head(wire).by = t, wire' = Tail(wire), End(t)
  PROVE  /\ WireTyped' /\ Sent' \subseteq Sent
         /\ Head(wire) \in Sent /\ pc[t] = "write" /\ Head(wire).list \in Lists
         /\ \A e \in Sent' : e.by # t
<1>1. pc' = [pc EXCEPT ![t] = "idle"] /\ pc \in [Tasks -> Labels] /\ WireTyped
  BY Ending DEF TypeInv, LocalTyped
<1>2. pc'[t] # "write" /\ \A u \in Tasks \ {t} : pc'[u] = "write" <=> pc[u] = "write"
  BY <1>1
<1>3. /\ WireTyped' /\ Sent' \subseteq Sent
      /\ Head(wire) \in Sent /\ pc[t] = "write"
      /\ \A e \in Sent' : e.by # t
  BY <1>1, <1>2, Answering
<1> QED
  BY <1>1, <1>3, SentTyped DEF Writes

\* getRecentNotices returns a list it has seen.
LEMMA Reading ==
  ASSUME TypeInv, NEW f, Recent(f), UNCHANGED <<scope, restarts>>
  PROVE  /\ f \in Lists /\ f \in {snap, cached, Empty}
         /\ snap' \in {snap, cached, Empty} /\ snap' \in Lists /\ loaded' \in BOOLEAN
         /\ CountsTyped'
<1>1. f \in {snap, cached, Empty} /\ (snap' = f \/ snap' = snap)
  BY DEF Recent
<1>2. CountsTyped'
  BY CountsKept DEF Recent
<1> QED
  BY <1>1, <1>2, EmptyIsList DEF Recent, TypeInv, CacheTyped

\* What most steps leave as it is.
LEMMA Parts ==
  TypeInv <=> /\ WireTyped /\ WorldTyped /\ CacheTyped /\ LocalTyped /\ HistoryTyped
              /\ CountsTyped /\ InHandListed
BY DEF TypeInv

LEMMA InitLoadTyped ==
  ASSUME TypeInv, InitLoad
  PROVE  TypeInv'
<1>1. /\ pc["init"] = "load" /\ "init" \in Tasks
      /\ UNCHANGED <<world, cached, snap, loaded, todo, announced, written, repeats, excused,
                     restarts>>
  BY DEF InitLoad, Tasks
<1>2. listed \subseteq Notices /\ summary \in [Notices -> Statuses]
  BY DEF TypeInv, WorldTyped
<1>3. WorldTyped' /\ CountsTyped'
  BY <1>1, CountsKept DEF InitLoad, LoadArchive, LoadCrawl, TypeInv, WorldTyped, world
<1>4. HistoryTyped'
  BY <1>1, <1>2 DEF InitLoad, LoadArchive, LoadCrawl, TypeInv, HistoryTyped, End
<1>5. CacheTyped'
  BY <1>1 DEF InitLoad, LoadArchive, LoadCrawl, TypeInv, CacheTyped
<1>6. ASSUME NEW new \in Lists, Update("init", new), UNCHANGED <<old, news>>
      PROVE  WireTyped' /\ LocalTyped' /\ InHandListed'
  <2>1. /\ WireTyped'
        /\ list' = [list EXCEPT !["init"] = new] /\ list' \in [Tasks -> Lists]
        /\ \E l \in {"get", "write"} : pc' = [pc EXCEPT !["init"] = l]
        /\ pc' \in [Tasks -> Labels]
    BY <1>1, <1>6, Updating
  <2>2. LocalTyped'
    BY <1>1, <1>6, <2>1 DEF TypeInv, LocalTyped
  <2>3. /\ list'["crawl"] = list["crawl"] /\ pc'["crawl"] = pc["crawl"]
        /\ pc'["new"] = pc["new"] /\ list'["new"] = list["new"] /\ listed' = listed
    BY <1>1, <2>1 DEF TypeInv, LocalTyped, Tasks, world
  <2> QED
    BY <1>1, <1>6, <2>1, <2>2, <2>3 DEF TypeInv, InHandListed
<1>7. CASE LoadArchive
  <2> DEFINE new == [n \in Notices |-> IF n \in archived THEN summary[n] ELSE "absent"]
  <2>1. new \in Lists
    BY <1>2 DEF Lists, Entries
  <2>2. Update("init", new) /\ UNCHANGED <<old, news>>
    BY <1>7 DEF LoadArchive
  <2> HIDE DEF new
  <2> QED
    BY <1>3, <1>4, <1>5, <1>6, <2>1, <2>2, Parts DEF TypeInv
<1>8. CASE LoadCrawl
  <2>1. CASE End("init") /\ UNCHANGED wire
    <3>1. /\ pc' = [pc EXCEPT !["init"] = "idle"] /\ pc' \in [Tasks -> Labels]
          /\ old' \in [Tasks -> Lists]
          /\ list' = [list EXCEPT !["init"] = Empty] /\ list' \in [Tasks -> Lists]
          /\ news' = [news EXCEPT !["init"] = {}] /\ news' \in [Tasks -> SUBSET Notices]
      BY <1>1, <2>1, Ending
    <3>2. WireTyped'
      BY <1>1, <2>1, Going DEF End, Labels
    <3>3. /\ list'["crawl"] = list["crawl"] /\ pc'["crawl"] = pc["crawl"]
          /\ pc'["new"] = pc["new"] /\ list'["new"] = list["new"] /\ listed' = listed
          /\ news'["crawl"] = news["crawl"] /\ news'["new"] = news["new"]
      BY <1>1, <3>1 DEF TypeInv, LocalTyped, Tasks, world
    <3>4. LocalTyped' /\ InHandListed'
      BY <1>1, <3>1, <3>3 DEF TypeInv, LocalTyped, InHandListed
    <3> QED
      BY <1>3, <1>4, <1>5, <3>2, <3>4 DEF TypeInv
  <2>2. CASE /\ UNCHANGED <<initialized, old, news, claims>>
             /\ \E f \in [Notices -> Outcomes] :
                   \/ Update("init", Enriched(listed, Empty, TRUE, f))
                   \/ Update("init", Crawled(Empty))
    <3>1. \E new \in Lists : Update("init", new)
      BY <1>2, <2>2, EmptyIsList, CrawledIsList, EnrichedIsList
    <3> QED
      BY <1>3, <1>4, <1>5, <1>6, <2>2, <3>1 DEF TypeInv
  <2> QED
    BY <1>8, <2>1, <2>2 DEF LoadCrawl
<1> QED
  BY <1>7, <1>8 DEF InitLoad

\* The oldest write.
LEMMA HeadWriter ==
  ASSUME TypeInv, wire # <<>>
  PROVE  Head(wire) \in Sent /\ Head(wire).by \in Tasks
<1>1. wire \in Seq(Writes)
  BY DEF TypeInv, WireTyped
<1>2. /\ Head(wire) = wire[1] /\ Len(wire) \in Nat /\ Len(wire) # 0
      /\ DOMAIN wire = 1 .. Len(wire)
  BY <1>1, EmptySeq, HeadTailProperties, LenProperties
<1>3. Head(wire) \in Sent
  BY <1>2 DEF Sent
<1> QED
  BY <1>3, SentTyped DEF TypeInv, Writes

\* The end of a task with the answer to its write.
LEMMA OneEnds ==
  ASSUME TypeInv, NEW t \in Tasks, wire # <<>>, Head(wire).by = t, wire' = Tail(wire), End(t),
         UNCHANGED <<world, todo>>
  PROVE  WireTyped' /\ LocalTyped' /\ WorldTyped' /\ InHandListed'
<1>1. WireTyped'
  BY Taking
<1>2. /\ pc' = [pc EXCEPT ![t] = "idle"] /\ pc' \in [Tasks -> Labels]
      /\ old' \in [Tasks -> Lists]
      /\ list' = [list EXCEPT ![t] = Empty] /\ list' \in [Tasks -> Lists]
      /\ news' = [news EXCEPT ![t] = {}] /\ news' \in [Tasks -> SUBSET Notices]
  BY Ending
<1>3. /\ list'["crawl"] \in {list["crawl"], Empty}
      /\ pc'["crawl"] \in {pc["crawl"], "idle"}
      /\ pc'["new"] = pc["new"] \/ (pc'["new"] = "idle" /\ news'["new"] = {})
      /\ news'["crawl"] \in {news["crawl"], {}}
      /\ news'["new"] \in {news["new"], {}}
      /\ pc'["new"] = "archive" => /\ news'["new"] = news["new"] /\ pc["new"] = "archive"
                                   /\ list'["new"] = list["new"]
  BY <1>2 DEF TypeInv, LocalTyped, Tasks
<1>4. listed' = listed /\ todo' = todo
  BY DEF world
<1>5. InHandListed'
  BY <1>3, <1>4, EmptyIsList DEF TypeInv, InHandListed
<1>6. LocalTyped'
  BY <1>2, <1>4 DEF TypeInv, LocalTyped
<1>7. WorldTyped'
  BY DEF TypeInv, WorldTyped, world
<1> QED
  BY <1>1, <1>5, <1>6, <1>7

LEMMA WrittenTyped ==
  ASSUME TypeInv, NEW t \in Tasks, Written(t), End(t)
  PROVE  cached' \in Lists /\ snap' \in Lists /\ loaded' \in BOOLEAN
BY Taking DEF Written

LEMMA InitDoneTyped ==
  ASSUME TypeInv, InitDone
  PROVE  TypeInv'
<1>1. /\ "init" \in Tasks /\ Written("init") /\ End("init") /\ initialized' = TRUE
      /\ UNCHANGED <<world, todo, history, faults, restarts>>
  BY DEF InitDone, Tasks
<1>2. WireTyped' /\ LocalTyped' /\ WorldTyped' /\ InHandListed'
  BY <1>1, OneEnds DEF Written
<1>3. CacheTyped'
  BY <1>1, WrittenTyped DEF CacheTyped
<1>4. CountsTyped'
  BY <1>1, CountsKept DEF world
<1>5. HistoryTyped'
  BY <1>1, Ending DEF TypeInv, HistoryTyped, history
<1> QED
  BY <1>2, <1>3, <1>4, <1>5 DEF TypeInv

LEMMA TaskDoneTyped ==
  ASSUME TypeInv, NEW t \in Tasks, TaskDone(t)
  PROVE  TypeInv'
<1>1. /\ Written(t) /\ End(t)
      /\ UNCHANGED <<world, initialized, todo, history, faults, restarts>>
  BY DEF TaskDone, Tasks
<1>2. WireTyped' /\ LocalTyped' /\ WorldTyped' /\ InHandListed'
  BY <1>1, OneEnds DEF Written
<1>3. CacheTyped'
  BY <1>1, WrittenTyped DEF CacheTyped, TypeInv
<1>4. CountsTyped'
  BY <1>1, CountsKept DEF world
<1>5. HistoryTyped'
  BY <1>1, Ending DEF TypeInv, HistoryTyped, history
<1> QED
  BY <1>2, <1>3, <1>4, <1>5 DEF TypeInv

LEMMA NewAnnounceTyped ==
  ASSUME TypeInv, NewAnnounce
  PROVE  TypeInv'
<1>1. /\ "new" \in Tasks /\ Written("new") /\ End("new")
      /\ announced' = [n \in Notices |-> IF n \in news["new"] /\ announced[n] < 2
                                         THEN announced[n] + 1 ELSE announced[n]]
      /\ UNCHANGED <<world, initialized, todo, written, repeats, seeded, excused, faults, restarts>>
  BY DEF NewAnnounce, Tasks
<1>2. WireTyped' /\ LocalTyped' /\ WorldTyped' /\ InHandListed'
  BY <1>1, OneEnds DEF Written
<1>3. CacheTyped'
  BY <1>1, WrittenTyped DEF CacheTyped, TypeInv
<1>4. CountsTyped'
  BY <1>1, CountsKept DEF world
<1>5. announced' \in [Notices -> 0 .. 2]
  BY <1>1 DEF TypeInv, HistoryTyped
<1>6. HistoryTyped'
  BY <1>1, <1>5, Ending DEF TypeInv, HistoryTyped
<1> QED
  BY <1>2, <1>3, <1>4, <1>6 DEF TypeInv

LEMMA WriteFailsTyped ==
  ASSUME TypeInv, WriteFails
  PROVE  TypeInv'
<1> DEFINE t == Head(wire).by
<1>1. t \in Tasks
  BY HeadWriter DEF WriteFails
<1>2. /\ wire # <<>> /\ Fault /\ wire' = Tail(wire) /\ End(t)
      /\ initialized' = (initialized \/ t = "init")
      /\ cached' \in {cached, Head(wire).list}
      /\ excused' \in {excused, excused \cup news[t]}
      /\ UNCHANGED <<world, snap, loaded, todo, announced, written, repeats, seeded, restarts>>
  BY DEF WriteFails
<1>3. WireTyped' /\ LocalTyped' /\ WorldTyped' /\ InHandListed'
  BY <1>1, <1>2, OneEnds
<1>4. Head(wire).list \in Lists
  BY <1>1, <1>2, Taking
<1>5. CacheTyped'
  BY <1>2, <1>4 DEF CacheTyped, TypeInv
<1>6. CountsTyped'
  BY <1>2, CountsKept DEF world
<1>7. news[t] \subseteq Notices
  BY <1>1 DEF TypeInv, LocalTyped
<1>8. claims' \subseteq claims
  BY <1>1, <1>2, Ending
<1> HIDE DEF t
<1>9. HistoryTyped'
  BY <1>2, <1>7, <1>8 DEF TypeInv, HistoryTyped
<1> QED
  BY <1>3, <1>5, <1>6, <1>9 DEF TypeInv

-----------------------------------------------------------------------------
(* The types: the crawl                                                    *)

LEMMA CrawlStartTyped ==
  ASSUME TypeInv, CrawlStart
  PROVE  TypeInv'
<1>1. PICK f : /\ Recent(f)
               /\ old' = [old EXCEPT !["crawl"] = f]
               /\ list' = [list EXCEPT !["crawl"] = Crawled(f)]
  BY DEF CrawlStart
<1>2. /\ pc["crawl"] = "idle" /\ Goto("crawl", "find") /\ "crawl" \in Tasks
      /\ UNCHANGED <<world, cached, wire, initialized, news, todo, claims, history, restarts>>
  BY DEF CrawlStart, Tasks
<1>3. f \in Lists /\ snap' \in Lists /\ loaded' \in BOOLEAN /\ CountsTyped'
  BY <1>1, <1>2, Reading DEF world
<1>4. /\ Crawled(f) \in Lists
      /\ \A n \in Notices : Crawled(f)[n] # "absent" => n \in listed
  BY <1>3, CrawledIsList
<1>5. WireTyped' /\ pc' = [pc EXCEPT !["crawl"] = "find"] /\ pc' \in [Tasks -> Labels]
  BY <1>2, Going DEF Labels
<1>6. LocalTyped'
  BY <1>1, <1>2, <1>3, <1>4, <1>5 DEF TypeInv, LocalTyped
<1>7. /\ list'["crawl"] = Crawled(f) /\ pc'["crawl"] = "find" /\ pc'["new"] = pc["new"]
      /\ list'["new"] = list["new"]
      /\ UNCHANGED <<listed, news, todo>>
  BY <1>1, <1>2, <1>5 DEF TypeInv, LocalTyped, Tasks, world
<1>8. InHandListed'
  BY <1>4, <1>7 DEF TypeInv, InHandListed
<1>9. WorldTyped' /\ HistoryTyped'
  BY <1>2 DEF TypeInv, WorldTyped, HistoryTyped, world, history
<1>10. CacheTyped'
  BY <1>2, <1>3 DEF TypeInv, CacheTyped
<1> QED
  BY <1>3, <1>5, <1>6, <1>8, <1>9, <1>10 DEF TypeInv

LEMMA CrawlFindTyped ==
  ASSUME TypeInv, CrawlFind
  PROVE  TypeInv'
<1> DEFINE seen == {n \in Notices : list["crawl"][n] # "absent"}
<1>1. PICK found \in SUBSET seen : news' = [news EXCEPT !["crawl"] = found]
  BY DEF CrawlFind, Uncached
<1>2. /\ pc["crawl"] = "find" /\ Goto("crawl", "filter") /\ "crawl" \in Tasks
      /\ UNCHANGED <<world, cache, initialized, old, list, todo, claims, history, restarts>>
  BY DEF CrawlFind, Tasks
<1>3. CountsTyped'
  BY <1>2, CountsKept DEF CrawlFind, world
<1>4. WireTyped' /\ pc' = [pc EXCEPT !["crawl"] = "filter"] /\ pc' \in [Tasks -> Labels]
  BY <1>2, Going DEF Labels, cache
<1>5. LocalTyped'
  BY <1>1, <1>2, <1>4 DEF TypeInv, LocalTyped
<1>6. /\ news'["crawl"] = found /\ news'["new"] = news["new"]
      /\ pc'["crawl"] = "filter" /\ pc'["new"] = pc["new"]
      /\ UNCHANGED <<listed, list, todo>>
  BY <1>1, <1>2, <1>4 DEF TypeInv, LocalTyped, Tasks, world
<1>7. found \subseteq listed
  BY DEF TypeInv, InHandListed
<1> HIDE DEF seen
<1>8. InHandListed'
  BY <1>6, <1>7 DEF TypeInv, InHandListed
<1>9. WorldTyped' /\ HistoryTyped' /\ CacheTyped'
  BY <1>2 DEF TypeInv, WorldTyped, HistoryTyped, CacheTyped, world, history, cache
<1> QED
  BY <1>3, <1>4, <1>5, <1>8, <1>9 DEF TypeInv

LEMMA CrawlFilterTyped ==
  ASSUME TypeInv, CrawlFilter
  PROVE  TypeInv'
<1>1. /\ news' = [news EXCEPT !["crawl"] = news["crawl"] \ archived]
      /\ pc["crawl"] = "filter" /\ Update("crawl", list["crawl"]) /\ "crawl" \in Tasks
      /\ UNCHANGED <<world, cached, snap, loaded, initialized, old, todo, claims, history,
                     faults, restarts>>
  BY DEF CrawlFilter, Unarchived, Tasks
<1>2. list["crawl"] \in Lists
  BY <1>1 DEF TypeInv, LocalTyped
<1>3. /\ WireTyped'
      /\ list' = [list EXCEPT !["crawl"] = list["crawl"]] /\ list' \in [Tasks -> Lists]
      /\ \E l \in {"get", "write"} : pc' = [pc EXCEPT !["crawl"] = l]
      /\ pc' \in [Tasks -> Labels]
  BY <1>1, <1>2, Updating
<1>4. LocalTyped'
  BY <1>1, <1>3 DEF TypeInv, LocalTyped
<1>5. /\ news'["crawl"] \subseteq news["crawl"] /\ news'["new"] = news["new"]
      /\ pc'["crawl"] \in {"get", "write"} /\ pc'["new"] = pc["new"]
      /\ list'["crawl"] = list["crawl"] /\ list'["new"] = list["new"]
      /\ UNCHANGED <<listed, todo>>
  BY <1>1, <1>3 DEF TypeInv, LocalTyped, Tasks, world
<1>6. InHandListed'
  BY <1>5 DEF TypeInv, InHandListed
<1>7. WorldTyped' /\ HistoryTyped' /\ CacheTyped' /\ CountsTyped'
  BY <1>1 DEF TypeInv, WorldTyped, HistoryTyped, CacheTyped, CountsTyped, world, history
<1> QED
  BY <1>3, <1>4, <1>6, <1>7 DEF TypeInv

LEMMA CrawlAbortsTyped ==
  ASSUME TypeInv, CrawlAborts
  PROVE  TypeInv'
<1>1. /\ pc["crawl"] \in {"find", "filter"} /\ Fault /\ End("crawl") /\ "crawl" \in Tasks
      /\ UNCHANGED <<world, cache, initialized, todo, history, restarts>>
  BY DEF CrawlAborts, Tasks
<1>2. /\ pc' = [pc EXCEPT !["crawl"] = "idle"] /\ pc' \in [Tasks -> Labels]
      /\ old' \in [Tasks -> Lists]
      /\ list' = [list EXCEPT !["crawl"] = Empty] /\ list' \in [Tasks -> Lists]
      /\ news' = [news EXCEPT !["crawl"] = {}] /\ news' \in [Tasks -> SUBSET Notices]
      /\ claims' \subseteq claims
  BY <1>1, Ending
<1>3. WireTyped'
  BY <1>1, Going DEF Labels, End, cache
<1>4. CountsTyped'
  BY <1>1, FaultCounts DEF world
<1>5. LocalTyped'
  BY <1>1, <1>2 DEF TypeInv, LocalTyped
<1>6. /\ news'["crawl"] = {} /\ news'["new"] = news["new"] /\ list'["crawl"] = Empty
      /\ pc'["crawl"] = "idle" /\ pc'["new"] = pc["new"] /\ list'["new"] = list["new"]
      /\ UNCHANGED <<listed, todo>>
  BY <1>1, <1>2 DEF TypeInv, LocalTyped, Tasks, world
<1>7. InHandListed'
  BY <1>6, EmptyIsList DEF TypeInv, InHandListed
<1>8. WorldTyped' /\ HistoryTyped' /\ CacheTyped'
  BY <1>1, <1>2 DEF TypeInv, WorldTyped, HistoryTyped, CacheTyped, world, history, cache
<1> QED
  BY <1>3, <1>4, <1>5, <1>7, <1>8 DEF TypeInv

\* The crawl launches a task that is idle.
LEMMA Launching ==
  ASSUME TypeInv, NEW t \in {"new", "retry"}, pc[t] = "idle", Written("crawl"), Launch(t),
         UNCHANGED <<world, todo>>
  PROVE  /\ WireTyped' /\ LocalTyped' /\ InHandListed'
         /\ list' = [list EXCEPT ![t] = list["crawl"], !["crawl"] = Empty]
         /\ news' = [news EXCEPT ![t] = news["crawl"], !["crawl"] = {}]
         /\ Head(wire) \in Sent /\ Sent' \subseteq Sent /\ Head(wire).list \in Lists
         /\ \A e \in Sent' : e.by # "crawl"
         /\ pc["crawl"] = "write"
<1>1. /\ pc' = [pc EXCEPT !["crawl"] = "idle", ![t] = IF t = "new" THEN "enrich" ELSE "retry"]
      /\ list' = [list EXCEPT ![t] = list["crawl"], !["crawl"] = Empty]
      /\ news' = [news EXCEPT ![t] = news["crawl"], !["crawl"] = {}]
      /\ old' = [old EXCEPT ![t] = old["crawl"], !["crawl"] = Empty]
      /\ claims' = claims
  BY DEF Launch
<1>2. {"crawl", "new", "retry"} \subseteq Tasks /\ LocalTyped /\ WireTyped
  BY DEF Tasks, TypeInv
<1>3. /\ pc' \in [Tasks -> Labels] /\ old' \in [Tasks -> Lists] /\ list' \in [Tasks -> Lists]
      /\ news' \in [Tasks -> SUBSET Notices]
  BY <1>1, <1>2, EmptyIsList DEF LocalTyped, Labels
<1>4. LocalTyped'
  BY <1>2, <1>3 DEF LocalTyped
<1>5. pc'["crawl"] # "write" /\ \A u \in Tasks \ {"crawl"} : pc'[u] = "write" <=> pc[u] = "write"
  BY <1>1, <1>2 DEF LocalTyped
<1>6. /\ WireTyped' /\ Sent' \subseteq Sent
      /\ Head(wire) \in Sent /\ pc["crawl"] = "write"
      /\ \A e \in Sent' : e.by # "crawl"
  BY <1>2, <1>5, Answering DEF Written
<1>7. Head(wire).list \in Lists
  BY <1>2, <1>6, SentTyped DEF Writes
<1>8. /\ news'["crawl"] = {} /\ list'["crawl"] = Empty /\ pc'["crawl"] = "idle"
      /\ news'["new"] \in {news["new"], news["crawl"]}
      /\ \/ pc'["new"] = "enrich"
         \/ pc'["new"] = pc["new"] /\ news'["new"] = news["new"] /\ list'["new"] = list["new"]
      /\ UNCHANGED <<listed, todo>>
  BY <1>1, <1>2 DEF LocalTyped, world
<1>9. InHandListed'
  BY <1>8, EmptyIsList DEF TypeInv, InHandListed
<1> QED
  BY <1>1, <1>4, <1>6, <1>7, <1>9

LEMMA CrawlLaunchTyped ==
  ASSUME TypeInv, CrawlLaunch
  PROVE  TypeInv'
<1>1. /\ Written("crawl") /\ "crawl" \in Tasks /\ news["crawl"] \subseteq Notices
      /\ UNCHANGED <<world, initialized, todo, announced, written, repeats, seeded, faults,
                     restarts>>
      /\ excused' \in {excused, excused \cup news["crawl"]}
  BY DEF CrawlLaunch, Tasks, TypeInv, LocalTyped
<1>2. CountsTyped' /\ WorldTyped'
  BY <1>1, CountsKept DEF TypeInv, WorldTyped, world
<1>3. ASSUME NEW t \in {"new", "retry"}, pc[t] = "idle", Launch(t) PROVE TypeInv'
  <2>1. WireTyped' /\ LocalTyped' /\ InHandListed' /\ Head(wire).list \in Lists
    BY <1>1, <1>3, Launching
  <2>2. CacheTyped'
    BY <1>1, <2>1 DEF TypeInv, CacheTyped, Written
  <2>3. HistoryTyped'
    BY <1>1, <1>3 DEF TypeInv, HistoryTyped, Launch
  <2> QED
    BY <1>2, <2>1, <2>2, <2>3 DEF TypeInv
<1>4. ASSUME End("crawl") PROVE TypeInv'
  <2>1. WireTyped' /\ LocalTyped' /\ WorldTyped' /\ InHandListed'
    BY <1>1, <1>4, OneEnds DEF Written
  <2>2. CacheTyped'
    BY <1>1, <1>4, WrittenTyped DEF CacheTyped, TypeInv
  <2>3. HistoryTyped'
    BY <1>1, <1>4, Ending DEF TypeInv, HistoryTyped
  <2> QED
    BY <1>2, <2>1, <2>2, <2>3 DEF TypeInv
<1> QED
  BY <1>3, <1>4 DEF CrawlLaunch

-----------------------------------------------------------------------------
(* The types: the background tasks and the rest of the system              *)

LEMMA NewEnrichTyped ==
  ASSUME TypeInv, NewEnrich
  PROVE  TypeInv'
<1>1. /\ pc["new"] = "enrich" /\ Goto("new", "archive") /\ "new" \in Tasks /\ todo' = news["new"]
      /\ UNCHANGED <<world, cache, initialized, old, news, claims, history, restarts>>
  BY DEF NewEnrich, Tasks
<1>2. /\ summary \in [Notices -> Statuses] /\ old["new"] \in Lists /\ news["new"] \subseteq Notices
  BY <1>1 DEF TypeInv, WorldTyped, LocalTyped
<1>3. PICK new \in Lists : /\ list' = [list EXCEPT !["new"] = new]
                           /\ \A n \in news["new"] : new[n] # "absent"
  <2> DEFINE blank == [n \in Notices |-> IF n \in news["new"] THEN "none" ELSE "absent"]
  <2>1. blank \in Lists /\ \A n \in news["new"] : blank[n] # "absent"
    BY <1>2 DEF Lists, Entries, Statuses
  <2>2. \A f \in [Notices -> Outcomes] :
          /\ Enriched(news["new"], old["new"], FALSE, f) \in Lists
          /\ \A n \in news["new"] : Enriched(news["new"], old["new"], FALSE, f)[n] # "absent"
    BY <1>2, EnrichedIsList
  <2> QED
    BY <2>1, <2>2 DEF NewEnrich
<1>4. CountsTyped'
  BY <1>1, CountsKept DEF NewEnrich, world
<1>5. WireTyped' /\ pc' = [pc EXCEPT !["new"] = "archive"] /\ pc' \in [Tasks -> Labels]
  BY <1>1, Going DEF Labels, cache
<1>6. LocalTyped'
  BY <1>1, <1>2, <1>3, <1>5 DEF TypeInv, LocalTyped
<1>7. /\ list'["crawl"] = list["crawl"] /\ pc'["crawl"] = pc["crawl"] /\ pc'["new"] = "archive"
      /\ list'["new"] = new
      /\ UNCHANGED <<listed, news>>
  BY <1>1, <1>3, <1>5 DEF TypeInv, LocalTyped, Tasks, world
<1>8. InHandListed'
  BY <1>1, <1>3, <1>7 DEF TypeInv, InHandListed
<1>9. WorldTyped' /\ HistoryTyped' /\ CacheTyped'
  BY <1>1 DEF TypeInv, WorldTyped, HistoryTyped, CacheTyped, world, history, cache
<1> QED
  BY <1>4, <1>5, <1>6, <1>8, <1>9 DEF TypeInv

LEMMA NewArchiveTyped ==
  ASSUME TypeInv, NewArchive
  PROVE  TypeInv'
<1>1. PICK n \in todo :
        /\ todo' = todo \ {n}
        /\ \/ Archive(n, list["new"][n]) /\ UNCHANGED faults
           \/ Fault /\ repeats' = repeats \cup {n} /\ UNCHANGED <<archived, summary, written>>
  BY DEF NewArchive
<1>2. /\ pc["new"] = "archive" /\ "new" \in Tasks
      /\ UNCHANGED <<scope, listed, cache, initialized, pc, old, news, list, claims, announced,
                     seeded, excused, restarts>>
  BY DEF NewArchive, Tasks
<1>3. n \in listed /\ n \in Notices /\ list["new"][n] \in Entries
  BY <1>2 DEF TypeInv, InHandListed, WorldTyped, LocalTyped, Lists
<1>4. CountsTyped'
  BY <1>1, <1>2, CountsKept
<1>5. WireTyped'
  BY <1>2, Resting DEF TypeInv, cache
<1>6. LocalTyped' /\ InHandListed' /\ CacheTyped'
  BY <1>1, <1>2 DEF TypeInv, LocalTyped, InHandListed, CacheTyped, cache
<1>7. CASE Archive(n, list["new"][n])
  <2>1. /\ archived' = archived \cup {n} /\ written' \subseteq written \cup {n}
        /\ repeats' \subseteq repeats \cup {n}
    BY <1>7 DEF Archive, Overtaken
  <2>2. list["new"][n] \in Statuses
    BY <1>2, <1>3 DEF TypeInv, InHandListed, Entries
  <2>3. summary' \in [Notices -> Statuses]
    BY <1>3, <1>7, <2>2 DEF Archive, TypeInv, WorldTyped
  <2> QED
    BY <1>2, <1>3, <1>4, <1>5, <1>6, <2>1, <2>3 DEF TypeInv, WorldTyped, HistoryTyped
<1>8. CASE repeats' = repeats \cup {n} /\ UNCHANGED <<archived, summary, written>>
  BY <1>2, <1>3, <1>4, <1>5, <1>6, <1>8 DEF TypeInv, WorldTyped, HistoryTyped
<1> QED
  BY <1>1, <1>7, <1>8

LEMMA NewMergeTyped ==
  ASSUME TypeInv, NewMerge
  PROVE  TypeInv'
<1>1. /\ pc["new"] = "archive" /\ Goto("new", "retry") /\ "new" \in Tasks
      /\ UNCHANGED <<world, cached, wire, initialized, old, news, todo, history, restarts>>
  BY DEF NewMerge, Tasks
<1>2. /\ summary \in [Notices -> Statuses] /\ snap \in Lists /\ loaded \in BOOLEAN
      /\ news["new"] \subseteq Notices
  BY <1>1 DEF TypeInv, WorldTyped, CacheTyped, LocalTyped
<1>3. PICK f \in {snap, cached, Empty}, fails \in BOOLEAN :
        /\ IF fails THEN f = snap /\ loaded /\ Fault /\ UNCHANGED <<snap, loaded>> ELSE Recent(f)
        /\ LET status(n) == IF fails THEN "none" ELSE Reconciled(n) IN
           /\ list' = [list EXCEPT !["new"] =
                         [n \in Notices |-> IF f[n] # "absent" /\ n \in news["new"]
                                            THEN status(n) ELSE f[n]]]
           /\ claims' = {n \in news["new"] : status(n) = "ready"}
  BY Zenon DEF NewMerge
<1>4. f \in Lists /\ snap' \in Lists /\ loaded' \in BOOLEAN /\ CountsTyped'
  BY <1>1, <1>2, <1>3, FaultCounts, Reading DEF world
<1> DEFINE status(n) == IF fails THEN "none" ELSE Reconciled(n)
           new == [n \in Notices |-> IF f[n] # "absent" /\ n \in news["new"]
                                     THEN status(n) ELSE f[n]]
<1>5. new \in Lists
  BY <1>2, <1>4 DEF Lists, Entries, Statuses, Reconciled
<1>6. list' = [list EXCEPT !["new"] = new] /\ claims' \subseteq Notices
  BY <1>2, <1>3
<1> HIDE DEF new
<1>7. WireTyped' /\ pc' = [pc EXCEPT !["new"] = "retry"] /\ pc' \in [Tasks -> Labels]
  BY <1>1, Going DEF Labels
<1>8. LocalTyped'
  BY <1>1, <1>5, <1>6, <1>7 DEF TypeInv, LocalTyped
<1>9. /\ list'["crawl"] = list["crawl"] /\ pc'["crawl"] = pc["crawl"] /\ pc'["new"] = "retry"
      /\ UNCHANGED <<listed, news, todo>>
  BY <1>1, <1>6, <1>7 DEF TypeInv, LocalTyped, Tasks, world
<1>10. InHandListed'
  BY <1>9 DEF TypeInv, InHandListed
<1>11. WorldTyped' /\ HistoryTyped' /\ CacheTyped'
  BY <1>1, <1>4, <1>6 DEF TypeInv, WorldTyped, HistoryTyped, CacheTyped, world, history
<1> QED
  BY <1>4, <1>7, <1>8, <1>10, <1>11 DEF TypeInv

LEMMA UpdateGetTyped ==
  ASSUME TypeInv, NEW t \in Tasks, UpdateGet(t)
  PROVE  TypeInv'
<1>1. /\ pc[t] = "get"
      /\ UNCHANGED <<world, cached, snap, loaded, initialized, old, news, list, todo, claims,
                     history, faults, restarts>>
  BY DEF UpdateGet
<1>2. WireTyped' /\ pc' = [pc EXCEPT ![t] = "write"] /\ pc' \in [Tasks -> Labels]
  BY GetSends
<1>3. /\ pc'["crawl"] \in {pc["crawl"], "write"} /\ pc'["new"] \in {pc["new"], "write"}
  BY <1>2 DEF TypeInv, LocalTyped, Tasks
<1>4. InHandListed'
  BY <1>1, <1>3 DEF TypeInv, InHandListed, world
<1> QED
  BY <1>1, <1>2, <1>4 DEF TypeInv, LocalTyped, WorldTyped, HistoryTyped, CacheTyped, CountsTyped,
                          world, history

\* What retryUnavailableSummariesFromPreviousCycle leads to.
LEMMA RetryShape ==
  ASSUME TypeInv, NEW t \in Tasks, RetryUnavailable(t)
  PROVE  /\ t \in {"new", "retry"} /\ pc[t] = "retry"
         /\ \E new \in Lists, merged \in Lists, saved \in SUBSET Notices :
              /\ Update(t, new)
              /\ \A n \in Notices : new[n] # "absent" => list[t][n] # "absent"
              /\ \A n \in saved : merged[n] \in Statuses
              /\ \A n \in Notices : new[n] = "ready" =>
                   list[t][n] = "ready" \/ (n \in saved /\ merged[n] = "ready")
              /\ summary' = [n \in Notices |-> IF n \in saved THEN merged[n] ELSE summary[n]]
              /\ written' = written \cup {n \in saved : merged[n] = "ready"}
         /\ UNCHANGED faults \/ Fault
<1> DEFINE Back == {n \in Notices : old[t][n] = "unavailable" /\ list[t][n] = "unavailable"}
           Merged(ready) == [n \in Notices |-> IF n \in ready THEN "ready" ELSE list[t][n]]
           Changed(f) == {n \in Notices : old[t][n] = "unavailable"
                                          /\ f[n] \notin {"unavailable", "absent"}}
<1>1. t \in {"new", "retry"} /\ pc[t] = "retry"
  BY DEF RetryUnavailable
<1>2. PICK ready \in SUBSET Back :
        \/ /\ Back = {} \/ Changed(Merged(ready)) = {}
           /\ Update(t, Merged(ready)) /\ UNCHANGED <<summary, written, faults>>
        \/ \E saved \in SUBSET Changed(Merged(ready)) :
             /\ Persist(Merged(ready), Changed(Merged(ready)), saved)
             /\ Update(t, Visible(Merged(ready), saved))
  BY DEF RetryUnavailable
<1> DEFINE merged == Merged(ready)
<1>3. list[t] \in Lists /\ summary \in [Notices -> Statuses]
  BY DEF TypeInv, LocalTyped, WorldTyped
<1>4. /\ merged \in Lists
      /\ \A n \in Notices : /\ n \in ready => merged[n] = "ready" /\ list[t][n] = "unavailable"
                                              /\ old[t][n] = "unavailable"
                            /\ n \notin ready => merged[n] = list[t][n]
  BY <1>2, <1>3 DEF Lists, Entries, Statuses
<1> HIDE DEF Merged
<1>5. ASSUME Back = {} \/ Changed(merged) = {}, Update(t, merged),
             UNCHANGED <<summary, written, faults>>
      PROVE  \E new \in Lists, m \in Lists, saved \in SUBSET Notices :
              /\ Update(t, new)
              /\ \A n \in Notices : new[n] # "absent" => list[t][n] # "absent"
              /\ \A n \in saved : m[n] \in Statuses
              /\ \A n \in Notices : new[n] = "ready" =>
                   list[t][n] = "ready" \/ (n \in saved /\ m[n] = "ready")
              /\ summary' = [n \in Notices |-> IF n \in saved THEN m[n] ELSE summary[n]]
              /\ written' = written \cup {n \in saved : m[n] = "ready"}
  <2>1. ready = {}
    BY <1>2, <1>4, <1>5
  <2>2. \A n \in Notices : merged[n] = list[t][n]
    BY <1>4, <2>1
  <2>3. summary' = [n \in Notices |-> IF n \in {} THEN merged[n] ELSE summary[n]]
        /\ written' = written \cup {n \in {} : merged[n] = "ready"}
    BY <1>3, <1>5
  <2> HIDE DEF merged
  <2> QED
    BY <1>4, <1>5, <2>2, <2>3
<1>6. ASSUME NEW saved \in SUBSET Changed(merged), Persist(merged, Changed(merged), saved),
             Update(t, Visible(merged, saved))
      PROVE  \E new \in Lists, m \in Lists, s \in SUBSET Notices :
              /\ Update(t, new)
              /\ \A n \in Notices : new[n] # "absent" => list[t][n] # "absent"
              /\ \A n \in s : m[n] \in Statuses
              /\ \A n \in Notices : new[n] = "ready" =>
                   list[t][n] = "ready" \/ (n \in s /\ m[n] = "ready")
              /\ summary' = [n \in Notices |-> IF n \in s THEN m[n] ELSE summary[n]]
              /\ written' = written \cup {n \in s : m[n] = "ready"}
  <2>1. /\ Visible(merged, saved) \in Lists
        /\ \A n \in Notices : Visible(merged, saved)[n] # "absent" =>
                                n \in saved /\ Visible(merged, saved)[n] = merged[n]
    BY <1>4, VisibleIsList
  <2>2. /\ summary' = [n \in Notices |-> IF n \in saved THEN merged[n] ELSE summary[n]]
        /\ written' = written \cup {n \in saved : merged[n] = "ready"}
    BY <1>6 DEF Persist
  <2>3. \A n \in saved : n \in Notices /\ merged[n] \in Statuses
    BY <1>4 DEF Lists, Entries
  <2> DEFINE new == Visible(merged, saved)
  <2>4. \A n \in Notices : new[n] # "absent" => list[t][n] # "absent"
    BY <1>4, <2>1
  <2>5. \A n \in Notices : new[n] = "ready" => n \in saved /\ merged[n] = "ready"
    BY <2>1
  <2>6. new \in Lists /\ Update(t, new) /\ saved \in SUBSET Notices
    BY <1>6, <2>1, <2>3
  <2> HIDE DEF new, merged
  <2> QED
    BY <1>4, <2>2, <2>3, <2>4, <2>5, <2>6
<1>7. UNCHANGED faults \/ Fault
  BY <1>2 DEF Persist
<1> QED
  BY <1>1, <1>2, <1>5, <1>6, <1>7

LEMMA RetryTyped ==
  ASSUME TypeInv, NEW t \in Tasks, RetryUnavailable(t)
  PROVE  TypeInv'
<1>1. /\ t \in {"new", "retry"} /\ pc[t] = "retry"
      /\ UNCHANGED faults \/ Fault
      /\ UNCHANGED <<scope, listed, archived, cached, snap, loaded, initialized, old, news, todo,
                     claims, announced, repeats, seeded, excused, restarts>>
  BY RetryShape DEF RetryUnavailable
<1>2. PICK new \in Lists, merged \in Lists, saved \in SUBSET Notices :
        /\ Update(t, new)
        /\ \A n \in saved : merged[n] \in Statuses
        /\ summary' = [n \in Notices |-> IF n \in saved THEN merged[n] ELSE summary[n]]
        /\ written' = written \cup {n \in saved : merged[n] = "ready"}
  BY RetryShape
<1>3. /\ WireTyped'
      /\ list' = [list EXCEPT ![t] = new] /\ list' \in [Tasks -> Lists]
      /\ \E l \in {"get", "write"} : pc' = [pc EXCEPT ![t] = l]
      /\ pc' \in [Tasks -> Labels]
  BY <1>1, <1>2, Updating
<1>4. CountsTyped'
  BY <1>1, CountsKept
<1>5. WorldTyped' /\ HistoryTyped' /\ CacheTyped'
  BY <1>1, <1>2 DEF TypeInv, WorldTyped, HistoryTyped, CacheTyped
<1>6. LocalTyped'
  BY <1>1, <1>3 DEF TypeInv, LocalTyped
<1>7. /\ list'["crawl"] = list["crawl"] /\ pc'["crawl"] = pc["crawl"]
      /\ \/ pc'["new"] = pc["new"] /\ list'["new"] = list["new"]
         \/ pc'["new"] \in {"get", "write"}
  BY <1>1, <1>3 DEF TypeInv, LocalTyped, Tasks
<1>8. InHandListed'
  BY <1>1, <1>7 DEF TypeInv, InHandListed
<1> QED
  BY <1>3, <1>4, <1>5, <1>6, <1>8 DEF TypeInv

LEMMA AroundTyped ==
  ASSUME TypeInv, Publish \/ ArchiveElsewhere
  PROVE  TypeInv'
<1>1. UNCHANGED <<scope, summary, cache, initialized, local, announced, written, seeded,
                  excused, faults, restarts>>
  BY DEF Publish, ArchiveElsewhere, world, history
<1>2. scope.notices \subseteq Notices
  BY ScopesTyped DEF TypeInv
<1>3. /\ listed \subseteq listed' /\ listed' \subseteq Notices /\ archived' \subseteq listed'
      /\ repeats' \subseteq Notices
  BY <1>2 DEF Publish, ArchiveElsewhere, Overtaken, TypeInv, WorldTyped, HistoryTyped, world,
              history
<1>4. WireTyped'
  BY <1>1, Resting DEF TypeInv, cache, local
<1>5. WorldTyped' /\ HistoryTyped'
  BY <1>1, <1>3 DEF TypeInv, WorldTyped, HistoryTyped, local
<1>6. InHandListed'
  BY <1>1, <1>3 DEF TypeInv, InHandListed, local
<1> QED
  BY <1>1, <1>4, <1>5, <1>6 DEF TypeInv, CacheTyped, LocalTyped, CountsTyped, cache, local

LEMMA SummarizeTyped ==
  ASSUME TypeInv, SummarizeElsewhere
  PROVE  TypeInv'
<1>1. PICK n \in archived, s \in {"unavailable", "ready"} :
        /\ summary' = [summary EXCEPT ![n] = s]
        /\ written' = IF s = "ready" THEN written \cup {n} ELSE written
        /\ Update("worker", [Empty EXCEPT ![n] = s])
  BY DEF SummarizeElsewhere
<1>2. /\ pc["worker"] = "idle" /\ "worker" \in Tasks
      /\ UNCHANGED <<scope, listed, archived, cached, snap, loaded, initialized, old, news, todo,
                     claims, announced, repeats, seeded, excused, faults, restarts>>
  BY DEF SummarizeElsewhere, Tasks
<1>3. n \in Notices
  BY DEF TypeInv, WorldTyped
<1>4. [Empty EXCEPT ![n] = s] \in Lists
  BY <1>3, EmptyIsList DEF Lists, Entries, Statuses
<1>5. /\ WireTyped'
      /\ list' = [list EXCEPT !["worker"] = [Empty EXCEPT ![n] = s]] /\ list' \in [Tasks -> Lists]
      /\ \E l \in {"get", "write"} : pc' = [pc EXCEPT !["worker"] = l]
      /\ pc' \in [Tasks -> Labels]
  BY <1>1, <1>2, <1>4, Updating
<1>6. WorldTyped' /\ HistoryTyped'
  BY <1>1, <1>2, <1>3 DEF TypeInv, WorldTyped, HistoryTyped, Statuses
<1>7. CacheTyped' /\ CountsTyped' /\ LocalTyped'
  BY <1>2, <1>5 DEF TypeInv, CacheTyped, CountsTyped, LocalTyped
<1>8. /\ list'["crawl"] = list["crawl"] /\ pc'["crawl"] = pc["crawl"]
      /\ pc'["new"] = pc["new"] /\ list'["new"] = list["new"]
  BY <1>5 DEF TypeInv, LocalTyped, Tasks
<1>9. InHandListed'
  BY <1>2, <1>8 DEF TypeInv, InHandListed
<1> QED
  BY <1>5, <1>6, <1>7, <1>9 DEF TypeInv

LEMMA AtRest ==
  ASSUME wire = <<>>, pc = [t \in Tasks |-> IF t = "init" THEN "load" ELSE "idle"]
  PROVE  WireTyped /\ Sent = {}
<1>1. wire \in Seq(Writes) /\ DOMAIN wire = {}
  <2>1. <<>> \in Seq(Writes) /\ Len(<<>>) = 0
    BY EmptySeq
  <2> QED
    BY <2>1, LenProperties
<1> QED
  BY <1>1 DEF WireTyped, Sent

LEMMA RestartTyped ==
  ASSUME TypeInv, Restart
  PROVE  TypeInv' /\ Sent' = {}
<1>1. /\ faults + restarts < scope.failures /\ restarts' = restarts + 1
      /\ cached' \in {cached, Empty} /\ snap' = Empty /\ loaded' = FALSE /\ initialized' = FALSE
      /\ wire' = <<>> /\ pc' = [t \in Tasks |-> IF t = "init" THEN "load" ELSE "idle"]
      /\ old' = [t \in Tasks |-> Empty] /\ news' = [t \in Tasks |-> {}]
      /\ list' = [t \in Tasks |-> Empty] /\ todo' = {} /\ claims' = {}
      /\ excused' = excused \cup news["crawl"] \cup news["new"]
      /\ UNCHANGED <<world, announced, written, repeats, seeded, faults>>
  BY DEF Restart
<1>2. WireTyped' /\ Sent' = {}
  <2>1. wire' \in Seq(Writes) /\ DOMAIN wire' = {}
    <3>1. <<>> \in Seq(Writes) /\ Len(<<>>) = 0
      BY EmptySeq
    <3> QED
      BY <1>1, <3>1, LenProperties
  <2> QED
    BY <1>1, <2>1 DEF WireTyped, Sent
<1>3. CountsTyped'
  BY <1>1, ScopesTyped DEF TypeInv, CountsTyped, world
<1>4. CacheTyped'
  BY <1>1, EmptyIsList DEF TypeInv, CacheTyped
<1>5. LocalTyped'
  BY <1>1, EmptyIsList DEF LocalTyped, Labels
<1>6. news["crawl"] \subseteq Notices /\ news["new"] \subseteq Notices
  BY DEF TypeInv, LocalTyped, Tasks
<1>7. WorldTyped' /\ HistoryTyped'
  BY <1>1, <1>6 DEF TypeInv, WorldTyped, HistoryTyped, world
<1>8. InHandListed'
  BY <1>1, EmptyIsList DEF InHandListed, Tasks
<1> QED
  BY <1>2, <1>3, <1>4, <1>5, <1>7, <1>8 DEF TypeInv

LEMMA InitTyped == Init => TypeInv /\ Sent = {}
<1> SUFFICES ASSUME Init PROVE TypeInv /\ Sent = {}
  OBVIOUS
<1>1. /\ scope \in Scopes /\ archived \in SUBSET scope.notices /\ listed = archived
      /\ summary = [n \in Notices |-> "none"]
      /\ cached = Empty /\ snap = Empty /\ loaded = FALSE /\ wire = <<>>
      /\ initialized = FALSE
      /\ pc = [t \in Tasks |-> IF t = "init" THEN "load" ELSE "idle"]
      /\ old = [t \in Tasks |-> Empty] /\ news = [t \in Tasks |-> {}]
      /\ list = [t \in Tasks |-> Empty] /\ todo = {} /\ claims = {}
      /\ announced = [n \in Notices |-> 0]
      /\ written = {} /\ repeats = {} /\ seeded = {} /\ excused = {}
      /\ faults = 0 /\ restarts = 0
  BY Zenon DEF Init
<1>2. WireTyped /\ Sent = {}
  BY <1>1, AtRest
<1>3. WorldTyped
  BY <1>1, CrawlAssumption DEF WorldTyped, Statuses
<1>4. CountsTyped
  BY <1>1, <1>3, ScopesTyped DEF CountsTyped
<1>5. CacheTyped
  BY <1>1, EmptyIsList DEF CacheTyped
<1>6. LocalTyped
  BY <1>1, EmptyIsList DEF LocalTyped, Labels
<1>7. HistoryTyped
  BY <1>1 DEF HistoryTyped
<1>8. InHandListed
  BY <1>1, EmptyIsList DEF InHandListed, Tasks
<1> QED
  BY <1>2, <1>3, <1>4, <1>5, <1>6, <1>7, <1>8 DEF TypeInv

LEMMA NextTyped == TypeInv /\ [Next]_vars => TypeInv'
<1> SUFFICES ASSUME TypeInv, [Next]_vars PROVE TypeInv'
  OBVIOUS
<1>1. ASSUME NEW t \in Tasks, Step(t) PROVE TypeInv'
  BY <1>1, InitLoadTyped, InitDoneTyped, CrawlFindTyped, CrawlFilterTyped, CrawlLaunchTyped,
     NewEnrichTyped, NewArchiveTyped, NewMergeTyped, NewAnnounceTyped, UpdateGetTyped, RetryTyped,
     TaskDoneTyped DEF Step
<1>2. CASE UNCHANGED vars
  <2>1. WireTyped'
    BY <1>2, Resting DEF vars, TypeInv, cache, local
  <2> QED
    BY <1>2, <2>1 DEF vars, world, cache, local, history, TypeInv, WorldTyped, CacheTyped,
                      LocalTyped, HistoryTyped, CountsTyped, InHandListed
<1> QED
  BY <1>1, <1>2, CrawlStartTyped, CrawlAbortsTyped, WriteFailsTyped, AroundTyped, SummarizeTyped,
     RestartTyped DEF Next

THEOREM TypeInvariance == Spec => []TypeInv
<1>1. Init => TypeInv
  BY InitTyped
<1> QED
  BY <1>1, NextTyped, PTL DEF Spec

\* Every step keeps the types: a task waits for the one write it has sent, and
\* what is archived is on the PAL list.
THEOREM TypeCorrect == Spec => []TypeOK
BY TypesFollow, TypeInvariance, PTL

-----------------------------------------------------------------------------
(* What the lists hold                                                     *)

\* Somebody has seen, or will see, to notice n, whatever becomes of the crawl.
Seen(n) ==
  n \in seeded \cup excused \cup archived \cup news["new"] \/ announced[n] > 0

Known(f) == \A n \in Notices : f[n] # "absent" => Seen(n)

\* The crawl's own lists hold what it found new as well.
Found(f) == \A n \in Notices : f[n] # "absent" => Seen(n) \/ n \in news["crawl"]

Durable(f) == \A n \in Notices : f[n] = "ready" => n \in written \cup seeded

\* Every copy of the list of recent notices, wherever it is on its way.
Lasting ==
  /\ Known(cached) /\ Durable(cached)
  /\ Known(snap) /\ Durable(snap)
  /\ \A t \in Tasks \ {"crawl"} : Known(list[t])
  /\ \A t \in Tasks : t # "new" \/ pc["new"] # "archive" => Durable(list[t])
  /\ pc["crawl"] \in {"filter", "get", "write"} => Found(list["crawl"])
  /\ \A e \in Sent : /\ Durable(e.list)
                     /\ IF e.by = "crawl" THEN Found(e.list) ELSE Known(e.list)

\* A write is a merge with the list it was made from.
Merged == \A e \in Sent : \E new \in Lists : e.list = Merge(new, e.base)

\* What is persisted, and what is about to be announced with a summary.
Persisted ==
  /\ \A n \in Notices : summary[n] = "ready" => n \in written
  /\ claims \subseteq written

CacheInv == Lasting /\ Merged /\ Persisted

\* What was seen to stays so.
Grows ==
  \A n \in Notices : /\ Seen(n) => Seen(n)'
                     /\ n \in written \cup seeded => n \in written' \cup seeded'

LEMMA GrowsSimply ==
  ASSUME seeded \subseteq seeded', excused \subseteq excused', archived \subseteq archived',
         written \subseteq written', announced' = announced, news["new"] \subseteq news'["new"]
  PROVE  Grows
BY DEF Grows, Seen

\* Nothing changes for the lists.
LEMMA Resident ==
  ASSUME TypeInv, CacheInv, Grows, Sent' = Sent,
         UNCHANGED <<scope, cached, snap, list>>,
         news'["crawl"] = news["crawl"], pc'["crawl"] = pc["crawl"],
         pc'["new"] = pc["new"]
  PROVE  Lasting' /\ Merged'
<1>1. Lasting'
  BY DEF CacheInv, Lasting, Known, Found, Durable, Grows
<1>2. \A new, base : Merge(new, base)' = Merge(new, base)
  BY DEF Merge, Newest
<1> QED
  BY <1>1, <1>2 DEF CacheInv, Merged

\* A task other than the crawl hands a list to updateCache.
LEMMA Handing ==
  ASSUME TypeInv, CacheInv, Grows, NEW t \in Tasks \ {"crawl"}, NEW new \in Lists,
         pc[t] # "write", Update(t, new), UNCHANGED <<scope, cached, snap>>,
         news'["crawl"] = news["crawl"],
         \A n \in Notices : new[n] # "absent" => Seen(n)',
         \A n \in Notices : new[n] = "ready" => n \in written' \cup seeded'
  PROVE  Lasting' /\ Merged'
<1>1. /\ list' = [list EXCEPT ![t] = new] /\ list \in [Tasks -> Lists]
      /\ \E l \in {"get", "write"} : pc' = [pc EXCEPT ![t] = l]
      /\ pc \in [Tasks -> Labels]
      /\ \A e \in Sent' : e \in Sent \/ (e.by = t /\ e.list = Merge(new, snap) /\ e.base = snap)
  BY Updating DEF TypeInv, LocalTyped
<1>2. /\ list'[t] = new /\ \A u \in Tasks \ {t} : list'[u] = list[u]
      /\ pc'["crawl"] = pc["crawl"]
      /\ pc'["new"] = "archive" => pc["new"] = "archive" /\ t # "new"
  BY <1>1 DEF Tasks
<1>3. snap \in Lists
  BY DEF TypeInv, CacheTyped
<1>4. \A n \in Notices : /\ Merge(new, snap)[n] # "absent" => Seen(n)'
                         /\ Merge(new, snap)[n] = "ready" => n \in written' \cup seeded'
  BY <1>3, MergeIsList DEF CacheInv, Lasting, Known, Durable, Grows
<1>5. \A e \in Sent' : /\ (Durable(e.list))'
                       /\ IF e.by = "crawl" THEN (Found(e.list))' ELSE (Known(e.list))'
  <2> SUFFICES ASSUME NEW e \in Sent'
               PROVE  /\ (Durable(e.list))'
                      /\ IF e.by = "crawl" THEN (Found(e.list))' ELSE (Known(e.list))'
    OBVIOUS
  <2>1. CASE e \in Sent
    BY <2>1 DEF CacheInv, Lasting, Known, Found, Durable, Grows
  <2>2. CASE e.by = t /\ e.list = Merge(new, snap)
    BY <1>4, <2>2 DEF Known, Durable
  <2> QED
    BY <1>1, <2>1, <2>2
<1>9. (Known(cached))' /\ (Durable(cached))' /\ (Known(snap))' /\ (Durable(snap))'
  BY DEF CacheInv, Lasting, Known, Durable, Grows
<1>10. \A u \in Tasks \ {"crawl"} : (Known(list[u]))'
  <2> TAKE u \in Tasks \ {"crawl"}
  <2>1. CASE u = t
    BY <1>2, <2>1 DEF Known
  <2>2. CASE u # t
    BY <1>2, <2>2 DEF CacheInv, Lasting, Known, Grows
  <2> QED
    BY <2>1, <2>2
<1>11. \A u \in Tasks : u # "new" \/ pc'["new"] # "archive" => (Durable(list[u]))'
  <2> SUFFICES ASSUME NEW u \in Tasks, u # "new" \/ pc'["new"] # "archive"
               PROVE  (Durable(list[u]))'
    OBVIOUS
  <2>1. CASE u = t
    BY <1>2, <2>1 DEF Durable
  <2>2. CASE u # t
    <3>1. pc'["new"] = pc["new"] \/ (t = "new" /\ u # "new")
      BY <1>1, <2>2 DEF Tasks
    <3>2. Durable(list[u])
      BY <3>1 DEF CacheInv, Lasting
    <3> QED
      BY <1>2, <2>2, <3>2 DEF Durable, Grows
  <2> QED
    BY <2>1, <2>2
<1>12. pc'["crawl"] \in {"filter", "get", "write"} => (Found(list["crawl"]))'
  BY <1>2 DEF CacheInv, Lasting, Found, Grows, Tasks
<1>6. Lasting'
  BY <1>5, <1>9, <1>10, <1>11, <1>12 DEF Lasting
<1>7. \A f, base : Merge(f, base)' = Merge(f, base)
  BY DEF Merge, Newest
<1>8. Merged'
  BY <1>1, <1>7 DEF CacheInv, Merged
<1> QED
  BY <1>6, <1>8

\* A write is answered, or fails, and its task ends.
LEMMA Landing ==
  ASSUME TypeInv, CacheInv, Grows, NEW t \in Tasks, wire # <<>>, Head(wire).by = t,
         wire' = Tail(wire), End(t), UNCHANGED scope,
         cached' \in {cached, Head(wire).list}, snap' \in {snap, Head(wire).list},
         t = "crawl" /\ (cached' # cached \/ snap' # snap) => \A n \in news["crawl"] : Seen(n)'
  PROVE  Lasting' /\ Merged'
<1> DEFINE f == Head(wire).list
<1>1. /\ Sent' \subseteq Sent /\ Head(wire) \in Sent /\ f \in Lists
      /\ \A e \in Sent' : e.by # t
  BY Taking
<1>2. /\ pc' = [pc EXCEPT ![t] = "idle"] /\ list' = [list EXCEPT ![t] = Empty]
      /\ news' = [news EXCEPT ![t] = {}]
      /\ pc \in [Tasks -> Labels] /\ list \in [Tasks -> Lists] /\ news \in [Tasks -> SUBSET Notices]
  BY Ending DEF TypeInv, LocalTyped
<1>3. /\ \A u \in Tasks : list'[u] = IF u = t THEN Empty ELSE list[u]
      /\ \A u \in {"crawl", "new"} : pc'[u] = IF u = t THEN "idle" ELSE pc[u]
      /\ t # "crawl" => news'["crawl"] = news["crawl"]
  BY <1>2 DEF Tasks
<1>4. cached' # cached \/ snap' # snap =>
        \A n \in Notices : /\ f[n] # "absent" => Seen(n)'
                           /\ f[n] = "ready" => n \in written' \cup seeded'
  <2>1. Durable(f) /\ IF t = "crawl" THEN Found(f) ELSE Known(f)
    BY <1>1 DEF CacheInv, Lasting
  <2> HIDE DEF f
  <2> QED
    BY <2>1 DEF Durable, Known, Found, Grows
<1> HIDE DEF f
<1>5. (Known(cached))' /\ (Durable(cached))' /\ (Known(snap))' /\ (Durable(snap))'
  BY <1>4 DEF CacheInv, Lasting, Known, Durable, Grows, f
<1>6. \A e \in Sent' : /\ (Durable(e.list))'
                       /\ IF e.by = "crawl" THEN (Found(e.list))' ELSE (Known(e.list))'
  BY <1>1, <1>3 DEF CacheInv, Lasting, Known, Found, Durable, Grows
<1>7. \A u \in Tasks \ {"crawl"} : (Known(list[u]))'
  BY <1>3, EmptyIsList DEF CacheInv, Lasting, Known, Grows
<1>8. \A u \in Tasks : u # "new" \/ pc'["new"] # "archive" => (Durable(list[u]))'
  <2> SUFFICES ASSUME NEW u \in Tasks, u # "new" \/ pc'["new"] # "archive"
               PROVE  (Durable(list[u]))'
    OBVIOUS
  <2>1. CASE u = t
    BY <1>3, <2>1, EmptyIsList DEF Durable
  <2>2. CASE u # t
    <3>1. Durable(list[u])
      BY <1>3, <2>2 DEF CacheInv, Lasting
    <3> QED
      BY <1>3, <2>2, <3>1 DEF Durable, Grows
  <2> QED
    BY <2>1, <2>2
<1>9. pc'["crawl"] \in {"filter", "get", "write"} => (Found(list["crawl"]))'
  BY <1>3 DEF CacheInv, Lasting, Found, Grows, Tasks
<1>10. Lasting'
  BY <1>5, <1>6, <1>7, <1>8, <1>9 DEF Lasting
<1>11. \A g, base : Merge(g, base)' = Merge(g, base)
  BY DEF Merge, Newest
<1>12. Merged'
  BY <1>1, <1>11 DEF CacheInv, Merged
<1> QED
  BY <1>10, <1>12

LEMMA PersistedKept ==
  ASSUME CacheInv, summary' = summary, claims' \subseteq claims, written' = written
  PROVE  Persisted'
BY DEF CacheInv, Persisted

LEMMA MergeKept ==
  ASSUME UNCHANGED scope, Merged, \A e \in Sent' : e \in Sent
  PROVE  Merged'
<1>1. \A new, base : Merge(new, base)' = Merge(new, base)
  BY DEF Merge, Newest
<1> QED
  BY <1>1 DEF Merged

\* A task works on another list, and sends none.
LEMMA Working ==
  ASSUME TypeInv, CacheInv, Grows, Sent' = Sent, UNCHANGED scope, cached' = cached,
         snap' \in {snap, cached, Empty},
         NEW t \in Tasks, NEW new \in Lists, list' = [list EXCEPT ![t] = new],
         news'["crawl"] = news["crawl"],
         IF t = "crawl" THEN pc'["crawl"] \in {"idle", "find"}
         ELSE pc'["crawl"] = pc["crawl"] /\ \A n \in Notices : new[n] # "absent" => Seen(n)',
         t = "new" \/ pc'["new"] = pc["new"],
         t # "new" \/ pc'["new"] # "archive" =>
           \A n \in Notices : new[n] = "ready" => n \in written' \cup seeded'
  PROVE  Lasting' /\ Merged'
<1>1. list \in [Tasks -> Lists]
  BY DEF TypeInv, LocalTyped
<1>2. list'[t] = new /\ \A u \in Tasks \ {t} : list'[u] = list[u]
  BY <1>1
<1>3. (Known(cached))' /\ (Durable(cached))' /\ (Known(snap))' /\ (Durable(snap))'
  BY EmptyIsList DEF CacheInv, Lasting, Known, Durable, Grows
<1>4. \A e \in Sent' : /\ (Durable(e.list))'
                       /\ IF e.by = "crawl" THEN (Found(e.list))' ELSE (Known(e.list))'
  BY DEF CacheInv, Lasting, Known, Found, Durable, Grows
<1>5. \A u \in Tasks \ {"crawl"} : (Known(list[u]))'
  <2> TAKE u \in Tasks \ {"crawl"}
  <2>1. CASE u = t
    BY <1>2, <2>1 DEF Known
  <2>2. CASE u # t
    BY <1>2, <2>2 DEF CacheInv, Lasting, Known, Grows
  <2> QED
    BY <2>1, <2>2
<1>6. \A u \in Tasks : u # "new" \/ pc'["new"] # "archive" => (Durable(list[u]))'
  <2> SUFFICES ASSUME NEW u \in Tasks, u # "new" \/ pc'["new"] # "archive"
               PROVE  (Durable(list[u]))'
    OBVIOUS
  <2>1. CASE u = t
    BY <1>2, <2>1 DEF Durable
  <2>2. CASE u # t
    <3>1. Durable(list[u])
      BY <2>2 DEF CacheInv, Lasting
    <3> QED
      BY <1>2, <2>2, <3>1 DEF Durable, Grows
  <2> QED
    BY <2>1, <2>2
<1>7. pc'["crawl"] \in {"filter", "get", "write"} => (Found(list["crawl"]))'
  <2>1. CASE t = "crawl"
    BY <2>1
  <2>2. CASE t # "crawl"
    BY <1>2, <2>2 DEF CacheInv, Lasting, Found, Grows, Tasks
  <2> QED
    BY <2>1, <2>2
<1>8. Lasting'
  BY <1>3, <1>4, <1>5, <1>6, <1>7 DEF Lasting
<1> QED
  BY <1>8, MergeKept DEF CacheInv

\* A task that has no write under way is over.
LEMMA Quitting ==
  ASSUME TypeInv, CacheInv, Grows, NEW t \in Tasks, pc[t] # "write", End(t), wire' = wire,
         UNCHANGED <<scope, cached, snap>>
  PROVE  Lasting' /\ Merged'
<1>1. /\ pc' = [pc EXCEPT ![t] = "idle"] /\ list' = [list EXCEPT ![t] = Empty]
      /\ news' = [news EXCEPT ![t] = {}]
      /\ pc \in [Tasks -> Labels] /\ list \in [Tasks -> Lists] /\ news \in [Tasks -> SUBSET Notices]
  BY Ending DEF TypeInv, LocalTyped
<1>2. Sent' = Sent
  BY DEF Sent
<1>3. /\ \A u \in Tasks : list'[u] = IF u = t THEN Empty ELSE list[u]
      /\ \A u \in {"crawl", "new"} : pc'[u] = IF u = t THEN "idle" ELSE pc[u]
      /\ t # "crawl" => news'["crawl"] = news["crawl"]
  BY <1>1 DEF Tasks
<1>4. (Known(cached))' /\ (Durable(cached))' /\ (Known(snap))' /\ (Durable(snap))'
  BY DEF CacheInv, Lasting, Known, Durable, Grows
<1>5. \A e \in Sent : e.by # t
  BY DEF Sent, TypeInv, WireTyped
<1>6. \A e \in Sent' : /\ (Durable(e.list))'
                       /\ IF e.by = "crawl" THEN (Found(e.list))' ELSE (Known(e.list))'
  BY <1>2, <1>3, <1>5 DEF CacheInv, Lasting, Known, Found, Durable, Grows
<1>7. \A u \in Tasks \ {"crawl"} : (Known(list[u]))'
  BY <1>3, EmptyIsList DEF CacheInv, Lasting, Known, Grows
<1>8. \A u \in Tasks : u # "new" \/ pc'["new"] # "archive" => (Durable(list[u]))'
  <2> SUFFICES ASSUME NEW u \in Tasks, u # "new" \/ pc'["new"] # "archive"
               PROVE  (Durable(list[u]))'
    OBVIOUS
  <2>1. CASE u = t
    BY <1>3, <2>1, EmptyIsList DEF Durable
  <2>2. CASE u # t
    <3>1. Durable(list[u])
      BY <1>3, <2>2 DEF CacheInv, Lasting
    <3> QED
      BY <1>3, <2>2, <3>1 DEF Durable, Grows
  <2> QED
    BY <2>1, <2>2
<1>9. pc'["crawl"] \in {"filter", "get", "write"} => (Found(list["crawl"]))'
  BY <1>3 DEF CacheInv, Lasting, Found, Grows, Tasks
<1>10. Lasting'
  BY <1>4, <1>6, <1>7, <1>8, <1>9 DEF Lasting
<1> QED
  BY <1>2, <1>10, MergeKept DEF CacheInv

-----------------------------------------------------------------------------
(* What the lists hold: start-up and the crawl                             *)

LEMMA InitLoadCached ==
  ASSUME TypeInv, CacheInv, InitLoad
  PROVE  CacheInv'
<1>1. /\ pc["init"] = "load" /\ "init" \in Tasks \ {"crawl"}
      /\ UNCHANGED <<world, cached, snap, loaded, todo, announced, written, repeats, excused,
                     restarts>>
  BY DEF InitLoad, Tasks
<1>2. /\ summary \in [Notices -> Statuses] /\ news \in [Tasks -> SUBSET Notices]
      /\ listed \subseteq Notices
  BY DEF TypeInv, WorldTyped, LocalTyped
<1>3. CASE LoadArchive
  <2> DEFINE new == [n \in Notices |-> IF n \in archived THEN summary[n] ELSE "absent"]
  <2>1. /\ new \in Lists
        /\ \A n \in Notices : /\ new[n] # "absent" => n \in archived
                              /\ new[n] = "ready" => n \in written
    BY <1>2 DEF Lists, Entries, CacheInv, Persisted
  <2>2. Update("init", new) /\ UNCHANGED <<news, claims, seeded>>
    BY <1>3 DEF LoadArchive
  <2> HIDE DEF new
  <2>3. Grows
    BY <1>1, <2>2, GrowsSimply DEF world
  <2>4. /\ \A n \in Notices : new[n] # "absent" => Seen(n)'
        /\ \A n \in Notices : new[n] = "ready" => n \in written' \cup seeded'
        /\ news'["crawl"] = news["crawl"] /\ UNCHANGED <<scope, cached, snap>>
    BY <1>1, <2>1, <2>2 DEF Seen, world
  <2>5. Lasting' /\ Merged'
    BY <1>1, <2>1, <2>2, <2>3, <2>4, Handing
  <2>6. Persisted'
    BY <1>1, <2>2, PersistedKept DEF world
  <2> QED
    BY <2>5, <2>6 DEF CacheInv
<1>4. CASE LoadCrawl
  <2>1. seeded' = seeded \cup listed
    BY <1>4 DEF LoadCrawl
  <2>2. CASE End("init") /\ UNCHANGED wire
    <3>1. news' = [news EXCEPT !["init"] = {}] /\ claims' \subseteq claims
      BY <1>1, <2>2, Ending
    <3>2. Grows
      BY <1>1, <1>2, <2>1, <3>1, GrowsSimply DEF world, Tasks
    <3>3. Lasting' /\ Merged'
      BY <1>1, <2>2, <3>2, Quitting DEF world
    <3>4. Persisted'
      BY <1>1, <3>1, PersistedKept DEF world
    <3> QED
      BY <3>3, <3>4 DEF CacheInv
  <2>3. CASE /\ UNCHANGED <<initialized, old, news, claims>>
             /\ \E f \in [Notices -> Outcomes] :
                   \/ Update("init", Enriched(listed, Empty, TRUE, f))
                   \/ Update("init", Crawled(Empty))
    <3>1. PICK new \in Lists : /\ Update("init", new)
                               /\ \A n \in Notices : new[n] # "absent" => n \in listed
      <4>1. /\ Crawled(Empty) \in Lists
            /\ \A n \in Notices : Crawled(Empty)[n] # "absent" => n \in listed
        BY EmptyIsList, CrawledIsList
      <4>2. ASSUME NEW f \in [Notices -> Outcomes]
            PROVE  /\ Enriched(listed, Empty, TRUE, f) \in Lists
                   /\ \A n \in Notices :
                        Enriched(listed, Empty, TRUE, f)[n] # "absent" => n \in listed
        BY <1>2, EmptyIsList, EnrichedIsList
      <4> QED
        BY <2>3, <4>1, <4>2
    <3>2. Grows
      BY <1>1, <2>1, <2>3, GrowsSimply DEF world
    <3>3. /\ \A n \in Notices : new[n] # "absent" => Seen(n)'
          /\ \A n \in Notices : new[n] = "ready" => n \in written' \cup seeded'
          /\ news'["crawl"] = news["crawl"] /\ UNCHANGED <<scope, cached, snap>>
      BY <1>1, <2>1, <2>3, <3>1 DEF Seen, world
    <3>4. Lasting' /\ Merged'
      BY <1>1, <3>1, <3>2, <3>3, Handing
    <3>5. Persisted'
      BY <1>1, <2>3, PersistedKept DEF world
    <3> QED
      BY <3>4, <3>5 DEF CacheInv
  <2> QED
    BY <1>4, <2>2, <2>3 DEF LoadCrawl
<1> QED
  BY <1>3, <1>4 DEF InitLoad

LEMMA InitDoneCached ==
  ASSUME TypeInv, CacheInv, InitDone
  PROVE  CacheInv'
<1>1. /\ "init" \in Tasks \ {"crawl"} /\ Written("init") /\ End("init")
      /\ UNCHANGED <<world, todo, history, faults, restarts>>
  BY DEF InitDone, Tasks
<1>2. news' = [news EXCEPT !["init"] = {}] /\ claims' \subseteq claims
      /\ news \in [Tasks -> SUBSET Notices]
  BY <1>1, Ending DEF TypeInv, LocalTyped
<1>3. Grows
  BY <1>1, <1>2, GrowsSimply DEF world, history, Tasks
<1>4. /\ wire # <<>> /\ Head(wire).by = "init" /\ wire' = Tail(wire) /\ UNCHANGED scope
      /\ cached' \in {cached, Head(wire).list} /\ snap' \in {snap, Head(wire).list}
      /\ "init" # "crawl"
  BY <1>1 DEF Written, world
<1>5. Lasting' /\ Merged'
  BY <1>1, <1>3, <1>4, Landing
<1>6. Persisted'
  BY <1>1, <1>2, PersistedKept DEF world, history
<1> QED
  BY <1>5, <1>6 DEF CacheInv

LEMMA CrawlStartCached ==
  ASSUME TypeInv, CacheInv, CrawlStart
  PROVE  CacheInv'
<1>1. PICK f : /\ Recent(f)
               /\ list' = [list EXCEPT !["crawl"] = Crawled(f)]
  BY DEF CrawlStart
<1>2. /\ pc["crawl"] = "idle" /\ Goto("crawl", "find") /\ "crawl" \in Tasks
      /\ UNCHANGED <<world, cached, wire, initialized, news, todo, claims, history, restarts>>
  BY DEF CrawlStart, Tasks
<1>3. f \in Lists /\ f \in {snap, cached, Empty} /\ snap' \in {snap, cached, Empty}
  BY <1>1, <1>2, Reading DEF world
<1>4. /\ Crawled(f) \in Lists
      /\ \A n \in Notices : Crawled(f)[n] = "ready" => f[n] = "ready"
  BY <1>3, CrawledIsList
<1>5. Sent' = Sent /\ pc' = [pc EXCEPT !["crawl"] = "find"] /\ pc \in [Tasks -> Labels]
  BY <1>2, Going DEF Labels, TypeInv, LocalTyped
<1>6. Grows
  BY <1>2, GrowsSimply DEF world, history
<1>7. \A n \in Notices : Crawled(f)[n] = "ready" => n \in written' \cup seeded'
  BY <1>3, <1>4, <1>6, EmptyIsList DEF CacheInv, Lasting, Durable, Grows
<1>8. pc'["crawl"] = "find" /\ pc'["new"] = pc["new"] /\ UNCHANGED <<scope, cached, news>>
  BY <1>2, <1>5 DEF Tasks, world
<1>9. Lasting' /\ Merged'
  BY <1>1, <1>2, <1>3, <1>4, <1>5, <1>6, <1>7, <1>8, Working
<1>10. Persisted'
  BY <1>2, PersistedKept DEF world, history
<1> QED
  BY <1>9, <1>10 DEF CacheInv

LEMMA CrawlFindCached ==
  ASSUME TypeInv, CacheInv, CrawlFind
  PROVE  CacheInv'
<1> DEFINE seen == {n \in Notices : list["crawl"][n] # "absent"}
<1>1. /\ pc["crawl"] = "find" /\ Goto("crawl", "filter") /\ "crawl" \in Tasks
      /\ UNCHANGED <<world, cache, initialized, old, list, todo, claims, history, restarts>>
  BY DEF CrawlFind, Tasks
<1>2. PICK found \in SUBSET seen : /\ news' = [news EXCEPT !["crawl"] = found]
                                   /\ \A n \in seen \ found : cached[n] # "absent"
  BY DEF CrawlFind, Uncached
<1>3. Sent' = Sent /\ pc' = [pc EXCEPT !["crawl"] = "filter"]
  BY <1>1, Going DEF Labels, cache
<1>4. /\ news'["crawl"] = found /\ news'["new"] = news["new"]
      /\ pc'["crawl"] = "filter" /\ pc'["new"] = pc["new"]
      /\ UNCHANGED <<scope, list, cached, snap>>
  BY <1>1, <1>2, <1>3 DEF TypeInv, LocalTyped, Tasks, world, cache
<1>5. Grows
  BY <1>1, <1>4, GrowsSimply DEF world, history
<1>6. \A e \in Sent : e.by # "crawl"
  BY <1>1 DEF Sent, TypeInv, WireTyped
<1>7. (Found(list["crawl"]))'
  BY <1>2, <1>4, <1>5 DEF CacheInv, Lasting, Known, Found, Grows
<1>8. \A e \in Sent' : /\ (Durable(e.list))'
                       /\ IF e.by = "crawl" THEN (Found(e.list))' ELSE (Known(e.list))'
  BY <1>3, <1>5, <1>6 DEF CacheInv, Lasting, Known, Durable, Grows
<1>9. \A u \in Tasks : u # "new" \/ pc'["new"] # "archive" => (Durable(list[u]))'
  BY <1>4, <1>5 DEF CacheInv, Lasting, Durable, Grows
<1>10. \A u \in Tasks \ {"crawl"} : (Known(list[u]))'
  BY <1>4, <1>5 DEF CacheInv, Lasting, Known, Grows
<1>11. (Known(cached))' /\ (Durable(cached))' /\ (Known(snap))' /\ (Durable(snap))'
  BY <1>4, <1>5 DEF CacheInv, Lasting, Known, Durable, Grows
<1>12. Lasting'
  BY <1>7, <1>8, <1>9, <1>10, <1>11 DEF Lasting
<1>13. Merged'
  BY <1>3, <1>4, MergeKept DEF CacheInv
<1>14. Persisted'
  BY <1>1, PersistedKept DEF world, history
<1> QED
  BY <1>12, <1>13, <1>14 DEF CacheInv

LEMMA CrawlFilterCached ==
  ASSUME TypeInv, CacheInv, CrawlFilter
  PROVE  CacheInv'
<1>1. /\ pc["crawl"] = "filter" /\ "crawl" \in Tasks
      /\ news' = [news EXCEPT !["crawl"] = Unarchived(@)]
      /\ Update("crawl", list["crawl"])
      /\ UNCHANGED <<world, cached, snap, loaded, initialized, old, todo, claims, history,
                     faults, restarts>>
  BY DEF CrawlFilter, Tasks
<1>2. list["crawl"] \in Lists /\ list \in [Tasks -> Lists] /\ news \in [Tasks -> SUBSET Notices]
      /\ snap \in Lists /\ pc \in [Tasks -> Labels]
  BY <1>1 DEF TypeInv, LocalTyped, CacheTyped
<1>3. /\ list' = [list EXCEPT !["crawl"] = list["crawl"]]
      /\ \E l \in {"get", "write"} : pc' = [pc EXCEPT !["crawl"] = l]
      /\ \A e \in Sent' : e \in Sent
           \/ (e.by = "crawl" /\ e.list = Merge(list["crawl"], snap) /\ e.base = snap)
  BY <1>1, <1>2, Updating
<1>4. /\ news'["crawl"] = news["crawl"] \ archived /\ news'["new"] = news["new"]
      /\ pc'["new"] = pc["new"] /\ list' = list
      /\ UNCHANGED <<scope, archived, cached, snap>>
  BY <1>1, <1>2, <1>3 DEF Tasks, world, Unarchived
<1>5. Grows
  BY <1>1, <1>4, GrowsSimply DEF world, history
<1>6. \A e \in Sent : e.by # "crawl"
  BY <1>1 DEF Sent, TypeInv, WireTyped
<1>7. \A n \in Notices : list["crawl"][n] # "absent" => Seen(n)' \/ n \in news'["crawl"]
  <2> SUFFICES ASSUME NEW n \in Notices, list["crawl"][n] # "absent"
               PROVE  Seen(n)' \/ n \in news'["crawl"]
    OBVIOUS
  <2>1. Seen(n) \/ n \in news["crawl"]
    BY <1>1 DEF CacheInv, Lasting, Found
  <2>2. n \in archived => Seen(n)
    BY DEF Seen
  <2> QED
    BY <1>4, <1>5, <2>1, <2>2 DEF Grows
<1>8. /\ \A n \in Notices : Merge(list["crawl"], snap)[n] # "absent" =>
                              Seen(n)' \/ n \in news'["crawl"]
      /\ \A n \in Notices : Merge(list["crawl"], snap)[n] = "ready" => n \in written' \cup seeded'
  <2>1. Durable(list["crawl"]) /\ Durable(snap) /\ Known(snap)
    BY <1>1 DEF CacheInv, Lasting
  <2> QED
    BY <1>2, <1>5, <1>7, <2>1, MergeIsList DEF Durable, Known, Grows
<1>9. \A e \in Sent' : /\ (Durable(e.list))'
                       /\ IF e.by = "crawl" THEN (Found(e.list))' ELSE (Known(e.list))'
  <2> SUFFICES ASSUME NEW e \in Sent'
               PROVE  /\ (Durable(e.list))'
                      /\ IF e.by = "crawl" THEN (Found(e.list))' ELSE (Known(e.list))'
    OBVIOUS
  <2>1. CASE e \in Sent
    BY <1>5, <1>6, <2>1 DEF CacheInv, Lasting, Known, Durable, Grows
  <2>2. CASE e.by = "crawl" /\ e.list = Merge(list["crawl"], snap)
    BY <1>8, <2>2 DEF Found, Durable
  <2> QED
    BY <1>3, <2>1, <2>2
<1>10. \A u \in Tasks : u # "new" \/ pc'["new"] # "archive" => (Durable(list[u]))'
  BY <1>4, <1>5 DEF CacheInv, Lasting, Durable, Grows
<1>11. \A u \in Tasks \ {"crawl"} : (Known(list[u]))'
  BY <1>4, <1>5 DEF CacheInv, Lasting, Known, Grows
<1>12. (Known(cached))' /\ (Durable(cached))' /\ (Known(snap))' /\ (Durable(snap))'
  BY <1>4, <1>5 DEF CacheInv, Lasting, Known, Durable, Grows
<1>13. (Found(list["crawl"]))'
  BY <1>4, <1>7 DEF Found
<1>14. Lasting'
  BY <1>9, <1>10, <1>11, <1>12, <1>13 DEF Lasting
<1>15. \A new, base : Merge(new, base)' = Merge(new, base)
  BY <1>4 DEF Merge, Newest
<1>16. Merged'
  BY <1>2, <1>3, <1>15 DEF CacheInv, Merged
<1>17. Persisted'
  BY <1>1, PersistedKept DEF world, history
<1> QED
  BY <1>14, <1>16, <1>17 DEF CacheInv

LEMMA CrawlAbortsCached ==
  ASSUME TypeInv, CacheInv, CrawlAborts
  PROVE  CacheInv'
<1>1. /\ "crawl" \in Tasks /\ pc["crawl"] \in {"find", "filter"} /\ End("crawl")
      /\ UNCHANGED <<world, cache, initialized, todo, history, restarts>>
  BY DEF CrawlAborts, Tasks
<1>2. news' = [news EXCEPT !["crawl"] = {}] /\ claims' \subseteq claims
      /\ news \in [Tasks -> SUBSET Notices]
  BY <1>1, Ending DEF TypeInv, LocalTyped
<1>3. Grows
  BY <1>1, <1>2, GrowsSimply DEF world, history, Tasks
<1>4. Lasting' /\ Merged'
  BY <1>1, <1>3, Quitting DEF world, cache
<1>5. Persisted'
  BY <1>1, <1>2, PersistedKept DEF world, history
<1> QED
  BY <1>4, <1>5 DEF CacheInv

LEMMA LaunchCached ==
  ASSUME TypeInv, CacheInv, NEW t \in {"new", "retry"}, pc[t] = "idle",
         Written("crawl"), Launch(t), t = "new" \/ news["crawl"] = {},
         UNCHANGED <<world, todo, announced, written, repeats, seeded, excused>>
  PROVE  CacheInv'
<1> DEFINE f == Head(wire).list
<1>1. /\ list' = [list EXCEPT ![t] = list["crawl"], !["crawl"] = Empty]
      /\ news' = [news EXCEPT ![t] = news["crawl"], !["crawl"] = {}]
      /\ Head(wire) \in Sent /\ Sent' \subseteq Sent /\ f \in Lists
      /\ \A e \in Sent' : e.by # "crawl"
      /\ pc["crawl"] = "write"
  BY Launching
<1>2. /\ pc' = [pc EXCEPT !["crawl"] = "idle", ![t] = IF t = "new" THEN "enrich" ELSE "retry"]
      /\ claims' = claims /\ Head(wire).by = "crawl" /\ cached' = f /\ snap' = f
  BY DEF Launch, Written
<1>3. /\ list \in [Tasks -> Lists] /\ news \in [Tasks -> SUBSET Notices] /\ pc \in [Tasks -> Labels]
      /\ "crawl" \in Tasks /\ "new" \in Tasks /\ t \in Tasks /\ t # "crawl"
      /\ pc["new"] = "idle" => news["new"] = {}
  BY DEF TypeInv, LocalTyped, InHandListed, Tasks
<1>4. /\ list'[t] = list["crawl"] /\ list'["crawl"] = Empty
      /\ \A u \in Tasks \ {t, "crawl"} : list'[u] = list[u]
      /\ pc'["crawl"] = "idle"
      /\ pc'["new"] = "archive" => pc["new"] = "archive" /\ t # "new"
      /\ news["crawl"] \cup news["new"] \subseteq news'["new"]
  BY <1>1, <1>2, <1>3
<1>5. Grows
  BY <1>4, GrowsSimply DEF world
<1>6. \A n \in news["crawl"] : Seen(n)'
  BY <1>4 DEF Seen
<1>7. Durable(f) /\ Found(f)
  BY <1>1, <1>2 DEF CacheInv, Lasting
<1>8. Found(list["crawl"]) /\ Durable(list["crawl"])
  BY <1>1, <1>3 DEF CacheInv, Lasting
<1> HIDE DEF f
<1>9. (Known(cached))' /\ (Durable(cached))' /\ (Known(snap))' /\ (Durable(snap))'
  BY <1>2, <1>5, <1>6, <1>7 DEF Known, Durable, Found, Grows
<1>10. \A e \in Sent' : /\ (Durable(e.list))'
                        /\ IF e.by = "crawl" THEN (Found(e.list))' ELSE (Known(e.list))'
  BY <1>1, <1>5 DEF CacheInv, Lasting, Known, Durable, Grows
<1>11. \A u \in Tasks \ {"crawl"} : (Known(list[u]))'
  <2> TAKE u \in Tasks \ {"crawl"}
  <2>1. CASE u = t
    BY <1>4, <1>5, <1>6, <1>8, <2>1 DEF Known, Found, Grows
  <2>2. CASE u # t
    BY <1>4, <1>5, <2>2 DEF CacheInv, Lasting, Known, Grows
  <2> QED
    BY <2>1, <2>2
<1>12. \A u \in Tasks : u # "new" \/ pc'["new"] # "archive" => (Durable(list[u]))'
  <2> SUFFICES ASSUME NEW u \in Tasks, u # "new" \/ pc'["new"] # "archive"
               PROVE  (Durable(list[u]))'
    OBVIOUS
  <2>1. CASE u = t
    BY <1>4, <1>5, <1>8, <2>1 DEF Durable, Grows
  <2>2. CASE u = "crawl"
    BY <1>4, <2>2, EmptyIsList DEF Durable
  <2>3. CASE u # t /\ u # "crawl"
    <3>1. u # "new" \/ pc["new"] # "archive"
      BY <1>2, <1>3, <2>3
    <3>2. Durable(list[u])
      BY <3>1 DEF CacheInv, Lasting
    <3> QED
      BY <1>4, <1>5, <2>3, <3>2 DEF Durable, Grows
  <2> QED
    BY <2>1, <2>2, <2>3
<1>13. Lasting'
  BY <1>4, <1>9, <1>10, <1>11, <1>12 DEF Lasting
<1>14. Merged'
  BY <1>1, MergeKept DEF CacheInv, world
<1>15. Persisted'
  BY <1>2, PersistedKept DEF world
<1> QED
  BY <1>13, <1>14, <1>15 DEF CacheInv

LEMMA CrawlLaunchCached ==
  ASSUME TypeInv, CacheInv, CrawlLaunch
  PROVE  CacheInv'
<1>1. /\ Written("crawl") /\ "crawl" \in Tasks
      /\ UNCHANGED <<world, initialized, todo, announced, written, repeats, seeded, faults,
                     restarts>>
  BY DEF CrawlLaunch, Tasks
<1>2. ASSUME End("crawl"), excused' = excused \cup news["crawl"]
      PROVE  CacheInv'
  <2>1. news' = [news EXCEPT !["crawl"] = {}] /\ claims' \subseteq claims
        /\ news \in [Tasks -> SUBSET Notices]
    BY <1>1, <1>2, Ending DEF TypeInv, LocalTyped
  <2>2. Grows
    BY <1>1, <1>2, <2>1, GrowsSimply DEF world, Tasks
  <2>3. /\ wire # <<>> /\ Head(wire).by = "crawl" /\ wire' = Tail(wire) /\ UNCHANGED scope
        /\ cached' \in {cached, Head(wire).list} /\ snap' \in {snap, Head(wire).list}
        /\ \A n \in news["crawl"] : Seen(n)'
    BY <1>1, <1>2 DEF Written, world, Seen
  <2>4. Lasting' /\ Merged'
    BY <1>1, <1>2, <2>2, <2>3, Landing
  <2>5. Persisted'
    BY <1>1, <2>1, PersistedKept DEF world
  <2> QED
    BY <2>4, <2>5 DEF CacheInv
<1>3. CASE news["crawl"] # {} /\ pc["new"] = "idle" /\ Launch("new") /\ UNCHANGED excused
  BY <1>1, <1>3, LaunchCached
<1>4. CASE End("crawl") /\ excused' = excused \cup news["crawl"]
  BY <1>2, <1>4
<1>5. CASE news["crawl"] = {} /\ UNCHANGED excused /\ pc["retry"] = "idle" /\ Launch("retry")
  BY <1>1, <1>5, LaunchCached
<1>6. CASE news["crawl"] = {} /\ UNCHANGED excused /\ End("crawl")
  BY <1>2, <1>6
<1> QED
  BY <1>3, <1>4, <1>5, <1>6 DEF CrawlLaunch

-----------------------------------------------------------------------------
(* What the lists hold: the background tasks                               *)

LEMMA NewEnrichCached ==
  ASSUME TypeInv, CacheInv, NewEnrich
  PROVE  CacheInv'
<1>1. /\ pc["new"] = "enrich" /\ Goto("new", "archive") /\ "new" \in Tasks
      /\ UNCHANGED <<world, cache, initialized, old, news, claims, history, restarts>>
  BY DEF NewEnrich, Tasks
<1>2. /\ summary \in [Notices -> Statuses] /\ old["new"] \in Lists /\ news["new"] \subseteq Notices
  BY <1>1 DEF TypeInv, WorldTyped, LocalTyped
<1>3. PICK new \in Lists : /\ list' = [list EXCEPT !["new"] = new]
                           /\ \A n \in Notices : new[n] # "absent" => n \in news["new"]
  <2> DEFINE blank == [n \in Notices |-> IF n \in news["new"] THEN "none" ELSE "absent"]
  <2>1. blank \in Lists /\ \A n \in Notices : blank[n] # "absent" => n \in news["new"]
    BY <1>2 DEF Lists, Entries, Statuses
  <2>2. \A f \in [Notices -> Outcomes] :
          /\ Enriched(news["new"], old["new"], FALSE, f) \in Lists
          /\ \A n \in Notices :
               Enriched(news["new"], old["new"], FALSE, f)[n] # "absent" => n \in news["new"]
    BY <1>2, EnrichedIsList
  <2> QED
    BY <2>1, <2>2 DEF NewEnrich
<1>4. Sent' = Sent /\ pc' = [pc EXCEPT !["new"] = "archive"] /\ pc \in [Tasks -> Labels]
  BY <1>1, Going DEF Labels, cache, TypeInv, LocalTyped
<1>5. Grows
  BY <1>1, GrowsSimply DEF world, history
<1>6. /\ pc'["crawl"] = pc["crawl"] /\ pc'["new"] = "archive" /\ news' = news
      /\ UNCHANGED <<scope, cached, snap>>
      /\ \A n \in Notices : new[n] # "absent" => Seen(n)'
  BY <1>1, <1>3, <1>4 DEF Tasks, world, cache, Seen
<1>7. Lasting' /\ Merged'
  BY <1>1, <1>3, <1>4, <1>5, <1>6, Working
<1>8. Persisted'
  BY <1>1, PersistedKept DEF world, history
<1> QED
  BY <1>7, <1>8 DEF CacheInv

LEMMA NewArchiveCached ==
  ASSUME TypeInv, CacheInv, NewArchive
  PROVE  CacheInv'
<1>1. PICK n \in todo :
        \/ Archive(n, list["new"][n])
        \/ UNCHANGED <<archived, summary, written>>
  BY DEF NewArchive
<1>2. /\ pc["new"] = "archive" /\ summary \in [Notices -> Statuses]
      /\ UNCHANGED <<scope, listed, cache, initialized, pc, old, news, list, claims, announced,
                     seeded, excused, restarts>>
  BY DEF NewArchive, TypeInv, WorldTyped
<1>3. /\ archived \subseteq archived' /\ written \subseteq written'
      /\ \A m \in Notices : summary'[m] = "ready" => m \in written' \/ summary[m] = "ready"
  BY <1>1, <1>2 DEF Archive
<1>4. Grows
  BY <1>2, <1>3, GrowsSimply
<1>5. Sent' = Sent /\ UNCHANGED <<cached, snap>>
  BY <1>2 DEF Sent, cache
<1>6. Lasting' /\ Merged'
  BY <1>2, <1>4, <1>5, Resident
<1>7. Persisted'
  BY <1>2, <1>3 DEF CacheInv, Persisted
<1> QED
  BY <1>6, <1>7 DEF CacheInv

LEMMA NewMergeCached ==
  ASSUME TypeInv, CacheInv, NewMerge
  PROVE  CacheInv'
<1>1. /\ pc["new"] = "archive" /\ Goto("new", "retry") /\ "new" \in Tasks
      /\ UNCHANGED <<world, cached, wire, initialized, old, news, todo, history, restarts>>
  BY DEF NewMerge, Tasks
<1>2. /\ summary \in [Notices -> Statuses] /\ snap \in Lists /\ loaded \in BOOLEAN
      /\ news["new"] \subseteq Notices
  BY <1>1 DEF TypeInv, WorldTyped, CacheTyped, LocalTyped
<1>3. PICK f \in {snap, cached, Empty}, fails \in BOOLEAN :
        /\ IF fails THEN f = snap /\ loaded /\ Fault /\ UNCHANGED <<snap, loaded>> ELSE Recent(f)
        /\ LET status(n) == IF fails THEN "none" ELSE Reconciled(n) IN
           /\ list' = [list EXCEPT !["new"] =
                         [n \in Notices |-> IF f[n] # "absent" /\ n \in news["new"]
                                            THEN status(n) ELSE f[n]]]
           /\ claims' = {n \in news["new"] : status(n) = "ready"}
  BY Zenon DEF NewMerge
<1>4. f \in Lists /\ f \in {snap, cached, Empty} /\ snap' \in {snap, cached, Empty}
  BY <1>1, <1>2, <1>3, Reading DEF world
<1> DEFINE status(n) == IF fails THEN "none" ELSE Reconciled(n)
           new == [n \in Notices |-> IF f[n] # "absent" /\ n \in news["new"]
                                     THEN status(n) ELSE f[n]]
<1>5. \A n \in Notices : status(n) \in Statuses /\ (status(n) = "ready" => n \in written)
  BY <1>2 DEF Statuses, Reconciled, CacheInv, Persisted
<1>6. new \in Lists
  BY <1>2, <1>4 DEF Lists, Entries, Statuses, Reconciled
<1>7. list' = [list EXCEPT !["new"] = new] /\ claims' = {n \in news["new"] : status(n) = "ready"}
  BY <1>3
<1> HIDE DEF status
<1>8. \A n \in Notices : /\ new[n] # "absent" => f[n] # "absent"
                         /\ new[n] = "ready" => f[n] = "ready" \/ n \in written
  BY <1>5
<1>9. claims' \subseteq written
  BY <1>2, <1>5, <1>7
<1> HIDE DEF new
<1>10. Sent' = Sent /\ pc' = [pc EXCEPT !["new"] = "retry"] /\ pc \in [Tasks -> Labels]
  BY <1>1, Going DEF Labels, TypeInv, LocalTyped
<1>11. Grows
  BY <1>1, GrowsSimply DEF world, history
<1>12. Known(f) /\ Durable(f)
  BY <1>4, EmptyIsList DEF CacheInv, Lasting, Known, Durable
<1>13. /\ pc'["crawl"] = pc["crawl"] /\ pc'["new"] = "retry" /\ news' = news
       /\ UNCHANGED <<scope, cached, written, summary, seeded>>
  BY <1>1, <1>10 DEF Tasks, world, history
<1>14. \A n \in Notices : /\ new[n] # "absent" => Seen(n)'
                          /\ new[n] = "ready" => n \in written' \cup seeded'
  BY <1>8, <1>11, <1>12, <1>13 DEF Known, Durable, Grows
<1>15. Lasting' /\ Merged'
  BY <1>1, <1>4, <1>6, <1>7, <1>10, <1>11, <1>13, <1>14, Working
<1>16. Persisted'
  BY <1>9, <1>13 DEF CacheInv, Persisted
<1> QED
  BY <1>15, <1>16 DEF CacheInv

LEMMA NewAnnounceCached ==
  ASSUME TypeInv, CacheInv, NewAnnounce
  PROVE  CacheInv'
<1>1. /\ "new" \in Tasks /\ Written("new") /\ End("new")
      /\ announced' = [n \in Notices |-> IF n \in news["new"] /\ announced[n] < 2
                                         THEN announced[n] + 1 ELSE announced[n]]
      /\ UNCHANGED <<world, initialized, todo, written, repeats, seeded, excused, faults, restarts>>
  BY DEF NewAnnounce, Tasks
<1>2. claims' \subseteq claims
  BY <1>1, Ending
<1>3. \A n \in Notices : /\ announced[n] > 0 => announced'[n] > 0
                         /\ n \in news["new"] => announced'[n] > 0
  BY <1>1 DEF TypeInv, HistoryTyped
<1>4. Grows
  BY <1>1, <1>3 DEF Grows, Seen, world
<1>5. /\ wire # <<>> /\ Head(wire).by = "new" /\ wire' = Tail(wire) /\ UNCHANGED scope
      /\ cached' \in {cached, Head(wire).list} /\ snap' \in {snap, Head(wire).list}
      /\ "new" # "crawl"
  BY <1>1 DEF Written, world
<1>6. Lasting' /\ Merged'
  BY <1>1, <1>4, <1>5, Landing
<1>7. Persisted'
  BY <1>1, <1>2, PersistedKept DEF world
<1> QED
  BY <1>6, <1>7 DEF CacheInv

LEMMA TaskDoneCached ==
  ASSUME TypeInv, CacheInv, NEW t \in Tasks, TaskDone(t)
  PROVE  CacheInv'
<1>1. /\ t \in {"retry", "worker"} /\ Written(t) /\ End(t)
      /\ UNCHANGED <<world, initialized, todo, history, faults, restarts>>
  BY DEF TaskDone
<1>2. news' = [news EXCEPT ![t] = {}] /\ claims' \subseteq claims
      /\ news \in [Tasks -> SUBSET Notices]
  BY <1>1, Ending DEF TypeInv, LocalTyped
<1>3. Grows
  BY <1>1, <1>2, GrowsSimply DEF world, history, Tasks
<1>4. /\ wire # <<>> /\ Head(wire).by = t /\ wire' = Tail(wire) /\ UNCHANGED scope
      /\ cached' \in {cached, Head(wire).list} /\ snap' \in {snap, Head(wire).list}
      /\ t # "crawl"
  BY <1>1 DEF Written, world
<1>5. Lasting' /\ Merged'
  BY <1>1, <1>3, <1>4, Landing
<1>6. Persisted'
  BY <1>1, <1>2, PersistedKept DEF world, history
<1> QED
  BY <1>5, <1>6 DEF CacheInv

LEMMA WriteFailsCached ==
  ASSUME TypeInv, CacheInv, WriteFails
  PROVE  CacheInv'
<1> DEFINE t == Head(wire).by
<1>1. t \in Tasks
  BY HeadWriter DEF WriteFails
<1>2. /\ wire # <<>> /\ wire' = Tail(wire) /\ End(t)
      /\ \/ cached' = Head(wire).list /\ excused' = excused \cup news[t]
         \/ /\ cached' = cached
            /\ excused' = IF t = "new" THEN excused \cup news[t] ELSE excused
      /\ UNCHANGED <<world, snap, loaded, todo, announced, written, repeats, seeded, restarts>>
  BY DEF WriteFails
<1>3. news' = [news EXCEPT ![t] = {}] /\ claims' \subseteq claims
      /\ news \in [Tasks -> SUBSET Notices]
  BY <1>1, <1>2, Ending DEF TypeInv, LocalTyped
<1>4. Head(wire).by = t
  OBVIOUS
<1> HIDE DEF t
<1>5. \A n \in Notices : Seen(n) => Seen(n)'
  <2>1. \/ news'["new"] = news["new"]
        \/ t = "new" /\ excused' = excused \cup news["new"]
    BY <1>1, <1>2, <1>3 DEF Tasks
  <2>2. excused \subseteq excused' /\ archived' = archived
    BY <1>2 DEF world
  <2> QED
    BY <1>2, <2>1, <2>2 DEF Seen
<1>6. Grows
  BY <1>2, <1>5 DEF Grows
<1>7. t = "crawl" /\ (cached' # cached \/ snap' # snap) => \A n \in news["crawl"] : Seen(n)'
  BY <1>2 DEF Seen
<1>8. cached' \in {cached, Head(wire).list} /\ snap' \in {snap, Head(wire).list} /\ UNCHANGED scope
  BY <1>2 DEF world
<1>9. Lasting' /\ Merged'
  BY <1>1, <1>2, <1>4, <1>6, <1>7, <1>8, Landing
<1>10. Persisted'
  BY <1>2, <1>3, PersistedKept DEF world
<1> QED
  BY <1>9, <1>10 DEF CacheInv

LEMMA RetryCached ==
  ASSUME TypeInv, CacheInv, NEW t \in Tasks, RetryUnavailable(t)
  PROVE  CacheInv'
<1>1. /\ t \in {"new", "retry"} /\ pc[t] = "retry"
      /\ UNCHANGED <<scope, listed, archived, cached, snap, loaded, initialized, old, news, todo,
                     claims, announced, repeats, seeded, excused, restarts>>
  BY RetryShape DEF RetryUnavailable
<1>2. PICK new \in Lists, merged \in Lists, saved \in SUBSET Notices :
        /\ Update(t, new)
        /\ \A n \in Notices : new[n] # "absent" => list[t][n] # "absent"
        /\ \A n \in Notices : new[n] = "ready" =>
             list[t][n] = "ready" \/ (n \in saved /\ merged[n] = "ready")
        /\ summary' = [n \in Notices |-> IF n \in saved THEN merged[n] ELSE summary[n]]
        /\ written' = written \cup {n \in saved : merged[n] = "ready"}
  BY RetryShape
<1>3. written \subseteq written'
  BY <1>2
<1>4. Grows
  BY <1>1, <1>3, GrowsSimply
<1>5. Known(list[t]) /\ Durable(list[t])
  BY <1>1 DEF CacheInv, Lasting
<1>6. /\ \A n \in Notices : new[n] # "absent" => Seen(n)'
      /\ \A n \in Notices : new[n] = "ready" => n \in written' \cup seeded'
  BY <1>1, <1>2, <1>4, <1>5 DEF Known, Durable, Grows
<1>7. t \in Tasks \ {"crawl"} /\ pc[t] # "write" /\ news'["crawl"] = news["crawl"]
  BY <1>1
<1>8. Lasting' /\ Merged'
  BY <1>1, <1>2, <1>4, <1>6, <1>7, Handing
<1>9. Persisted'
  <2>1. \A n \in Notices : summary'[n] = "ready" => n \in written'
    BY <1>2 DEF CacheInv, Persisted
  <2> QED
    BY <1>1, <1>3, <2>1 DEF CacheInv, Persisted
<1> QED
  BY <1>8, <1>9 DEF CacheInv

LEMMA UpdateGetCached ==
  ASSUME TypeInv, CacheInv, NEW t \in Tasks, UpdateGet(t)
  PROVE  CacheInv'
<1> DEFINE f == Merge(list[t], cached)
<1>1. /\ pc[t] = "get"
      /\ UNCHANGED <<world, cached, snap, loaded, initialized, old, news, list, todo, claims,
                     history, faults, restarts>>
  BY DEF UpdateGet
<1>2. /\ pc' = [pc EXCEPT ![t] = "write"]
      /\ \A e \in Sent' : e \in Sent \/ (e.by = t /\ e.list = f /\ e.base = cached)
  BY GetSends
<1>3. list[t] \in Lists /\ cached \in Lists /\ pc \in [Tasks -> Labels]
  BY DEF TypeInv, CacheTyped, LocalTyped
<1>4. Grows
  BY <1>1, GrowsSimply DEF world, history
<1>5. Durable(list[t]) /\ IF t = "crawl" THEN Found(list[t]) ELSE Known(list[t])
  BY <1>1 DEF CacheInv, Lasting
<1>6. Durable(f) /\ IF t = "crawl" THEN Found(f) ELSE Known(f)
  BY <1>3, <1>5, MergeIsList DEF CacheInv, Lasting, Durable, Found, Known
<1> HIDE DEF f
<1>7. \A e \in Sent' : /\ (Durable(e.list))'
                       /\ IF e.by = "crawl" THEN (Found(e.list))' ELSE (Known(e.list))'
  <2> SUFFICES ASSUME NEW e \in Sent'
               PROVE  /\ (Durable(e.list))'
                      /\ IF e.by = "crawl" THEN (Found(e.list))' ELSE (Known(e.list))'
    OBVIOUS
  <2>1. CASE e \in Sent
    BY <1>1, <1>4, <2>1 DEF CacheInv, Lasting, Known, Found, Durable, Grows
  <2>2. CASE e.by = t /\ e.list = f
    BY <1>1, <1>4, <1>6, <2>2 DEF Known, Found, Durable, Grows
  <2> QED
    BY <1>2, <2>1, <2>2
<1>8. \A u \in Tasks : u # "new" \/ pc'["new"] # "archive" => (Durable(list[u]))'
  <2> SUFFICES ASSUME NEW u \in Tasks, u # "new" \/ pc'["new"] # "archive"
               PROVE  (Durable(list[u]))'
    OBVIOUS
  <2>1. u # "new" \/ pc["new"] # "archive"
    BY <1>1, <1>2, <1>3
  <2>2. Durable(list[u])
    BY <2>1 DEF CacheInv, Lasting
  <2> QED
    BY <1>1, <1>4, <2>2 DEF Durable, Grows
<1>9. \A u \in Tasks \ {"crawl"} : (Known(list[u]))'
  BY <1>1, <1>4 DEF CacheInv, Lasting, Known, Grows
<1>10. (Known(cached))' /\ (Durable(cached))' /\ (Known(snap))' /\ (Durable(snap))'
  BY <1>1, <1>4 DEF CacheInv, Lasting, Known, Durable, Grows
<1>11. pc'["crawl"] \in {"filter", "get", "write"} => (Found(list["crawl"]))'
  <2>1. pc'["crawl"] = pc["crawl"] \/ pc["crawl"] = "get"
    BY <1>1, <1>2, <1>3 DEF Tasks
  <2> QED
    BY <1>1, <1>4, <2>1 DEF CacheInv, Lasting, Found, Grows
<1>12. Lasting'
  BY <1>7, <1>8, <1>9, <1>10, <1>11 DEF Lasting
<1>13. \A new, base : Merge(new, base)' = Merge(new, base)
  BY <1>1 DEF Merge, Newest, world
<1>14. Merged'
  BY <1>2, <1>3, <1>13 DEF CacheInv, Merged, f
<1>15. Persisted'
  BY <1>1, PersistedKept DEF world, history
<1> QED
  BY <1>12, <1>14, <1>15 DEF CacheInv

LEMMA AroundCached ==
  ASSUME TypeInv, CacheInv, Publish \/ ArchiveElsewhere
  PROVE  CacheInv'
<1>1. UNCHANGED <<scope, summary, cache, initialized, local, announced, written, seeded,
                  excused, faults, restarts>>
  BY DEF Publish, ArchiveElsewhere, world, history
<1>2. archived \subseteq archived'
  BY DEF Publish, ArchiveElsewhere, world
<1>3. Grows
  BY <1>1, <1>2, GrowsSimply DEF local
<1>4. Lasting' /\ Merged'
  BY <1>1, <1>3, Resident DEF cache, local, Sent
<1>5. Persisted'
  BY <1>1, PersistedKept DEF local
<1> QED
  BY <1>4, <1>5 DEF CacheInv

LEMMA SummarizeCached ==
  ASSUME TypeInv, CacheInv, SummarizeElsewhere
  PROVE  CacheInv'
<1>1. PICK n \in archived, s \in {"unavailable", "ready"} :
        /\ summary' = [summary EXCEPT ![n] = s]
        /\ written' = IF s = "ready" THEN written \cup {n} ELSE written
        /\ Update("worker", [Empty EXCEPT ![n] = s])
  BY DEF SummarizeElsewhere
<1> DEFINE new == [Empty EXCEPT ![n] = s]
<1>2. /\ pc["worker"] = "idle" /\ "worker" \in Tasks \ {"crawl"}
      /\ UNCHANGED <<scope, listed, archived, cached, snap, loaded, initialized, old, news, todo,
                     claims, announced, repeats, seeded, excused, faults, restarts>>
  BY DEF SummarizeElsewhere, Tasks
<1>3. n \in Notices
  BY DEF TypeInv, WorldTyped
<1>4. new \in Lists /\ \A m \in Notices : new[m] # "absent" => m = n /\ new[m] = s
  BY <1>3, EmptyIsList DEF Lists, Entries, Statuses
<1>5. Update("worker", new)
  BY <1>1
<1> HIDE DEF new
<1>6. Grows
  BY <1>1, <1>2, GrowsSimply
<1>7. /\ \A m \in Notices : new[m] # "absent" => Seen(m)'
      /\ \A m \in Notices : new[m] = "ready" => m \in written' \cup seeded'
  BY <1>1, <1>2, <1>4 DEF Seen
<1>8. Lasting' /\ Merged'
  BY <1>2, <1>4, <1>5, <1>6, <1>7, Handing
<1>9. Persisted'
  BY <1>1, <1>2, <1>3 DEF CacheInv, Persisted, TypeInv, WorldTyped
<1> QED
  BY <1>8, <1>9 DEF CacheInv

LEMMA RestartCached ==
  ASSUME TypeInv, CacheInv, Restart
  PROVE  CacheInv'
<1>1. /\ cached' \in {cached, Empty} /\ snap' = Empty
      /\ pc' = [t \in Tasks |-> IF t = "init" THEN "load" ELSE "idle"]
      /\ news' = [t \in Tasks |-> {}]
      /\ list' = [t \in Tasks |-> Empty] /\ claims' = {}
      /\ excused' = excused \cup news["crawl"] \cup news["new"]
      /\ UNCHANGED <<world, announced, written, repeats, seeded, faults>>
  BY DEF Restart
<1>2. Sent' = {}
  BY RestartTyped
<1>3. Grows
  BY <1>1 DEF Grows, Seen, world
<1>4. \A u \in Tasks : list'[u] = Empty
  BY <1>1
<1>5. pc'["crawl"] = "idle"
  BY <1>1 DEF Tasks
<1>6. (Known(cached))' /\ (Durable(cached))' /\ (Known(snap))' /\ (Durable(snap))'
  BY <1>1, <1>3, EmptyIsList DEF CacheInv, Lasting, Known, Durable, Grows
<1>7. \A u \in Tasks : (Known(list[u]))' /\ (Durable(list[u]))'
  BY <1>4, EmptyIsList DEF Known, Durable
<1>8. Lasting'
  BY <1>2, <1>5, <1>6, <1>7 DEF Lasting
<1>9. Merged'
  BY <1>2 DEF Merged
<1>10. Persisted'
  BY <1>1, PersistedKept DEF world
<1> QED
  BY <1>8, <1>9, <1>10 DEF CacheInv

LEMMA InitCached == Init => CacheInv
<1> SUFFICES ASSUME Init PROVE CacheInv
  OBVIOUS
<1>1. /\ Sent = {} /\ summary = [n \in Notices |-> "none"] /\ cached = Empty /\ snap = Empty
      /\ pc = [t \in Tasks |-> IF t = "init" THEN "load" ELSE "idle"]
      /\ list = [t \in Tasks |-> Empty] /\ claims = {}
  BY InitTyped, Zenon DEF Init
<1>2. Lasting
  BY <1>1, EmptyIsList DEF Lasting, Known, Durable, Tasks
<1>3. Merged /\ Persisted
  BY <1>1 DEF Merged, Persisted
<1> QED
  BY <1>2, <1>3 DEF CacheInv

LEMMA NextCached == TypeInv /\ CacheInv /\ [Next]_vars => CacheInv'
<1> SUFFICES ASSUME TypeInv, CacheInv, [Next]_vars PROVE CacheInv'
  OBVIOUS
<1>1. ASSUME NEW t \in Tasks, Step(t) PROVE CacheInv'
  BY <1>1, InitLoadCached, InitDoneCached, CrawlFindCached, CrawlFilterCached, CrawlLaunchCached,
     NewEnrichCached, NewArchiveCached, NewMergeCached, NewAnnounceCached, UpdateGetCached,
     RetryCached, TaskDoneCached DEF Step
<1>2. CASE UNCHANGED vars
  <2>1. Grows /\ Sent' = Sent
    BY <1>2, GrowsSimply DEF vars, world, cache, local, history, Sent
  <2>2. Lasting' /\ Merged'
    BY <1>2, <2>1, Resident DEF vars, world, cache, local
  <2>3. Persisted'
    BY <1>2, PersistedKept DEF vars, world, local, history
  <2> QED
    BY <2>2, <2>3 DEF CacheInv
<1> QED
  BY <1>1, <1>2, CrawlStartCached, CrawlAbortsCached, WriteFailsCached, AroundCached,
     SummarizeCached, RestartCached DEF Next

-----------------------------------------------------------------------------
(* Announcements                                                           *)

Settled == archived \cup repeats

\* A notice that was announced is archived or not to be; the crawl has nothing
\* archived in hand, and process-new-notices nothing announced, without a
\* reason; and it announces nothing before it has tried to archive it.
RepeatInv ==
  /\ \A n \in Notices : /\ announced[n] > 0 => n \in Settled
                        /\ announced[n] > 1 => n \in repeats
  /\ pc["crawl"] \in {"get", "write"} => news["crawl"] \cap archived \subseteq repeats
  /\ \A n \in news["new"] : announced[n] > 0 => n \in repeats
  /\ pc["new"] = "archive" => news["new"] \ todo \subseteq Settled
  /\ pc["new"] \in {"retry", "get", "write"} => news["new"] \subseteq Settled

LEMMA RepeatsKept ==
  ASSUME RepeatInv, announced' = announced,
         archived \subseteq archived', repeats \subseteq repeats',
         pc'["crawl"] \in {"get", "write"} =>
           /\ pc["crawl"] \in {"get", "write"} /\ news'["crawl"] = news["crawl"]
           /\ news["crawl"] \cap archived' \subseteq archived \cup repeats',
         news'["new"] \subseteq news["new"],
         pc'["new"] = "archive" => pc["new"] = "archive" /\ todo' = todo,
         pc'["new"] \in {"retry", "get", "write"} => pc["new"] \in {"retry", "get", "write"}
  PROVE  RepeatInv'
BY DEF RepeatInv, Settled

LEMMA EndRepeated ==
  ASSUME TypeInv, RepeatInv, NEW t \in Tasks, End(t),
         UNCHANGED <<archived, todo, announced, repeats>>
  PROVE  RepeatInv'
<1>1. /\ pc' = [pc EXCEPT ![t] = "idle"] /\ news' = [news EXCEPT ![t] = {}]
      /\ pc \in [Tasks -> Labels] /\ news \in [Tasks -> SUBSET Notices]
  BY Ending DEF TypeInv, LocalTyped
<1>2. /\ pc'["crawl"] # "idle" => pc'["crawl"] = pc["crawl"] /\ news'["crawl"] = news["crawl"]
      /\ pc'["new"] # "idle" => pc'["new"] = pc["new"]
      /\ news'["new"] \subseteq news["new"]
  BY <1>1 DEF Tasks
<1> QED
  BY <1>2, RepeatsKept

LEMMA UpdateRepeated ==
  ASSUME TypeInv, RepeatInv, NEW t \in Tasks \ {"crawl"}, NEW new \in Lists,
         pc[t] \notin {"write", "archive", "enrich"}, t = "new" => pc[t] = "retry",
         Update(t, new), UNCHANGED <<archived, todo, announced, repeats, news>>
  PROVE  RepeatInv'
<1>1. /\ \E l \in {"get", "write"} : pc' = [pc EXCEPT ![t] = l]
      /\ pc \in [Tasks -> Labels]
  BY Updating DEF TypeInv, LocalTyped
<1>2. /\ pc'["crawl"] = pc["crawl"]
      /\ \/ pc'["new"] = pc["new"]
         \/ pc["new"] = "retry" /\ pc'["new"] \in {"get", "write"}
  BY <1>1 DEF Tasks
<1> QED
  BY <1>2, RepeatsKept

LEMMA InitLoadRepeated ==
  ASSUME TypeInv, RepeatInv, InitLoad
  PROVE  RepeatInv'
<1>1. /\ pc["init"] = "load" /\ "init" \in Tasks \ {"crawl"}
      /\ UNCHANGED <<archived, todo, announced, repeats>>
  BY DEF InitLoad, Tasks, world
<1>2. summary \in [Notices -> Statuses] /\ listed \subseteq Notices
  BY DEF TypeInv, WorldTyped
<1>3. ASSUME NEW new \in Lists, Update("init", new), news' = news
      PROVE  RepeatInv'
  BY <1>1, <1>3, UpdateRepeated
<1>4. CASE LoadArchive
  <2> DEFINE new == [n \in Notices |-> IF n \in archived THEN summary[n] ELSE "absent"]
  <2>1. new \in Lists
    BY <1>2 DEF Lists, Entries
  <2>2. Update("init", new) /\ news' = news
    BY <1>4 DEF LoadArchive
  <2> HIDE DEF new
  <2> QED
    BY <1>3, <2>1, <2>2
<1>5. CASE LoadCrawl
  <2>1. CASE End("init")
    BY <1>1, <2>1, EndRepeated
  <2>2. CASE /\ UNCHANGED <<initialized, old, news, claims>>
             /\ \E f \in [Notices -> Outcomes] :
                   \/ Update("init", Enriched(listed, Empty, TRUE, f))
                   \/ Update("init", Crawled(Empty))
    <3>1. Crawled(Empty) \in Lists
      BY EmptyIsList, CrawledIsList
    <3>2. ASSUME NEW f \in [Notices -> Outcomes]
          PROVE  Enriched(listed, Empty, TRUE, f) \in Lists
      BY <1>2, EmptyIsList, EnrichedIsList
    <3> QED
      BY <1>3, <2>2, <3>1, <3>2
  <2> QED
    BY <1>5, <2>1, <2>2 DEF LoadCrawl
<1> QED
  BY <1>4, <1>5 DEF InitLoad

LEMMA CrawlRepeated ==
  ASSUME TypeInv, RepeatInv, CrawlStart \/ CrawlFind \/ CrawlFilter
  PROVE  RepeatInv'
<1>1. /\ "crawl" \in Tasks /\ pc["crawl"] # "write"
      /\ UNCHANGED <<archived, todo, announced, repeats>>
  BY DEF CrawlStart, CrawlFind, CrawlFilter, world, history, Tasks
<1>2. /\ pc \in [Tasks -> Labels] /\ news \in [Tasks -> SUBSET Notices]
      /\ list["crawl"] \in Lists
  BY <1>1 DEF TypeInv, LocalTyped
<1>3. CASE CrawlStart \/ CrawlFind
  <2>1. \E l \in {"find", "filter"} : pc' = [pc EXCEPT !["crawl"] = l]
    BY <1>3 DEF CrawlStart, CrawlFind, Goto
  <2>2. \E nums : news' = [news EXCEPT !["crawl"] = nums]
    <3>1. CASE CrawlStart
      <4>1. news' = [news EXCEPT !["crawl"] = news["crawl"]]
        BY <1>2, <3>1 DEF CrawlStart
      <4> QED
        BY <4>1
    <3>2. CASE CrawlFind
      BY <3>2 DEF CrawlFind
    <3> QED
      BY <1>3, <3>1, <3>2
  <2>3. pc'["crawl"] \in {"find", "filter"} /\ pc'["new"] = pc["new"] /\ news'["new"] = news["new"]
    BY <1>1, <1>2, <2>1, <2>2 DEF Tasks
  <2> QED
    BY <1>1, <2>3, RepeatsKept
<1>4. CASE CrawlFilter
  <2>1. Update("crawl", list["crawl"]) /\ news' = [news EXCEPT !["crawl"] = Unarchived(@)]
    BY <1>4 DEF CrawlFilter
  <2>2. \E l \in {"get", "write"} : pc' = [pc EXCEPT !["crawl"] = l]
    BY <1>1, <1>2, <2>1, Updating
  <2>3. /\ pc'["new"] = pc["new"] /\ news'["new"] = news["new"]
        /\ news'["crawl"] = news["crawl"] \ archived
    BY <1>1, <1>2, <2>1, <2>2 DEF Tasks, Unarchived
  <2> QED
    BY <1>1, <2>3 DEF RepeatInv, Settled
<1> QED
  BY <1>3, <1>4

LEMMA LaunchRepeated ==
  ASSUME TypeInv, RepeatInv, CrawlLaunch
  PROVE  RepeatInv'
<1>1. /\ Written("crawl") /\ "crawl" \in Tasks
      /\ UNCHANGED <<world, archived, todo, announced, repeats>>
  BY DEF CrawlLaunch, Tasks, world
<1>2. CASE End("crawl")
  BY <1>1, <1>2, EndRepeated
<1>3. ASSUME NEW t \in {"new", "retry"}, pc[t] = "idle", Launch(t)
      PROVE  RepeatInv'
  <2>1. /\ news' = [news EXCEPT ![t] = news["crawl"], !["crawl"] = {}]
        /\ pc["crawl"] = "write"
    BY <1>1, <1>3, Launching
  <2>2. pc' = [pc EXCEPT !["crawl"] = "idle", ![t] = IF t = "new" THEN "enrich" ELSE "retry"]
    BY <1>3 DEF Launch
  <2>3. /\ news \in [Tasks -> SUBSET Notices] /\ pc \in [Tasks -> Labels]
        /\ \A n \in Notices : announced[n] \in Nat
    BY DEF TypeInv, LocalTyped, HistoryTyped
  <2>4. /\ pc'["crawl"] = "idle"
        /\ \/ pc'["new"] = "enrich" /\ news'["new"] = news["crawl"]
           \/ pc'["new"] = pc["new"] /\ news'["new"] = news["new"]
    BY <2>1, <2>2, <2>3 DEF Tasks
  <2>5. news["crawl"] \subseteq Notices
    BY <1>1, <2>3
  <2>6. CASE pc'["new"] = "enrich" /\ news'["new"] = news["crawl"]
    BY <1>1, <2>1, <2>4, <2>5, <2>6 DEF RepeatInv, Settled
  <2>7. CASE pc'["new"] = pc["new"] /\ news'["new"] = news["new"]
    BY <1>1, <2>4, <2>7, RepeatsKept
  <2> QED
    BY <2>4, <2>6, <2>7
<1> QED
  BY <1>2, <1>3 DEF CrawlLaunch

LEMMA NewRepeated ==
  ASSUME TypeInv, RepeatInv, NewEnrich \/ NewMerge
  PROVE  RepeatInv'
<1>1. /\ "new" \in Tasks /\ pc["new"] # "write"
      /\ UNCHANGED <<archived, announced, repeats, news>>
      /\ pc \in [Tasks -> Labels]
  BY DEF NewEnrich, NewMerge, world, history, Tasks, TypeInv, LocalTyped
<1>2. CASE NewEnrich
  <2>1. pc' = [pc EXCEPT !["new"] = "archive"] /\ todo' = news["new"]
    BY <1>2 DEF NewEnrich, Goto
  <2>2. pc'["new"] = "archive" /\ pc'["crawl"] = pc["crawl"]
    BY <1>1, <2>1 DEF Tasks
  <2> QED
    BY <1>1, <2>1, <2>2 DEF RepeatInv, Settled
<1>3. CASE NewMerge
  <2>1. pc["new"] = "archive" /\ todo = {} /\ pc' = [pc EXCEPT !["new"] = "retry"]
    BY <1>3 DEF NewMerge, Goto
  <2>2. pc'["new"] = "retry" /\ pc'["crawl"] = pc["crawl"]
    BY <1>1, <2>1 DEF Tasks
  <2> QED
    BY <1>1, <2>1, <2>2 DEF RepeatInv, Settled
<1> QED
  BY <1>2, <1>3

LEMMA NewArchiveRepeated ==
  ASSUME TypeInv, RepeatInv, NewArchive
  PROVE  RepeatInv'
<1>1. PICK n \in todo :
        /\ todo' = todo \ {n}
        /\ \/ archived' = archived \cup {n} /\ repeats' = repeats \cup Overtaken(n)
           \/ archived' = archived /\ repeats' = repeats \cup {n}
  BY DEF NewArchive, Archive
<1>2. pc["new"] = "archive" /\ UNCHANGED <<pc, news, announced>>
  BY DEF NewArchive
<1>3. /\ archived \subseteq archived' /\ repeats \subseteq repeats' /\ n \in archived' \cup repeats'
      /\ pc["crawl"] \in {"get", "write"} =>
           news["crawl"] \cap archived' \subseteq archived \cup repeats'
  BY <1>1 DEF Overtaken
<1> QED
  BY <1>1, <1>2, <1>3 DEF RepeatInv, Settled

LEMMA NewAnnounceRepeated ==
  ASSUME TypeInv, RepeatInv, NewAnnounce
  PROVE  RepeatInv'
<1>1. /\ "new" \in Tasks /\ Written("new") /\ End("new")
      /\ announced' = [n \in Notices |-> IF n \in news["new"] /\ announced[n] < 2
                                         THEN announced[n] + 1 ELSE announced[n]]
      /\ UNCHANGED <<archived, todo, repeats>>
  BY DEF NewAnnounce, Tasks, world
<1>2. /\ pc' = [pc EXCEPT !["new"] = "idle"] /\ news' = [news EXCEPT !["new"] = {}]
      /\ pc \in [Tasks -> Labels] /\ news \in [Tasks -> SUBSET Notices]
      /\ pc["new"] = "write"
  BY <1>1, Ending, Taking DEF TypeInv, LocalTyped, Written
<1>3. /\ pc'["new"] = "idle" /\ news'["new"] = {}
      /\ pc'["crawl"] = pc["crawl"] /\ news'["crawl"] = news["crawl"]
  BY <1>2 DEF Tasks
<1>4. \A n \in Notices : /\ announced[n] \in 0 .. 2
                         /\ n \notin news["new"] => announced'[n] = announced[n]
                         /\ announced'[n] > 1 => announced[n] > 0
  BY <1>1 DEF TypeInv, HistoryTyped
<1>5. \A n \in Notices : /\ announced'[n] > 0 => n \in archived \cup repeats
                         /\ announced'[n] > 1 => n \in repeats
  BY <1>2, <1>4 DEF RepeatInv, Settled
<1> QED
  BY <1>1, <1>3, <1>5 DEF RepeatInv, Settled

LEMMA UpdateGetRepeated ==
  ASSUME TypeInv, RepeatInv, NEW t \in Tasks, UpdateGet(t)
  PROVE  RepeatInv'
<1>1. /\ pc[t] = "get" /\ UNCHANGED <<archived, todo, announced, repeats, news>>
      /\ pc' = [pc EXCEPT ![t] = "write"] /\ pc \in [Tasks -> Labels]
  BY GetSends DEF UpdateGet, world, history, TypeInv, LocalTyped
<1>2. /\ pc'["crawl"] = pc["crawl"] \/ pc["crawl"] = "get"
      /\ pc'["new"] = pc["new"] \/ (pc["new"] = "get" /\ pc'["new"] = "write")
  BY <1>1 DEF Tasks
<1> QED
  BY <1>1, <1>2, RepeatsKept

LEMMA RetryRepeated ==
  ASSUME TypeInv, RepeatInv, NEW t \in Tasks, RetryUnavailable(t)
  PROVE  RepeatInv'
<1>1. /\ t \in {"new", "retry"} /\ pc[t] = "retry"
      /\ \E new \in Lists : Update(t, new)
  BY RetryShape
<1>2. UNCHANGED <<archived, todo, announced, repeats, news>>
  BY DEF RetryUnavailable
<1> QED
  BY <1>1, <1>2, UpdateRepeated

LEMMA AroundRepeated ==
  ASSUME TypeInv, RepeatInv, Publish \/ ArchiveElsewhere
  PROVE  RepeatInv'
<1>1. UNCHANGED <<announced, pc, news, todo>>
  BY DEF Publish, ArchiveElsewhere, local, history
<1>2. /\ archived \subseteq archived' /\ repeats \subseteq repeats'
      /\ pc["crawl"] \in {"get", "write"} =>
           news["crawl"] \cap archived' \subseteq archived \cup repeats'
  BY DEF Publish, ArchiveElsewhere, history, Overtaken
<1> QED
  BY <1>1, <1>2, RepeatsKept

LEMMA SummarizeRepeated ==
  ASSUME TypeInv, RepeatInv, SummarizeElsewhere
  PROVE  RepeatInv'
<1>1. PICK n \in archived, s \in {"unavailable", "ready"} :
        Update("worker", [Empty EXCEPT ![n] = s])
  BY DEF SummarizeElsewhere
<1>2. /\ pc["worker"] = "idle" /\ "worker" \in Tasks \ {"crawl"}
      /\ UNCHANGED <<archived, todo, announced, repeats, news>>
  BY DEF SummarizeElsewhere, Tasks
<1>3. n \in Notices
  BY DEF TypeInv, WorldTyped
<1>4. [Empty EXCEPT ![n] = s] \in Lists
  BY <1>3, EmptyIsList DEF Lists, Entries, Statuses
<1> QED
  BY <1>1, <1>2, <1>4, UpdateRepeated

LEMMA RestartRepeated ==
  ASSUME TypeInv, RepeatInv, Restart
  PROVE  RepeatInv'
<1>1. /\ pc' = [t \in Tasks |-> IF t = "init" THEN "load" ELSE "idle"]
      /\ news' = [t \in Tasks |-> {}]
      /\ UNCHANGED <<archived, announced, repeats>>
  BY DEF Restart, world
<1>2. pc'["crawl"] = "idle" /\ pc'["new"] = "idle" /\ news'["new"] = {}
  BY <1>1 DEF Tasks
<1> QED
  BY <1>1, <1>2, RepeatsKept

LEMMA WriteFailsRepeated ==
  ASSUME TypeInv, RepeatInv, WriteFails
  PROVE  RepeatInv'
<1>1. Head(wire).by \in Tasks
  BY HeadWriter DEF WriteFails
<1>2. End(Head(wire).by) /\ UNCHANGED <<archived, todo, announced, repeats>>
  BY DEF WriteFails, world
<1> QED
  BY <1>1, <1>2, EndRepeated

LEMMA EndsRepeated ==
  ASSUME TypeInv, RepeatInv, InitDone \/ CrawlAborts \/ \E t \in Tasks : TaskDone(t)
  PROVE  RepeatInv'
<1>1. \E t \in Tasks : End(t)
  BY DEF InitDone, CrawlAborts, TaskDone, Tasks
<1>2. UNCHANGED <<archived, todo, announced, repeats>>
  BY DEF InitDone, CrawlAborts, TaskDone, world, history
<1> QED
  BY <1>1, <1>2, EndRepeated

LEMMA InitRepeated == Init => RepeatInv
<1> SUFFICES ASSUME Init PROVE RepeatInv
  OBVIOUS
<1>1. /\ announced = [n \in Notices |-> 0] /\ news = [t \in Tasks |-> {}]
      /\ pc = [t \in Tasks |-> IF t = "init" THEN "load" ELSE "idle"]
  BY Zenon DEF Init
<1>2. pc["crawl"] = "idle" /\ pc["new"] = "idle" /\ news["new"] = {}
  BY <1>1 DEF Tasks
<1> QED
  BY SMTT(30), <1>1, <1>2 DEF RepeatInv

LEMMA NextRepeated == TypeInv /\ RepeatInv /\ [Next]_vars => RepeatInv'
<1> SUFFICES ASSUME TypeInv, RepeatInv, [Next]_vars PROVE RepeatInv'
  OBVIOUS
<1>1. ASSUME NEW t \in Tasks, Step(t) PROVE RepeatInv'
  BY <1>1, InitLoadRepeated, EndsRepeated, CrawlRepeated, LaunchRepeated, NewRepeated,
     NewArchiveRepeated, NewAnnounceRepeated, UpdateGetRepeated, RetryRepeated DEF Step
<1>2. CASE UNCHANGED vars
  BY <1>2 DEF vars, world, local, history, RepeatInv, Settled
<1> QED
  BY <1>1, <1>2, CrawlRepeated, EndsRepeated, WriteFailsRepeated, AroundRepeated,
     SummarizeRepeated, RestartRepeated DEF Next

-----------------------------------------------------------------------------
(* What follows                                                            *)

THEOREM CacheInvariance == Spec => []CacheInv
<1>1. TypeInv /\ CacheInv /\ [Next]_vars => CacheInv'
  BY NextCached
<1> QED
  BY <1>1, InitCached, TypeInvariance, PTL DEF Spec

THEOREM RepeatInvariance == Spec => []RepeatInv
<1>1. TypeInv /\ RepeatInv /\ [Next]_vars => RepeatInv'
  BY NextRepeated
<1> QED
  BY <1>1, InitRepeated, TypeInvariance, PTL DEF Spec

\* A notice is announced once, or there is a reason: no list that can get into
\* the cache holds a notice nobody has seen or will see to, and none is
\* announced before it was tried to archive it.
THEOREM NoticesAreTold == Spec => []OnceForAReason
<1>1. TypeInv /\ CacheInv /\ RepeatInv => OnceForAReason
  <2> SUFFICES ASSUME TypeInv, CacheInv, RepeatInv PROVE OnceForAReason
    OBVIOUS
  <2>1. ForgottenForAReason
    BY DEF CacheInv, Lasting, Known, Seen, ForgottenForAReason, InHand
  <2>2. AnnouncedTwiceForAReason
    BY DEF RepeatInv, AnnouncedTwiceForAReason
  <2> QED
    BY <2>1, <2>2 DEF OnceForAReason
<1> QED
  BY <1>1, TypeInvariance, CacheInvariance, RepeatInvariance, PTL

\* Nothing is said ahead of the archive: a summary that is announced or cached
\* was persisted, but for those of the start-up crawl.
THEOREM SummariesAreDurable == Spec => []DurableFirst
<1>1. CacheInv => DurableFirst
  BY DEF CacheInv, Lasting, Durable, Persisted, DurableFirst, AnnouncedIsDurable, CachedIsDurable
<1> QED
  BY <1>1, CacheInvariance, PTL

-----------------------------------------------------------------------------
(* What a write takes away                                                 *)

\* A finite set of numbers has a greatest one: a smallest subset without one
\* would have one.
LEMMA GreatestOfFinite ==
  ASSUME NEW S \in SUBSET Nat, S # {}, IsFiniteSet(S)
  PROVE  \E m \in S : \A y \in S : m >= y
<1> DEFINE Unbounded == {X \in SUBSET S : X # {} /\ ~\E m \in X : \A y \in X : m >= y}
<1> SUFFICES ASSUME Unbounded # {} PROVE FALSE
  OBVIOUS
<1>1. IsWellFoundedOn(StrictSubsetOrdering(S), SUBSET S)
  BY FS_FiniteSubsetsOfFinite, FS_StrictSubsetOrderingWellFounded
<1>2. PICK X \in Unbounded : \A Y \in Unbounded : ~(<<Y, X>> \in StrictSubsetOrdering(S))
  BY <1>1, WFMin
<1>3. PICK x \in X : TRUE
  BY <1>2
<1>4. X \ {x} \notin Unbounded
  BY <1>2, <1>3 DEF StrictSubsetOrdering
<1>5. X \ {x} # {}
  BY <1>2, <1>3
<1>6. PICK m \in X \ {x} : \A y \in X \ {x} : m >= y
  BY <1>4, <1>5
<1>7. CASE m >= x
  BY <1>2, <1>3, <1>6, <1>7
<1>8. CASE ~(m >= x)
  <2>1. \A y \in X : x >= y
    BY <1>2, <1>3, <1>6, <1>8
  <2> QED
    BY <1>2, <1>3, <2>1
<1> QED
  BY <1>7, <1>8

Above(f, n) == {m \in Notices : m > n /\ f[m] # "absent"}

\* What does not fit has as many newer entries above it as the list holds, and
\* they are the ones that are kept.
LEMMA NewestIsFull ==
  ASSUME WorldTyped, NEW f \in Lists, NEW n \in Notices, f[n] # "absent", Newest(f)[n] = "absent"
  PROVE  Cardinality(Above(Newest(f), n)) >= scope.size
<1> DEFINE A == Above(f, n)
           K == Above(Newest(f), n)
<1>1. Notices \subseteq Nat /\ IsFiniteSet(Notices) /\ scope.size \in Nat
  BY CrawlAssumption, ScopesTyped
<1>2. \A m \in Notices :
        Newest(f)[m] = IF Cardinality(Above(f, m)) < scope.size THEN f[m] ELSE "absent"
  BY DEF Newest, Above
<1>3. \A m \in Notices : Newest(f)[m] # "absent" => f[m] # "absent"
  BY <1>2
<1>4. K \subseteq A /\ A \subseteq Notices
  BY <1>3 DEF Above
<1>5. IsFiniteSet(A) /\ IsFiniteSet(K) /\ IsFiniteSet(A \ K)
  BY <1>1, <1>4, FS_Subset
<1>6. Cardinality(A) \in Nat /\ Cardinality(K) \in Nat
  BY <1>5, FS_CardinalityType
<1>7. ~(Cardinality(A) < scope.size)
  BY <1>2
<1> SUFFICES ASSUME Cardinality(K) < scope.size PROVE FALSE
  BY <1>1, <1>6
<1>8. A \ K # {}
  BY <1>1, <1>4, <1>6, <1>7
<1>9. PICK m \in A \ K : \A y \in A \ K : m >= y
  <2>1. A \ K \in SUBSET Nat
    BY <1>1, <1>4
  <2> HIDE DEF A, K
  <2> QED
    BY <1>5, <1>8, <2>1, GreatestOfFinite
<1>10. m \in Notices /\ m > n /\ f[m] # "absent"
  BY <1>9 DEF Above
<1>11. Above(f, m) \subseteq K
  <2> SUFFICES ASSUME NEW x \in Above(f, m) PROVE x \in K
    OBVIOUS
  <2>1. x \in Notices /\ x > m /\ f[x] # "absent"
    BY DEF Above
  <2>2. x \in A
    BY <1>1, <1>10, <2>1 DEF Above
  <2> QED
    BY <1>1, <1>9, <1>10, <2>1, <2>2
<1>12. Cardinality(Above(f, m)) < scope.size
  <2>1. IsFiniteSet(Above(f, m)) /\ Cardinality(Above(f, m)) <= Cardinality(K)
    BY <1>5, <1>11, FS_Subset
  <2>2. Cardinality(Above(f, m)) \in Nat
    BY <2>1, FS_CardinalityType
  <2> QED
    BY <1>1, <1>6, <2>1, <2>2
<1>13. m \in K
  BY <1>2, <1>10, <1>12 DEF Above
<1> QED
  BY <1>9, <1>13

\* Only the answer to a write, or a restart, changes the list in Redis.
LEMMA CachedByWrite ==
  ASSUME TypeInv, [Next]_vars, restarts' = restarts
  PROVE  cached' = cached \/ (wire # <<>> /\ cached' = Head(wire).list)
<1>1. ASSUME NEW t \in Tasks, Step(t)
      PROVE  cached' = cached \/ (wire # <<>> /\ cached' = Head(wire).list)
  BY <1>1 DEF Step, InitLoad, InitDone, CrawlFind, CrawlFilter, CrawlLaunch, NewEnrich, NewArchive,
     NewMerge, NewAnnounce, UpdateGet, RetryUnavailable, TaskDone, Written, cache
<1>2. ~Restart
  BY DEF Restart, TypeInv, CountsTyped
<1>3. CASE \/ CrawlStart \/ CrawlAborts \/ WriteFails
           \/ Publish \/ ArchiveElsewhere \/ SummarizeElsewhere
  BY <1>3 DEF CrawlStart, CrawlAborts, WriteFails, Publish, ArchiveElsewhere, SummarizeElsewhere,
              cache
<1>4. CASE UNCHANGED vars
  BY <1>4 DEF vars, cache
<1> QED
  BY <1>1, <1>2, <1>3, <1>4 DEF Next

\* A write loses nothing of the list it was merged from but what no longer fits
\* among the newest ones, and no summary: when that list is the one it
\* replaces, nothing else is lost.
THEOREM MergesLoseNothing == Spec => WritesOnlyLoseByOverlap
<1> DEFINE Kept(n) ==
             /\ cached[n] # "absent" /\ cached'[n] = "absent" =>
                  Cardinality({m \in Notices : m > n /\ cached'[m] # "absent"}) >= scope.size
             /\ cached[n] = "ready" => cached'[n] \in {"ready", "absent"}
           OnlyByOverlap ==
             wire # <<>> /\ Head(wire).base = cached /\ restarts' = restarts =>
               \A n \in Notices : Kept(n)
<1>1. TypeInv /\ CacheInv /\ [Next]_vars => OnlyByOverlap
  <2> SUFFICES ASSUME TypeInv, CacheInv, [Next]_vars, wire # <<>>, Head(wire).base = cached,
                      restarts' = restarts, NEW n \in Notices
               PROVE  Kept(n)
    OBVIOUS
  <2>1. CASE cached' = cached
    BY <2>1
  <2>2. CASE cached' = Head(wire).list
    <3>1. Head(wire) \in Sent
      BY HeadWriter
    <3>2. PICK new \in Lists : cached' = Merge(new, cached)
      BY <2>2, <3>1 DEF CacheInv, Merged
    <3> DEFINE j == Joined(new, cached)
    <3>3. /\ j \in Lists
          /\ cached[n] # "absent" => j[n] # "absent"
          /\ cached[n] = "ready" => j[n] = "ready"
      BY JoinedIsList DEF TypeInv, CacheTyped
    <3>4. cached' = Newest(j)
      BY <3>2, MergeIsJoined
    <3> HIDE DEF j
    <3>5. cached[n] = "ready" => cached'[n] \in {"ready", "absent"}
      BY <3>3, <3>4, NewestIsList
    <3>6. ASSUME cached[n] # "absent", cached'[n] = "absent"
          PROVE  Cardinality({m \in Notices : m > n /\ cached'[m] # "absent"}) >= scope.size
      <4>1. Cardinality(Above(Newest(j), n)) >= scope.size
        BY <3>3, <3>4, <3>6, NewestIsFull DEF TypeInv
      <4> QED
        BY <3>4, <4>1 DEF Above
    <3> QED
      BY <3>5, <3>6
  <2> QED
    BY <2>1, <2>2, CachedByWrite
<1>2. Spec => [](TypeInv /\ CacheInv)
  BY TypeInvariance, CacheInvariance, PTL
<1>3. TypeInv /\ CacheInv /\ [Next]_vars => [OnlyByOverlap]_vars
  BY <1>1
<1> QED
  BY <1>2, <1>3, PTL DEF Spec, WritesOnlyLoseByOverlap
=============================================================================
