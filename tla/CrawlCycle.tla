----------------------------- MODULE CrawlCycle -----------------------------
(***************************************************************************)
(* The way of a notice from the PAL list to the cache of recent notices,   *)
(* the archive and the announcement: the crawl of CrawlingSchedulerService *)
(* with its fast path, the background tasks it launches, the start-up of   *)
(* the cache, and CacheService under them.                                 *)
(*                                                                         *)
(* A step runs from one await to the next.  The cache is one list that is  *)
(* merged with an in-memory snapshot and written as a whole; the writes    *)
(* travel on one connection and are answered in order (wire).              *)
(***************************************************************************)
EXTENDS Naturals, Sequences, FiniteSets

CONSTANTS
  Notices,      \* notice numbers
  Scopes        \* bounds: the notices there are, those the full sync and the
                \* summary worker see to as well, APP_CONSTANTS.CACHE.MAX_SIZE,
                \* and how many failing commands and restarts there may be

Statuses == {"none", "unavailable", "ready"}  \* none: not_requested
Entries == Statuses \cup {"absent"}
Lists == [Notices -> Entries]
Empty == [n \in Notices |-> "absent"]

\* The initialization, the crawl, process-new-notices,
\* retry-unavailable-summaries, the apply worker of the summary backfill.
Tasks == {"init", "crawl", "new", "retry", "worker"}

ASSUME CrawlAssumption ==
  /\ Notices \subseteq Nat /\ IsFiniteSet(Notices)
  /\ Scopes \subseteq [notices : SUBSET Notices, elsewhere : SUBSET Notices,
                        size : Nat \ {0}, failures : Nat]

VARIABLES
  scope,        \* the bounds of this behaviour
  listed,       \* the notices PAL lists
  archived,     \* the notices with an archive row
  summary,      \* the persisted summary states
  cached,       \* RECENT_NOTICES in Redis
  snap,         \* recentNoticesSnapshot
  loaded,       \* the snapshot is not null
  initialized,  \* isInitialized
  pc,           \* where each task is
  old,          \* its existingNoticeMap
  news,         \* its new notices (of the crawl: what it crawled, then what is new)
  list,         \* the notices it works on, with their summaries
  todo,         \* those process-new-notices has still to archive
  claims,       \* those it is about to announce with a summary
  wire,         \* writes of the list that are under way
  announced,    \* how often sendNotifications was called for a notice (history)
  written,      \* the notices whose summary was ever persisted (history)
  repeats,      \* those that failed to be archived, or were archived after a
                \* crawl found them new and before it ended (history)
  seeded,       \* those the start-up crawl put into the cache (history)
  excused,      \* those a drop, a restart or a failed write left (history)
  faults, restarts

world == <<scope, listed, archived, summary>>
cache == <<cached, snap, loaded, wire>>
local == <<pc, old, news, list, todo, claims>>
history == <<announced, written, repeats, seeded, excused>>
vars == <<world, cache, initialized, local, history, faults, restarts>>

Init ==
  /\ scope \in Scopes
  /\ archived \in SUBSET scope.notices /\ listed = archived
  /\ summary = [n \in Notices |-> "none"]
  /\ cached = Empty /\ snap = Empty /\ loaded = FALSE /\ wire = <<>>
  /\ initialized = FALSE
  /\ pc = [t \in Tasks |-> IF t = "init" THEN "load" ELSE "idle"]
  /\ old = [t \in Tasks |-> Empty] /\ news = [t \in Tasks |-> {}]
  /\ list = [t \in Tasks |-> Empty] /\ todo = {} /\ claims = {}
  /\ announced = [n \in Notices |-> 0] /\ written = {} /\ repeats = {} /\ seeded = {} /\ excused = {}
  /\ faults = 0 /\ restarts = 0

Fault == faults + restarts < scope.failures /\ faults' = faults + 1

Goto(t, l) == pc' = [pc EXCEPT ![t] = l]

-----------------------------------------------------------------------------
(* CacheService                                                            *)

\* The entries with the greatest numbers, at most MAX_SIZE of them.
Newest(f) ==
  [n \in Notices |->
     IF Cardinality({m \in Notices : m > n /\ f[m] # "absent"}) < scope.size
     THEN f[n] ELSE "absent"]

\* Mutant of Merge: what is given replaces what is there.
ReplacingMerge(new, base) ==
  Newest([n \in Notices |-> IF new[n] = "absent" THEN base[n] ELSE new[n]])

\* updateCache: the given entries first, but a summary is never taken away.
Merge(new, base) ==
  Newest([n \in Notices |->
            CASE new[n] = "absent" -> base[n]
              [] base[n] = "ready" -> "ready"
              [] OTHER -> new[n]])

\* A task calls updateCache(new): with a snapshot the list is merged at once,
\* otherwise Redis is asked first.
Update(t, new) ==
  /\ list' = [list EXCEPT ![t] = new]
  /\ IF loaded
     THEN /\ wire' = Append(wire, [by |-> t, list |-> Merge(new, snap), base |-> snap])
          /\ Goto(t, "write")
     ELSE /\ wire' = wire
          /\ Goto(t, "get")

\* Mutant of UpdateGet: the write is issued without waiting for it.
UpdateUnawaited(t) ==
  /\ pc[t] = "get"
  /\ wire' = Append(wire, [by |-> t, list |-> Merge(list[t], cached), base |-> cached])
  /\ Goto(t, "idle")
  /\ UNCHANGED <<world, cached, snap, loaded, initialized, old, news, list, todo, claims,
                 history, faults, restarts>>

\* The answer to that question.
UpdateGet(t) ==
  /\ pc[t] = "get"
  /\ wire' = Append(wire, [by |-> t, list |-> Merge(list[t], cached), base |-> cached])
  /\ Goto(t, "write")
  /\ UNCHANGED <<world, cached, snap, loaded, initialized, old, news, list, todo, claims,
                 history, faults, restarts>>

\* Both commands of t's update were answered, and t goes on.
Written(t) ==
  /\ wire # <<>> /\ Head(wire).by = t /\ wire' = Tail(wire)
  /\ cached' = Head(wire).list /\ snap' = Head(wire).list /\ loaded' = TRUE

\* getRecentNotices: the first successful read fills the snapshot.
Recent(f) ==
  \/ /\ f = (IF loaded THEN snap ELSE cached)
     /\ snap' = f /\ loaded' = TRUE
     /\ UNCHANGED faults
  \/ /\ ~loaded /\ f = Empty /\ Fault
     /\ UNCHANGED <<snap, loaded>>

\* t is over.
End(t) ==
  /\ Goto(t, "idle")
  /\ old' = [old EXCEPT ![t] = Empty] /\ news' = [news EXCEPT ![t] = {}]
  /\ list' = [list EXCEPT ![t] = Empty]
  /\ claims' = IF t = "new" THEN {} ELSE claims

\* One of the commands failed and updateCache rejects: the list may be
\* written, the snapshot is not.  The crawl and the background tasks end, the
\* initialization counts as done.  What the crawl found is left behind if the
\* list was written all the same; what process-new-notices has in hand is not
\* announced.
WriteFails ==
  /\ wire # <<>> /\ Fault /\ wire' = Tail(wire)
  /\ LET t == Head(wire).by IN
     /\ End(t)
     /\ initialized' = (initialized \/ t = "init")
     /\ \/ cached' = Head(wire).list /\ excused' = excused \cup news[t]
        \/ /\ cached' = cached
           /\ excused' = IF t = "new" THEN excused \cup news[t] ELSE excused
  /\ UNCHANGED <<world, snap, loaded, todo, announced, written, repeats, seeded, restarts>>

-----------------------------------------------------------------------------
(* Summaries                                                               *)

\* What generateSummaryForNotice may return: the text cannot be fetched, the
\* model fails, or there is a summary.
Outcomes == {"unavailable", "ready"}

\* enrichNoticesWithSummary: the summary of the list seen before, then a state
\* of the archive, then what is generated.  An unavailable summary may be tried
\* once more.
Enriched(nums, before, again, generated) ==
  LET known(n) == summary[n] = "ready" \/ (summary[n] = "unavailable" /\ ~again) IN
  [n \in Notices |->
     IF n \notin nums THEN "absent"
     ELSE IF before[n] = "ready" THEN "ready"
     ELSE IF known(n) THEN summary[n] ELSE generated[n]]

\* The crawled notices with the summaries of the list seen before.
Crawled(before) ==
  [n \in Notices |->
     IF n \notin listed THEN "absent"
     ELSE IF before[n] = "absent" THEN "none" ELSE before[n]]

-----------------------------------------------------------------------------
(* Start-up                                                                *)

\* initializeCacheFromArchive
LoadArchive ==
  /\ archived # {}
  /\ Update("init", [n \in Notices |-> IF n \in archived THEN summary[n] ELSE "absent"])
  /\ UNCHANGED <<initialized, old, news, claims, seeded, faults>>

\* initializeCacheFromCrawl, when nothing is archived or it cannot be read.
\* The summaries it generates are not persisted, nor is anything archived:
\* that is left to the full sync.
LoadCrawl ==
  /\ IF archived = {} THEN UNCHANGED faults ELSE Fault
  /\ seeded' = seeded \cup listed
  /\ IF listed = {}
     THEN End("init") /\ initialized' = TRUE /\ UNCHANGED wire
     ELSE /\ UNCHANGED <<initialized, old, news, claims>>
          /\ \E f \in [Notices -> Outcomes] :
                \/ Update("init", Enriched(listed, Empty, TRUE, f))
                \/ Update("init", Crawled(Empty))

\* initializeCache
InitLoad ==
  /\ pc["init"] = "load"
  /\ LoadArchive \/ LoadCrawl
  /\ UNCHANGED <<world, cached, snap, loaded, todo, announced, written, repeats, excused,
                 restarts>>

\* initializeCacheInBackground
InitDone ==
  /\ Written("init") /\ End("init")
  /\ initialized' = TRUE
  /\ UNCHANGED <<world, todo, history, faults, restarts>>

-----------------------------------------------------------------------------
(* The crawl: handleCron, performCrawlingAndNotification                   *)

\* Mutant of CrawlStart: no crawl without a snapshot.
CrawlStartOnceLoaded ==
  /\ initialized /\ loaded /\ pc["crawl"] = "idle" /\ listed # {}
  /\ old' = [old EXCEPT !["crawl"] = snap]
  /\ list' = [list EXCEPT !["crawl"] = Crawled(snap)]
  /\ Goto("crawl", "find")
  /\ UNCHANGED <<world, cache, initialized, news, todo, claims, history, faults, restarts>>

\* The list is read before the pages are crawled.
CrawlStart ==
  /\ initialized /\ pc["crawl"] = "idle" /\ listed # {}
  /\ \E f \in {snap, cached, Empty} :
       /\ Recent(f)
       /\ old' = [old EXCEPT !["crawl"] = f]
       /\ list' = [list EXCEPT !["crawl"] = Crawled(f)]
  /\ Goto("crawl", "find")
  /\ UNCHANGED <<world, cached, wire, initialized, news, todo, claims, history, restarts>>

\* findNewNotices asks Redis, not the snapshot.
Uncached(seen) == {n \in seen : cached[n] = "absent"}

\* Without Redis everything counts as new.
CrawlFind ==
  /\ pc["crawl"] = "find"
  /\ LET seen == {n \in Notices : list["crawl"][n] # "absent"} IN
     \/ news' = [news EXCEPT !["crawl"] = Uncached(seen)] /\ UNCHANGED faults
     \/ news' = [news EXCEPT !["crawl"] = seen] /\ Fault
  /\ Goto("crawl", "filter")
  /\ UNCHANGED <<world, cache, initialized, old, list, todo, claims, history, restarts>>

\* filterAlreadyArchivedNotices
Unarchived(nums) == nums \ archived

\* Mutant of CrawlFilter: the archive is not asked.
CrawlKeepAll ==
  /\ pc["crawl"] = "filter"
  /\ Update("crawl", list["crawl"])
  /\ UNCHANGED <<world, cached, snap, loaded, initialized, old, news, todo, claims, history,
                 faults, restarts>>

\* The archive is asked too; then the fast path's update of the cache.
CrawlFilter ==
  /\ pc["crawl"] = "filter"
  /\ news' = [news EXCEPT !["crawl"] = Unarchived(@)]
  /\ Update("crawl", list["crawl"])
  /\ UNCHANGED <<world, cached, snap, loaded, initialized, old, todo, claims, history,
                 faults, restarts>>

\* A failing crawl or query ends the cycle before it has changed anything.
CrawlAborts ==
  /\ pc["crawl"] \in {"find", "filter"} /\ Fault
  /\ End("crawl")
  /\ UNCHANGED <<world, cache, initialized, todo, history, restarts>>

\* Hands the crawl's data to a background task and ends the cycle.
Launch(t) ==
  /\ old' = [old EXCEPT ![t] = old["crawl"], !["crawl"] = Empty]
  /\ list' = [list EXCEPT ![t] = list["crawl"], !["crawl"] = Empty]
  /\ news' = [news EXCEPT ![t] = news["crawl"], !["crawl"] = {}]
  /\ pc' = [pc EXCEPT !["crawl"] = "idle", ![t] = IF t = "new" THEN "enrich" ELSE "retry"]
  /\ UNCHANGED claims

\* runBackgroundTask: a name that is running is not launched again, and the
\* new request is forgotten.  (refresh-existing-pal-notices only archives rows
\* again that are archived: module ChangeChain.)
CrawlLaunch ==
  /\ Written("crawl")
  /\ LET new == news["crawl"] IN
     \/ /\ new # {} /\ pc["new"] = "idle" /\ Launch("new")
        /\ UNCHANGED excused
     \/ /\ new # {} /\ pc["new"] # "idle" /\ End("crawl")
        /\ excused' = excused \cup new
     \/ /\ new = {} /\ UNCHANGED excused
        /\ IF pc["retry"] = "idle" THEN Launch("retry") ELSE End("crawl")
  /\ UNCHANGED <<world, initialized, todo, announced, written, repeats, seeded, faults, restarts>>

\* {n}, when n is archived now although a crawl has just found it new.
Overtaken(n) == IF pc["crawl"] \in {"get", "write"} THEN news["crawl"] \cap {n} ELSE {}

-----------------------------------------------------------------------------
(* process-new-notices: processNewNoticesInBackground                      *)

\* The summaries; none when the whole stage fails.
NewEnrich ==
  /\ pc["new"] = "enrich"
  /\ \/ /\ UNCHANGED faults
        /\ \E f \in [Notices -> Outcomes] :
             list' = [list EXCEPT !["new"] = Enriched(news["new"], old["new"], FALSE, f)]
     \/ /\ Fault
        /\ list' = [list EXCEPT !["new"] =
                      [n \in Notices |-> IF n \in news["new"] THEN "none" ELSE "absent"]]
  /\ todo' = news["new"]
  /\ Goto("new", "archive")
  /\ UNCHANGED <<world, cache, initialized, old, news, claims, history, restarts>>

\* upsertNoticeArchive: the row, and its summary state unless that is none.
Archive(n, s) ==
  /\ archived' = archived \cup {n}
  /\ summary' = IF s = "none" THEN summary ELSE [summary EXCEPT ![n] = s]
  /\ written' = IF s = "ready" THEN written \cup {n} ELSE written
  /\ repeats' = repeats \cup Overtaken(n)

\* archiveNotices, one notice.  One that fails is skipped.
NewArchive ==
  /\ pc["new"] = "archive"
  /\ \E n \in todo :
       /\ todo' = todo \ {n}
       /\ \/ Archive(n, list["new"][n]) /\ UNCHANGED faults
          \/ Fault /\ repeats' = repeats \cup {n} /\ UNCHANGED <<archived, summary, written>>
  /\ UNCHANGED <<scope, listed, cache, initialized, pc, old, news, list, claims, announced,
                 seeded, excused, restarts>>

\* Mutant of Reconciled: the generated summaries are trusted.
Unreconciled(n) == list["new"][n]

\* What the announcement and the cache will say of a new notice: the persisted
\* state, whatever was generated.
Reconciled(n) == summary[n]

\* The persisted states are reloaded and merged into the freshest list.
NewMerge ==
  /\ pc["new"] = "archive" /\ todo = {}
  /\ \E f \in {snap, cached, Empty}, fails \in BOOLEAN :
       /\ IF fails THEN f = snap /\ loaded /\ Fault /\ UNCHANGED <<snap, loaded>> ELSE Recent(f)
       /\ LET status(n) == IF fails THEN "none" ELSE Reconciled(n) IN
          /\ list' = [list EXCEPT !["new"] =
                        [n \in Notices |-> IF f[n] # "absent" /\ n \in news["new"]
                                           THEN status(n) ELSE f[n]]]
          /\ claims' = {n \in news["new"] : status(n) = "ready"}
  /\ Goto("new", "retry")
  /\ UNCHANGED <<world, cached, wire, initialized, old, news, todo, history, restarts>>

\* sendNotifications, for every new notice, archived or not.
NewAnnounce ==
  /\ Written("new") /\ End("new")
  /\ announced' = [n \in Notices |-> IF n \in news["new"] /\ announced[n] < 2
                                     THEN announced[n] + 1 ELSE announced[n]]
  /\ UNCHANGED <<world, initialized, todo, written, repeats, seeded, excused, faults, restarts>>

-----------------------------------------------------------------------------
(* retryUnavailableSummariesFromPreviousCycle, by both background tasks    *)

\* Once something was retried, only what was persisted goes into the cache.
Visible(merged, saved) ==
  [n \in Notices |-> IF n \in saved THEN merged[n] ELSE "absent"]

\* persistSummaryStateBatch: some of the writes may fail.
Persist(states, nums, saved) ==
  /\ IF saved = nums THEN UNCHANGED faults ELSE Fault
  /\ summary' = [n \in Notices |-> IF n \in saved THEN states[n] ELSE summary[n]]
  /\ written' = written \cup {n \in saved : states[n] = "ready"}

\* The notices whose summary was unavailable before the crawl and still is are
\* summarized once more; the outcome is persisted where it changed.
RetryUnavailable(t) ==
  /\ t \in {"new", "retry"} /\ pc[t] = "retry"
  /\ \E ready \in SUBSET {n \in Notices : old[t][n] = "unavailable" /\ list[t][n] = "unavailable"} :
       LET merged == [n \in Notices |-> IF n \in ready THEN "ready" ELSE list[t][n]]
           retried == \E n \in Notices : old[t][n] = "unavailable" /\ list[t][n] = "unavailable"
           changed == {n \in Notices : old[t][n] = "unavailable"
                                       /\ merged[n] \notin {"unavailable", "absent"}}
       IN IF ~retried \/ changed = {}
          THEN Update(t, merged) /\ UNCHANGED <<summary, written, faults>>
          ELSE \E saved \in SUBSET changed :
                 Persist(merged, changed, saved) /\ Update(t, Visible(merged, saved))
  /\ UNCHANGED <<scope, listed, archived, cached, snap, loaded, initialized, old, news, todo,
                 claims, announced, repeats, seeded, excused, restarts>>

TaskDone(t) ==
  /\ t \in {"retry", "worker"} /\ Written(t) /\ End(t)
  /\ UNCHANGED <<world, initialized, todo, history, faults, restarts>>

-----------------------------------------------------------------------------
(* What happens around the crawl                                           *)

Publish ==
  /\ \E n \in scope.notices \ listed : listed' = listed \cup {n}
  /\ UNCHANGED <<scope, archived, summary, cache, initialized, local, history, faults, restarts>>

\* The full sync of the bootstrap archives what it finds missing, without an
\* announcement.
ArchiveElsewhere ==
  /\ \E n \in (listed \cap scope.elsewhere) \ archived :
       archived' = archived \cup {n} /\ repeats' = repeats \cup Overtaken(n)
  /\ UNCHANGED <<scope, listed, summary, cache, initialized, local, announced, written, seeded,
                 excused, faults, restarts>>

\* The summary worker persists the outcome for an archived notice and then
\* puts it into the cache.
SummarizeElsewhere ==
  /\ pc["worker"] = "idle"
  /\ \E n \in archived \cap scope.elsewhere, s \in {"unavailable", "ready"} :
       /\ summary[n] \in {"none", "unavailable"} /\ summary[n] # s
       /\ summary' = [summary EXCEPT ![n] = s]
       /\ written' = IF s = "ready" THEN written \cup {n} ELSE written
       /\ Update("worker", [Empty EXCEPT ![n] = s])
  /\ UNCHANGED <<scope, listed, archived, cached, snap, loaded, initialized, old, news, todo, claims,
                 announced, repeats, seeded, excused, faults, restarts>>

\* The process stops and starts again; a graceful stop clears the cache.
Restart ==
  /\ faults + restarts < scope.failures /\ restarts' = restarts + 1
  /\ cached' \in {cached, Empty}
  /\ snap' = Empty /\ loaded' = FALSE /\ wire' = <<>>
  /\ initialized' = FALSE
  /\ pc' = [t \in Tasks |-> IF t = "init" THEN "load" ELSE "idle"]
  /\ old' = [t \in Tasks |-> Empty] /\ news' = [t \in Tasks |-> {}]
  /\ list' = [t \in Tasks |-> Empty] /\ todo' = {} /\ claims' = {}
  /\ excused' = excused \cup news["crawl"] \cup news["new"]
  /\ UNCHANGED <<world, announced, written, repeats, seeded, faults>>

\* What t does by itself.
Step(t) ==
  \/ t = "init" /\ (InitLoad \/ InitDone)
  \/ t = "crawl" /\ (CrawlFind \/ CrawlFilter \/ CrawlLaunch)
  \/ t = "new" /\ (NewEnrich \/ NewArchive \/ NewMerge \/ NewAnnounce)
  \/ UpdateGet(t) \/ RetryUnavailable(t) \/ TaskDone(t)

Next ==
  \/ \E t \in Tasks : Step(t)
  \/ CrawlStart \/ CrawlAborts \/ WriteFails
  \/ Publish \/ ArchiveElsewhere \/ SummarizeElsewhere \/ Restart

Spec == Init /\ [][Next]_vars

-----------------------------------------------------------------------------
(* Properties                                                              *)

TypeOK ==
  /\ scope \in Scopes
  /\ listed \subseteq Notices /\ archived \subseteq listed
  /\ summary \in [Notices -> Statuses]
  /\ cached \in Lists /\ snap \in Lists /\ loaded \in BOOLEAN /\ initialized \in BOOLEAN
  /\ pc \in [Tasks -> {"idle", "load", "find", "filter", "enrich", "archive", "retry",
                       "get", "write"}]
  /\ old \in [Tasks -> Lists] /\ list \in [Tasks -> Lists]
  /\ news \in [Tasks -> SUBSET Notices] /\ todo \subseteq Notices
  /\ wire \in Seq([by : Tasks, list : Lists, base : Lists])
  /\ \A t \in Tasks : pc[t] = "write" <=> \E i \in DOMAIN wire : wire[i].by = t
  /\ announced \in [Notices -> 0 .. 2]
  /\ \A s \in {claims, written, repeats, seeded, excused} : s \subseteq Notices
  /\ faults \in Nat /\ restarts \in Nat /\ faults + restarts <= scope.failures

\* Some task still has the notice among its new ones.
InHand(n) == n \in news["crawl"] \cup news["new"]

\* A notice the cache holds, so that no crawl takes it for new again, is
\* archived, announced or in the hands of a task that will see to both.
NothingForgotten ==
  \A n \in Notices \ seeded : cached[n] # "absent" =>
    n \in archived \/ announced[n] > 0 \/ InHand(n)

\* A notice is forgotten for four reasons only: it was there at the start-up,
\* its task was not launched because one was running, the process stopped, or
\* a write of the cache failed.
ForgottenForAReason ==
  \A n \in Notices \ (seeded \cup excused) : cached[n] # "absent" =>
    n \in archived \/ announced[n] > 0 \/ InHand(n)

\* A notice is announced a second time only if it could not be archived the
\* first time, or was archived between the crawl's look and the launch.
AnnouncedTwiceForAReason ==
  \A n \in Notices : announced[n] > 1 => n \in repeats

\* A notice is announced once; if it is not, there is a reason.
OnceForAReason == ForgottenForAReason /\ AnnouncedTwiceForAReason

\* "Cache/notification payloads must not get ahead of DB durability": what is
\* announced with a summary had that summary persisted.
AnnouncedIsDurable == claims \subseteq written

\* The same for the cache, but for what the start-up crawl puts there.
CachedIsDurable ==
  \A n \in Notices : cached[n] = "ready" => n \in written \cup seeded

\* Nothing is said ahead of the archive.
DurableFirst == AnnouncedIsDurable /\ CachedIsDurable

\* A write takes a notice out of the cache only when the list is full of newer
\* ones, and never a summary; unless it was merged from a list that is not the
\* one it replaces.
WritesOnlyLoseByOverlap ==
  [][wire # <<>> /\ Head(wire).base = cached /\ restarts' = restarts =>
       \A n \in Notices :
         /\ cached[n] # "absent" /\ cached'[n] = "absent" =>
              Cardinality({m \in Notices : m > n /\ cached'[m] # "absent"}) >= scope.size
         /\ cached[n] = "ready" => cached'[n] \in {"ready", "absent"}]_vars

\* Every notice PAL lists is archived or announced some time, but for the four
\* reasons.
ListedIsSettled ==
  \A n \in Notices :
    n \in listed ~> n \in archived \/ announced[n] > 0 \/ n \in seeded \cup excused

\* Every task goes on, and the crawl is a cron that fires for ever.
FairSpec == Spec /\ WF_vars(CrawlStart) /\ \A t \in Tasks : WF_vars(Step(t))
=============================================================================
