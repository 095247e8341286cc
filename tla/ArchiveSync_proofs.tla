------------------------- MODULE ArchiveSync_proofs -------------------------
(***************************************************************************)
(* Proofs about SyncPhases, for every set of concurrent cron firings and   *)
(* of background tasks, and about SnapshotIntegrity: its types, and that   *)
(* no verdict claims more than the page in the archive bears out.          *)
(*                                                                         *)
(* The trackers are volatile flags; what makes them a lock is that a set   *)
(* flag has exactly one call executing its phase (TrackerHeld), so that a  *)
(* call that finds every guarded flag clear is alone.                      *)
(***************************************************************************)
EXTENDS MCArchiveSync, TLAPS, WellFoundedInduction

-----------------------------------------------------------------------------
(* The phases                                                              *)

\* An isDone handler has a single stage and starts it at once.
IsDoneFirst ==
  \A c \in Callers : call[c].kind = "isDone" => call[c].at = 1 /\ call[c].inside

IInv ==
  /\ TypeOK
  /\ IsDoneFirst
  /\ TrackerHeld
  /\ WriteHeavyExclusive
  /\ CronSyncExcludesCrawl

\* The programs are non-empty sequences, and the isDone handler's is one phase.
LEMMA ProgramFacts ==
  /\ \A kind \in Kinds : /\ Len(Program[kind]) \in Nat
                         /\ DOMAIN Program[kind] = 1 .. Len(Program[kind])
                         /\ 1 \in DOMAIN Program[kind]
  /\ Len(Program["isDone"]) = 1
  /\ Program["isDone"][1] = "isDoneSync"
  /\ Len(Program["bootstrap"]) = 11
  /\ Program["bootstrap"][1] = "pendingSync"
<1>1. /\ Len(Program["isDone"]) = 1
      /\ Program["isDone"][1] = "isDoneSync"
      /\ Len(Program["bootstrap"]) = 11
      /\ Program["bootstrap"][1] = "pendingSync"
  BY DEF Program
<1>2. ASSUME NEW kind \in Kinds
      PROVE  /\ Len(Program[kind]) \in Nat
             /\ DOMAIN Program[kind] = 1 .. Len(Program[kind])
             /\ 1 \in DOMAIN Program[kind]
  BY DEF Program, Kinds, CronKinds
<1>. QED BY <1>1, <1>2

\* After a stage a call is over, or before the next stage of its program.
LEMMA FollowingFacts ==
  ASSUME NEW kind \in Kinds, NEW k \in DOMAIN Program[kind]
  PROVE  /\ Following(kind, k) \in [kind : Kinds \cup {"none"}, at : Nat, inside : BOOLEAN]
         /\ Following(kind, k).inside = FALSE
         /\ Following(kind, k).kind \in Kinds =>
              Following(kind, k).at \in DOMAIN Program[Following(kind, k).kind]
         /\ kind = "isDone" => Following(kind, k).kind = "none"
<1>1. /\ Len(Program[kind]) \in Nat
      /\ k \in 1 .. Len(Program[kind])
      /\ DOMAIN Program[kind] = 1 .. Len(Program[kind])
      /\ kind = "isDone" => Len(Program[kind]) = 1
  BY ProgramFacts
<1>2. "none" \notin Kinds
  BY DEF Kinds, CronKinds
<1>3. CASE k = Len(Program[kind])
  BY <1>1, <1>2, <1>3 DEF Following, NoCall
<1>4. CASE k # Len(Program[kind])
  <2>1. Following(kind, k) = [kind |-> kind, at |-> k + 1, inside |-> FALSE]
    BY <1>4 DEF Following
  <2>. DEFINE last == Len(Program[kind])
  <2>2. /\ last \in Nat /\ k \in 1 .. last /\ k # last
        /\ kind = "isDone" => last = 1
    BY <1>1, <1>4
  <2>3. k + 1 \in 1 .. last /\ kind # "isDone"
    <3>. HIDE DEF last
    <3>. QED BY <2>2
  <2>. QED BY <1>1, <2>1, <2>3
<1>. QED BY <1>3, <1>4

\* A call that comes to a stage keeps the trackers a lock.
LEMMA EnterKeeps ==
  ASSUME IInv, NEW c \in Callers, NEW kind \in Kinds, NEW k \in DOMAIN Program[kind],
         ~(Active(c) /\ call[c].inside), kind = "isDone" => k = 1 /\ ~Busy,
         Enter(c, kind, k), UNCHANGED <<scheduler, backlog, restarts>>
  PROVE  IInv'
<1>. DEFINE stage == Program[kind][k]
            entered == [kind |-> kind, at |-> k, inside |-> TRUE]
<1>1. \A p : ~Runs(c, p)
  BY DEF Runs
<1>2. k \in Nat
  BY ProgramFacts
<1>3. "none" \notin Kinds
  BY DEF Kinds, CronKinds
<1>4. CASE stage \in Phases /\ Blocked(stage)
  <2>1. call' = [call EXCEPT ![c] = Following(kind, k)] /\ UNCHANGED <<tracker, applying>>
    BY <1>4 DEF Enter
  <2>2. \A d \in Callers, p \in Phases : Runs(d, p)' <=> Runs(d, p)
    BY <1>1, <2>1, FollowingFacts DEF Runs, Active, Stage, IInv, TypeOK
  <2>3. TypeOK'
    BY <2>1, FollowingFacts DEF IInv, TypeOK, Active, scheduler
  <2>4. IsDoneFirst'
    BY <2>1, FollowingFacts, <1>3, ProgramFacts DEF IInv, IsDoneFirst, TypeOK, Following, NoCall
  <2>5. TrackerHeld'
    BY <2>1, <2>2 DEF IInv, TrackerHeld
  <2>6. WriteHeavyExclusive'
    BY <2>2 DEF IInv, WriteHeavyExclusive, Phases
  <2>7. CronSyncExcludesCrawl'
    BY <2>1, FollowingFacts DEF IInv, CronSyncExcludesCrawl, TypeOK, scheduler, Busy
  <2>. QED BY <2>3, <2>4, <2>5, <2>6, <2>7 DEF IInv
<1>5. CASE ~(stage \in Phases /\ Blocked(stage))
  <2>1. /\ call' = [call EXCEPT ![c] = entered]
        /\ tracker' = [p \in Phases |-> tracker[p] \/ p = stage]
        /\ applying' = applying \cup Selected(stage)
    BY <1>5 DEF Enter
  <2>2. \A d \in Callers, p \in Phases :
          Runs(d, p)' <=> (IF d = c THEN p = stage ELSE Runs(d, p))
    BY <2>1 DEF Runs, Active, Stage, IInv, TypeOK
  <2>3. TypeOK'
    <3>1. applying' \subseteq ApplyWorkers
      BY <2>1 DEF IInv, TypeOK, Selected, ApplyWorkers
    <3>2. tracker' \in [Phases -> BOOLEAN]
      BY <2>1 DEF IInv, TypeOK
    <3>3. /\ call' \in [Callers -> [kind : Kinds \cup {"none"}, at : Nat, inside : BOOLEAN]]
          /\ \A d \in Callers : Active(d)' => call'[d].at \in DOMAIN Program[call'[d].kind]
      BY <2>1, <1>2 DEF IInv, TypeOK, Active
    <3>. QED BY <3>1, <3>2, <3>3 DEF IInv, TypeOK, scheduler
  <2>4. IsDoneFirst'
    BY <2>1 DEF IInv, IsDoneFirst, TypeOK
  <2>5. stage \in Phases => \A d \in Callers : ~Runs(d, stage)
    BY <1>5 DEF IInv, TrackerHeld, Blocked
  <2>6. TrackerHeld'
    <3>. SUFFICES ASSUME NEW p \in Phases
                  PROVE  /\ tracker'[p] <=> \E d \in Callers : Runs(d, p)'
                         /\ \A d, e \in Callers : Runs(d, p)' /\ Runs(e, p)' => d = e
      BY DEF TrackerHeld
    <3>1. /\ tracker[p] <=> \E d \in Callers : Runs(d, p)
          /\ \A d, e \in Callers : Runs(d, p) /\ Runs(e, p) => d = e
      BY DEF IInv, TrackerHeld
    <3>2. tracker'[p] <=> tracker[p] \/ p = stage
      BY <2>1
    <3>3. ~Runs(c, p)
      BY <1>1
    <3>4. \A d \in Callers : Runs(d, p)' <=> (IF d = c THEN p = stage ELSE Runs(d, p))
      BY <2>2
    <3>. HIDE DEF stage
    <3>5. CASE p = stage
      BY <2>5, <3>2, <3>4, <3>5
    <3>6. CASE p # stage
      <4>1. \A d \in Callers : Runs(d, p)' <=> Runs(d, p)
        BY <3>3, <3>4, <3>6
      <4>. QED BY <3>1, <3>2, <3>6, <4>1
    <3>. QED BY <3>5, <3>6
  <2>7. WriteHeavyExclusive'
    <3>1. CASE stage \in WriteHeavy
      <4>1. \A q \in WriteHeavy, d \in Callers : ~Runs(d, q)
        BY <1>5, <3>1 DEF IInv, TrackerHeld, Blocked, Guards, Phases
      <4>. QED BY <2>2, <4>1 DEF WriteHeavyExclusive, Phases
    <3>2. CASE stage \notin WriteHeavy
      <4>1. \A q \in WriteHeavy, d \in Callers : Runs(d, q)' => Runs(d, q)
        BY <2>2, <3>2 DEF Phases
      <4>. QED BY <4>1 DEF IInv, WriteHeavyExclusive
    <3>. QED BY <3>1, <3>2
  <2>8. CronSyncExcludesCrawl'
    BY <2>1 DEF IInv, CronSyncExcludesCrawl, TypeOK, scheduler, Busy
  <2>. QED BY <2>3, <2>4, <2>6, <2>7, <2>8 DEF IInv
<1>. QED BY <1>4, <1>5

\* A call that leaves the stage it executes keeps the trackers a lock.
LEMMA EndKeeps ==
  ASSUME IInv, NEW c \in Callers, StageEnds(c)
  PROVE  IInv'
<1>. DEFINE kind == call[c].kind
            k == call[c].at
<1>1. /\ kind \in Kinds /\ k \in DOMAIN Program[kind] /\ call[c].inside
      /\ tracker' = [p \in Phases |-> tracker[p] /\ p # Stage(c)]
      /\ call' = [call EXCEPT ![c] = Following(kind, k)]
      /\ UNCHANGED <<scheduler, apply>>
  BY DEF StageEnds, Release, Active, IInv, TypeOK
<1>. HIDE DEF kind, k
<1>2. /\ Following(kind, k) \in [kind : Kinds \cup {"none"}, at : Nat, inside : BOOLEAN]
      /\ Following(kind, k).inside = FALSE
      /\ Following(kind, k).kind \in Kinds =>
           Following(kind, k).at \in DOMAIN Program[Following(kind, k).kind]
      /\ kind = "isDone" => Following(kind, k).kind = "none"
  BY <1>1, FollowingFacts
<1>3. \A d \in Callers, p \in Phases : Runs(d, p)' <=> d # c /\ Runs(d, p)
  BY <1>1, <1>2 DEF Runs, Active, Stage, IInv, TypeOK
<1>4. Runs(c, Stage(c))
  BY <1>1 DEF Runs, Active, kind
<1>5. TypeOK'
  BY <1>1, <1>2 DEF IInv, TypeOK, Active, scheduler, apply
<1>6. IsDoneFirst'
  BY <1>1, <1>2, ProgramFacts DEF IInv, IsDoneFirst, TypeOK, Following, NoCall, Kinds, CronKinds
<1>7. TrackerHeld'
  <2>. SUFFICES ASSUME NEW p \in Phases
                PROVE  /\ tracker'[p] <=> \E d \in Callers : Runs(d, p)'
                       /\ \A d, e \in Callers : Runs(d, p)' /\ Runs(e, p)' => d = e
    BY DEF TrackerHeld
  <2>1. /\ tracker[p] <=> \E d \in Callers : Runs(d, p)
        /\ \A d, e \in Callers : Runs(d, p) /\ Runs(e, p) => d = e
    BY DEF IInv, TrackerHeld
  <2>2. tracker'[p] <=> tracker[p] /\ p # Stage(c)
    BY <1>1
  <2>3. \A d \in Callers : Runs(d, p)' <=> d # c /\ Runs(d, p)
    BY <1>3
  <2>4. Runs(c, p) <=> p = Stage(c)
    BY <1>4 DEF Runs
  <2>. QED BY <2>1, <2>2, <2>3, <2>4
<1>8. WriteHeavyExclusive'
  BY <1>3 DEF IInv, WriteHeavyExclusive, Phases
<1>9. CronSyncExcludesCrawl'
  BY <1>1, <1>2 DEF IInv, CronSyncExcludesCrawl, TypeOK, scheduler, Busy
<1>. QED BY <1>5, <1>6, <1>7, <1>8, <1>9 DEF IInv

LEMMA InitHolds == Init => IInv
<1>. SUFFICES ASSUME Init PROVE IInv
  OBVIOUS
<1>1. /\ "bootstrap" \in Kinds /\ "none" \notin Kinds
      /\ "pendingSync" \in WriteHeavy /\ "bootstrap" \in Callers
  BY DEF Kinds, CronKinds, WriteHeavy, Callers
<1>2. \A c \in Callers : Active(c) <=> c = "bootstrap"
  BY <1>1 DEF Init, Active, NoCall
<1>3. \A c \in Callers, p \in Phases : Runs(c, p) <=> c = "bootstrap" /\ p = "pendingSync"
  BY <1>1, <1>2, ProgramFacts DEF Init, Runs, Stage
<1>4. TypeOK
  BY <1>1, <1>2, ProgramFacts DEF Init, TypeOK, NoCall
<1>5. IsDoneFirst /\ CronSyncExcludesCrawl
  BY DEF Init, IsDoneFirst, CronSyncExcludesCrawl, NoCall
<1>6. TrackerHeld /\ WriteHeavyExclusive
  BY <1>1, <1>3 DEF Init, TrackerHeld, WriteHeavyExclusive, Phases
<1>. QED BY <1>4, <1>5, <1>6 DEF IInv

\* A step that touches neither the calls nor the trackers.
LEMMA OthersKeep ==
  ASSUME IInv, UNCHANGED <<tracker, call>>, TypeOK', CronSyncExcludesCrawl'
  PROVE  IInv'
<1>1. \A c, p : Runs(c, p)' <=> Runs(c, p)
  BY DEF Runs, Active, Stage
<1>. QED BY <1>1 DEF IInv, IsDoneFirst, TrackerHeld, WriteHeavyExclusive

\* No crawl may start while an isDone sync of a cron handler runs.
LEMMA CrawlGuard ==
  ASSUME IInv, MayCrawl
  PROVE  \A c \in Callers : ~(call[c].kind = "isDone" /\ call[c].inside)
<1>. SUFFICES ASSUME NEW c \in Callers, call[c].kind = "isDone", call[c].inside
              PROVE  FALSE
  OBVIOUS
<1>1. Runs(c, "isDoneSync")
  BY ProgramFacts DEF IInv, IsDoneFirst, Runs, Active, Stage, Kinds, CronKinds
<1>2. "isDoneSync" \in WriteHeavy /\ "isDoneSync" \in Phases
  BY DEF WriteHeavy, Phases
<1>3. tracker["isDoneSync"]
  BY <1>1, <1>2 DEF IInv, TrackerHeld
<1>. QED BY <1>2, <1>3 DEF MayCrawl, WriteHeavyActivity

LEMMA StepHolds == IInv /\ [Next]_vars => IInv'
<1>. SUFFICES ASSUME IInv, [Next]_vars PROVE IInv'
  OBVIOUS
<1>1. ASSUME NEW c \in Callers, StageBegins(c) PROVE IInv'
  <2>1. /\ call[c].kind \in Kinds /\ call[c].at \in DOMAIN Program[call[c].kind]
        /\ ~call[c].inside
        /\ Enter(c, call[c].kind, call[c].at)
        /\ UNCHANGED <<scheduler, backlog, restarts>>
    BY <1>1 DEF StageBegins, Active, IInv, TypeOK
  <2>2. call[c].kind # "isDone"
    BY <1>1 DEF IInv, IsDoneFirst, StageBegins
  <2>. QED BY <2>1, <2>2, EnterKeeps
<1>2. ASSUME NEW c \in Callers, StageEnds(c) PROVE IInv'
  BY <1>2, EndKeeps
<1>3. ASSUME NEW c \in Callers, BackfillThrows(c) PROVE IInv'
  <2>1. /\ call[c].kind \in Kinds /\ call' = [call EXCEPT ![c] = NoCall]
        /\ UNCHANGED <<tracker, scheduler, apply>>
        /\ \A p \in Phases : ~Runs(c, p)
    BY <1>3 DEF BackfillThrows, Runs, Active, Phases, WriteHeavy
  <2>2. "none" \notin Kinds
    BY DEF Kinds, CronKinds
  <2>3. \A d \in Callers, p \in Phases : Runs(d, p)' <=> Runs(d, p)
    BY <2>1, <2>2 DEF Runs, Active, Stage, NoCall, IInv, TypeOK
  <2>4. TypeOK' /\ IsDoneFirst' /\ CronSyncExcludesCrawl'
    BY <2>1, <2>2 DEF IInv, TypeOK, IsDoneFirst, CronSyncExcludesCrawl, Active, NoCall,
                      Busy, scheduler, apply
  <2>5. TrackerHeld' /\ WriteHeavyExclusive'
    BY <2>1, <2>3 DEF IInv, TrackerHeld, WriteHeavyExclusive, Phases
  <2>. QED BY <2>4, <2>5 DEF IInv
<1>4. ASSUME NEW c \in Calls, NEW kind \in CronKinds, Trigger(c, kind) PROVE IInv'
  <2>1. /\ c \in Callers /\ kind \in Kinds /\ 1 \in DOMAIN Program[kind]
        /\ ~(Active(c) /\ call[c].inside) /\ ~Busy
        /\ Enter(c, kind, 1)
        /\ UNCHANGED <<scheduler, backlog, restarts>>
    BY <1>4, ProgramFacts DEF Trigger, MayTrigger, Callers, Kinds
  <2>. QED BY <2>1, EnterKeeps
<1>5. ASSUME NEW c \in Callers, PhaseStages(c) \/ WaitKicks(c) PROVE IInv'
  <2>1. /\ UNCHANGED <<tracker, call, scheduler, restarts>>
        /\ backlog' \subseteq ApplyWorkers /\ applying' \subseteq ApplyWorkers
    BY <1>5 DEF PhaseStages, WaitKicks, Selected, ApplyWorkers, IInv, TypeOK
  <2>. QED BY <2>1, OthersKeep DEF IInv, TypeOK, CronSyncExcludesCrawl, Active, Busy, scheduler
<1>6. ASSUME NEW k \in ApplyWorkers, ApplyEnds(k) \/ ApplyRestarts(k) PROVE IInv'
  <2>1. /\ UNCHANGED <<tracker, call, scheduler>>
        /\ backlog' \subseteq ApplyWorkers /\ applying' \subseteq ApplyWorkers
        /\ restarts' \subseteq ApplyWorkers
    BY <1>6 DEF ApplyEnds, ApplyRestarts, IInv, TypeOK
  <2>. QED BY <2>1, OthersKeep DEF IInv, TypeOK, CronSyncExcludesCrawl, Active, Busy, scheduler
<1>7. ASSUME CrawlStarts \/ PendingStarts PROVE IInv'
  <2>1. /\ UNCHANGED <<tracker, call, initialized, background, apply>>
        /\ MayCrawl /\ crawl' \in BOOLEAN /\ pending' \in BOOLEAN
    BY <1>7 DEF CrawlStarts, PendingStarts, IInv, TypeOK
  <2>2. CronSyncExcludesCrawl'
    BY <2>1, CrawlGuard DEF CronSyncExcludesCrawl
  <2>. QED BY <2>1, <2>2, OthersKeep DEF IInv, TypeOK, Active, apply
<1>8. ASSUME CrawlEnds \/ PendingEnds PROVE IInv'
  <2>1. /\ UNCHANGED <<tracker, call, initialized, apply>>
        /\ crawl' \in BOOLEAN /\ pending' \in BOOLEAN
        /\ background' \subseteq PalTasks \cup NsmTasks
        /\ Busy
    BY <1>8 DEF CrawlEnds, PendingEnds, Busy, IInv, TypeOK
  <2>2. CronSyncExcludesCrawl'
    BY <2>1 DEF CronSyncExcludesCrawl, IInv
  <2>. QED BY <2>1, <2>2, OthersKeep DEF IInv, TypeOK, Active, apply
<1>9. ASSUME NEW t \in PalTasks \cup NsmTasks, TaskEnds(t) PROVE IInv'
  <2>1. /\ UNCHANGED <<tracker, call, initialized, crawl, pending, apply>>
        /\ background' \subseteq PalTasks \cup NsmTasks
        /\ Busy
    BY <1>9 DEF TaskEnds, Busy, IInv, TypeOK
  <2>2. CronSyncExcludesCrawl'
    BY <2>1 DEF CronSyncExcludesCrawl, IInv
  <2>. QED BY <2>1, <2>2, OthersKeep DEF IInv, TypeOK, Active, apply
<1>10. ASSUME CacheInitialized PROVE IInv'
  <2>1. /\ UNCHANGED <<tracker, call, crawl, pending, background, apply>>
        /\ initialized' \in BOOLEAN
    BY <1>10 DEF CacheInitialized
  <2>. QED BY <2>1, OthersKeep DEF IInv, TypeOK, CronSyncExcludesCrawl, Active, Busy, apply
<1>11. ASSUME UNCHANGED vars PROVE IInv'
  BY <1>11, OthersKeep DEF vars, IInv, TypeOK, CronSyncExcludesCrawl, Active, Busy, scheduler,
                           apply
<1>. QED BY <1>1, <1>2, <1>3, <1>4, <1>5, <1>6, <1>7, <1>8, <1>9, <1>10, <1>11 DEF Next

-----------------------------------------------------------------------------
\* The inductive invariant of the trackers, the calls and the scheduler's flags.
THEOREM PhaseInvariance == Spec => []IInv
<1>. QED BY InitHolds, StepHolds, PTL DEF Spec

\* Type correctness: a call never runs past the end of its program.
THEOREM PhaseTypeCorrect == Spec => []TypeOK
<1>1. IInv => TypeOK
  BY DEF IInv
<1>. QED BY PhaseInvariance, <1>1, PTL

\* runPhase: a tracker is set exactly while one call executes its phase.
THEOREM TrackersAreHeld == Spec => []TrackerHeld
<1>1. IInv => TrackerHeld
  BY DEF IInv
<1>. QED BY PhaseInvariance, <1>1, PTL

\* The cross-phase guard: write-heavy phases exclude each other, for any number
\* of concurrent cron firings.
THEOREM WriteHeavyPhasesExclude == Spec => []WriteHeavyExclusive
<1>1. IInv => WriteHeavyExclusive
  BY DEF IInv
<1>. QED BY PhaseInvariance, <1>1, PTL

\* The guards of the crawling cron handlers and of the isDone handler together
\* keep a cron isDone sync and a crawl with its background work apart.
THEOREM CronSyncAndCrawlExclude == Spec => []CronSyncExcludesCrawl
<1>1. IInv => CronSyncExcludesCrawl
  BY DEF IInv
<1>. QED BY PhaseInvariance, <1>1, PTL

\* The three together: the phases exclude each other and the crawl.
THEOREM PhasesAreExclusive == Spec => []PhasesExclude
<1>1. IInv => PhasesExclude
  BY DEF IInv, PhasesExclude
<1>. QED BY PhaseInvariance, <1>1, PTL

-----------------------------------------------------------------------------
(* Snapshots                                                               *)

Pages == {"intact", "altered"}
Verdicts == [result : Results, streak : 0 .. 2]
Seeds == [pc : {"idle", "read", "write"}, read : Verdicts]
ReadRows == [num : Archived, html : Htmls \ {"absent"}]
Scans == [pc : {"idle", "batch", "check", "write"}, last : Archived \cup {0},
          rows : SUBSET ReadRows, full : BOOLEAN, read : Verdicts]
Steps == {"idle", "capture", "fill", "look", "mark"}

\* The parts of the type invariant.
RowsOK ==
  /\ html \in [Archived -> Htmls] /\ origin \in [Archived -> {"pal", "nsm", "moved"}]
  /\ source \in [Archived -> {"up", "gone", "closed"}]
VerdictOK == verdict \in [Archived -> Verdicts]
SeedOK == seed \in [Archived -> Seeds]
FillerOK == filler \in [Fillers -> [Archived -> Steps]]
RescanOK == rescan \in [Rescans -> {"idle", "repair", "scan", "done"}]
ScanOK == scan \in Scans /\ (scan.pc \in {"check", "write"} => scan.rows # {})
CountsOK == captures \in [Archived -> 0 .. 2] /\ failing \in [Archived -> 0 .. 2]
BoundsOK ==
  /\ integrityScope \in IntegrityScopes
  /\ events \in Nat /\ events <= integrityScope.events
  /\ mishaps \in Nat /\ mishaps <= integrityScope.mishaps
Typed == RowsOK /\ VerdictOK /\ SeedOK /\ FillerOK /\ RescanOK /\ ScanOK /\ CountsOK /\ BoundsOK

\* A row has a page since it was captured, once.
Captured ==
  \A n \in Archived : captures[n] = IF html[n] \in Pages THEN 1 ELSE 0

\* A verdict on a page means that there is one, and a mismatch stays one.
Founded ==
  \A n \in Archived :
    /\ verdict[n].result \in {"passed", "failed"} => html[n] \in Pages
    /\ verdict[n].result = "failed" => html[n] = "altered"

\* Streaks count failed checks, also in the copies a seed works on; and checks
\* fail only once the page is altered.
Streaks ==
  \A n \in Archived :
    /\ verdict[n].streak <= failing[n] /\ seed[n].read.streak <= failing[n]
    /\ failing[n] > 0 => html[n] = "altered"

\* What the scan has read is not ahead of what is stored, nor behind the checks.
Behind ==
  /\ \A r \in scan.rows :
       /\ r.html \in Pages => html[r.num] \in Pages
       /\ r.html = "altered" => html[r.num] = "altered"
       /\ failing[r.num] > 0 => r.html = "altered"
  /\ \A r, q \in scan.rows : r.num = q.num => r = q

\* A failed check was counted before its verdict is written.
Counted ==
  scan.pc = "write" /\ InHand.html = "altered" =>
    OneMore(scan.read.streak) <= failing[InHand.num]

\* Pages that are there stay there, and altered ones altered.
Moves ==
  \A n \in Archived :
    /\ html[n] \in Pages => html'[n] \in Pages
    /\ html[n] = "altered" => html'[n] = "altered"

IntegrityInv == Typed /\ Captured /\ Founded /\ Streaks /\ Behind /\ Counted

-----------------------------------------------------------------------------
(* The operators                                                           *)

LEMMA OneMoreFacts ==
  /\ \A k \in 0 .. 2 : OneMore(k) \in 1 .. 2 /\ k <= OneMore(k)
  /\ \A k, m \in 0 .. 2 : k <= m => OneMore(k) <= OneMore(m)
  /\ OneMore(0) = 1
BY DEF OneMore

\* A set of numbers that is not empty has a least element.
LEMMA LeastExists ==
  ASSUME NEW S \in SUBSET Nat, S # {}
  PROVE  \E m \in S : \A k \in S : m <= k
<1>1. PICK m \in S : \A k \in S : ~ (<<k, m>> \in OpToRel(<, Nat))
  BY WFMin, NatLessThanWellFounded, Zenon
<1>2. ASSUME NEW k \in S PROVE m <= k
  <2>1. ~ (<<k, m>> \in OpToRel(<, Nat))
    BY <1>1, <1>2
  <2>2. <<k, m>> \in Nat \X Nat
    OBVIOUS
  <2>3. ~ (k < m)
    BY <2>1, <2>2 DEF OpToRel
  <2> QED
    BY <2>3
<1> QED
  BY <1>2

\* The scan always has a row in hand while there are any.
LEMMA InHandIsARow ==
  ASSUME ScanOK, scan.rows # {}
  PROVE  InHand \in scan.rows
<1> DEFINE S == {r.num : r \in scan.rows}
<1>1. S \in SUBSET Nat /\ S # {}
  <2>1. scan.rows \in SUBSET ReadRows
    BY DEF ScanOK, Scans
  <2>2. \A r \in scan.rows : r.num \in Nat
    BY <2>1, IntegrityAssumption DEF ReadRows
  <2> QED
    BY <2>2
<1>2. PICK m \in S : \A k \in S : m <= k
  BY <1>1, LeastExists
<1>3. PICK r \in scan.rows : r.num = m
  BY <1>2
<1>4. \A q \in scan.rows : r.num <= q.num
  BY <1>2, <1>3
<1> QED
  BY <1>4 DEF InHand

\* What a check of a page can say.
LEMMA CheckResultFacts ==
  ASSUME NEW h \in Htmls \ {"absent"}
  PROVE  /\ CheckResult(h) \in {"skipped", "passed", "failed"}
         /\ CheckResult(h) = "failed" <=> h = "altered"
         /\ CheckResult(h) \in {"passed", "failed"} <=> h \in Pages
BY DEF CheckResult, Htmls, Pages

\* How the records are made up and taken apart.
LEMMA VerdictFacts ==
  /\ \A v \in Verdicts : v.result \in Results /\ v.streak \in 0 .. 2
  /\ \A r \in Results, s \in 0 .. 2 : [result |-> r, streak |-> s] \in Verdicts
  /\ Unseen \in Verdicts
BY DEF Verdicts, Unseen, Results

LEMMA SeedFacts ==
  /\ \A s \in Seeds : s.read \in Verdicts /\ [s EXCEPT !.pc = "read"] \in Seeds
  /\ \A v \in Verdicts : [pc |-> "write", read |-> v] \in Seeds
  /\ NoSeed \in Seeds
BY VerdictFacts DEF Seeds, NoSeed

LEMMA ScanFacts ==
  /\ Quiet \in Scans /\ Quiet.pc = "idle" /\ Quiet.rows = {}
  /\ [Quiet EXCEPT !.pc = "batch"] \in Scans
  /\ \A s \in Scans : s.read \in Verdicts /\ s.rows \in SUBSET ReadRows
BY VerdictFacts DEF Scans, Quiet

LEMMA BatchTyped ==
  ASSUME NEW s \in Scans, NEW R \in SUBSET ReadRows, NEW full \in BOOLEAN
  PROVE  /\ [s EXCEPT !.pc = "check", !.rows = R, !.full = full] \in Scans
         /\ [s EXCEPT !.pc = "check", !.rows = R, !.full = full].rows = R
BY DEF Scans

LEMMA Parts == IntegrityTypeOK <=> Typed
BY DEF IntegrityTypeOK, Typed, RowsOK, VerdictOK, SeedOK, FillerOK, RescanOK, ScanOK, CountsOK,
       BoundsOK, Verdicts, Seeds, Scans, ReadRows, Steps

-----------------------------------------------------------------------------
(* Types                                                                   *)

LEMMA TypeInit == IntegrityInit => Typed
<1> SUFFICES ASSUME IntegrityInit PROVE Typed
  OBVIOUS
<1>1. integrityScope.events \in Nat /\ integrityScope.mishaps \in Nat
  BY IntegrityAssumption DEF IntegrityInit
<1>2. RowsOK /\ FillerOK /\ RescanOK /\ CountsOK
  BY DEF IntegrityInit, RowsOK, FillerOK, RescanOK, CountsOK, Htmls, Steps
<1>3. VerdictOK /\ SeedOK /\ ScanOK
  BY VerdictFacts, SeedFacts, ScanFacts DEF IntegrityInit, VerdictOK, SeedOK, ScanOK
<1>4. BoundsOK
  BY <1>1 DEF IntegrityInit, BoundsOK
<1> QED
  BY <1>2, <1>3, <1>4 DEF Typed

\* What a step does to the bounds.
LEMMA BoundsKeep ==
  ASSUME BoundsOK, UNCHANGED integrityScope,
         UNCHANGED events \/ Event, UNCHANGED mishaps \/ Mishap
  PROVE  BoundsOK'
<1>1. integrityScope.events \in Nat /\ integrityScope.mishaps \in Nat
  BY IntegrityAssumption DEF BoundsOK
<1> QED
  BY <1>1 DEF BoundsOK, Event, Mishap

\* A fill moves on.
LEMMA AtKeeps ==
  ASSUME FillerOK, NEW f \in Fillers, NEW n \in Archived, NEW pc \in Steps, At(f, n, pc)
  PROVE  FillerOK'
<1>1. [filler[f] EXCEPT ![n] = pc] \in [Archived -> Steps]
  BY DEF FillerOK
<1>2. filler' = [filler EXCEPT ![f] = [filler[f] EXCEPT ![n] = pc]]
  BY DEF At
<1> QED
  BY <1>1, <1>2 DEF FillerOK

LEMMA CapturesKeep ==
  ASSUME CountsOK, NEW n \in Archived, UNCHANGED failing,
         UNCHANGED captures \/ captures' = [captures EXCEPT ![n] = OneMore(@)]
  PROVE  CountsOK'
<1>1. OneMore(captures[n]) \in 0 .. 2
  BY OneMoreFacts DEF CountsOK
<1> QED
  BY <1>1 DEF CountsOK

LEMMA TypeNext == Typed /\ [IntegrityNext]_integrityVars => Typed'
<1> SUFFICES ASSUME Typed, [IntegrityNext]_integrityVars PROVE Typed'
  OBVIOUS
<1>0. /\ RowsOK /\ VerdictOK /\ SeedOK /\ FillerOK /\ RescanOK /\ ScanOK /\ CountsOK /\ BoundsOK
      /\ UNCHANGED <<html, origin, source>> => RowsOK'
      /\ UNCHANGED verdict => VerdictOK'
      /\ UNCHANGED seed => SeedOK'
      /\ UNCHANGED filler => FillerOK'
      /\ UNCHANGED rescan => RescanOK'
      /\ UNCHANGED scan => ScanOK'
      /\ UNCHANGED <<captures, failing>> => CountsOK'
  BY DEF Typed, RowsOK, VerdictOK, SeedOK, FillerOK, RescanOK, ScanOK, CountsOK
<1>1. ASSUME NEW n \in Archived, MakeRow(n) PROVE Typed'
  <2>1. PICK h \in {"none", "intact"}, o \in {"pal", "nsm"} :
          /\ html' = [html EXCEPT ![n] = h] /\ origin' = [origin EXCEPT ![n] = o]
          /\ IF h = "none"
             THEN seed' = [seed EXCEPT ![n].pc = "read"] /\ UNCHANGED captures
             ELSE captures' = [captures EXCEPT ![n] = OneMore(@)] /\ UNCHANGED seed
    BY <1>1 DEF MakeRow
  <2>2. RowsOK'
    BY <1>0, <1>1, <2>1 DEF MakeRow, RowsOK, Htmls
  <2>3. SeedOK'
    BY <1>0, <2>1, SeedFacts DEF SeedOK
  <2>4. CountsOK'
    BY <1>0, <1>1, <2>1, CapturesKeep DEF MakeRow
  <2> QED
    BY <1>0, <1>1, <2>2, <2>3, <2>4, BoundsKeep DEF MakeRow, Typed
<1>2. ASSUME NEW n \in Archived, SeedRead(n) PROVE Typed'
  <2>1. SeedOK'
    BY <1>0, <1>2, SeedFacts DEF SeedRead, SeedOK, VerdictOK
  <2> QED
    BY <1>0, <1>2, <2>1, BoundsKeep DEF SeedRead, Typed
<1>3. ASSUME NEW n \in Archived, SeedWrite(n) PROVE Typed'
  <2>1. SeedOK'
    BY <1>0, <1>3, SeedFacts DEF SeedWrite, SeedOK
  <2>2. [result |-> "skipped", streak |-> seed[n].read.streak] \in Verdicts
    BY <1>0, SeedFacts, VerdictFacts DEF SeedOK, Results
  <2>3. VerdictOK'
    BY <1>0, <1>3, <2>2 DEF SeedWrite, VerdictOK
  <2> QED
    BY <1>0, <1>3, <2>1, <2>3, BoundsKeep DEF SeedWrite, Typed
<1>4. ASSUME NEW n \in Archived, Recrawl(n) PROVE Typed'
  <2>1. FillerOK'
    BY <1>0, <1>4, AtKeeps DEF Recrawl, Fillers, Steps
  <2> QED
    BY <1>0, <1>4, <2>1, BoundsKeep DEF Recrawl, Typed
<1>5. ASSUME NEW n \in Archived, Capture(n) PROVE Typed'
  <2>1. PICK pc \in Steps : At("backfill", n, pc)
    BY <1>5 DEF Capture, Steps
  <2>2. FillerOK'
    BY <1>0, <2>1, AtKeeps DEF Fillers
  <2> QED
    BY <1>0, <1>5, <2>2, BoundsKeep DEF Capture, Typed
<1>6. ASSUME NEW n \in Archived, NEW f \in Fillers, Fill(f, n) PROVE Typed'
  <2>1. PICK pc \in Steps : At(f, n, pc)
    BY <1>6 DEF Fill, Steps
  <2>2. FillerOK'
    BY <1>0, <2>1, AtKeeps
  <2>3. RowsOK'
    BY <1>0, <1>6 DEF Fill, RowsOK, Htmls
  <2>4. CountsOK'
    <3>1. UNCHANGED failing /\ (UNCHANGED captures \/ captures' = [captures EXCEPT ![n] = OneMore(@)])
      BY <1>6 DEF Fill
    <3> QED
      BY <1>0, <3>1, CapturesKeep
  <2> QED
    BY <1>0, <1>6, <2>2, <2>3, <2>4, BoundsKeep DEF Fill, Typed
<1>7. ASSUME NEW n \in Archived, NEW f \in Fillers, MarkRead(f, n) PROVE Typed'
  <2>1. PICK pc \in Steps : At(f, n, pc)
    BY <1>7 DEF MarkRead, Steps
  <2>2. FillerOK'
    BY <1>0, <2>1, AtKeeps
  <2> QED
    BY <1>0, <1>7, <2>2, BoundsKeep DEF MarkRead, Typed
<1>8. ASSUME NEW n \in Archived, NEW f \in Fillers, MarkWrite(f, n) PROVE Typed'
  <2>1. FillerOK'
    BY <1>0, <1>8, AtKeeps DEF MarkWrite, Steps
  <2>2. [result |-> "null", streak |-> 0] \in Verdicts
    BY VerdictFacts DEF Results
  <2>3. VerdictOK'
    BY <1>0, <1>8, <2>2 DEF MarkWrite, VerdictOK
  <2> QED
    BY <1>0, <1>8, <2>1, <2>3, BoundsKeep DEF MarkWrite, Typed
<1>9. ASSUME NEW c \in Rescans, RescanStarts(c) PROVE Typed'
  <2>1. RescanOK'
    BY <1>0, <1>9 DEF RescanStarts, RescanOK
  <2>2. FillerOK'
    <3>1. [n \in Archived |-> IF n \in Targets THEN "capture" ELSE "idle"] \in [Archived -> Steps]
      BY DEF Steps
    <3>2. \/ UNCHANGED filler
          \/ filler' = [filler EXCEPT !["backfill"] =
                          [n \in Archived |-> IF n \in Targets THEN "capture" ELSE "idle"]]
      BY <1>9 DEF RescanStarts
    <3> QED
      BY <1>0, <3>1, <3>2 DEF FillerOK, Fillers
  <2> QED
    BY <1>0, <1>9, <2>1, <2>2, BoundsKeep DEF RescanStarts, Typed
<1>10. ASSUME NEW c \in Rescans, RepairDone(c) PROVE Typed'
  <2>1. RescanOK'
    BY <1>0, <1>10 DEF RepairDone, RescanOK
  <2> QED
    BY <1>0, <1>10, <2>1, BoundsKeep DEF RepairDone, Typed
<1>11. ASSUME NEW c \in Rescans, ScanStarts(c) PROVE Typed'
  <2>1. RescanOK'
    BY <1>0, <1>11 DEF ScanStarts, RescanOK
  <2>2. [Quiet EXCEPT !.pc = "batch"].pc = "batch"
    BY DEF Quiet
  <2>3. ScanOK'
    BY <1>0, <1>11, <2>2, ScanFacts DEF ScanStarts, ScanOK
  <2> QED
    BY <1>0, <1>11, <2>1, <2>3, BoundsKeep DEF ScanStarts, Typed
<1>12. CASE ScanReads
  <2>1. PICK rows \in SUBSET After(scan.last) :
          scan' = IF rows = {} THEN Quiet
                  ELSE [scan EXCEPT !.pc = "check",
                                    !.rows = {[num |-> n, html |-> html[n]] : n \in rows},
                                    !.full = Cardinality(rows) = integrityScope.batch]
    BY <1>12 DEF ScanReads
  <2>2. {[num |-> n, html |-> html[n]] : n \in rows} \in SUBSET ReadRows
    BY <1>0, <2>1 DEF After, RowsOK, ReadRows
  <2>3. ASSUME rows = {} PROVE ScanOK'
    <3>1. scan' = Quiet
      BY <2>1, <2>3, Zenon
    <3> QED
      BY <3>1, ScanFacts DEF ScanOK
  <2>4. ASSUME rows # {} PROVE ScanOK'
    <3> DEFINE R == {[num |-> n, html |-> html[n]] : n \in rows}
               full == (Cardinality(rows) = integrityScope.batch)
    <3>1. R # {}
      BY <2>4
    <3>2. full \in BOOLEAN
      BY Zenon
    <3>3. scan' = [scan EXCEPT !.pc = "check", !.rows = R, !.full = full]
      BY <2>1, <2>4, Zenon
    <3>4. scan \in Scans
      BY <1>0 DEF ScanOK
    <3> HIDE DEF full, R
    <3>5. R \in SUBSET ReadRows
      BY <2>2 DEF R
    <3>6. scan' \in Scans /\ scan'.rows = R
      BY <3>2, <3>3, <3>4, <3>5, BatchTyped
    <3> QED
      BY <3>1, <3>6 DEF ScanOK
  <2>5. ScanOK'
    BY <2>3, <2>4
  <2> QED
    BY <1>0, <1>12, <2>5, BoundsKeep DEF ScanReads, Typed
<1>13. CASE ScanChecks
  <2>1. scan.rows # {}
    BY <1>0, <1>13 DEF ScanChecks, ScanOK
  <2>2. InHand \in ReadRows
    BY <1>0, <2>1, InHandIsARow DEF ScanOK, Scans
  <2>3. InHand.num \in Archived
    BY <2>2 DEF ReadRows
  <2>4. CountsOK'
    <3>1. OneMore(failing[InHand.num]) \in 0 .. 2
      BY <1>0, <2>3, OneMoreFacts DEF CountsOK
    <3> QED
      BY <1>0, <1>13, <3>1 DEF ScanChecks, CountsOK
  <2>5. ScanOK'
    <3>1. verdict[InHand.num] \in Verdicts
      BY <1>0, <2>3 DEF VerdictOK
    <3>2. CASE scan' = [scan EXCEPT !.pc = "write", !.read = verdict[InHand.num]]
      BY <1>0, <2>1, <3>1, <3>2 DEF ScanOK, Scans
    <3>3. CASE scan' = Quiet
      BY <3>3, ScanFacts DEF ScanOK
    <3> QED
      BY <1>13, <3>2, <3>3 DEF ScanChecks
  <2> QED
    BY <1>0, <1>13, <2>4, <2>5, BoundsKeep DEF ScanChecks, Typed
<1>14. CASE ScanWrites
  <2> DEFINE result == CheckResult(InHand.html)
             streak == IF result = "failed" THEN OneMore(scan.read.streak) ELSE 0
             rest == scan.rows \ {InHand}
  <2>1. InHand \in ReadRows
    BY <1>0, <1>14, InHandIsARow DEF ScanWrites, ScanOK, Scans
  <2>2. result \in Results /\ streak \in 0 .. 2
    <3>1. result \in Results
      BY <2>1, CheckResultFacts DEF Results, ReadRows
    <3>2. scan.read.streak \in 0 .. 2
      BY <1>0, ScanFacts, VerdictFacts DEF ScanOK
    <3> QED
      BY <3>1, <3>2, OneMoreFacts
  <2>3. verdict' = verdict \/ verdict' = [verdict EXCEPT ![InHand.num] =
                                            [result |-> result, streak |-> streak]]
    BY <1>14 DEF ScanWrites
  <2>4. \/ scan' = Quiet
        \/ rest # {} /\ scan' = [scan EXCEPT !.pc = "check", !.rows = rest, !.read = Unseen]
        \/ scan' = [Quiet EXCEPT !.pc = "batch", !.last = InHand.num]
    BY <1>14 DEF ScanWrites
  <2> HIDE DEF result, streak
  <2>5. VerdictOK'
    BY <1>0, <2>2, <2>3, VerdictFacts DEF VerdictOK
  <2>6. ScanOK'
    <3>1. CASE scan' = Quiet
      BY <3>1, ScanFacts DEF ScanOK
    <3>2. CASE rest # {} /\ scan' = [scan EXCEPT !.pc = "check", !.rows = rest, !.read = Unseen]
      BY <1>0, <3>2, VerdictFacts DEF ScanOK, Scans
    <3>3. CASE scan' = [Quiet EXCEPT !.pc = "batch", !.last = InHand.num]
      BY <2>1, <3>3, VerdictFacts DEF ScanOK, Scans, Quiet, ReadRows
    <3> QED
      BY <2>4, <3>1, <3>2, <3>3
  <2> QED
    BY <1>0, <1>14, <2>5, <2>6, BoundsKeep DEF ScanWrites, Typed
<1>15. CASE World
  <2>1. RowsOK'
    BY <1>0, <1>15 DEF World, RowsOK, Htmls
  <2> QED
    BY <1>0, <1>15, <2>1, BoundsKeep DEF World, Typed
<1>16. CASE IntegrityRestart
  <2>1. SeedOK' /\ ScanOK'
    BY <1>16, SeedFacts, ScanFacts DEF IntegrityRestart, SeedOK, ScanOK
  <2>2. FillerOK' /\ RescanOK'
    BY <1>16 DEF IntegrityRestart, FillerOK, RescanOK, Steps
  <2> QED
    BY <1>0, <1>16, <2>1, <2>2, BoundsKeep DEF IntegrityRestart, Typed
<1>17. CASE UNCHANGED integrityVars
  BY <1>0, <1>17, BoundsKeep DEF integrityVars, Typed
<1> QED
  BY <1>1, <1>2, <1>3, <1>4, <1>5, <1>6, <1>7, <1>8, <1>9, <1>10, <1>11, <1>12, <1>13,
     <1>14, <1>15, <1>16, <1>17 DEF IntegrityNext, FillStep, RescanStep, ScanStep

\* The type invariant holds.
THEOREM IntegrityTypeCorrect == IntegritySpec => []IntegrityTypeOK
BY TypeInit, TypeNext, Parts, PTL DEF IntegritySpec

-----------------------------------------------------------------------------
(* What the verdicts say                                                   *)

LEMMA IntegrityInvInit == IntegrityInit => Captured /\ Founded /\ Streaks /\ Behind /\ Counted
<1> SUFFICES ASSUME IntegrityInit PROVE Captured /\ Founded /\ Streaks /\ Behind /\ Counted
  OBVIOUS
<1>1. Captured /\ Founded /\ Streaks
  BY DEF IntegrityInit, Captured, Founded, Streaks, Pages, Unseen, NoSeed
<1>2. Behind /\ Counted
  BY DEF IntegrityInit, Behind, Counted, Quiet
<1> QED
  BY <1>1, <1>2

\* Which steps write what the invariant is about.
LEMMA Writers ==
  ASSUME [IntegrityNext]_integrityVars
  PROVE  /\ \/ UNCHANGED <<html, captures>>
            \/ \E n \in Archived : MakeRow(n) \/ \E f \in Fillers : Fill(f, n)
            \/ World
         /\ \/ UNCHANGED verdict
            \/ \E n \in Archived : SeedWrite(n) \/ \E f \in Fillers : MarkWrite(f, n)
            \/ ScanWrites
         /\ \/ UNCHANGED seed
            \/ \E n \in Archived : MakeRow(n) \/ SeedRead(n) \/ SeedWrite(n)
            \/ IntegrityRestart
         /\ UNCHANGED failing \/ ScanChecks
         /\ \/ UNCHANGED scan
            \/ \E c \in Rescans : ScanStarts(c)
            \/ ScanStep \/ IntegrityRestart
<1>1. UNCHANGED integrityVars \/ IntegrityNext
  OBVIOUS
<1>2. CASE UNCHANGED integrityVars
  BY <1>2 DEF integrityVars
<1>3. ASSUME NEW n \in Archived, MakeRow(n) \/ SeedRead(n) \/ SeedWrite(n) \/ Recrawl(n)
      PROVE  UNCHANGED <<failing, scan>>
               /\ (UNCHANGED <<html, captures>> \/ MakeRow(n))
               /\ (UNCHANGED verdict \/ SeedWrite(n))
               /\ (UNCHANGED seed \/ MakeRow(n) \/ SeedRead(n) \/ SeedWrite(n))
  BY <1>3 DEF MakeRow, SeedRead, SeedWrite, Recrawl
<1>4. ASSUME NEW n \in Archived, FillStep(n)
      PROVE  UNCHANGED <<failing, scan, seed>>
               /\ (UNCHANGED <<html, captures>> \/ \E f \in Fillers : Fill(f, n))
               /\ (UNCHANGED verdict \/ \E f \in Fillers : MarkWrite(f, n))
  BY <1>4 DEF FillStep, Capture, Fill, MarkRead, MarkWrite
<1>5. ASSUME NEW c \in Rescans, RescanStep(c)
      PROVE  UNCHANGED <<html, captures, verdict, seed, failing>>
               /\ (UNCHANGED scan \/ ScanStarts(c))
  BY <1>5 DEF RescanStep, RescanStarts, RepairDone, ScanStarts
<1>6. ASSUME ScanStep
      PROVE  UNCHANGED <<html, captures, seed>> /\ (UNCHANGED verdict \/ ScanWrites)
               /\ (UNCHANGED failing \/ ScanChecks)
  BY <1>6 DEF ScanStep, ScanReads, ScanChecks, ScanWrites
<1>7. ASSUME World PROVE UNCHANGED <<verdict, seed, failing, scan>>
  BY <1>7 DEF World
<1>8. ASSUME IntegrityRestart PROVE UNCHANGED <<html, captures, verdict, failing>>
  BY <1>8 DEF IntegrityRestart
<1> QED
  BY <1>1, <1>2, <1>3, <1>4, <1>5, <1>6, <1>7, <1>8 DEF IntegrityNext

LEMMA CapturedNext ==
  ASSUME Typed, Captured, [IntegrityNext]_integrityVars
  PROVE  Captured' /\ Moves
<1>0. RowsOK /\ CountsOK
  BY DEF Typed
<1>1. CASE UNCHANGED <<html, captures>>
  BY <1>1 DEF Captured, Moves
<1>2. ASSUME NEW n \in Archived, MakeRow(n) PROVE Captured' /\ Moves
  BY <1>0, <1>2, OneMoreFacts DEF MakeRow, Captured, Moves, Pages, RowsOK, CountsOK
<1>3. ASSUME NEW n \in Archived, NEW f \in Fillers, Fill(f, n) PROVE Captured' /\ Moves
  BY <1>0, <1>3, OneMoreFacts DEF Fill, Fillable, Captured, Moves, Pages, RowsOK, CountsOK
<1>4. CASE World
  BY <1>0, <1>4 DEF World, Captured, Moves, Pages, RowsOK
<1> QED
  BY <1>1, <1>2, <1>3, <1>4, Writers

\* The row in hand is one of those that were read.
LEMMA WriteFacts ==
  ASSUME Typed, Behind, scan.pc \in {"check", "write"}
  PROVE  /\ InHand \in scan.rows /\ InHand \in ReadRows
         /\ InHand.html \in Pages => html[InHand.num] \in Pages
         /\ InHand.html = "altered" => html[InHand.num] = "altered"
         /\ failing[InHand.num] > 0 => InHand.html = "altered"
<1>1. InHand \in scan.rows
  BY InHandIsARow DEF Typed, ScanOK
<1>2. InHand \in ReadRows
  BY <1>1 DEF Typed, ScanOK, Scans
<1> QED
  BY <1>1, <1>2 DEF Behind

\* What a check and a write do to the scan.
LEMMA ScanMoves ==
  ASSUME Typed
  PROVE  /\ ScanChecks => \/ scan' = Quiet
                          \/ /\ scan'.rows = scan.rows /\ scan'.pc = "write"
                             /\ scan'.read = verdict[InHand.num]
         /\ ScanWrites => scan'.rows \subseteq scan.rows /\ scan'.pc # "write"
         /\ ScanReads => scan'.pc # "write"
         /\ Quiet.rows = {} /\ Quiet.pc = "idle"
<1>0. scan \in Scans
  BY DEF Typed, ScanOK
<1>1. Quiet.rows = {} /\ Quiet.pc = "idle"
  BY DEF Quiet
<1>2. ASSUME ScanChecks, scan' # Quiet
      PROVE  scan'.rows = scan.rows /\ scan'.pc = "write" /\ scan'.read = verdict[InHand.num]
  <2>1. scan' = [scan EXCEPT !.pc = "write", !.read = verdict[InHand.num]]
    BY <1>2 DEF ScanChecks
  <2> QED
    BY <1>0, <2>1 DEF Scans
<1>3. ASSUME ScanWrites PROVE scan'.rows \subseteq scan.rows /\ scan'.pc # "write"
  <2>1. \/ scan' = Quiet
        \/ scan' = [Quiet EXCEPT !.pc = "batch", !.last = InHand.num]
        \/ scan' = [scan EXCEPT !.pc = "check", !.rows = scan.rows \ {InHand}, !.read = Unseen]
    BY <1>3 DEF ScanWrites
  <2>2. ASSUME scan' = [Quiet EXCEPT !.pc = "batch", !.last = InHand.num]
        PROVE  scan'.rows = {} /\ scan'.pc = "batch"
    BY <2>2 DEF Quiet
  <2>3. ASSUME scan' = [scan EXCEPT !.pc = "check", !.rows = scan.rows \ {InHand}, !.read = Unseen]
        PROVE  scan'.rows \subseteq scan.rows /\ scan'.pc = "check"
    BY <1>0, <2>3 DEF Scans
  <2> QED
    BY <1>1, <2>1, <2>2, <2>3
<1>4. ASSUME ScanReads PROVE scan'.pc # "write"
  <2>1. PICK rows, full : scan' = Quiet \/ scan' = [scan EXCEPT !.pc = "check", !.rows = rows, !.full = full]
    BY <1>4 DEF ScanReads
  <2>2. ASSUME scan' = [scan EXCEPT !.pc = "check", !.rows = rows, !.full = full]
        PROVE  scan'.pc = "check"
    BY <1>0, <2>2 DEF Scans
  <2> QED
    BY <1>1, <2>1, <2>2
<1> QED
  BY <1>1, <1>2, <1>3, <1>4

\* What a write makes of the verdict on the row in hand.
LEMMA VerdictWritten ==
  ASSUME Typed, ScanWrites, UNCHANGED verdict => FALSE, InHand.num \in Archived
  PROVE  /\ verdict'[InHand.num].result = CheckResult(InHand.html)
         /\ verdict'[InHand.num].streak =
              IF CheckResult(InHand.html) = "failed" THEN OneMore(scan.read.streak) ELSE 0
         /\ \A n \in Archived \ {InHand.num} : verdict'[n] = verdict[n]
<1> DEFINE result == CheckResult(InHand.html)
           streak == IF result = "failed" THEN OneMore(scan.read.streak) ELSE 0
<1>1. verdict' = [verdict EXCEPT ![InHand.num] = [result |-> result, streak |-> streak]]
  BY DEF ScanWrites
<1> HIDE DEF result, streak
<1>2. /\ verdict'[InHand.num].result = result /\ verdict'[InHand.num].streak = streak
      /\ \A n \in Archived \ {InHand.num} : verdict'[n] = verdict[n]
  BY <1>1 DEF Typed, VerdictOK
<1> QED
  BY <1>2 DEF result, streak

LEMMA FoundedNext ==
  ASSUME Typed, Founded, Behind, Moves, [IntegrityNext]_integrityVars
  PROVE  Founded'
<1>0. VerdictOK
  BY DEF Typed
<1>1. CASE UNCHANGED verdict
  BY <1>1 DEF Founded, Moves
<1>2. ASSUME NEW n \in Archived, SeedWrite(n) PROVE Founded'
  BY <1>0, <1>2 DEF SeedWrite, VerdictOK, Founded, Moves
<1>3. ASSUME NEW n \in Archived, NEW f \in Fillers, MarkWrite(f, n) PROVE Founded'
  BY <1>0, <1>3 DEF MarkWrite, VerdictOK, Founded, Moves
<1>4. CASE ScanWrites
  <2>1. /\ InHand \in ReadRows
        /\ InHand.html \in Pages => html[InHand.num] \in Pages
        /\ InHand.html = "altered" => html[InHand.num] = "altered"
    BY <1>4, WriteFacts DEF ScanWrites
  <2>2. InHand.num \in Archived /\ InHand.html \in Htmls \ {"absent"}
    BY <2>1 DEF ReadRows
  <2>3. /\ CheckResult(InHand.html) \in {"passed", "failed"} => html[InHand.num] \in Pages
        /\ CheckResult(InHand.html) = "failed" => html[InHand.num] = "altered"
    BY <2>1, <2>2, CheckResultFacts
  <2>4. ASSUME UNCHANGED verdict => FALSE PROVE Founded'
    <3>1. /\ verdict'[InHand.num].result = CheckResult(InHand.html)
          /\ \A n \in Archived \ {InHand.num} : verdict'[n] = verdict[n]
      BY <1>4, <2>2, <2>4, VerdictWritten
    <3> QED
      BY <2>2, <2>3, <3>1 DEF Founded, Moves
  <2> QED
    BY <1>1, <2>4
<1> QED
  BY <1>1, <1>2, <1>3, <1>4, Writers

LEMMA BehindNext ==
  ASSUME Typed, Streaks, Behind, Moves, [IntegrityNext]_integrityVars
  PROVE  Behind'
<1>0. RowsOK /\ ScanOK /\ CountsOK /\ scan.rows \in SUBSET ReadRows
  BY DEF Typed, ScanOK, Scans
<1>1. ASSUME UNCHANGED failing, scan'.rows \subseteq scan.rows PROVE Behind'
  BY <1>0, <1>1 DEF Behind, Moves, ReadRows
<1>2. ASSUME scan' = Quiet \/ scan' = [Quiet EXCEPT !.pc = "batch"] PROVE Behind'
  <2>1. scan'.rows = {}
    BY <1>2 DEF Quiet
  <2> QED
    BY <2>1 DEF Behind
<1>3. CASE UNCHANGED scan /\ UNCHANGED failing
  BY <1>1, <1>3
<1>4. ASSUME NEW c \in Rescans, ScanStarts(c) PROVE Behind'
  BY <1>1, <1>2, <1>4 DEF ScanStarts
<1>5. CASE ScanReads
  <2>1. PICK rows \in SUBSET After(scan.last) :
          scan' = IF rows = {} THEN Quiet
                  ELSE [scan EXCEPT !.pc = "check",
                                    !.rows = {[num |-> n, html |-> html[n]] : n \in rows},
                                    !.full = Cardinality(rows) = integrityScope.batch]
    BY <1>5 DEF ScanReads
  <2>2. UNCHANGED <<html, failing>>
    BY <1>5 DEF ScanReads
  <2>3. ASSUME rows = {} PROVE Behind'
    <3>1. scan' = Quiet
      BY <2>1, <2>3, Zenon
    <3> QED
      BY <1>2, <3>1
  <2>4. ASSUME rows # {} PROVE Behind'
    <3> DEFINE R == {[num |-> n, html |-> html[n]] : n \in rows}
               full == (Cardinality(rows) = integrityScope.batch)
    <3>1. scan' = [scan EXCEPT !.pc = "check", !.rows = R, !.full = full]
      BY <2>1, <2>4, Zenon
    <3>2. scan \in Scans /\ full \in BOOLEAN /\ R \in SUBSET ReadRows
      <4>1. full \in BOOLEAN
        BY Zenon
      <4>2. R \in SUBSET ReadRows
        BY <1>0, <2>1 DEF After, RowsOK, ReadRows
      <4> HIDE DEF full, R
      <4> QED
        BY <1>0, <4>1, <4>2 DEF ScanOK
    <3>3. scan'.rows = R
      <4> HIDE DEF full, R
      <4> QED
        BY <3>1, <3>2, BatchTyped
    <3>4. \A r \in R : r.num \in Archived /\ r.html = html[r.num]
      BY <2>1 DEF After
    <3>5. \A r, q \in R : r.num = q.num => r = q
      OBVIOUS
    <3> HIDE DEF R
    <3> QED
      BY <2>2, <3>3, <3>4, <3>5 DEF Behind, Streaks
  <2> QED
    BY <2>3, <2>4
<1>6. CASE ScanChecks
  <2>1. InHand \in scan.rows /\ InHand \in ReadRows /\ (failing[InHand.num] > 0 => InHand.html = "altered")
    BY <1>6, WriteFacts DEF ScanChecks
  <2>2. InHand.num \in Archived /\ InHand.html \in Htmls \ {"absent"}
    BY <2>1 DEF ReadRows
  <2>3. scan'.rows = {} \/ scan'.rows = scan.rows
    BY <1>6, ScanMoves
  <2>4. CheckResult(InHand.html) = "failed" <=> InHand.html = "altered"
    BY <2>2, CheckResultFacts
  <2>5. failing' = [failing EXCEPT ![InHand.num] =
                      IF InHand.html = "altered" THEN OneMore(@) ELSE 0]
    BY <1>6, <2>4 DEF ScanChecks
  <2>6. UNCHANGED html
    BY <1>6 DEF ScanChecks
  <2>7. \A r \in scan.rows : r.num \in Archived /\ (failing'[r.num] > 0 => r.html = "altered")
    <3>1. \A r \in scan.rows : r.num \in Archived
      BY <1>0 DEF ReadRows
    <3>2. \A r \in scan.rows : r.num = InHand.num => r = InHand
      BY <2>1 DEF Behind
    <3> QED
      BY <1>0, <2>2, <2>5, <3>1, <3>2 DEF CountsOK, Behind
  <2> QED
    BY <2>3, <2>6, <2>7 DEF Behind
<1>7. CASE ScanWrites
  <2>1. UNCHANGED failing
    BY <1>7 DEF ScanWrites
  <2>2. scan'.rows \subseteq scan.rows
    BY <1>7, ScanMoves
  <2> QED
    BY <1>1, <2>1, <2>2
<1>8. CASE IntegrityRestart
  BY <1>2, <1>8 DEF IntegrityRestart
<1> QED
  BY <1>3, <1>4, <1>5, <1>6, <1>7, <1>8, Writers DEF ScanStep

LEMMA StreaksNext ==
  ASSUME Typed, Streaks, Behind, Counted, Moves, [IntegrityNext]_integrityVars
  PROVE  Streaks'
<1>0. VerdictOK /\ SeedOK /\ CountsOK /\ (\A n \in Archived : failing[n] \in 0 .. 2)
  BY DEF Typed, CountsOK
<1>1. ASSUME NEW n \in Archived PROVE failing'[n] > 0 => html'[n] = "altered"
  <2>1. CASE UNCHANGED failing
    BY <1>1, <2>1 DEF Streaks, Moves
  <2>2. CASE ScanChecks
    <3>1. /\ InHand \in ReadRows
          /\ InHand.html = "altered" => html[InHand.num] = "altered"
      BY <2>2, WriteFacts DEF ScanChecks
    <3>2. CheckResult(InHand.html) = "failed" <=> InHand.html = "altered"
      BY <3>1, CheckResultFacts DEF ReadRows
    <3> QED
      BY <1>0, <1>1, <2>2, <3>1, <3>2 DEF ScanChecks, CountsOK, Streaks, Moves, ReadRows
  <2> QED
    BY <2>1, <2>2, Writers
<1>2. ASSUME NEW n \in Archived PROVE failing[n] <= failing'[n] /\ failing'[n] \in 0 .. 2
  <2>1. CASE UNCHANGED failing
    BY <1>0, <1>2, <2>1 DEF CountsOK
  <2>2. CASE ScanChecks
    <3>1. InHand \in ReadRows /\ (failing[InHand.num] > 0 => InHand.html = "altered")
      BY <2>2, WriteFacts DEF ScanChecks
    <3>2. CheckResult(InHand.html) = "failed" <=> InHand.html = "altered"
      BY <3>1, CheckResultFacts DEF ReadRows
    <3>3. InHand.num \in Archived
      BY <3>1 DEF ReadRows
    <3>4. failing[InHand.num] <= OneMore(failing[InHand.num]) /\ OneMore(failing[InHand.num]) \in 0 .. 2
      BY <1>0, <3>3, OneMoreFacts
    <3> QED
      BY <1>0, <1>2, <2>2, <3>1, <3>2, <3>3, <3>4 DEF ScanChecks, CountsOK
  <2> QED
    BY <2>1, <2>2, Writers
<1>3. \A n \in Archived : verdict[n].streak \in 0 .. 2 /\ seed[n].read.streak \in 0 .. 2
  BY <1>0, SeedFacts, VerdictFacts DEF VerdictOK, SeedOK
<1>4. ASSUME NEW n \in Archived PROVE seed'[n].read.streak <= failing[n]
  <2>1. CASE UNCHANGED seed
    BY <1>4, <2>1 DEF Streaks
  <2>2. ASSUME NEW m \in Archived, MakeRow(m) PROVE seed'[n].read.streak <= failing[n]
    <3>1. UNCHANGED seed \/ seed' = [seed EXCEPT ![m].pc = "read"]
      BY <2>2 DEF MakeRow
    <3> QED
      BY <1>0, <1>4, <3>1 DEF SeedOK, Seeds, Streaks
  <2>3. ASSUME NEW m \in Archived, SeedRead(m) \/ SeedWrite(m) PROVE seed'[n].read.streak <= failing[n]
    <3>1. \/ seed' = [seed EXCEPT ![m] = NoSeed]
          \/ seed' = [seed EXCEPT ![m] = [pc |-> "write", read |-> verdict[m]]]
      BY <2>3 DEF SeedRead, SeedWrite
    <3> QED
      BY <1>0, <1>4, <3>1 DEF SeedOK, Streaks, NoSeed, Unseen
  <2>4. CASE IntegrityRestart
    BY <1>0, <1>4, <2>4 DEF IntegrityRestart, NoSeed, Unseen
  <2> QED
    BY <2>1, <2>2, <2>3, <2>4, Writers
<1>5. ASSUME NEW n \in Archived PROVE verdict'[n].streak <= failing[n]
  <2>1. CASE UNCHANGED verdict
    BY <1>5, <2>1 DEF Streaks
  <2>2. ASSUME NEW m \in Archived, SeedWrite(m) PROVE verdict'[n].streak <= failing[n]
    BY <1>0, <1>5, <2>2 DEF SeedWrite, VerdictOK, Streaks
  <2>3. ASSUME NEW m \in Archived, NEW f \in Fillers, MarkWrite(f, m)
        PROVE  verdict'[n].streak <= failing[n]
    BY <1>0, <1>5, <2>3 DEF MarkWrite, VerdictOK, Streaks
  <2>4. CASE ScanWrites
    <3>1. InHand \in ReadRows
      BY <2>4, WriteFacts DEF ScanWrites
    <3>2. InHand.num \in Archived /\ (CheckResult(InHand.html) = "failed" => InHand.html = "altered")
      BY <3>1, CheckResultFacts DEF ReadRows
    <3>3. CheckResult(InHand.html) = "failed" => OneMore(scan.read.streak) <= failing[InHand.num]
      BY <2>4, <3>2 DEF ScanWrites, Counted
    <3>4. ASSUME UNCHANGED verdict => FALSE
          PROVE  /\ verdict'[InHand.num].streak =
                      IF CheckResult(InHand.html) = "failed" THEN OneMore(scan.read.streak) ELSE 0
                 /\ \A m \in Archived \ {InHand.num} : verdict'[m] = verdict[m]
      BY <2>4, <3>2, <3>4, VerdictWritten
    <3> QED
      BY <1>0, <1>5, <2>1, <3>2, <3>3, <3>4 DEF Streaks
  <2> QED
    BY <2>1, <2>2, <2>3, <2>4, Writers
<1>6. Typed'
  BY TypeNext
<1>7. \A n \in Archived : verdict'[n].streak \in 0 .. 2 /\ seed'[n].read.streak \in 0 .. 2
  BY <1>6, SeedFacts, VerdictFacts DEF Typed, VerdictOK, SeedOK
<1> QED
  BY <1>0, <1>1, <1>2, <1>4, <1>5, <1>7 DEF Streaks

LEMMA CountedNext ==
  ASSUME Typed, Streaks, Behind, Counted, [IntegrityNext]_integrityVars
  PROVE  Counted'
<1>0. ScanOK /\ CountsOK /\ VerdictOK
  BY DEF Typed
<1>1. CASE UNCHANGED scan /\ UNCHANGED failing
  BY <1>1 DEF Counted, InHand
<1>2. ASSUME scan'.pc # "write" PROVE Counted'
  BY <1>2 DEF Counted
<1>3. ASSUME NEW c \in Rescans, ScanStarts(c), UNCHANGED failing PROVE Counted'
  <2>1. UNCHANGED scan \/ scan' = [Quiet EXCEPT !.pc = "batch"]
    BY <1>3 DEF ScanStarts
  <2> QED
    BY <1>1, <1>2, <1>3, <2>1 DEF Quiet
<1>4. CASE ScanReads
  BY <1>2, <1>4, ScanMoves
<1>5. CASE ScanChecks
  <2>1. InHand \in ReadRows
    BY <1>5, WriteFacts DEF ScanChecks
  <2>2. InHand.num \in Archived /\ (CheckResult(InHand.html) = "failed" <=> InHand.html = "altered")
    BY <2>1, CheckResultFacts DEF ReadRows
  <2>3. ASSUME scan' # Quiet PROVE Counted'
    <3>1. scan'.rows = scan.rows /\ scan'.read = verdict[InHand.num]
      BY <1>5, <2>3, ScanMoves
    <3>2. InHand' = InHand
      BY <3>1 DEF InHand
    <3>3. InHand.html = "altered" => failing'[InHand.num] = OneMore(failing[InHand.num])
      BY <1>0, <1>5, <2>2 DEF ScanChecks, CountsOK
    <3>4. OneMore(verdict[InHand.num].streak) <= OneMore(failing[InHand.num])
      BY <1>0, <2>2, OneMoreFacts, VerdictFacts DEF VerdictOK, CountsOK, Streaks
    <3> QED
      BY <3>1, <3>2, <3>3, <3>4 DEF Counted
  <2>4. ASSUME scan' = Quiet PROVE Counted'
    BY <1>2, <2>4 DEF Quiet
  <2> QED
    BY <2>3, <2>4
<1>6. CASE ScanWrites
  BY <1>2, <1>6, ScanMoves
<1>7. CASE IntegrityRestart
  BY <1>2, <1>7 DEF IntegrityRestart, Quiet
<1>8. \A c \in Rescans : ScanStarts(c) => UNCHANGED failing
  BY DEF ScanStarts
<1> QED
  BY <1>1, <1>3, <1>4, <1>5, <1>6, <1>7, <1>8, Writers DEF ScanStep

\* The inductive invariant.
LEMMA IntegrityInvNext == IntegrityInv /\ [IntegrityNext]_integrityVars => IntegrityInv'
<1> SUFFICES ASSUME IntegrityInv, [IntegrityNext]_integrityVars PROVE IntegrityInv'
  OBVIOUS
<1>1. Captured' /\ Moves
  BY CapturedNext DEF IntegrityInv
<1>2. Typed'
  BY TypeNext DEF IntegrityInv
<1>3. Founded' /\ Behind' /\ Streaks' /\ Counted'
  BY <1>1, FoundedNext, BehindNext, StreaksNext, CountedNext DEF IntegrityInv
<1> QED
  BY <1>1, <1>2, <1>3 DEF IntegrityInv

\* What a reader is told comes from a verdict or, without one, from the page.
LEMMA ShownFacts ==
  ASSUME NEW n \in Archived, verdict[n].result \in Results, html[n] \in Htmls
  PROVE  /\ verdict[n].result \in {"skipped", "passed", "failed"} => Shown(n) = verdict[n].result
         /\ verdict[n].result = "null" => Shown(n) = "pending"
         /\ verdict[n].result = "unseen" /\ html[n] \notin Pages => Shown(n) = "pending"
         /\ verdict[n].result = "unseen" /\ html[n] \in Pages => Shown(n) = CheckResult(html[n])
         /\ html[n] \in Pages => (CheckResult(html[n]) = "failed" <=> html[n] = "altered")
         /\ verdict[n].result \in {"unseen", "null", "skipped", "passed", "failed"}
<1>1. ASSUME verdict[n].result \in {"skipped", "passed", "failed"} PROVE Shown(n) = verdict[n].result
  BY <1>1 DEF Shown
<1>2. ASSUME verdict[n].result = "null" PROVE Shown(n) = "pending"
  BY <1>2 DEF Shown
<1>3. ASSUME verdict[n].result = "unseen", html[n] \notin Pages PROVE Shown(n) = "pending"
  BY <1>3 DEF Shown, Htmls, Pages
<1>4. ASSUME verdict[n].result = "unseen", html[n] \in Pages PROVE Shown(n) = CheckResult(html[n])
  BY <1>4 DEF Shown, Pages
<1>5. ASSUME html[n] \in Pages PROVE CheckResult(html[n]) = "failed" <=> html[n] = "altered"
  BY <1>5, CheckResultFacts DEF Pages, Htmls
<1> QED
  BY <1>1, <1>2, <1>3, <1>4, <1>5 DEF Results

LEMMA InvHonest == IntegrityInv => VerdictsHonest
<1> SUFFICES ASSUME IntegrityInv, NEW n \in Archived
             PROVE  /\ captures[n] <= 1
                    /\ Shown(n) \in {"passed", "failed"} => html[n] \in {"intact", "altered"}
                    /\ Shown(n) = "failed" => html[n] = "altered"
                    /\ verdict[n].streak <= failing[n]
  BY DEF VerdictsHonest
<1>1. captures[n] <= 1 /\ verdict[n].streak <= failing[n]
  BY DEF IntegrityInv, Captured, Streaks
<1>2. verdict[n].result \in Results /\ html[n] \in Htmls
  BY VerdictFacts DEF IntegrityInv, Typed, VerdictOK, RowsOK
<1>3. Shown(n) \in {"passed", "failed"} => html[n] \in Pages
  BY <1>2, ShownFacts DEF IntegrityInv, Founded
<1>4. Shown(n) = "failed" => html[n] = "altered"
  BY <1>2, ShownFacts DEF IntegrityInv, Founded
<1> QED
  BY <1>1, <1>3, <1>4 DEF Pages

\* A row gets its page once, and nobody is told more of it than is so, whoever
\* writes the verdicts at the same time.
THEOREM VerdictsAreHonest == IntegritySpec => []VerdictsHonest
<1>1. IntegrityInit => IntegrityInv
  BY TypeInit, IntegrityInvInit DEF IntegrityInv
<1> QED
  BY <1>1, IntegrityInvNext, InvHonest, PTL DEF IntegritySpec

-----------------------------------------------------------------------------
(* Side by side                                                            *)

\* Every variable of both components has its type, whichever of them moves.
THEOREM SyncTypeCorrect == SyncSpec => []SyncTypeOK
<1>1. SyncInit => IInv /\ IntegrityInv
  BY InitHolds, TypeInit, IntegrityInvInit DEF SyncInit, IntegrityInv
<1>2. IInv /\ IntegrityInv /\ [SyncNext]_all => (IInv /\ IntegrityInv)'
  <2> SUFFICES ASSUME IInv, IntegrityInv, [SyncNext]_all PROVE IInv' /\ IntegrityInv'
    OBVIOUS
  <2>1. [Next]_vars /\ [IntegrityNext]_integrityVars
    BY DEF SyncNext, PhaseSteps, IntegritySteps, all
  <2> QED
    BY <2>1, StepHolds, IntegrityInvNext
<1>3. IInv /\ IntegrityInv => SyncTypeOK
  BY Parts DEF IInv, IntegrityInv, SyncTypeOK
<1> QED
  BY <1>1, <1>2, <1>3, PTL DEF SyncSpec
=============================================================================
