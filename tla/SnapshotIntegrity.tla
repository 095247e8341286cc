-------------------------- MODULE SnapshotIntegrity --------------------------
(***************************************************************************)
(* The snapshot of an archived notice's page and the verdict on it.        *)
(*                                                                         *)
(* A page that could not be captured when its row was made leaves a        *)
(* deficit (seedIntegrityDeficit); a re-crawl or the backfill fills it,    *)
(* once, and clears the verdict (markIntegrityStatePendingRecheck); the    *)
(* scan compares each page with its hash and writes the verdict.  All of   *)
(* them read a record of the verdicts and write it back one await later.   *)
(***************************************************************************)
EXTENDS Naturals, FiniteSets

CONSTANTS
  Archived,          \* notices, by the order their rows are made in
  IntegrityScopes    \* bounds: the rows to be made and those there are at first, none of
                     \* which has its page; the scan's batch size, the limit of the
                     \* backfill, who rescans, whether a full sync re-crawls, and how
                     \* often the outside world interferes and how often something fails

Htmls == {"absent", "none", "intact", "altered"}     \* absent: there is no row
Results == {"unseen", "null", "skipped", "passed", "failed"}   \* unseen: no record
Fillers == {"recrawl", "backfill"}
Rescans == {"bootstrap", "cron"}

ASSUME IntegrityAssumption ==
  /\ Archived \subseteq Nat \ {0} /\ IsFiniteSet(Archived)
  /\ IntegrityScopes \subseteq [rows : SUBSET Archived, old : SUBSET Archived,
                                batch : Nat \ {0}, limit : Nat \ {0},
                                rescans : SUBSET Rescans, recrawls : BOOLEAN, events : Nat, mishaps : Nat]

VARIABLES
  integrityScope,  \* the bounds of this behaviour
  html,            \* the snapshot of each row
  origin,          \* the system its row is from; moved: NSM, then taken over by PAL
  source,          \* its page: up, gone; closed when the row says so too
  verdict,         \* its integrity state: latestResult and failureStreak
  seed,            \* seedIntegrityDeficit of each row: pc, and the state it read
  filler,          \* the fills of each row under way: pc
  rescan,          \* runSnapshotArtifactBackfill and the rescan after it: pc
  scan,            \* runIntegrityScan: pc, lastSeenId, the rows left of the batch as
                   \* they were read, whether it was a full one, the state it read
  captures,        \* how often a row got a page (history)
  failing,         \* failed checks in a row, 2 for more (history)
  events, mishaps

integrityVars == <<integrityScope, html, origin, source, verdict, seed, filler, rescan, scan,
                   captures, failing, events, mishaps>>

Unseen == [result |-> "unseen", streak |-> 0]
Quiet == [pc |-> "idle", last |-> 0, rows |-> {}, full |-> FALSE, read |-> Unseen]
NoSeed == [pc |-> "idle", read |-> Unseen]

IntegrityInit ==
  /\ integrityScope \in IntegrityScopes
  /\ html = [n \in Archived |-> IF n \in integrityScope.old THEN "none" ELSE "absent"]
  /\ origin \in {o \in [Archived -> {"pal", "nsm"}] :
                   \A n \in Archived : o[n] = "nsm" => n \in integrityScope.old}
  /\ source = [n \in Archived |-> "up"] /\ verdict = [n \in Archived |-> Unseen]
  /\ seed = [n \in Archived |-> NoSeed]
  /\ filler = [f \in Fillers |-> [n \in Archived |-> "idle"]]
  /\ rescan = [c \in Rescans |-> "idle"] /\ scan = Quiet
  /\ captures = [n \in Archived |-> 0] /\ failing = [n \in Archived |-> 0]
  /\ events = 0 /\ mishaps = 0

Mishap == mishaps < integrityScope.mishaps /\ mishaps' = mishaps + 1
Event == events < integrityScope.events /\ events' = events + 1

\* One more, where two are as good as many.
OneMore(k) == IF k < 2 THEN k + 1 ELSE 2

-----------------------------------------------------------------------------
(* A row is made: upsertNoticeArchive, seedIntegrityDeficit                *)

\* With its page, or without and with the deficit still to be recorded.
MakeRow(n) ==
  /\ n \in integrityScope.rows /\ html[n] = "absent"
  /\ \A m \in integrityScope.rows : m < n => html[m] # "absent"
  /\ \E h \in {"none", "intact"}, o \in {"pal", "nsm"} :
       /\ html' = [html EXCEPT ![n] = h] /\ origin' = [origin EXCEPT ![n] = o]
       /\ IF h = "none"
          THEN seed' = [seed EXCEPT ![n].pc = "read"] /\ UNCHANGED captures
          ELSE captures' = [captures EXCEPT ![n] = OneMore(@)] /\ UNCHANGED seed
  /\ UNCHANGED <<integrityScope, source, verdict, filler, rescan, scan, failing, events, mishaps>>

\* A verified snapshot is not downgraded.
SeedRead(n) ==
  /\ seed[n].pc = "read"
  /\ seed' = [seed EXCEPT ![n] = IF verdict[n].result = "passed" THEN NoSeed
                                 ELSE [pc |-> "write", read |-> verdict[n]]]
  /\ UNCHANGED <<integrityScope, html, origin, source, verdict, filler, rescan, scan,
                 captures, failing, events, mishaps>>

\* Whether a record can be written by who read r: notice_num is unique.
Writable(n, r) == r.result = "unseen" => verdict[n].result = "unseen"

\* A failing write is logged, one that meets another record too.
SeedWrite(n) ==
  /\ seed[n].pc = "write"
  /\ seed' = [seed EXCEPT ![n] = NoSeed]
  /\ \/ /\ verdict' = IF Writable(n, seed[n].read)
                      THEN [verdict EXCEPT ![n] = [result |-> "skipped",
                                                   streak |-> seed[n].read.streak]]
                      ELSE verdict
        /\ UNCHANGED mishaps
     \/ Mishap /\ UNCHANGED verdict
  /\ UNCHANGED <<integrityScope, html, origin, source, filler, rescan, scan,
                 captures, failing, events>>

-----------------------------------------------------------------------------
(* Fills: fillMissingSnapshotArtifacts, backfillMissingSnapshotArtifacts   *)

At(f, n, pc) == filler' = [filler EXCEPT ![f][n] = pc]

\* An upsert of a row that exists brings a page along.
Recrawl(n) ==
  /\ integrityScope.recrawls /\ html[n] = "none" /\ filler["recrawl"][n] = "idle"
  /\ At("recrawl", n, "fill")
  /\ UNCHANGED <<integrityScope, html, origin, source, verdict, seed, rescan, scan,
                 captures, failing, events, mishaps>>

\* Active rows without a page whose contentId is set, or is not.
MissingFrom(origins) ==
  {n \in Archived : html[n] = "none" /\ origin[n] \in origins /\ source[n] # "closed"}

NewestOf(rows) == {n \in rows : Cardinality({m \in rows : m > n}) < integrityScope.limit}

\* getNoticesWithMissingSnapshotArtifacts: the newest rows of either system;
\* what PAL has taken over is left out of those that the limit let through.
Targets ==
  NewestOf(MissingFrom({"pal"}))
    \cup {n \in NewestOf(MissingFrom({"nsm", "moved"})) : origin[n] = "nsm"}

BackfillRuns == \E n \in Archived : filler["backfill"][n] # "idle"

\* The pages are captured side by side or one after the other.  A row that PAL
\* took over meanwhile is left alone; a page that is gone cannot be captured.
Capture(n) ==
  /\ filler["backfill"][n] = "capture"
  /\ \/ /\ At("backfill", n, IF source[n] = "up" /\ origin[n] # "moved" THEN "fill" ELSE "idle")
        /\ UNCHANGED mishaps
     \/ Mishap /\ At("backfill", n, "idle")
  /\ UNCHANGED <<integrityScope, html, origin, source, verdict, seed, rescan, scan,
                 captures, failing, events>>

\* Mutant of Fillable: the UPDATE has no IS NULL criterion.
FillableAgain(n) == html[n] # "absent"

\* The criteria of the UPDATE.
Fillable(n) == html[n] = "none"

\* A failing UPDATE is logged.
Fill(f, n) ==
  /\ filler[f][n] = "fill"
  /\ \/ /\ IF Fillable(n)
           THEN /\ html' = [html EXCEPT ![n] = "intact"]
                /\ captures' = [captures EXCEPT ![n] = OneMore(@)]
                /\ At(f, n, "look")
           ELSE At(f, n, "idle") /\ UNCHANGED <<html, captures>>
        /\ UNCHANGED mishaps
     \/ Mishap /\ At(f, n, "idle") /\ UNCHANGED <<html, captures>>
  /\ UNCHANGED <<integrityScope, origin, source, verdict, seed, rescan, scan, failing, events>>

\* markIntegrityStatePendingRecheck: a deficit is looked for, ...
MarkRead(f, n) ==
  /\ filler[f][n] = "look"
  /\ At(f, n, IF verdict[n].result = "skipped" THEN "mark" ELSE "idle")
  /\ UNCHANGED <<integrityScope, html, origin, source, verdict, seed, rescan, scan,
                 captures, failing, events, mishaps>>

\* ... and cleared, whatever the record says by now.
MarkWrite(f, n) ==
  /\ filler[f][n] = "mark"
  /\ At(f, n, "idle")
  /\ \/ verdict' = [verdict EXCEPT ![n] = [result |-> "null", streak |-> 0]] /\ UNCHANGED mishaps
     \/ Mishap /\ UNCHANGED verdict
  /\ UNCHANGED <<integrityScope, html, origin, source, seed, rescan, scan,
                 captures, failing, events>>

-----------------------------------------------------------------------------
(* runSnapshotArtifactBackfill, then runScheduledIntegrityRescan           *)

\* The cron comes again and again, the bootstrap once.  A backfill that another
\* one started is not waited for.
RescanStarts(c) ==
  /\ c \in integrityScope.rescans /\ rescan[c] = "idle"
  /\ IF BackfillRuns \/ Targets = {}
     THEN rescan' = [rescan EXCEPT ![c] = "scan"] /\ UNCHANGED filler
     ELSE /\ rescan' = [rescan EXCEPT ![c] = "repair"]
          /\ filler' = [filler EXCEPT !["backfill"] =
                          [n \in Archived |-> IF n \in Targets THEN "capture" ELSE "idle"]]
  /\ UNCHANGED <<integrityScope, html, origin, source, verdict, seed, scan,
                 captures, failing, events, mishaps>>

RepairDone(c) ==
  /\ rescan[c] = "repair" /\ ~BackfillRuns
  /\ rescan' = [rescan EXCEPT ![c] = "scan"]
  /\ UNCHANGED <<integrityScope, html, origin, source, verdict, seed, filler, scan,
                 captures, failing, events, mishaps>>

\* The phase runs at most once at a time.
ScanStarts(c) ==
  /\ rescan[c] = "scan"
  /\ rescan' = [rescan EXCEPT ![c] = IF c = "cron" THEN "idle" ELSE "done"]
  /\ scan' = IF scan.pc = "idle" THEN [Quiet EXCEPT !.pc = "batch"] ELSE scan
  /\ UNCHANGED <<integrityScope, html, origin, source, verdict, seed, filler,
                 captures, failing, events, mishaps>>

-----------------------------------------------------------------------------
(* runIntegrityScan                                                        *)

After(last) == {n \in Archived : html[n] # "absent" /\ n > last}

\* A batch, with what its rows say now.
ScanReads ==
  /\ scan.pc = "batch"
  /\ LET rows == {n \in After(scan.last) :
                    Cardinality({m \in After(scan.last) : m < n}) < integrityScope.batch}
     IN scan' = IF rows = {} THEN Quiet
                ELSE [scan EXCEPT !.pc = "check", !.rows = {[num |-> n, html |-> html[n]] : n \in rows},
                                  !.full = Cardinality(rows) = integrityScope.batch]
  /\ UNCHANGED <<integrityScope, html, origin, source, verdict, seed, filler, rescan,
                 captures, failing, events, mishaps>>

InHand == CHOOSE r \in scan.rows : \A q \in scan.rows : r.num <= q.num

CheckResult(h) ==
  CASE h = "none" -> "skipped" [] h = "intact" -> "passed" [] h = "altered" -> "failed"

\* The check is saved and the record looked up.
ScanChecks ==
  LET n == InHand.num IN
  /\ scan.pc = "check"
  /\ \/ scan' = [scan EXCEPT !.pc = "write", !.read = verdict[n]] /\ UNCHANGED mishaps
     \/ Mishap /\ scan' = Quiet
  /\ failing' = [failing EXCEPT ![n] = IF CheckResult(InHand.html) = "failed" THEN OneMore(@) ELSE 0]
  /\ UNCHANGED <<integrityScope, html, origin, source, verdict, seed, filler, rescan,
                 captures, events>>

\* A record made meanwhile breaks the scan off, and so does a failure.
ScanWrites ==
  LET n == InHand.num
      result == CheckResult(InHand.html)
      rest == scan.rows \ {InHand}
  IN
  /\ scan.pc = "write"
  /\ \/ /\ Writable(n, scan.read)
        /\ verdict' = [verdict EXCEPT ![n] =
                         [result |-> result,
                          streak |-> IF result = "failed" THEN OneMore(scan.read.streak) ELSE 0]]
        /\ scan' = IF rest # {} THEN [scan EXCEPT !.pc = "check", !.rows = rest, !.read = Unseen]
                   ELSE IF scan.full THEN [Quiet EXCEPT !.pc = "batch", !.last = n]
                   ELSE Quiet
        /\ UNCHANGED mishaps
     \/ ~Writable(n, scan.read) /\ scan' = Quiet /\ UNCHANGED <<verdict, mishaps>>
     \/ Mishap /\ scan' = Quiet /\ UNCHANGED verdict
  /\ UNCHANGED <<integrityScope, html, origin, source, seed, filler, rescan,
                 captures, failing, events>>

-----------------------------------------------------------------------------
(* What happens around it                                                  *)

\* A page is withdrawn, its row closed, a bill taken over by PAL; or what is
\* stored is altered by someone else.
World ==
  /\ Event
  /\ \E n \in Archived :
       \/ /\ html[n] # "absent" /\ source[n] # "closed"
          /\ source' = [source EXCEPT ![n] = IF @ = "up" THEN "gone" ELSE "closed"]
          /\ UNCHANGED <<html, origin>>
       \/ /\ html[n] # "absent" /\ origin[n] = "nsm"
          /\ origin' = [origin EXCEPT ![n] = "moved"] /\ UNCHANGED <<html, source>>
       \/ /\ html[n] = "intact"
          /\ html' = [html EXCEPT ![n] = "altered"] /\ UNCHANGED <<origin, source>>
  /\ UNCHANGED <<integrityScope, verdict, seed, filler, rescan, scan, captures, failing, mishaps>>

\* The process stops and starts.
IntegrityRestart ==
  /\ Mishap
  /\ seed' = [n \in Archived |-> NoSeed]
  /\ filler' = [f \in Fillers |-> [n \in Archived |-> "idle"]]
  /\ rescan' = [c \in Rescans |-> "idle"] /\ scan' = Quiet
  /\ UNCHANGED <<integrityScope, html, origin, source, verdict, captures, failing, events>>

ScanStep == ScanReads \/ ScanChecks \/ ScanWrites
RescanStep(c) == RescanStarts(c) \/ RepairDone(c) \/ ScanStarts(c)
FillStep(n) ==
  \/ Capture(n)
  \/ \E f \in Fillers : Fill(f, n) \/ MarkRead(f, n) \/ MarkWrite(f, n)

IntegrityNext ==
  \/ \E n \in Archived : MakeRow(n) \/ SeedRead(n) \/ SeedWrite(n) \/ Recrawl(n) \/ FillStep(n)
  \/ \E c \in Rescans : RescanStep(c)
  \/ ScanStep
  \/ World \/ IntegrityRestart

IntegritySpec == IntegrityInit /\ [][IntegrityNext]_integrityVars

\* Calls return, and the cron fires for ever.
IntegrityFairness ==
  /\ WF_integrityVars(ScanStep) /\ WF_integrityVars(RescanStep("cron"))
  /\ \A n \in Archived : WF_integrityVars(FillStep(n))
-----------------------------------------------------------------------------
(* Properties                                                              *)

\* Type invariant.
IntegrityTypeOK ==
  /\ integrityScope \in IntegrityScopes
  /\ html \in [Archived -> Htmls] /\ origin \in [Archived -> {"pal", "nsm", "moved"}]
  /\ source \in [Archived -> {"up", "gone", "closed"}]
  /\ verdict \in [Archived -> [result : Results, streak : 0 .. 2]]
  /\ seed \in [Archived -> [pc : {"idle", "read", "write"},
                            read : [result : Results, streak : 0 .. 2]]]
  /\ filler \in [Fillers -> [Archived -> {"idle", "capture", "fill", "look", "mark"}]]
  /\ rescan \in [Rescans -> {"idle", "repair", "scan", "done"}]
  /\ scan \in [pc : {"idle", "batch", "check", "write"}, last : Archived \cup {0},
               rows : SUBSET [num : Archived, html : Htmls \ {"absent"}],
               full : BOOLEAN, read : [result : Results, streak : 0 .. 2]]
  /\ scan.pc \in {"check", "write"} => scan.rows # {}
  /\ captures \in [Archived -> 0 .. 2] /\ failing \in [Archived -> 0 .. 2]
  /\ events \in Nat /\ events <= integrityScope.events
  /\ mishaps \in Nat /\ mishaps <= integrityScope.mishaps

\* verifyAndRefreshIntegrity: what a reader is told of the snapshot.
Shown(n) ==
  CASE verdict[n].result = "null" -> "pending"
    [] verdict[n].result # "unseen" /\ verdict[n].result # "null" -> verdict[n].result
    [] verdict[n].result = "unseen" /\ html[n] \in {"absent", "none"} -> "pending"
    [] verdict[n].result = "unseen" /\ html[n] \in {"intact", "altered"} -> CheckResult(html[n])

\* A row gets a page once, whoever fills it at the same time; nobody is told of a
\* verdict on a page there is none of, nor of a mismatch where there is none; and
\* no failure streak is longer than the failed checks in a row.
VerdictsHonest ==
  \A n \in Archived :
    /\ captures[n] <= 1
    /\ Shown(n) \in {"passed", "failed"} => html[n] \in {"intact", "altered"}
    /\ Shown(n) = "failed" => html[n] = "altered"
    /\ verdict[n].streak <= failing[n]

\* Whatever was written of a snapshot by those that had read it before, a scan
\* puts it right: again and again all that is told fits what is stored.  And the
\* backfill repairs every row it selects, unless its page is gone.
VerdictsSettle ==
  /\ []<>(\A n \in Archived :
            html[n] # "absent" => Shown(n) = CheckResult(html[n]))
  /\ []<>(\A n \in Targets : source[n] = "gone")
=============================================================================
