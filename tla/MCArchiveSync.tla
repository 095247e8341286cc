--------------------------- MODULE MCArchiveSync ---------------------------
(***************************************************************************)
(* Instances of SyncPhases and SnapshotIntegrity for TLC, side by side in  *)
(* one run: a behaviour belongs to one of them, and the variables of the   *)
(* other stay as they are.                                                 *)
(***************************************************************************)
EXTENDS SyncPhases, SnapshotIntegrity, TLC

CONSTANTS h1, processNewNotices, processPendingBills

VARIABLE component    \* whose behaviour this is

all == <<component, vars, integrityVars>>

\* A row that is made and re-crawled, with a failure; a row that the bootstrap and
\* the cron scan and fill at once; two rows, a batch of one and a limit of one; a
\* row made while another is scanned.
Snapshots ==
  {[rows |-> {1}, old |-> {}, batch |-> 2, limit |-> 2, rescans |-> {"cron"},
    recrawls |-> TRUE, events |-> 1, mishaps |-> 1],
   [rows |-> {}, old |-> {1}, batch |-> 2, limit |-> 2, rescans |-> Rescans,
    recrawls |-> TRUE, events |-> 1, mishaps |-> 0],
   [rows |-> {}, old |-> {1, 2}, batch |-> 1, limit |-> 1, rescans |-> {"cron"},
    recrawls |-> FALSE, events |-> 2, mishaps |-> 0],
   [rows |-> {2}, old |-> {1}, batch |-> 2, limit |-> 2, rescans |-> {"cron"},
    recrawls |-> FALSE, events |-> 1, mishaps |-> 0]}

SyncInit ==
  /\ component \in {"phases", "integrity"}
  /\ Init /\ IntegrityInit
  /\ component # "integrity" =>
       /\ integrityScope = CHOOSE s \in Snapshots : s.old = {}
       /\ origin = [n \in Archived |-> "pal"]
  /\ component # "phases" => backlog = {}

PhaseSteps == component = "phases" /\ Next
IntegritySteps == component = "integrity" /\ IntegrityNext

SyncNext ==
  /\ UNCHANGED component
  /\ \/ PhaseSteps /\ UNCHANGED integrityVars
     \/ IntegritySteps /\ UNCHANGED vars

\* An action of a component, with all else unchanged.
Of(name, A, rest) == component = name /\ A /\ UNCHANGED <<component, rest>>

SyncFairness ==
  /\ \A c \in Callers : /\ WF_all(Of("phases", StageBegins(c), integrityVars))
                        /\ WF_all(Of("phases", StageEnds(c), integrityVars))
  /\ WF_all(Of("integrity", ScanStep, vars))
  /\ WF_all(Of("integrity", RescanStep("cron"), vars))
  /\ \A n \in Archived : WF_all(Of("integrity", FillStep(n), vars))

SyncSpec == SyncInit /\ [][SyncNext]_all /\ SyncFairness
-----------------------------------------------------------------------------
\* The type invariants of both components.
SyncTypeOK == TypeOK /\ IntegrityTypeOK

\* Whatever starts ends: the pipeline, in the behaviours that have one, and every
\* phase of it.
SyncPhasesEnd == component = "phases" => EveryPhaseEnds

\* Phases end, and verdicts follow the pages.
SyncSettles == SyncPhasesEnd /\ VerdictsSettle
=============================================================================
