---------------------------- MODULE MCOperations ----------------------------
(***************************************************************************)
(* Instances of DbMirror and AdminAnnouncement for TLC, side by side in    *)
(* one run: a behaviour belongs to one of them, and the variables of the   *)
(* other stay as they are.                                                 *)
(***************************************************************************)
EXTENDS DbMirror, AdminAnnouncement, TLC

CONSTANTS r0, r1, r2, t1, c1, c2, x1, x2, h1, h2

VARIABLE component    \* whose behaviour this is

all == <<component, mirrorVars, announceVars>>

OperationsInit ==
  /\ component \in {"mirror", "announcement"}
  /\ MirrorInit /\ (component # "mirror" => channel = {})
  /\ AnnounceInit /\ (component # "announcement" => \A h \in Receivers : receiver[h] = "active")

MirrorSteps == component = "mirror" /\ MirrorNext
AnnouncementSteps == component = "announcement" /\ AnnounceNext

OperationsNext ==
  /\ UNCHANGED component
  /\ \/ MirrorSteps /\ UNCHANGED announceVars
     \/ AnnouncementSteps /\ UNCHANGED mirrorVars

OperationsSpec == OperationsInit /\ [][OperationsNext]_all

\* Runs, clicks, texts and receivers are told apart by nothing but their names, and
\* no property of the run is a liveness property.
Interchangeable ==
  Permutations({r1, r2}) \cup Permutations({c1, c2})
    \cup Permutations({x1, x2}) \cup Permutations({h1, h2})
-----------------------------------------------------------------------------
OperationsTypeOK == MirrorTypeOK /\ AnnounceTypeOK
=============================================================================
