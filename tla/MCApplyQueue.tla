---------------------------- MODULE MCApplyQueue ----------------------------
(* Instances of ApplyQueue for TLC.                                        *)
EXTENDS ApplyQueue, TLC

CONSTANTS s1, s2

\* The first scan and the retry scan.
FirstAndRetry == <<"not_requested", "unavailable">>

\* All of them.
AllScans == <<"not_requested", "not_supported", "unavailable">>

\* Two notices for the full sync; one without a summary and one with.
TwoAndOne ==
  [fullSync |-> [{1, 2} -> {"missing", "nsm"}],
   summaryBackfill |-> {1 :> "not_requested" @@ 2 :> "ready"}]

\* Full-sync batches of two, summary batches of one.
TwoOrOne == [fullSync |-> 2, summaryBackfill |-> 1]
=============================================================================
