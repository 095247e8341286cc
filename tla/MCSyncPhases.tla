---------------------------- MODULE MCSyncPhases ----------------------------
(* Instances of SyncPhases for TLC.                                        *)
EXTENDS SyncPhases, TLC

CONSTANTS h1, processNewNotices, processPendingBills
=============================================================================
