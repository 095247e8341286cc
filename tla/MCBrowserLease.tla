--------------------------- MODULE MCBrowserLease ---------------------------
(* Instances of BrowserLease for TLC.                                      *)
EXTENDS BrowserLease, TLC

CONSTANTS j1, j2, j3
=============================================================================
