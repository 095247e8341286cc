---------------------------- MODULE MCCrawlCycle ----------------------------
(* Instances of CrawlCycle for TLC.                                        *)
EXTENDS CrawlCycle

\* Two notices, a cache that holds one of them, and nothing fails; or one
\* notice that the rest of the system sees to as well, and one failure; or one
\* notice and two failures.
TwoOrShared ==
  {[notices |-> {1, 2}, elsewhere |-> {}, size |-> 1, failures |-> 0],
   [notices |-> {1}, elsewhere |-> {1}, size |-> 1, failures |-> 1],
   [notices |-> {1}, elsewhere |-> {}, size |-> 1, failures |-> 2]}

\* Two notices, and nothing fails.
TwoInPeace == {[notices |-> {1, 2}, elsewhere |-> {}, size |-> 2, failures |-> 0]}
=============================================================================
