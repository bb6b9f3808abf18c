--------------------------- MODULE MCCrawlWakeups ---------------------------
(* Instances of CrawlWakeups for TLC. *)
EXTENDS CrawlWakeups

CONSTANTS j1, u1, u2, w1

(* u1 is the seed of j1 and links to u2. *)
MCJobOf == [u \in Urls |-> j1]
MCSeedOf == [j \in Jobs |-> u1]
=============================================================================
