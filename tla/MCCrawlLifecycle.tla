-------------------------- MODULE MCCrawlLifecycle --------------------------
(* Instances of CrawlLifecycle for TLC. *)
EXTENDS CrawlInvariant, TLC

CONSTANTS j1, j2, u1, u2, u3, w1, w2

(* u1 is the seed of j1 and links to u2; u3 is all of j2. *)
MCJobOf == [u \in Urls |-> IF u = u3 THEN j2 ELSE j1]
MCSeedOf == [j \in Jobs |-> IF j = j2 THEN u3 ELSE u1]

WorkerSymmetry == Permutations(Workers)
=============================================================================
