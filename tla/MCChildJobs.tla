----------------------------- MODULE MCChildJobs -----------------------------
(* Instances of ChildJobs for TLC. *)
EXTENDS ChildJobsInvariant, TLC

CONSTANTS r, c1, c2, c3, home, docs, about, ext, w1, w2

(* The home page links twice to the documentation, which a rule matches, to a
   page of its own host and to another host; the about page links to the
   documentation, which links to itself and back to the home page. *)
MCLinks == [p \in Pages |->
  CASE p = home  -> <<docs, about, docs, ext>>
    [] p = about -> <<docs>>
    [] p = docs  -> <<docs, home>>
    [] OTHER     -> <<>>]

IdSymmetry == Permutations(Jobs \ {Root}) \cup Permutations(Workers)
=============================================================================
