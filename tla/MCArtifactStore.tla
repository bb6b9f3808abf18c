--------------------------- MODULE MCArtifactStore ---------------------------
(* A parent job whose home page links to a child job, and the child job, which
   fetches that home page too: their rows share a path. *)
EXTENDS ArtifactStore, TLC

CONSTANTS parent, child, home, homeOfChild, homeUrl

MCJobOf == home :> parent @@ homeOfChild :> child
MCUrlOf == home :> homeUrl @@ homeOfChild :> homeUrl
MCLinksTo == home :> {child} @@ homeOfChild :> {}

WorkersAlike == Permutations(Workers)
=============================================================================
