--------------------------- MODULE JobTreeContract ---------------------------
(***************************************************************************)
(* What a tree of jobs promises, without workers, locks or snapshots.  A   *)
(* job is born with its seed, of a running parent, in the step that        *)
(* records a page of the parent, and keeps parent and seed for ever; the   *)
(* frontier of a job grows when one of its pages is recorded; a request to *)
(* cancel takes the jobs and rows it covers in one step, and none but      *)
(* those below the job it names; a job ends when its rows are settled.     *)
(***************************************************************************)
CONSTANTS Jobs, Root, Pages, RootSeed, NoJob, NoPage

VARIABLES
  status,    \* status[j]: absent, running, canceling, canceled or completed
  parent,    \* parent[j]: the job a page of which spawned j
  seed,      \* seed[j]: the page j starts with
  outcome,   \* outcome[j][p]: absent, open, or the result of the row
  request    \* the job whose tree is to be canceled

Init ==
  /\ status = [j \in Jobs |-> IF j = Root THEN "running" ELSE "absent"]
  /\ parent = [j \in Jobs |-> NoJob]
  /\ seed = [j \in Jobs |-> IF j = Root THEN RootSeed ELSE NoPage]
  /\ outcome = [j \in Jobs |-> [p \in Pages |->
       IF j = Root /\ p = RootSeed THEN "open" ELSE "absent"]]
  /\ request = NoJob

(* The job and its descendants: the least set closed under children. *)
Below(root) ==
  {j \in Jobs : \A tree \in SUBSET Jobs :
     /\ root \in tree
     /\ \A c \in Jobs : status[c] # "absent" /\ parent[c] \in tree => c \in tree
     => j \in tree}

(* The request is granted in this step, and covers the job. *)
Covered(j) == request # NoJob /\ request' = NoJob /\ j \in Below(request)

(* A page of the job is recorded in this step. *)
PageDone(j) ==
  /\ status[j] = "running" /\ status'[j] = "running"
  /\ \E p \in Pages : outcome[j][p] = "open" /\ outcome'[j][p] = "done"

Spawned(j) ==
  /\ status[j] = "absent" /\ status'[j] = "running"
  /\ parent'[j] \in Jobs /\ PageDone(parent'[j])
  /\ \A p \in Pages : outcome'[j][p] = IF p = seed'[j] THEN "open" ELSE "absent"
  /\ \A c \in Jobs \ {j} :
       status'[c] # "absent" /\ parent'[c] = parent'[j] => seed'[c] # seed'[j]

SettledAfter(j) == \A p \in Pages : outcome'[j][p] # "open"

JobMoves(j, from, to) == status[j] = from /\ status'[j] = to

JobStep(j) ==
  \/ Spawned(j)
  \/ /\ parent'[j] = parent[j] /\ seed'[j] = seed[j]
     /\ \/ status'[j] = status[j]
        \/ JobMoves(j, "running", "canceling") /\ Covered(j)
        \/ JobMoves(j, "canceling", "canceled") /\ SettledAfter(j)
        \/ JobMoves(j, "running", "completed") /\ SettledAfter(j)

Settles(j, p, result) == outcome[j][p] = "open" /\ outcome'[j][p] = result

RowStep(j, p) ==
  \/ outcome'[j][p] = outcome[j][p]
  \/ /\ outcome[j][p] = "absent" /\ outcome'[j][p] = "open"
     /\ (Spawned(j) \/ PageDone(j))
  \/ Settles(j, p, "done") /\ PageDone(j)
  \/ Settles(j, p, "failed") /\ status[j] \in {"running", "canceling"}
  \/ /\ Settles(j, p, "canceled")
     /\ \/ status[j] = "canceling"
        \/ status[j] = "running" /\ Covered(j)

RequestStep ==
  \/ request' = request
  \/ request = NoJob /\ request' \in Jobs /\ status[request'] # "absent"
  \/ request' = NoJob

Next == RequestStep /\ \A j \in Jobs : JobStep(j) /\ \A p \in Pages : RowStep(j, p)

Spec == Init /\ [][Next]_<<status, parent, seed, outcome, request>>
=============================================================================
