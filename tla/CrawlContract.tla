--------------------------- MODULE CrawlContract ---------------------------
(***************************************************************************)
(* What a crawl promises to its operator, without workers, leases or       *)
(* transactions.  A job moves along the arrows of its state machine; a row *)
(* of its frontier is open until it gets its one outcome.  The frontier    *)
(* grows only when one of its own rows is done in a running job; a row is  *)
(* canceled only by a cancel of its job; and a job finishes only when its  *)
(* whole frontier is settled.                                              *)
(***************************************************************************)
CONSTANTS Jobs, Urls, JobOf, SeedOf

VARIABLES
  status,    \* status[j]: the job's place in its state machine
  outcome    \* outcome[u]: absent, open, or the result of the row

Init ==
  /\ status = [j \in Jobs |-> "pending"]
  /\ outcome = [u \in Urls |-> "absent"]

(* Every row of the job has its outcome once the step is taken. *)
SettledAfter(j) == \A u \in Urls : JobOf[u] = j => outcome'[u] # "open"

JobMoves(j, from, to) == status[j] \in from /\ status'[j] = to

JobStep(j) ==
  \/ JobMoves(j, {"pending", "paused"}, "running")
  \/ JobMoves(j, {"running"}, "pausing")
  \/ JobMoves(j, {"pausing"}, "paused")
  \/ JobMoves(j, {"running", "paused", "pausing"}, "canceling")
  \/ JobMoves(j, {"canceling"}, "canceled") /\ SettledAfter(j)
  \/ JobMoves(j, {"running"}, "completed") /\ SettledAfter(j)

(* Another row of the same job is done in this very step. *)
FoundByDoneRow(u) ==
  \E v \in Urls : JobOf[v] = JobOf[u] /\ outcome[v] = "open" /\ outcome'[v] = "done"

Inserted(u) ==
  /\ outcome[u] = "absent"
  /\ outcome'[u] = "open"
  /\ status'[JobOf[u]] = "running"
  /\ \/ u = SeedOf[JobOf[u]] /\ status[JobOf[u]] = "pending"
     \/ FoundByDoneRow(u) /\ status[JobOf[u]] = "running"

Settles(u, result, in) ==
  /\ outcome[u] = "open"
  /\ outcome'[u] = result
  /\ status[JobOf[u]] \in in

UrlStep(u) ==
  \/ Inserted(u)
  \/ Settles(u, "done", {"running"})
  \/ Settles(u, "failed_permanent", {"running", "pausing", "canceling"})
  \/ /\ Settles(u, "canceled", {"running", "paused", "pausing", "canceling"})
     /\ status'[JobOf[u]] \in {"canceling", "canceled"}

(* A step of the system may move several jobs and settle several rows. *)
Next ==
  /\ \A j \in Jobs : status'[j] = status[j] \/ JobStep(j)
  /\ \A u \in Urls : outcome'[u] = outcome[u] \/ UrlStep(u)

Spec == Init /\ [][Next]_<<status, outcome>>
=============================================================================
