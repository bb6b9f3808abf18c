--------------------------- MODULE CrawlInvariant ---------------------------
(***************************************************************************)
(* The inductive invariant of CrawlLifecycle: what its safety properties   *)
(* need to know about uncommitted work.  A property speaks of committed    *)
(* rows; it survives the next commit because the rows a transaction has    *)
(* written or locked stay as the transaction saw them.                     *)
(***************************************************************************)
EXTENDS CrawlLifecycle

(* A row of crawl_urls and its attempts agree. *)
RowOK(row, seq) ==
  /\ row.claimedBy # NoWorker <=> row.status \in ActiveUrlStatuses
  /\ row.lease # "none" <=> row.status \in ActiveUrlStatuses
  /\ Open(seq) <=> row.status = "fetching"
  /\ \A i \in 1 .. Len(seq) - 1 : seq[i] \in {"retry_wait", "abandoned"}
  /\ \A i \in 1 .. Len(seq) : seq[i] = "retry_wait" => i < MaxAttempts
  /\ row.status = "done" <=> seq # <<>> /\ seq[Len(seq)] = "success"
  /\ row.status = "failed_permanent" <=> seq # <<>> /\ seq[Len(seq)] = "failed_permanent"
  /\ row.fetchAttempts = Len(seq) - (IF row.status = "fetching" THEN 1 ELSE 0)
  /\ row.status = "retry_wait" => row.fetchAttempts < MaxAttempts
  /\ row.status = "absent" => seq = <<>>

RowsOK == \A u \in Urls : RowOK(url[u], attempts[u])

JobsOK ==
  /\ \A j \in Jobs : job[j] \notin {"pending", "failed"}
  /\ \A u \in Urls : job[JobOf[u]] = "absent" => url[u].status = "absent"
  /\ FinishedJobsAreSettled
  /\ PausedJobsFetchNothing

(* The rows of an uncommitted claim are runnable and nobody else's. *)
ClaimOK(w) ==
  worker[w].pc = "claiming" =>
    /\ \A u \in worker[w].batch : url[u].status \in RunnableUrlStatuses
    /\ worker[w].batch \cap SchedulerLocks = {}
    /\ \A v \in Workers \ {w} :
         worker[v].pc = "claiming" => worker[v].batch \cap worker[w].batch = {}

(* A worker that still owns the row it fetches knows its retry count. *)
FetchOK(w) ==
  worker[w].pc = "fetching" =>
    /\ worker[w].url \in Urls
    /\ Owns(w, worker[w].url) =>
         /\ url[worker[w].url].status = "fetching"
         /\ worker[w].fetchAttempts = url[worker[w].url].fetchAttempts

(* The row of an uncommitted failure stays the worker's, in a live job. *)
MarkOK(w) ==
  worker[w].pc = "marking" =>
    LET u == worker[w].url
    IN  /\ u \in Urls \ SchedulerLocks
        /\ url[u].claimedBy = w
        /\ url[u].status = "fetching"
        /\ worker[w].fetchAttempts = url[u].fetchAttempts
        /\ worker[w].verdict # "none"
        /\ worker[w].verdict = "retry_wait" => url[u].fetchAttempts + 1 < MaxAttempts
        /\ job[JobOf[u]] \in {"running", "pausing", "canceling"}

WorkersOK == \A w \in Workers : ClaimOK(w) /\ FetchOK(w) /\ MarkOK(w)

(* What the reconcile transaction has written still fits what is committed. *)
MovedOK(j) ==
  /\ j \notin CancelLocks
  /\ job[j] \in {"pausing", "canceling", "running"}
  /\ job[j] = "pausing" => \A u \in UrlsOf(j) : SchedulerSees(u) # "fetching"
  /\ job[j] # "pausing" => \A u \in UrlsOf(j) : SchedulerSees(u) \in TerminalUrlStatuses

SchedulerOK ==
  /\ scheduler.pc = "idle" => scheduler.released = {}
  /\ scheduler.pc \in {"idle", "released"} => scheduler.canceled = {}
  /\ scheduler.pc # "advanced" => scheduler.moved = {}
  /\ \A u \in scheduler.released :
       url[u].status \in ActiveUrlStatuses /\ url[u].lease = "expired"
  /\ \A u \in scheduler.canceled :
       /\ job[JobOf[u]] = "canceling"
       /\ \/ u \in scheduler.released
          \/ url[u].status \notin ActiveUrlStatuses \cup TerminalUrlStatuses \cup {"absent"}
  /\ \A j \in scheduler.moved : MovedOK(j)

IInv == TypeOK /\ RowsOK /\ JobsOK /\ WorkersOK /\ SchedulerOK
=============================================================================
