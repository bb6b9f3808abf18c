--------------------------- MODULE CrawlLifecycle ---------------------------
(***************************************************************************)
(* The crawl of a set of jobs: the rows of crawl_jobs, crawl_urls and      *)
(* crawl_attempts, and the processes that change them.  The API creates,   *)
(* pauses, resumes and cancels jobs; crawler workers claim URLs under a    *)
(* lease, fetch them and settle them; the scheduler takes back expired     *)
(* leases and moves jobs out of their transitional statuses.               *)
(*                                                                         *)
(* PostgreSQL runs every transaction at READ COMMITTED: the variables job, *)
(* url and attempts hold what is committed, every statement reads them as  *)
(* they are when it runs, and an uncommitted write is visible to its own   *)
(* transaction only, whose row locks make the other writers wait.  A       *)
(* transaction is one action when nothing another process does between its *)
(* statements can be told apart from doing it before or after; where it    *)
(* can (claim, failure, cancel, reconcile) its statements are actions of   *)
(* their own.  Clock readings are abstracted: a lease is live or expired,  *)
(* a row is due or not.                                                    *)
(***************************************************************************)
EXTENDS CrawlStatuses, Integers, Sequences, FiniteSets

CONSTANTS
  Jobs,          \* jobs that may be created
  Urls,          \* rows (job, normalized URL) that may be inserted
  Workers,       \* worker_id: hostname and pid, kept across a restart
  JobOf,         \* crawl_urls.job_id
  SeedOf,        \* the row create_crawl inserts with the job
  MaxAttempts,   \* config["max_attempts"]
  BatchSize,     \* settings.crawler_batch_size
  NoWorker,      \* claimed_by IS NULL
  NoUrl,         \* the worker is not processing a row
  MaxRequests,   \* bound: pause, resume and cancel requests
  MaxCrashes,    \* bound: workers, requests and ticks that die half way
  MaxLapses      \* bound: leases that expire although the worker is alive

ASSUME ConstantsAssumption ==
  /\ JobOf \in [Urls -> Jobs]
  /\ SeedOf \in [Jobs -> Urls]
  /\ \A j \in Jobs : JobOf[SeedOf[j]] = j
  /\ NoWorker \notin Workers
  /\ NoUrl \notin Urls
  /\ MaxAttempts \in Nat
  /\ BatchSize \in Nat \ {0}
  /\ MaxRequests \in Nat /\ MaxCrashes \in Nat /\ MaxLapses \in Nat

VARIABLES
  job,         \* job[j]: crawl_jobs.status
  url,         \* url[u]: the row of crawl_urls
  attempts,    \* attempts[u]: result_status of attempt 1, 2, ... of the row
  worker,      \* worker[w]: the local state of a crawler worker
  scheduler,   \* the reconcile transaction: what it has written so far
  cancels,     \* cancel requests between their two statements
  budget       \* what is left of MaxRequests, MaxCrashes and MaxLapses

vars == <<job, url, attempts, worker, scheduler, cancels, budget>>
rows == <<job, url, attempts>>

Row == [status : UrlStatuses \cup {"absent"},
        claimedBy : Workers \cup {NoWorker},
        lease : {"none", "live", "expired"},
        due : BOOLEAN,
        fetchAttempts : Nat]

WorkerState == [pc : {"idle", "claiming", "working", "fetching", "marking"},
                batch : SUBSET Urls,
                url : Urls \cup {NoUrl},
                fetchAttempts : Nat,
                verdict : {"none", "retry_wait", "failed_permanent"}]

SchedulerState == [pc : {"idle", "released", "canceled", "advanced"},
                   released : SUBSET Urls,
                   canceled : SUBSET Urls,
                   moved : SUBSET Jobs]

Budget == [requests : Nat, crashes : Nat, lapses : Nat]

TypeOK ==
  /\ job \in [Jobs -> JobStatuses \cup {"absent"}]
  /\ url \in [Urls -> Row]
  /\ attempts \in [Urls -> Seq(AttemptResults)]
  /\ worker \in [Workers -> WorkerState]
  /\ scheduler \in SchedulerState
  /\ cancels \in SUBSET Jobs
  /\ budget \in Budget

-----------------------------------------------------------------------------
(* What each statement writes into a row of crawl_urls.                    *)

Unclaimed(row) == [row EXCEPT !.claimedBy = NoWorker, !.lease = "none"]

AbsentRow == [status |-> "absent", claimedBy |-> NoWorker, lease |-> "none",
              due |-> FALSE, fetchAttempts |-> 0]

QueuedRow == [AbsentRow EXCEPT !.status = "queued", !.due = TRUE]

ClaimedRow(row, w) ==
  [row EXCEPT !.status = "claimed", !.claimedBy = w, !.lease = "live"]

(* Mutant: the attempt is counted when it starts. *)
FetchingRowCounted(row) == [row EXCEPT !.status = "fetching", !.fetchAttempts = @ + 1]

FetchingRow(row) == [row EXCEPT !.status = "fetching"]

DoneRow(row) ==
  [Unclaimed(row) EXCEPT !.status = "done", !.fetchAttempts = @ + 1]

(* Mutant: a retry keeps the claim of the worker that failed. *)
RetryWaitRowStillClaimed(row) ==
  [row EXCEPT !.status = "retry_wait", !.due = FALSE, !.fetchAttempts = @ + 1]

RetryWaitRow(row) ==
  [Unclaimed(row) EXCEPT !.status = "retry_wait", !.due = FALSE,
                         !.fetchAttempts = @ + 1]

FailedPermanentRow(row) ==
  [Unclaimed(row) EXCEPT !.status = "failed_permanent",
                         !.fetchAttempts = @ + 1]

CanceledRow(row) == [Unclaimed(row) EXCEPT !.status = "canceled"]

(* Mutant: an abandoned attempt is not counted. *)
ReleasedRowUncounted(row, open) ==
  [Unclaimed(row) EXCEPT !.status = "queued", !.due = TRUE]

(* The lease has expired; an attempt that was open counts as one attempt. *)
ReleasedRow(row, open) ==
  [Unclaimed(row) EXCEPT !.status = "queued", !.due = TRUE,
                         !.fetchAttempts = IF open THEN @ + 1 ELSE @]

-----------------------------------------------------------------------------
(* What the statements ask of the rows.                                    *)

Running(u) == job[JobOf[u]] = "running"

Owns(w, u) == url[u].claimedBy = w /\ url[u].status \in ActiveUrlStatuses

Open(seq) == seq # <<>> /\ seq[Len(seq)] = "in_progress"

HasOpenAttempt(u) == Open(attempts[u])

Finished(seq, result) == [seq EXCEPT ![Len(seq)] = result]

UrlsOf(j) == {u \in Urls : JobOf[u] = j /\ url[u].status # "absent"}

(* A row the reconcile transaction sees: committed, or its own write. *)
SchedulerSees(u) ==
  IF u \in scheduler.canceled THEN "canceled"
  ELSE IF u \in scheduler.released THEN "queued"
  ELSE url[u].status

(* Rows of crawl_urls locked by an uncommitted write or by SELECT FOR UPDATE. *)
ClaimLocks == UNION {worker[w].batch : w \in {v \in Workers : worker[v].pc = "claiming"}}
MarkLocks == {worker[w].url : w \in {v \in Workers : worker[v].pc = "marking"}}
SchedulerLocks == scheduler.released \cup scheduler.canceled
LockedUrls == ClaimLocks \cup MarkLocks \cup SchedulerLocks

(* Rows of crawl_jobs locked by the first statement of a cancel or by the
   reconcile transaction. *)
CancelLocks == {j \in cancels : job[j] \in CancelableJobStatuses}
LockedJobs == CancelLocks \cup scheduler.moved

-----------------------------------------------------------------------------
(* The initial state: no job exists and nobody is at work.                 *)

IdleWorker == [pc |-> "idle", batch |-> {}, url |-> NoUrl,
               fetchAttempts |-> 0, verdict |-> "none"]

IdleScheduler == [pc |-> "idle", released |-> {}, canceled |-> {}, moved |-> {}]

Init ==
  /\ job = [j \in Jobs |-> "absent"]
  /\ url = [u \in Urls |-> AbsentRow]
  /\ attempts = [u \in Urls |-> <<>>]
  /\ worker = [w \in Workers |-> IdleWorker]
  /\ scheduler = IdleScheduler
  /\ cancels = {}
  /\ budget = [requests |-> MaxRequests, crashes |-> MaxCrashes, lapses |-> MaxLapses]

Spend(what) ==
  /\ budget[what] > 0
  /\ budget' = [budget EXCEPT ![what] = @ - 1]

-----------------------------------------------------------------------------
(* The API.  A request for a job that does not exist is answered 404.      *)

(* POST /crawls: the job, its status and its seed row in one commit. *)
CreateCrawl(j) ==
  /\ job[j] = "absent"
  /\ job' = [job EXCEPT ![j] = "running"]
  /\ url' = [url EXCEPT ![SeedOf[j]] = QueuedRow]
  /\ UNCHANGED <<attempts, worker, scheduler, cancels, budget>>

(* POST /crawls/{job_id}/pause; on any status but running it changes nothing. *)
RequestPause(j) ==
  /\ job[j] = "running"
  /\ j \notin LockedJobs
  /\ Spend("requests")
  /\ job' = [job EXCEPT ![j] = "pausing"]
  /\ UNCHANGED <<url, attempts, worker, scheduler, cancels>>

(* POST /crawls/{job_id}/resume; on any status but paused it changes nothing. *)
RequestResume(j) ==
  /\ job[j] = "paused"
  /\ j \notin LockedJobs
  /\ Spend("requests")
  /\ job' = [job EXCEPT ![j] = "running"]
  /\ UNCHANGED <<url, attempts, worker, scheduler, cancels>>

(* POST /crawls/{job_id}/cancel, first statement: the job row is written and
   locked, and nobody else sees it yet. *)
RequestCancel(j) ==
  /\ job[j] # "absent"
  /\ j \notin cancels \cup LockedJobs
  /\ Spend("requests")
  /\ cancels' = cancels \cup {j}
  /\ UNCHANGED <<rows, worker, scheduler>>

(* Mutant: the settled rows are not excluded. *)
WaitingUrlsAndSettled(j) == {u \in UrlsOf(j) : url[u].status \notin ActiveUrlStatuses}

(* The rows the second statement cancels. *)
WaitingUrls(j) ==
  {u \in UrlsOf(j) : url[u].status \notin ActiveUrlStatuses \cup TerminalUrlStatuses}

(* Second statement and commit.  It waits for the rows that a claim or the
   scheduler has locked. *)
CommitCancel(j) ==
  /\ j \in cancels
  /\ WaitingUrls(j) \cap LockedUrls = {}
  /\ job' = [job EXCEPT ![j] = IF @ \in CancelableJobStatuses THEN "canceling" ELSE @]
  /\ url' = [u \in Urls |-> IF u \in WaitingUrls(j) THEN CanceledRow(url[u]) ELSE url[u]]
  /\ cancels' = cancels \ {j}
  /\ UNCHANGED <<attempts, worker, scheduler, budget>>

(* The request dies between its statements: its session rolls back. *)
AbortCancel(j) ==
  /\ j \in cancels
  /\ Spend("crashes")
  /\ cancels' = cancels \ {j}
  /\ UNCHANGED <<rows, worker, scheduler>>

-----------------------------------------------------------------------------
(* The crawler worker.                                                     *)

(* Mutant: a row that waits for its retry is forgotten. *)
ClaimableQueuedOnly ==
  {u \in Urls : Running(u) /\ url[u].status = "queued" /\ url[u].due} \ LockedUrls

Claimable ==
  {u \in Urls : /\ Running(u)
                /\ url[u].status \in RunnableUrlStatuses
                /\ url[u].due} \ LockedUrls

(* SELECT ... FOR UPDATE OF crawl_urls SKIP LOCKED LIMIT: the rows are locked,
   the job row whose status was read is not. *)
SelectBatch(w) ==
  /\ worker[w].pc = "idle"
  /\ \E batch \in SUBSET Claimable \ {{}} :
       /\ Cardinality(batch) <= BatchSize
       /\ batch = Claimable \/ Cardinality(batch) = BatchSize
       /\ worker' = [worker EXCEPT ![w].pc = "claiming", ![w].batch = batch]
  /\ UNCHANGED <<rows, scheduler, cancels, budget>>

CommitClaim(w) ==
  /\ worker[w].pc = "claiming"
  /\ url' = [u \in Urls |->
               IF u \in worker[w].batch THEN ClaimedRow(url[u], w) ELSE url[u]]
  /\ worker' = [worker EXCEPT ![w].pc = "working"]
  /\ UNCHANGED <<job, attempts, scheduler, cancels, budget>>

(* process_url has returned for the row: its heartbeat is canceled and the
   worker turns to the rest of the batch. *)
AfterUrl(w, u) ==
  LET rest == worker[w].batch \ {u}
  IN  IF rest = {} THEN IdleWorker
      ELSE [IdleWorker EXCEPT !.pc = "working", !.batch = rest]

(* The conditions of get_claimed_url and mark_fetching. *)
MayFetch(w, u) ==
  /\ url[u].claimedBy = w
  /\ url[u].status = "claimed"
  /\ Running(u)

(* process_url up to its first commit. *)
StartFetch(w, u) ==
  /\ worker[w].pc = "working"
  /\ u \in worker[w].batch \ LockedUrls
  /\ MayFetch(w, u)
  /\ url' = [url EXCEPT ![u] = FetchingRow(@)]
  /\ attempts' = [attempts EXCEPT ![u] = Append(@, "in_progress")]
  /\ worker' = [worker EXCEPT ![w].pc = "fetching", ![w].url = u,
                              ![w].fetchAttempts = url[u].fetchAttempts]
  /\ UNCHANGED <<job, scheduler, cancels, budget>>

(* The early returns of process_url: the row stays as it is, with its lease. *)
SkipUrl(w, u) ==
  /\ worker[w].pc = "working"
  /\ u \in worker[w].batch
  /\ ~MayFetch(w, u)
  /\ worker' = [worker EXCEPT ![w] = AfterUrl(w, u)]
  /\ UNCHANGED <<rows, scheduler, cancels, budget>>

(* Mutants: the owner is not asked for, the job is not asked for. *)
MayRecordUnowned(w, u) == Running(u)
MayRecordInAnyJob(w, u) == Owns(w, u)

(* The conditions under which a fetch result may be recorded. *)
MayRecord(w, u) == Owns(w, u) /\ Running(u)

(* Mutant: one attempt too many. *)
FailureVerdictOffByOne(w, permanent) ==
  IF permanent \/ worker[w].fetchAttempts + 1 > MaxAttempts
  THEN "failed_permanent" ELSE "retry_wait"

(* A permanent failure, or the last of the attempts the job allows, counted
   from the number the worker read when it started the fetch. *)
FailureVerdict(w, permanent) ==
  IF permanent \/ worker[w].fetchAttempts + 1 >= MaxAttempts
  THEN "failed_permanent" ELSE "retry_wait"

(* 404 and 403 are permanent; an exception of the fetch or of the processing
   and every other status is transient.  The row is written and locked. *)
MarkFailure(w) ==
  /\ worker[w].pc = "fetching"
  /\ worker[w].url \notin LockedUrls
  /\ MayRecord(w, worker[w].url)
  /\ \E permanent \in BOOLEAN :
       worker' = [worker EXCEPT ![w].pc = "marking",
                                ![w].verdict = FailureVerdict(w, permanent)]
  /\ UNCHANGED <<rows, scheduler, cancels, budget>>

FailedRow(row, verdict) ==
  IF verdict = "retry_wait" THEN RetryWaitRow(row) ELSE FailedPermanentRow(row)

(* finish_attempt and the commit of a failure. *)
CommitFailure(w) ==
  LET u == worker[w].url
  IN  /\ worker[w].pc = "marking"
      /\ url' = [url EXCEPT ![u] = FailedRow(@, worker[w].verdict)]
      /\ attempts' = [attempts EXCEPT ![u] = Finished(@, worker[w].verdict)]
      /\ worker' = [worker EXCEPT ![w] = AfterUrl(w, u)]
      /\ UNCHANGED <<job, scheduler, cancels, budget>>

(* A processed response: the job row is locked while running, the discovered
   rows are inserted with the result, all in one commit. *)
CommitSuccess(w) ==
  LET u == worker[w].url
  IN  /\ worker[w].pc = "fetching"
      /\ u \notin LockedUrls
      /\ JobOf[u] \notin LockedJobs
      /\ MayRecord(w, u)
      /\ \E found \in SUBSET {v \in Urls : JobOf[v] = JobOf[u] /\ url[v].status = "absent"} :
           url' = [v \in Urls |-> IF v \in found THEN QueuedRow
                                  ELSE IF v = u THEN DoneRow(url[v]) ELSE url[v]]
      /\ attempts' = [attempts EXCEPT ![u] = Finished(@, "success")]
      /\ worker' = [worker EXCEPT ![w] = AfterUrl(w, u)]
      /\ UNCHANGED <<job, scheduler, cancels, budget>>

(* The row or the job is no longer the worker's to change: roll back, return. *)
DiscardResult(w) ==
  /\ worker[w].pc = "fetching"
  /\ ~MayRecord(w, worker[w].url)
  /\ worker' = [worker EXCEPT ![w] = AfterUrl(w, worker[w].url)]
  /\ UNCHANGED <<rows, scheduler, cancels, budget>>

(* The process dies, or an exception leaves _process_wakeup: open transactions
   roll back, every heartbeat of the batch stops, and the worker starts anew. *)
Crash(w) ==
  /\ worker[w].pc # "idle"
  /\ Spend("crashes")
  /\ worker' = [worker EXCEPT ![w] = IdleWorker]
  /\ UNCHANGED <<rows, scheduler, cancels>>

-----------------------------------------------------------------------------
(* Leases and time.                                                        *)

(* A heartbeat task exists for every row of the batch not yet processed. *)
Heartbeating(w, u) == worker[w].pc # "claiming" /\ u \in worker[w].batch

(* heartbeat_url asks for the owner and the status, not for a live lease. *)
Heartbeat(w, u) ==
  /\ Heartbeating(w, u)
  /\ Owns(w, u)
  /\ url[u].lease = "expired"
  /\ u \notin LockedUrls
  /\ url' = [url EXCEPT ![u].lease = "live"]
  /\ UNCHANGED <<job, attempts, worker, scheduler, cancels, budget>>

(* Nobody extends the lease: its worker died, or gave the row up. *)
ExpireLease(u) ==
  /\ url[u].lease = "live"
  /\ ~ \E w \in Workers : Owns(w, u) /\ Heartbeating(w, u)
  /\ url' = [url EXCEPT ![u].lease = "expired"]
  /\ UNCHANGED <<job, attempts, worker, scheduler, cancels, budget>>

(* The worker is alive but its heartbeats come too late: the event loop is
   busy, or the database did not answer. *)
LapseLease(u) ==
  /\ url[u].lease = "live"
  /\ \E w \in Workers : Owns(w, u) /\ Heartbeating(w, u)
  /\ Spend("lapses")
  /\ url' = [url EXCEPT ![u].lease = "expired"]
  /\ UNCHANGED <<job, attempts, worker, scheduler, cancels>>

(* next_eligible_at has passed. *)
BackoffElapses(u) ==
  /\ url[u].status = "retry_wait"
  /\ ~url[u].due
  /\ url' = [url EXCEPT ![u].due = TRUE]
  /\ UNCHANGED <<job, attempts, worker, scheduler, cancels, budget>>

-----------------------------------------------------------------------------
(* The scheduler: one transaction per tick, seen by others at its commit.  *)

(* Mutants: rows of jobs that pause or are canceled are not released; rows
   that are being fetched are not released; the lease is not asked for. *)
ExpiredUrlsOfRunningJobs ==
  {u \in Urls : /\ Running(u)
                /\ url[u].status \in ActiveUrlStatuses
                /\ url[u].lease = "expired"}
ExpiredUrlsClaimed == {u \in Urls : url[u].status = "claimed" /\ url[u].lease = "expired"}

ActiveUrls == {u \in Urls : url[u].status \in ActiveUrlStatuses}

ExpiredUrls == {u \in Urls : url[u].status \in ActiveUrlStatuses /\ url[u].lease = "expired"}

(* release_expired_leases; waits for a row that a worker is settling. *)
ReleaseLeases ==
  /\ scheduler.pc = "idle"
  /\ ExpiredUrls \cap LockedUrls = {}
  /\ scheduler' = [scheduler EXCEPT !.pc = "released", !.released = ExpiredUrls]
  /\ UNCHANGED <<rows, worker, cancels, budget>>

(* Mutants: the sweep is forgotten; it sweeps every job while one is canceling. *)
CancelableUrlsNone == {}
CancelableUrlsOfAnyJob ==
  {u \in Urls : /\ \E j \in Jobs : job[j] = "canceling"
                /\ SchedulerSees(u) \notin
                     ActiveUrlStatuses \cup TerminalUrlStatuses \cup {"absent"}}

(* advance_lifecycle_states, first statement: what waits in a canceling job,
   the rows just released included. *)
CancelableUrls ==
  {u \in Urls : /\ job[JobOf[u]] = "canceling"
                /\ SchedulerSees(u) \notin
                     ActiveUrlStatuses \cup TerminalUrlStatuses \cup {"absent"}}

CancelWaitingUrls ==
  /\ scheduler.pc = "released"
  /\ CancelableUrls \cap (ClaimLocks \cup MarkLocks) = {}
  /\ scheduler' = [scheduler EXCEPT !.pc = "canceled", !.canceled = CancelableUrls]
  /\ UNCHANGED <<rows, worker, cancels, budget>>

(* Mutants: "fetching" is forgotten among the active statuses, and the active
   statuses among the unresolved ones. *)
ClaimedUrlsExist(j) == \E u \in UrlsOf(j) : SchedulerSees(u) = "claimed"
RunnableUrlsExist(j) == \E u \in UrlsOf(j) : SchedulerSees(u) \in RunnableUrlStatuses

ActiveUrlsExist(j) == \E u \in UrlsOf(j) : SchedulerSees(u) \in ActiveUrlStatuses
UnresolvedUrlsExist(j) == \E u \in UrlsOf(j) : SchedulerSees(u) \notin TerminalUrlStatuses

(* The jobs its other three statements move on, ... *)
JobsToAdvance ==
  {j \in Jobs : \/ job[j] = "pausing" /\ ~ActiveUrlsExist(j)
                \/ job[j] \in {"canceling", "running"} /\ ~UnresolvedUrlsExist(j)}

(* ... and the status each of them writes. *)
AdvancedStatus(status) ==
  CASE status = "pausing" -> "paused"
    [] status = "canceling" -> "canceled"
    [] OTHER -> "completed"

AdvanceJobs ==
  /\ scheduler.pc = "canceled"
  /\ JobsToAdvance \cap CancelLocks = {}
  /\ scheduler' = [scheduler EXCEPT !.pc = "advanced", !.moved = JobsToAdvance]
  /\ UNCHANGED <<rows, worker, cancels, budget>>

(* The runnable jobs are published, then the transaction commits.  The
   attempts left open by a released row are abandoned. *)
CommitTick ==
  /\ scheduler.pc = "advanced"
  /\ url' = [u \in Urls |->
       LET row == IF u \in scheduler.released
                  THEN ReleasedRow(url[u], HasOpenAttempt(u)) ELSE url[u]
       IN  IF u \in scheduler.canceled THEN CanceledRow(row) ELSE row]
  /\ attempts' = [u \in Urls |->
       IF u \in scheduler.released /\ HasOpenAttempt(u)
       THEN Finished(attempts[u], "abandoned") ELSE attempts[u]]
  /\ job' = [j \in Jobs |->
       IF j \in scheduler.moved THEN AdvancedStatus(job[j]) ELSE job[j]]
  /\ scheduler' = IdleScheduler
  /\ UNCHANGED <<worker, cancels, budget>>

(* A statement or a publish fails: the whole tick rolls back. *)
AbortTick ==
  /\ scheduler.pc # "idle"
  /\ Spend("crashes")
  /\ scheduler' = IdleScheduler
  /\ UNCHANGED <<rows, worker, cancels>>

-----------------------------------------------------------------------------
ApiNext == \E j \in Jobs : \/ CreateCrawl(j) \/ RequestPause(j) \/ RequestResume(j)
                           \/ RequestCancel(j) \/ CommitCancel(j) \/ AbortCancel(j)

ProcessBatch(w) == \/ \E u \in Urls : StartFetch(w, u) \/ SkipUrl(w, u)
                   \/ MarkFailure(w) \/ CommitFailure(w)
                   \/ CommitSuccess(w) \/ DiscardResult(w)

WorkerNext == \E w \in Workers : \/ SelectBatch(w) \/ CommitClaim(w) \/ ProcessBatch(w)
                                 \/ Crash(w) \/ \E u \in Urls : Heartbeat(w, u)

TimeNext == \E u \in Urls : ExpireLease(u) \/ LapseLease(u) \/ BackoffElapses(u)

Tick == ReleaseLeases \/ CancelWaitingUrls \/ AdvanceJobs \/ CommitTick

Next == ApiNext \/ WorkerNext \/ TimeNext \/ Tick \/ AbortTick

Spec == Init /\ [][Next]_vars

(* The processes keep running, leases run out and back-offs elapse; crashes,
   lapses and requests need not happen, and neither does a heartbeat. *)
Fairness ==
  /\ \A w \in Workers : /\ WF_vars(SelectBatch(w))
                        /\ WF_vars(CommitClaim(w) \/ ProcessBatch(w))
  /\ \A u \in Urls : WF_vars(ExpireLease(u)) /\ WF_vars(BackoffElapses(u))
  /\ \A j \in Jobs : WF_vars(CommitCancel(j))
  /\ WF_vars(Tick)

LiveSpec == Spec /\ Fairness

-----------------------------------------------------------------------------
(* Safety.                                                                 *)

(* A row is owned exactly while its status says so, and exactly then it has a
   lease: no transition, release, cancel or late commit leaves a claim behind
   on a settled row, or an active row without a lease nobody would release. *)
OwnershipMatchesStatus ==
  \A u \in Urls :
    /\ url[u].claimedBy # NoWorker <=> url[u].status \in ActiveUrlStatuses
    /\ url[u].lease # "none" <=> url[u].status \in ActiveUrlStatuses

(* The attempt ledger: a row has an open attempt exactly while it is being
   fetched, every earlier attempt is finished, and fetch_attempts is the number
   of finished attempts, whichever of worker and scheduler finished them. *)
LedgerMatchesRow ==
  \A u \in Urls :
    /\ HasOpenAttempt(u) <=> url[u].status = "fetching"
    /\ \A i \in 1 .. Len(attempts[u]) - 1 : attempts[u][i] # "in_progress"
    /\ url[u].fetchAttempts =
         Len(attempts[u]) - (IF url[u].status = "fetching" THEN 1 ELSE 0)

(* A row has a final attempt, a success or a permanent failure, exactly when it
   is done or failed, and it is its last one: a worker that lost its lease never
   adds a second verdict, and a cancel or a release never overrules one. *)
OneVerdict ==
  \A u \in Urls :
    /\ \A i \in 1 .. Len(attempts[u]) :
         attempts[u][i] \in {"success", "failed_permanent"}
           => url[u].status \in {"done", "failed_permanent"} /\ i = Len(attempts[u])
    /\ url[u].status = "done" => attempts[u] # <<>> /\ attempts[u][Len(attempts[u])] = "success"
    /\ url[u].status = "failed_permanent"
         => attempts[u] # <<>> /\ attempts[u][Len(attempts[u])] = "failed_permanent"

(* The retry decision rests on a number read before the fetch.  Whenever the
   worker may still record its result that number is the row's. *)
RetryCountIsFresh ==
  \A w \in Workers :
    worker[w].pc \in {"fetching", "marking"} /\ Owns(w, worker[w].url)
      => worker[w].fetchAttempts = url[worker[w].url].fetchAttempts

(* What the cap of a job does bound: a retry is scheduled only below it, so a row
   gets past it through attempts that an expired lease ended, and no other. *)
OnlyAbandonmentPassesCap ==
  \A u \in Urls :
    /\ url[u].status = "retry_wait" => url[u].fetchAttempts < MaxAttempts
    /\ \A i \in 1 .. Len(attempts[u]) - 1 :
         i >= MaxAttempts => attempts[u][i] = "abandoned"

(* A finished job has no unsettled row, so nothing of it can run again. *)
FinishedJobsAreSettled ==
  \A j \in Jobs : job[j] \in TerminalJobStatuses =>
    \A u \in UrlsOf(j) : url[u].status \in TerminalUrlStatuses

(* Nothing of a paused job is being fetched. *)
PausedJobsFetchNothing ==
  \A u \in Urls : job[JobOf[u]] = "paused" => url[u].status # "fetching"

(* A settled row is never disturbed again, not by a worker that lost its
   lease, a late cancel or a scheduler that decided on what it read before. *)
SettledRowsStay ==
  [][\A u \in Urls : url[u].status \in TerminalUrlStatuses
       => url'[u] = url[u] /\ attempts'[u] = attempts[u]]_vars

(* A row reaches its result only from the worker that owns it, and only while
   its job is running: nothing is recorded for a job that pauses or is
   canceled before the result is written. *)
SuccessOnlyWhileRunning ==
  [][\A u \in Urls : url[u].status # "done" /\ url'[u].status = "done"
       => Running(u) /\ url[u].claimedBy # NoWorker /\ HasOpenAttempt(u)]_vars

(* The ledger of a row is a log.  The owner of a claimed row in a running job
   opens an attempt; what the worker that opened it learns, or the scheduler that
   finds its lease expired, ends it, once; and nothing finished is rewritten. *)
OwnerBegins(u) ==
  /\ ~HasOpenAttempt(u) /\ Running(u)
  /\ attempts'[u] = Append(attempts[u], "in_progress")
  /\ \E w \in Workers : Owns(w, u) /\ worker'[w].url = u

OwnerEnds(u) ==
  /\ HasOpenAttempt(u)
  /\ \E w \in Workers : Owns(w, u) /\ worker[w].url = u /\ worker'[w].url = NoUrl
  /\ \E result \in {"success", "retry_wait", "failed_permanent"} :
       /\ attempts'[u] = Finished(attempts[u], result)
       /\ result = "success" => Running(u)
       /\ result = "retry_wait" => Len(attempts[u]) < MaxAttempts

LeaseEnds(u) ==
  /\ HasOpenAttempt(u) /\ url[u].lease = "expired"
  /\ attempts'[u] = Finished(attempts[u], "abandoned")

AttemptsAreLogged ==
  [][\A u \in Urls : attempts'[u] # attempts[u]
       => OwnerBegins(u) \/ OwnerEnds(u) \/ LeaseEnds(u)]_vars

-----------------------------------------------------------------------------
(* The contract of a crawl.  A job that is not created yet is pending; a row
   that waits for a worker or is owned by one is open.                     *)

OutcomeOf(row) ==
  IF row.status \in TerminalUrlStatuses \cup {"absent"} THEN row.status ELSE "open"

Contract == INSTANCE CrawlContract WITH
  status <- [j \in Jobs |-> IF job[j] = "absent" THEN "pending" ELSE job[j]],
  outcome <- [u \in Urls |-> OutcomeOf(url[u])]

(* Workers, scheduler and API together keep the contract: the job follows the
   state machine of the design document, every row gets one outcome, discovery
   and cancel change only what they may, and a job finishes settled. *)
KeepsContract == Contract!Spec

-----------------------------------------------------------------------------
(* What the design document says and the code does not keep.               *)

(* docs/superpowers/specs/2026-08-20-production-site-crawler-design.md:491,
   "When no active URL rows remain, the job transitions to `paused`": a paused
   job has no active row.  A claim that read the job before the pause and
   commits after the scheduler's tick breaks it. *)
PausedJobsHaveNoActiveUrls ==
  \A u \in Urls : job[JobOf[u]] = "paused" => url[u].status \notin ActiveUrlStatuses

(* The same document, line 411, "retry as transient up to a configured cap": a
   row is not attempted more often than its job allows.  An attempt abandoned
   by an expired lease is counted, and never compared with the cap. *)
AttemptsWithinCap == \A u \in Urls : Len(attempts[u]) <= MaxAttempts

-----------------------------------------------------------------------------
(* Liveness.                                                               *)

(* A pause that was accepted takes effect, unless a cancel overtakes it: the
   claims in flight, the discarded fetches and the crashed workers give up
   their rows in the end. *)
PauseTakesEffect ==
  \A j \in Jobs : job[j] = "pausing" ~> job[j] \in {"paused", "canceling", "canceled"}

(* A cancel that was accepted takes effect, failures that commit late and
   leases that expire during the cancel included. *)
CancelTakesEffect == \A j \in Jobs : job[j] = "canceling" ~> job[j] = "canceled"

(* A crawl that nobody interrupts any more ends: every row is retried, taken
   back or settled, and the scheduler notices. *)
CrawlEnds ==
  \A j \in Jobs : job[j] = "running" ~> job[j] \in {"completed", "pausing", "canceling"}

(* No claim is kept for ever: an owned row is settled, retried or taken back,
   whatever happened to the worker that owns it. *)
ClaimsEnd ==
  \A u \in Urls : url[u].claimedBy # NoWorker ~> url[u].claimedBy = NoWorker
=============================================================================
