# The production site crawler, specified and verified

This directory holds TLA+ specifications of the crawler in `src/src/crawler`,
the TLC configurations that check them on small instances, and TLAPS proofs of
their main safety properties. Paths below are relative to `src/src/crawler`
unless they start with `docs/` or `tests/`; "the design" is
`docs/superpowers/specs/2026-08-20-production-site-crawler-design.md`.

## 1. The system

PostgreSQL holds all the state; RabbitMQ carries wake-ups and no work. Three
kinds of process run: the HTTP API, any number of crawler workers, and one
scheduler. They never talk to each other directly: they interact through rows
of the database, under READ COMMITTED with row locks and advisory locks, and
through wake-ups, which may be lost without harm because the scheduler ticks.

| Component | State | Operations | Who calls it |
|---|---|---|---|
| Jobs `repos/jobs.py` | `crawl_jobs`: status, parent, seed, rules, cap | create, pause, resume, cancel (with the tree), get or create a child, advance the lifecycle | API, orchestrator, scheduler |
| URL frontier `repos/urls.py` | `crawl_urls`: status, owner, lease, attempts, eligibility | seed, claim, heartbeat, mark fetching / processing / done / retry / failed, release expired leases | worker, orchestrator, scheduler |
| Attempts `repos/attempts.py` | `crawl_attempts`: number, result | start, finish, abandon | orchestrator, frontier |
| Worker `workers/crawler_worker.py` | batch and heartbeat tasks, in memory | consume a wake-up, claim a batch, process each row, heartbeat | RabbitMQ |
| Orchestrator `services/orchestrator.py` | none | `process_url`: fetch, classify, record, discover links, spawn children | worker |
| Scheduler `services/scheduler.py`, `workers/scheduler_worker.py` | none | a tick: release leases, advance jobs, publish wake-ups | its own loop |
| API `api/` | none | create, pause, resume, cancel, read | clients |
| Child jobs and discovered links | `parent_job_id`, `discovered_links` | `discover_links`, `get_or_create_child_job` | orchestrator |
| Artifact storage `services/storage.py` | files, `content_artifacts` | stage, lock the path, promote, clean up | orchestrator |
| Wake-ups `messaging/rabbitmq.py` | a durable queue | publish, consume | API, scheduler, worker |
| Retry policy, link policy `domain/` | none | pure functions | orchestrator |
| Processors, fetch client | none | parsing and HTTP | orchestrator |

What is hard, and what makes each component correct:

* **Frontier and attempts.** Claims, late answers, lease releases and cancels
  meet on one row. A row must have an owner and a lease exactly while it is
  active, one open attempt exactly while it is fetched, a count equal to its
  finished attempts, at most one success, and no change once it is settled.
* **Jobs.** A status change is decided from a snapshot that does not contain
  the uncommitted work of others. A finished job must be settled, a paused job
  must fetch nothing, and a status may move only along the state machine.
* **Worker.** It dies between any two commits, or is alive while its lease
  runs out. What it claimed must be given back, what it answers too late must
  be dropped, and the retry decision it makes on a number read before the
  fetch must be right.
* **Scheduler.** One transaction writes rows of every job and publishes in the
  middle; all of it may roll back. Requests that were accepted must take
  effect, and crawls must end.
* **Child jobs.** Two workers find the same child; a cancel reads a tree that
  grows. A child must be unique, start with its seed, and be born of a running
  parent only.
* **Storage.** The file is renamed before the row commits; a clean-up races
  another job's use of the same path.

`PROJECT.json` lists these as hazards, each at its line and with the
properties that would catch it.

## 2. The modules

| Module | What it is |
|---|---|
| `CrawlStatuses` | the statuses of jobs, rows and attempts, and the sets of them the statements use |
| `CrawlLifecycle` | the core: API, workers and scheduler over jobs, rows and attempts |
| `CrawlContract` | the abstract specification: what a crawl promises, without workers, leases or transactions |
| `CrawlInvariant` | the inductive invariant of `CrawlLifecycle` |
| `CrawlLifecycleProofs` | invariant, type correctness and the state properties, proved |
| `CrawlContractProofs` | the action properties, the log of attempts among them, and the refinement of `CrawlContract`, proved |
| `ChildJobs` | the tree of jobs: link discovery, child jobs, the cascading cancel |
| `JobTreeContract` | the abstract specification: what a tree of jobs promises, without workers, locks or snapshots |
| `ChildJobsInvariant` | the inductive invariant of `ChildJobs` |
| `ChildJobsProofs` | the invariant, the tree's properties and `ParentsRunAtBirth`, proved |
| `JobTreeProofs` | the rest of the invariant and the refinement of `JobTreeContract`, proved |
| `ArtifactStore` | artifact rows and files: staging, the path lock, promotion, clean-up, commit |
| `ArtifactStoreProofs` | its inductive invariant and its properties, proved |
| `CrawlWakeups` | `CrawlLifecycle` driven by RabbitMQ: publish, deliver, acknowledge, lose, deliver again |
| `CrawlWakeupsProofs` | that it implements `CrawlLifecycle` and keeps `CrawlContract`, and its own invariants, proved |
| `WorkerBatch` | one batch in real time: main task, heartbeat tasks, the scheduler's clock |
| `WorkerBatchProofs` | its inductive invariant and its three properties, proved |
| `RetryPolicy` | the back-off and the Retry-After header, as operators |
| `RetryPolicyProofs` | the recurrence of the back-off and the bounds of every delay, proved |
| `MCCrawlLifecycle`, `MCChildJobs`, `MCArtifactStore`, `MCCrawlWakeups`, `MCWorkerBatch` | instances for TLC |

### 2.1 CrawlLifecycle

`job`, `url` and `attempts` are the committed contents of `crawl_jobs`,
`crawl_urls` and `crawl_attempts`. A row of `crawl_urls` keeps its status, its
owner, whether its lease is none, live or expired, whether it is due, and
`fetch_attempts`. `worker[w]` is what a worker has in memory: the batch, the row
it processes, the count it read, the verdict of a failure not committed yet.
`scheduler` is the overlay of an open reconcile transaction, `cancels` the cancel
requests between their two statements, and `budget` what is left of the bounds.

| Code | Actions |
|---|---|
| `create_crawl`, `pause_crawl`, `resume_crawl` | `CreateCrawl`, `RequestPause`, `RequestResume` |
| `request_cancel`, two UPDATEs | `RequestCancel`, `CommitCancel`, `AbortCancel` |
| `claim_runnable_urls`, SELECT FOR UPDATE SKIP LOCKED, then the commit | `SelectBatch`, `CommitClaim` |
| `process_url` up to its first commit; its early returns | `StartFetch`, `SkipUrl` |
| its failures: `mark_retry_wait` or `mark_failed_permanent`, then `finish_attempt` and commit | `MarkFailure`, `CommitFailure` |
| its success: lock the job, discover, `mark_done`, commit | `CommitSuccess` |
| its roll backs | `DiscardResult` |
| `heartbeat_url` | `Heartbeat` |
| the death of a process or request | `Crash`, `AbortCancel`, `AbortTick` |
| the clock | `ExpireLease`, `LapseLease`, `BackoffElapses` |
| `release_expired_leases` | `ReleaseLeases` |
| `advance_lifecycle_states`, the sweep and the three job updates | `CancelWaitingUrls`, `AdvanceJobs` |
| the commit of the tick | `CommitTick` |

How far a transaction is taken apart:

* `mark_fetching`, `start_attempt` and their commit are one action. The guard
  on the job's status can be overtaken only by a request whose commit has the
  same effect before and after it.
* Success is one action because it holds the job row `FOR UPDATE` from before
  its first write to its commit: no pause, cancel or tick of that job can come
  in between. `PROCESSING` is never visible outside that transaction and is not a
  status of a committed row.
* A claim is two actions: it reads the job's status without locking the job, so
  a pause or a cancel may commit before the claim does.
* A failure is two actions for the same reason, and because the second
  statement of a cancel skips a row that is still active in its snapshot.
* A tick is four: each statement sees what has been committed when it runs, and
  its own writes. A failure's UPDATE that waits for a row the scheduler has
  locked rechecks the row, not the job's status, when the lock is released: that is the
  behaviour in which the scheduler's work was done, and lost, before the mark;
  work that rolls back is invisible, so nothing is left out.
* Locks held by a transaction are computed from the program counters
  (`LockedUrls`, `LockedJobs`); a statement that would wait is disabled, one
  with SKIP LOCKED leaves the locked rows out.

A worker's identity is its host and process id, which a restarted container
gets again: `Crash` forgets the worker's memory, not its name. A heartbeat is
modelled only where it changes something, on an expired lease.

### 2.2 CrawlContract and the refinement

The abstract state is a status per job and an outcome per row (absent, open, or
its result). Jobs move along the arrows of the state machine only; the frontier
grows only when a row of a running job is done in the same step, or with the
seed; a row is canceled only by a cancel of its job; a job finishes only when
every row has its outcome. `CrawlLifecycle!Contract` maps a row that waits or is
owned to "open", and `KeepsContract` is the refinement.

### 2.3 ChildJobs

`job` and `row` are the committed tree and its frontiers, `discoveries` the rows of
`discovered_links`. A worker that records a page locks its job (`LockJob`),
follows the links one at a time (`FollowLink`, `JoinChild`, `LockKey`,
`SpawnChild`) in a private overlay, and commits all of it (`CommitPage`); the
transaction is taken apart here because it holds the job locked while a cancel
reads the tree. `ReadTree` and `WriteJobs` are the snapshot and the write of the
first UPDATE of a cancel, `CommitCancel` its second UPDATE with a new snapshot
and the commit. Foreign keys of uncommitted links share-lock the child they name
and hold up whoever wants it `FOR UPDATE`. Ownership, leases and retries are
those of `CrawlLifecycle` and reduced to `Claim` and `GiveUp`; pauses, which do
not cascade, are left out. Which pages share the seed's host and which a rule
matches are constants. Since a worker holds its parent locked throughout, the
advisory lock is never contended between two workers of one job; it is modelled
as the code has it.

`JobTreeContract` is what the tree promises an operator. The abstract state is the
status, parent and seed of each job, an outcome per row (absent, open, or its
result) and the request to cancel that is pending. In one step a page of a running
job is recorded, its rows appear and its children are born, each with its
seed and nothing else; a job keeps parent and seed for ever; a granted request
takes jobs and rows below the job it names, and none besides; what has ended stays
ended. `ChildJobs!Contract` is the mapping and `KeepsContract` the refinement: the
snapshot of a cancel and the links a transaction has followed are invisible in it.
How much of its tree a request takes is left open: the code misses what is
committed after its snapshot (`CancelReachesChildren` below).

### 2.4 ArtifactStore

`record` is the committed contents of `content_artifacts`, `owner` the column
`claimed_by`, `file` and `staged` the files at their final and their staging
names. A path is a URL and a content, since `build_storage_path` makes it from the
bucket, the URL's hash and the content's hash; the row, and with it the
job, goes into the staging name only. So the rows of two jobs may share a file.
`session[w]` is a worker in `process_url` from the answer on, and has two views:
`pc`, what the process has done, and `tx`, whether the server still has its
transaction and its locks. `faults` is a history variable: which kinds of fault
have happened.

| Code | Actions |
|---|---|
| the claim and the fetch; a lease that runs out | `Fetch`, `LoseLease` |
| the early return and a processor's error | `StopBeforeStaging` |
| `lock_running_job` | `LockJob` |
| `stage_artifact` | `Stage`, `StageFails` |
| `lock_storage_path`, `promote_staged_artifact` | `LockPath`, `Promote` |
| `mark_processing`; artifact, links and `mark_done`; `finish_attempt` and commit | `MarkProcessing`, `RecordPage`, `CommitArtifact`, `CommitFails` |
| the handler: delete, roll back, record the failure | `CleanUp` |
| PostgreSQL ends a transaction, for a deadlock or by itself | `DeadlockAbort`, `ServerAbort` |
| the process dies | `Crash` |

Lock waits are computed from the program counters (`Blocks`). A link to a child
job waits for the row lock of that child: the foreign key of
`spawned_child_job_id` takes a share lock, and that is how two transactions come
to wait for each other (`Deadlocked`).

### 2.5 CrawlWakeups

It extends `CrawlLifecycle` and adds the broker: every action of the crawl is
taken together with what it does to messages, or leaves them alone. The reader
ignores the body of a message, so the queue is a number.

| Code | Actions |
|---|---|
| `create_crawl` and `publish_job_wakeup_once` after its commit | `CreateAndCommit`, `PublishFirst`, `PublishFirstFails` |
| the other requests | `Request` |
| delivery with `prefetch_count=1`; loss; a connection that breaks | `Deliver`, `LoseMessage`, `CutConnection` |
| `_process_wakeup`: claim, batch | `Claim`, `ClaimNothing`, `Work` |
| `message.process(requeue=True)` | `Acknowledge`, `CrashAndRequeue` |
| `reconcile_once`: the three statements, the listing, the publishes, the commit | `TickUpToListing`, `ListRunnable`, `PublishRunnable`, `CommitAndForget`, `AbortAndForget` |

The tick publishes before it commits, as the code does: a worker that is fast
finds the released rows still locked, claims nothing and has spent the message.

### 2.6 WorkerBatch and RetryPolicy

`CrawlLifecycle` lets the lease of a live worker lapse at any time.
`WorkerBatch` asks when it does. It has a clock (`now`, the worker's; the
scheduler's differs by at most `MaxSkew`, another amount at each tick), the
leases, the heartbeat task of each row (`task`, and `at`: when it is due, or when
it read the clock, or when it ended), and the main task of the batch with its two
`finally` clauses. Whatever is due happens at most `MaxDelay` later: the delay of
a sleep, of the event loop, of a statement and its commit. An event loop that
stops for longer, which `extract_metadata` of a large document may cause, is outside this
module: it is the lapse of `CrawlLifecycle`, where `OneVerdict` and
`SettledRowsStay` say that it does no harm to what is recorded.

| Code | Actions |
|---|---|
| `claim_runnable_urls` and its commit; the creation of the tasks | `Select`, `CommitClaim` |
| the loop over the batch; `process_url` | `StartRow`, `SettleRow`, `LeaveRow` |
| the inner `finally`, the outer `finally`, what follows | `CleanRow`, `Unwind`, `EndBatch` |
| the end of the process | `End` |
| `heartbeat_loop`: sleep, read the clock, `heartbeat_url` | `Wake`, `Beat`, `BeatInVain` |
| the loop of the scheduler, `release_expired_leases` | `Tick` |
| time | `Pass` |

Awaiting a canceled task gives its exception when it had failed before
(`Awaited`); the code suppresses `CancelledError` only, so that exception leaves
the clean-up.

Two steps of a heartbeat that waits for a row lock are not modelled apart: the
transaction that holds the row is the worker's own, and the scheduler's release
skips locked rows as long as it lasts.

`RetryPolicy` has `compute_next_retry_at` and `_retry_after_seconds` as operators
and their requirements, `FollowsRecurrence` and `OnlyServersDelayLonger`, over
constant sets of attempts, intervals and headers; `MCWorkerBatch` gives the sets of
the run, and evaluates the requirements as `BackoffDoubles` and
`DelaysAreBounded` where no time has passed, since they do not depend on the state.

## 3. What the runs check

Every run is in `PROJECT.json` with its properties; every property of a passing
run has a mutant there, a plausible bug in a modelled definition that
makes TLC find the property violated. The mutated forms stand beside the
definitions they mutate, each marked "Mutant".

| Run | Instance | Shows |
|---|---|---|
| `lifecycle` | 1 job, 2 rows, 2 workers, cap 2, batch 2, 3 requests, 2 crashes, 1 lapse | the inductive invariant with the types in it, 7 state properties, 3 action properties and the contract |
| `two_jobs` | 2 jobs, 3 rows, 2 workers, cap 1, one request, crash and lapse | the contract when one batch and one tick mix jobs |
| `liveness` | as `lifecycle` with 2 requests and 1 crash | pauses and cancels take effect, crawls and claims end |
| `child_jobs` | 4 jobs at most, 4 pages, 2 workers, 1 cancel | children are unique and have their seed, frontiers follow the rules, recorded links tell where their target went, parents run at birth; the inductive invariant and the contract of the tree |
| `artifacts` | parent and child job, one row each that share a path, 3 workers, one content | committed artifacts have their whole file, no staging file and no orphan is left without a fault, a row gets one artifact, from its owner, and keeps it |
| `wakeups` | 1 job, 2 rows, 1 worker, batches of one, queue of 1, 1 request, crash and loss | one batch per message, and only an ended batch spends one; work is picked up, the crawl ends, the queue drains |
| `worker_batch` | 2 rows, lease 6, interval 1, poll 2, delay 1, skew 1, until time 12 | healthy rows keep their lease, abandoned ones are back in time, heartbeats end with their batch; the retry policy over its boundaries |
| `paused_but_claimed` | 1 job, 2 rows, 2 workers | violation, see below |
| `attempts_beyond_cap` | 1 job, 2 rows, 2 workers | violation, see below |
| `cancel_misses_a_child` | as `child_jobs` | violation, see below |
| `child_spawns_its_own_seed` | as `child_jobs` | violation, see below |
| `clean_up_deletes_committed` | as `artifacts`, 2 workers, no faults | violation, see below |

The state properties of the core are `OwnershipMatchesStatus`,
`LedgerMatchesRow`, `OneVerdict`, `RetryCountIsFresh`,
`OnlyAbandonmentPassesCap`, `FinishedJobsAreSettled` and
`PausedJobsFetchNothing`; its action properties are `SettledRowsStay`,
`SuccessOnlyWhileRunning` and `AttemptsAreLogged`. The type invariants are parts of
the inductive ones and have no entry of their own.

**Bounds.** Two workers are enough for every pair of a row's owner and its
predecessor, and for two claims at once; two rows give a batch with a second row
waiting while the first is fetched, and a row discovered by another. Three
requests allow pause, resume, cancel and pause, cancel, cancel; two crashes
a worker's death and then the scheduler's or the new worker's; the lapse gives
two live workers on one row. A cap of 2 reaches both verdicts. `MaxRequests`,
`MaxCrashes` and `MaxLapses` bound the environment only; the proofs
hold for every value of them. Workers are symmetric where no liveness is
checked. In `child_jobs` four jobs allow two children of the root or a chain of
depth three; the home page links to the child's page twice, so the second look-up
of one transaction meets its own uncommitted child. Deadlock is checked in the
core, where claims, ticks and expiring leases never all stop; it is not in
`ChildJobs`, which really ends when every job has finished.

In `artifacts` one content is enough because files of different contents never
meet; three workers are two on one row, the later one after the lease of the
first, and one of the other job. The store ends when both rows have their
artifact, so deadlock is not checked. In `wakeups` workers meet only
through rows, which the core covers with two, and through the queue; with batches
of one row, the two rows need more messages than one tick publishes. Messages
beyond `MaxQueue` count as lost. In `worker_batch` the end of time lies behind the
longest recovery, 10, and time that ends is why deadlock is not checked. Its
lease is the shortest that `TimingAssumption` allows; with one unit less TLC finds
a healthy row taken back, so the assumption cannot be weakened. The defaults, a
lease of 60 and an interval of 10 seconds, leave room for delays of 16 seconds
each; the repository's README (line 65) asks only for an interval below the lease.

**Fairness** (`LiveSpec`). Weak fairness of each worker's claim, and of its
next step while it has a batch (`run_crawler_worker` awaits each row in turn; a
fetch has a timeout); of lease expiry and back-off, which are the clock; of the
end of a cancel request; and of the tick, which `run_scheduler_worker` repeats
for ever. Nothing is assumed of crashes, lapses, heartbeats and requests. One
assumption the code does not enforce itself: that the scheduler goes on. An exception of
a tick leaves its loop and ends its process, and whatever runs it must start it
again. In `CrawlLifecycle` a worker claims without a wake-up; that the wake-ups
suffice is what `CrawlWakeups` is for.

`LiveWakeupSpec` has the same fairness of the clock and the tick; a worker claims
only with a message, and is fair in taking the message, claiming, working and
acknowledging. Nothing is assumed of the API's publish, nor that any particular
message arrives: losses, cut connections and crashes are bounded, and the ticks
that follow the last of them publish again. `ArtifactStore` and `WorkerBatch`
state safety only.

### Where the code and the documents disagree

* `PausedJobsHaveNoActiveUrls` (design, line 491). A claim selected before the
  pause may commit after the tick that counted the active rows. The job is
  paused with a claimed row; the worker declines to fetch it, and it stays
  claimed until its lease runs out. What holds, and is proved, is that nothing
  of a paused job is being fetched.
* `AttemptsWithinCap` (design, line 411). An attempt abandoned by an expired
  lease is counted but never compared with the cap: a page that kills its worker
  is attempted without end.
* `CancelReachesChildren` (design, line 513). A child that a worker commits
  between the snapshot of a cascading cancel and its write stays running under a
  canceled parent. What holds is `ParentsRunAtBirth`: once the cancel has
  committed, no child is added.
* `SpawnedPagesAreNotLocal` (design, line 98). A child inherits the rules, and
  the rule that spawned it matches its own seed: a page of the child that links
  to the seed spawns a grandchild with the same seed, and so on without a bound.
* `CleanUpSparesCommittedArtifacts`
  (`tests/integration/test_crawl_pipeline.py:436`). The worker of a parent page
  holds the path and waits for the row of a child job; the child's worker holds that row and
  waits for the path. When PostgreSQL ends the parent's transaction its locks
  are gone before its handler runs: the child commits an artifact at the path, and
  the handler deletes the file. What holds, and is proved, is `RecordsHaveFiles`:
  as long as PostgreSQL ends no transaction by itself.

Met while modelling and not checked by a run: the design (line 410)
speaks of jitter, and the back-off has none; a Retry-After with an HTTP date is
ignored; a Retry-After so large that the date overflows raises outside the
handlers of `process_url` and ends the worker (`NextRetryOverflows` is in the
model, and `DelaysAreBounded` says that only a server can cause it).

## 4. What is proved

For all sets of jobs, rows and workers, all caps, batch sizes and bounds, from
`ConstantsAssumption` alone:

* `InvariantHolds`: `Spec => []IInv`, and from it type correctness and the seven
  state properties of the core: `OwnershipCorrectness`, `LedgerCorrectness`,
  `VerdictIsUnique`, `RetryCountFreshness`, `CapIsPassedByAbandonmentOnly`,
  `FinishedJobsCorrectness` and `PausedJobsCorrectness`.
* `SettledRowsCorrectness`, `SuccessCorrectness`, `LogCorrectness`: the three
  action properties.
* `CrawlKeepsContract`: the refinement of `CrawlContract`.

For the other components, each from the assumption of its module:

* `ChildJobsProofs`: `TreeInvariant`, `Spec => []IInv`, and from it
  `TypeCorrectness`, `ChildrenCorrectness`, `SeedCorrectness`,
  `FrontierCorrectness`, `LinksCorrectness` and the action property of
  `BirthCorrectness`, for any pages, links and rules.
* `JobTreeProofs`: `TreeInvHolds`, `Spec => []TreeInv`, and `TreeKeepsContract`, the
  refinement of `JobTreeContract`.
* `ArtifactStoreProofs`: the invariant, and from it `TypeCorrectness`,
  `RecordsCorrectness`, `StagingCorrectness`, `OrphanCorrectness` and the action
  property of `FinalCorrectness`.
* `CrawlWakeupsProofs`: `WakeupsImplementCrawl`, `WakeupSpec => Spec`. The crawl
  driven by messages takes only steps of `CrawlLifecycle`, so that everything
  proved of the crawl holds of it; `WakeupsKeepInvariant` carries the invariant
  over, and `WakeupsKeepContract` the contract, the settled rows and the log of
  attempts. With it `OneBatchCorrectness`, and `WakeupsOutliveCorrectness` for the action
  property `WakeupsOutliveCrashes`: a message that was taken is spent by a batch that ended
  or is ready again. It needs `OneBatchPerMessage`: a second message delivered to a
  worker that has not settled its first would be lost in the count.
* `WorkerBatchProofs`: the invariant, `HealthyRowsCorrectness`,
  `RecoveryCorrectness` and `HeartbeatsCorrectness`, for every timing that satisfies
  `TimingAssumption` and batches of any size.
* `RetryPolicyProofs`: `BackoffFollowsRecurrence` and `DelaysFollowServers`, for
  every natural attempt, base and cap and every integer, absent or unreadable
  header. Hence `BackoffCorrectness` and `DelayCorrectness`: the two requirements
  hold for whatever sets `Attempts`, `Intervals` and `Headers` of these
  `RetryPolicy` is given (`InputsAssumption`), the whole of Nat as well as the sets of the run.

**The invariant.** The state properties are not inductive: they speak of
committed rows, and a commit may write what was decided several steps ago.
`IInv` adds what the open transactions know and why it stays true until they
commit. `ClaimOK`: the rows of an uncommitted claim are runnable and locked.
`FetchOK`: a worker that still owns the row it fetches knows its count, because
every way to change the count takes the ownership away. `MarkOK`: the row of an
uncommitted failure is locked, still being fetched, and its job cannot have
finished. `SchedulerOK` and `MovedOK`: the rows the tick has written are as it saw
them; a job it is about to finish has only settled rows, a job it is about to
pause no row being fetched, and no request holds it. A row can enter a finished
job through a commit only if its job was locked or it kept the job from
being moved; these clauses say so. `JobsOK` and `RowsOK` are the properties
themselves with what ties a row to its attempts.

**The log of attempts.** That a success is the only one is not inductive either:
it needs that nothing follows it. `RowOK` says of a row's attempts that those
before the last are retries and abandoned leases, that a retry has a number below the cap, and
that the last is a success or a final failure exactly when the row's status
says so. From it `OneVerdict` and `OnlyAbandonmentPassesCap` follow (an attempt beyond
the cap was begun after one that a lease ended), and `AttemptsAreLogged`: only the
owner opens an attempt, and only its worker or the release of its lease ends it.
The last of these needs one clause more, in `SchedulerOK`: a lease that
`release_expired_leases` has found expired still is when the tick commits, since
the row is locked and a heartbeat would have to write it.

**The argument.** `CrawlLifecycleProofs` first proves what each statement does to
one row and its attempts (`AttemptStarted`, `RowWritten`, `RowReleased`, ...), then frame lemmas for
what a step leaves alone, then one lemma per action that `IInv` is kept, each
split by the conjuncts it can disturb. `CrawlContractProofs` classifies what a
step may do to a row (`RowChange`) and to a job once, as lemmas over all actions,
and derives the action properties and the step simulation from them.

**The tree.** A transaction writes children, rows and links long before it
commits them, so the invariant of `ChildJobs` speaks of both sides. `LocksOK`: the
jobs of two workers that record are different, each worker's row keeps its job from
completing, and a job so locked is not being canceled. `PendingOK`: the children a
worker has written are new and one per page, their seeds and the rows of the
frontier follow the rules, and every link has its target. `CommittedOK`: the same
of what is committed, which is what the properties say. One lemma shows that
only `CommitPage` adds to the committed tree (`OnlyCommitsAdd`), and two more that
steps which add nothing keep it, and what others have pending, as they are
(`CommittedFramed`, `PendingFramed`). `JobTree` is
the least closed set rather than a recursion, so that no proof needs an induction
over the depth of the tree.

**The contract of the tree.** Three clauses come on top (`TreeInv`).
`RowsHaveTheirJob`: a transaction inserts rows into its own job, and seeds into
children, so that no frontier grows but that of a job whose page is recorded, or that
is born. `DoneJobsAreSettled`: a completed or canceled job has no open row, so none of
its rows can fail or be canceled later. `SnapshotIsBelow`: the jobs a cancel has
read are below its root. The last is kept although the tree grows under it because it only grows:
`JobTreeGrows` says that a set closed under the new children was closed under the
old, by the lemma that no step moves a job (`JobsKeepTheirPlace`). `JobChange` and
`RowChange` say in the concrete state what one step does to a job and a row; that they
imply the contract's steps is a lemma of its own (`ChangesKeepContract`).

**Artifacts.** `RecordsHaveFiles` is not inductive: it needs that nobody who may
still delete a file shares its path with a committed artifact. `LocksExclude` says
that two workers never have one job, or one path, at once; `FilesReady` that
a worker's staging file is whole until it is renamed, a promoted file stays in place, and a created
file belongs to no committed artifact; `OwnersOK` that an owned row has no artifact
yet. All of it is relative to `faults`: a lock is worth what it says only while
the server keeps the transaction. `StagingCorrectness` holds with aborted
transactions too, and `OrphanCorrectness` without faults. `FinalCorrectness` needs no such
premise for the row: `OwnersOK` holds whatever the server does, so a worker
whose lease was lost never commits.

**Timing.** A lease was counted from a reading of the clock that is at most one delay
old when it is written, and the next heartbeat is an interval and a delay
away (`LeaseOutlastsHeartbeat`); it is itself a delay late. So the lease of a live
heartbeat lies more than the skew ahead of the clock, which is
`HealthyRowsStay`. In the other direction a lease never exceeds the end of its
heartbeat by more than its duration (`LeaseIsBounded`), and what the last tick left
alone was not expired then (`LastTickReleased`), which bounds the recovery.

**The retry policy.** The back-off is a power of two, a recursive function. The
library's induction takes an operator as a parameter, which the provers cannot instantiate; here
the induction is over a set instead. The numbers at which the recurrence
fails form a subset of the naturals, a nonempty subset has a least member, and the
least member of this one would contradict the recurrence one step below.

**Only model-checked.** The six liveness properties: liveness under fairness
is outside the prover's reach.

## 5. Not modelled, and what is left

Abstracted for good: wording of errors, headers, timestamps outside `WorkerBatch`
(a lease is live or expired, a row due or not), metadata extraction, HTTP, the
read endpoints, configuration and logging. The schema is static; the constraints
of it that matter (uniqueness of a row and of an attempt, foreign keys and the
locks they take) are in the actions. `mark_completed_if_drained`,
`mark_abandoned_attempts`, `exists_in_job`, `is_running`, `persist_artifact` and
`cascade_children=False` are called by tests only.

What is left:

* `LinkPolicy`: `normalize_url` idempotence and the host test, over URLs as
  records. `ChildJobs` has the pages of the host and those a rule matches as
  constants.
* Lock order: a cascading cancel (jobs, then rows) against the tick (rows, then
  jobs). With several jobs of a tree the two can wait for each other; PostgreSQL
  ends one, and when it is the tick the scheduler's process ends with it.
* The growth of the queue. Every tick publishes for every job with work, consumed
  or not, and no code bounds it; the model takes what exceeds `MaxQueue` as lost,
  and checks that what is there drains.
* That the scheduler's process is started again after an exception of a tick is
  assumed, since nothing in the repository does it.
