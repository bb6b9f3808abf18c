------------------------ MODULE CrawlContractProofs ------------------------
(***************************************************************************)
(* What a step of CrawlLifecycle may do to a row and to a job, and from it *)
(* the action properties and the contract of a crawl.                      *)
(***************************************************************************)
EXTENDS CrawlLifecycleProofs

-----------------------------------------------------------------------------
(* The changes of a row that its operator can see.                         *)

Unsettled(u) == url[u].status \notin TerminalUrlStatuses \cup {"absent"}

RowKept(u) == url'[u] = url[u] /\ attempts'[u] = attempts[u]

StaysOpen(u) == Unsettled(u) /\ Unsettled(u)'

Seeded(u) ==
  /\ url[u].status = "absent" /\ Unsettled(u)'
  /\ u = SeedOf[JobOf[u]] /\ job[JobOf[u]] = "absent" /\ job'[JobOf[u]] = "running"

Found(u) ==
  /\ url[u].status = "absent" /\ Unsettled(u)'
  /\ job[JobOf[u]] = "running" /\ job'[JobOf[u]] = "running"
  /\ \E v \in Urls : JobOf[v] = JobOf[u] /\ Unsettled(v) /\ url'[v].status = "done"

Done(u) ==
  /\ Unsettled(u) /\ url'[u].status = "done"
  /\ url[u].claimedBy # NoWorker /\ HasOpenAttempt(u) /\ Running(u)

Failed(u) ==
  /\ Unsettled(u) /\ url'[u].status = "failed_permanent"
  /\ job[JobOf[u]] \in {"running", "pausing", "canceling"}

Canceled(u) ==
  /\ Unsettled(u) /\ url'[u].status = "canceled"
  /\ job[JobOf[u]] \in {"running", "paused", "pausing", "canceling"}
  /\ job'[JobOf[u]] \in {"canceling", "canceled"}

RowChange(u) ==
  RowKept(u) \/ StaysOpen(u) \/ Seeded(u) \/ Found(u) \/ Done(u) \/ Failed(u) \/ Canceled(u)

LEMMA RequestsChangeRows ==
  ASSUME IInv, NEW j \in Jobs, CreateCrawl(j) \/ CommitCancel(j), NEW u \in Urls
  PROVE  RowChange(u)
  <1>1. u \in Urls /\ JobOf[u] \in Jobs /\ JobOf[SeedOf[j]] = j /\ SeedOf[j] \in Urls
        /\ url[u] \in Row
    BY ConstantsAssumption DEF IInv, TypeOK
  <1>2. CASE CreateCrawl(j)
    <2>1. CASE u = SeedOf[j]
      <3>1. url[u].status = "absent" /\ job[j] = "absent" /\ job'[j] = "running"
        BY <1>1, <1>2, <2>1 DEF CreateCrawl, IInv, TypeOK, JobsOK
      <3>2. url'[u].status = "queued"
        BY <1>2, <2>1, <1>1 DEF CreateCrawl, IInv, TypeOK, QueuedRow, AbsentRow
      <3> QED
        BY <1>1, <2>1, <3>1, <3>2 DEF RowChange, Seeded, Unsettled, TerminalUrlStatuses
    <2>2. CASE u # SeedOf[j]
      BY <1>2, <2>2 DEF CreateCrawl, IInv, TypeOK, RowChange, RowKept
    <2> QED
      BY <2>1, <2>2
  <1>3. CASE CommitCancel(j)
    <2>1. CASE u \in WaitingUrls(j)
      <3>1. Unsettled(u) /\ JobOf[u] = j
        BY <2>1 DEF WaitingUrls, UrlsOf, Unsettled
      <3>2. url'[u].status = "canceled"
        BY <1>1, <1>3, <2>1 DEF CommitCancel, CanceledRow, Unclaimed, Row
      <3>3. job[j] \in {"running", "paused", "pausing", "canceling"}
        <4>1. job[j] \in JobStatuses
          BY <3>1 DEF IInv, TypeOK, JobsOK, Unsettled
        <4>2. job[j] \notin TerminalJobStatuses \cup {"pending"}
          BY <1>1, <3>1 DEF IInv, JobsOK, FinishedJobsAreSettled, UrlsOf, Unsettled
        <4> QED
          BY <4>1, <4>2 DEF JobStatuses, TerminalJobStatuses
      <3>4. job'[j] = "canceling"
        BY <1>3, <3>3 DEF CommitCancel, IInv, TypeOK, CancelableJobStatuses
      <3> QED
        BY <3>1, <3>2, <3>3, <3>4 DEF RowChange, Canceled
    <2>2. CASE u \notin WaitingUrls(j)
      BY <1>3, <2>2 DEF CommitCancel, RowChange, RowKept
    <2> QED
      BY <2>1, <2>2
  <1> QED
    BY <1>2, <1>3

LEMMA WorkersChangeRows ==
  ASSUME IInv, NEW w \in Workers,
         \/ CommitClaim(w) \/ \E x \in Urls : StartFetch(w, x)
         \/ CommitFailure(w) \/ CommitSuccess(w),
         NEW u \in Urls
  PROVE  RowChange(u)
  <1>1. u \in Urls /\ url[u] \in Row
    BY DEF IInv, TypeOK
  <1>2. CASE CommitClaim(w)
    <2>1. CASE u \in worker[w].batch
      <3>1. url[u].status \in RunnableUrlStatuses
        BY <1>2, <2>1 DEF CommitClaim, IInv, WorkersOK, ClaimOK
      <3>2. url'[u].status = "claimed"
        BY <1>1, <1>2, <2>1 DEF CommitClaim, ClaimedRow, Row
      <3> QED
        BY <3>1, <3>2 DEF RowChange, StaysOpen, Unsettled, RunnableUrlStatuses, TerminalUrlStatuses
    <2>2. CASE u \notin worker[w].batch
      BY <1>2, <2>2 DEF CommitClaim, RowChange, RowKept
    <2> QED
      BY <2>1, <2>2
  <1>3. ASSUME NEW x \in Urls, StartFetch(w, x)
        PROVE  RowChange(u)
    <2>1. CASE u = x
      <3>1. url[u].status = "claimed" /\ url'[u].status = "fetching"
        BY <1>1, <1>3, <2>1 DEF StartFetch, MayFetch, FetchingRow, IInv, TypeOK, Row
      <3> QED
        BY <3>1 DEF RowChange, StaysOpen, Unsettled, TerminalUrlStatuses
    <2>2. CASE u # x
      BY <1>3, <2>2 DEF StartFetch, IInv, TypeOK, RowChange, RowKept
    <2> QED
      BY <2>1, <2>2
  <1>4. CASE CommitFailure(w)
    <2>1. CASE u = worker[w].url
      <3>1. /\ url[u].status = "fetching" /\ job[JobOf[u]] \in {"running", "pausing", "canceling"}
            /\ worker[w].verdict \in {"retry_wait", "failed_permanent"}
        BY <1>4, <2>1 DEF CommitFailure, IInv, TypeOK, WorkerState, WorkersOK, MarkOK
      <3>2. url'[u] = FailedRow(url[u], worker[w].verdict)
        BY <1>4, <2>1 DEF CommitFailure, IInv, TypeOK
      <3>3. url'[u].status = worker[w].verdict
        BY <1>1, <3>1, <3>2 DEF FailedRow, RetryWaitRow, FailedPermanentRow, Unclaimed, Row
      <3> QED
        BY <3>1, <3>3 DEF RowChange, StaysOpen, Failed, Unsettled, TerminalUrlStatuses
    <2>2. CASE u # worker[w].url
      BY <1>4, <2>2 DEF CommitFailure, IInv, TypeOK, RowChange, RowKept
    <2> QED
      BY <2>1, <2>2
  <1>5. CASE CommitSuccess(w)
    <2> DEFINE d == worker[w].url
    <2>1. /\ d \in Urls /\ url[d] \in Row /\ RowOK(url[d], attempts[d])
          /\ url[d].claimedBy = w /\ url[d].status = "fetching"
          /\ Running(d) /\ job' = job
      BY <1>5 DEF IInv, TypeOK, RowsOK, WorkersOK, FetchOK, CommitSuccess, MayRecord, Owns
    <2>2. PICK found \in SUBSET {v \in Urls : JobOf[v] = JobOf[d] /\ url[v].status = "absent"} :
            url' = [v \in Urls |-> IF v \in found THEN QueuedRow
                                   ELSE IF v = d THEN DoneRow(url[v]) ELSE url[v]]
      BY <1>5 DEF CommitSuccess
    <2>3. attempts' = [attempts EXCEPT ![d] = Finished(attempts[d], "success")]
      BY <1>5 DEF CommitSuccess, IInv, TypeOK
    <2> HIDE DEF d
    <2>4. url'[d].status = "done" /\ d \notin found /\ Unsettled(d)
      BY <2>1, <2>2 DEF DoneRow, Unclaimed, Row, Unsettled, TerminalUrlStatuses
    <2>5. CASE u = d
      <3>1. HasOpenAttempt(u)
        BY <2>1, <2>5 DEF RowOK, HasOpenAttempt
      <3> QED
        BY <2>1, <2>4, <2>5, <3>1, ConstantsAssumption DEF RowChange, Done
    <2>6. CASE u \in found
      <3>1. url[u].status = "absent" /\ JobOf[u] = JobOf[d] /\ url'[u].status = "queued"
        BY <2>2, <2>6 DEF QueuedRow, AbsentRow
      <3> QED
        BY <2>1, <2>4, <3>1 DEF RowChange, Found, Unsettled, Running, TerminalUrlStatuses
    <2>7. CASE u # d /\ u \notin found
      BY <2>2, <2>3, <2>7 DEF IInv, TypeOK, RowChange, RowKept
    <2> QED
      BY <2>5, <2>6, <2>7
  <1> QED
    BY <1>2, <1>3, <1>4, <1>5

LEMMA TimeChangesRows ==
  ASSUME IInv, NEW x \in Urls, NEW u \in Urls,
         \/ \E w \in Workers : Heartbeat(w, x)
         \/ ExpireLease(x) \/ LapseLease(x) \/ BackoffElapses(x)
  PROVE  RowChange(u)
  <1>1. CASE u = x
    <2>1. url[x] \in Row /\ RowOK(url[x], attempts[x])
      BY DEF IInv, TypeOK, RowsOK
    <2>2. Unsettled(x)
      BY <2>1 DEF RowOK, Heartbeat, ExpireLease, LapseLease, BackoffElapses, Unsettled,
                  ActiveUrlStatuses, TerminalUrlStatuses
    <2>3. url'[x].status = url[x].status
      BY <2>1 DEF Heartbeat, ExpireLease, LapseLease, BackoffElapses, IInv, TypeOK, Row
    <2> QED
      BY <1>1, <2>2, <2>3 DEF RowChange, StaysOpen, Unsettled
  <1>2. CASE u # x
    BY <1>2 DEF Heartbeat, ExpireLease, LapseLease, BackoffElapses, IInv, TypeOK, RowChange, RowKept
  <1> QED
    BY <1>1, <1>2

LEMMA TickChangesRows ==
  ASSUME IInv, CommitTick, NEW u \in Urls
  PROVE  RowChange(u)
  <1>1. /\ url'[u].status = SchedulerSees(u)
        /\ u \notin SchedulerLocks => RowKept(u)
        /\ u \in SchedulerLocks => /\ Unsettled(u)
                                   /\ url'[u].status \in {"queued", "canceled"}
    BY TickShowsWhatItSaw DEF Unsettled, RowKept
  <1>2. CASE u \in scheduler.canceled
    <2>1. url'[u].status = "canceled" /\ u \in SchedulerLocks
      BY <1>1, <1>2 DEF SchedulerSees, SchedulerLocks
    <2>2. job[JobOf[u]] = "canceling" /\ JobOf[u] \in Jobs
      BY <1>2, ConstantsAssumption DEF IInv, SchedulerOK
    <2>3. job'[JobOf[u]] \in {"canceling", "canceled"}
      BY <2>2 DEF CommitTick, AdvancedStatus
    <2> QED
      BY <1>1, <2>1, <2>2, <2>3 DEF RowChange, Canceled
  <1>3. CASE u \in scheduler.released /\ u \notin scheduler.canceled
    <2>1. url'[u].status = "queued" /\ u \in SchedulerLocks
      BY <1>1, <1>3 DEF SchedulerSees, SchedulerLocks
    <2> QED
      BY <1>1, <2>1 DEF RowChange, StaysOpen, Unsettled, TerminalUrlStatuses
  <1>4. CASE u \notin SchedulerLocks
    BY <1>1, <1>4 DEF RowChange
  <1> QED
    BY <1>2, <1>3, <1>4 DEF SchedulerLocks

LEMMA EveryStepChangesRows ==
  ASSUME IInv, [Next]_vars, NEW u \in Urls
  PROVE  RowChange(u)
  <1>1. CASE UNCHANGED <<url, attempts>>
    BY <1>1 DEF RowChange, RowKept
  <1>2. CASE ApiNext
    BY <1>1, <1>2, RequestsChangeRows
       DEF ApiNext, RequestPause, RequestResume, RequestCancel, AbortCancel, rows
  <1>3. ASSUME NEW w \in Workers,
               \/ SelectBatch(w) \/ MarkFailure(w) \/ DiscardResult(w) \/ Crash(w)
               \/ \E x \in Urls : SkipUrl(w, x)
        PROVE  UNCHANGED <<url, attempts>>
    BY <1>3 DEF SelectBatch, MarkFailure, DiscardResult, Crash, SkipUrl, rows
  <1>4. CASE WorkerNext
    BY <1>1, <1>3, <1>4, WorkersChangeRows, TimeChangesRows DEF WorkerNext, ProcessBatch
  <1>5. CASE TimeNext
    BY <1>5, TimeChangesRows DEF TimeNext
  <1>6. CASE Tick \/ AbortTick
    BY <1>1, <1>6, TickChangesRows
       DEF Tick, ReleaseLeases, CancelWaitingUrls, AdvanceJobs, AbortTick, rows
  <1>7. CASE UNCHANGED vars
    BY <1>1, <1>7 DEF vars
  <1> QED
    BY <1>2, <1>4, <1>5, <1>6, <1>7 DEF Next

-----------------------------------------------------------------------------
(* The changes of a job.                                                   *)

JobChange(j) ==
  \/ job'[j] = job[j]
  \/ job[j] \in {"absent", "paused"} /\ job'[j] = "running"
  \/ job[j] = "running" /\ job'[j] = "pausing"
  \/ job[j] = "pausing" /\ job'[j] = "paused"
  \/ job[j] \in {"running", "paused", "pausing"} /\ job'[j] = "canceling"
  \/ job[j] = "canceling" /\ job'[j] = "canceled"
  \/ job[j] = "running" /\ job'[j] = "completed"

LEMMA EveryStepChangesJobs ==
  ASSUME IInv, [Next]_vars, NEW j \in Jobs
  PROVE  JobChange(j)
  <1> USE DEF JobChange
  <1>1. job \in [Jobs -> JobStatuses \cup {"absent"}]
    BY DEF IInv, TypeOK
  <1>2. CASE UNCHANGED job
    BY <1>2
  <1>3. CASE ApiNext
    <2>1. PICK k \in Jobs : \/ CreateCrawl(k) \/ RequestPause(k) \/ RequestResume(k)
                            \/ RequestCancel(k) \/ CommitCancel(k) \/ AbortCancel(k)
      BY <1>3 DEF ApiNext
    <2>2. CASE j = k
      BY <1>1, <2>1, <2>2 DEF CreateCrawl, RequestPause, RequestResume, RequestCancel,
                              CommitCancel, AbortCancel, CancelableJobStatuses, rows
    <2>3. CASE j # k
      BY <1>1, <2>1, <2>3 DEF CreateCrawl, RequestPause, RequestResume, RequestCancel,
                              CommitCancel, AbortCancel, rows
    <2> QED
      BY <2>2, <2>3
  <1>4. CASE CommitTick
    <2>1. j \in scheduler.moved => job[j] \in {"pausing", "canceling", "running"}
      BY DEF IInv, SchedulerOK, MovedOK
    <2> QED
      BY <1>4, <2>1 DEF CommitTick, AdvancedStatus
  <1>5. CASE WorkerNext \/ TimeNext \/ ReleaseLeases \/ CancelWaitingUrls \/ AdvanceJobs
             \/ AbortTick \/ UNCHANGED vars
    <2>1. UNCHANGED job
      BY <1>5 DEF WorkerNext, ProcessBatch, SelectBatch, CommitClaim, StartFetch, SkipUrl,
                  MarkFailure, CommitFailure, CommitSuccess, DiscardResult, Crash, Heartbeat,
                  TimeNext, ExpireLease, LapseLease, BackoffElapses, ReleaseLeases,
                  CancelWaitingUrls, AdvanceJobs, AbortTick, vars, rows
    <2> QED
      BY <1>2, <2>1
  <1> QED
    BY <1>3, <1>4, <1>5 DEF Next, Tick

-----------------------------------------------------------------------------
(* The action properties.                                                  *)

(* repos/urls.py: every statement that writes a row asks for a status that is
   not terminal, and what was read before is still so when it is written. *)
THEOREM SettledRowsCorrectness == Spec => SettledRowsStay
  <1> DEFINE Stay == \A u \in Urls : url[u].status \in TerminalUrlStatuses
                       => url'[u] = url[u] /\ attempts'[u] = attempts[u]
  <1>1. ASSUME IInv, [Next]_vars PROVE Stay
    <2> SUFFICES ASSUME NEW u \in Urls, url[u].status \in TerminalUrlStatuses
                 PROVE  RowKept(u)
      BY DEF RowKept
    <2>1. RowChange(u)
      BY <1>1, EveryStepChangesRows
    <2> QED
      BY <2>1 DEF RowChange, StaysOpen, Seeded, Found, Done, Failed, Canceled, Unsettled,
                  TerminalUrlStatuses
  <1>2. IInv /\ [Next]_vars => [Stay]_vars
    BY <1>1
  <1> QED
    BY <1>2, InvariantHolds, PTL DEF Spec, SettledRowsStay

(* services/orchestrator.py:225-245: a result is recorded by the owner of the
   row, for the attempt it opened, in a job that runs. *)
THEOREM SuccessCorrectness == Spec => SuccessOnlyWhileRunning
  <1> DEFINE Owned == \A u \in Urls : url[u].status # "done" /\ url'[u].status = "done"
                        => Running(u) /\ url[u].claimedBy # NoWorker /\ HasOpenAttempt(u)
  <1>1. ASSUME IInv, [Next]_vars PROVE Owned
    <2> SUFFICES ASSUME NEW u \in Urls, url[u].status # "done", url'[u].status = "done"
                 PROVE  Running(u) /\ url[u].claimedBy # NoWorker /\ HasOpenAttempt(u)
      OBVIOUS
    <2>1. RowChange(u)
      BY <1>1, EveryStepChangesRows
    <2> QED
      BY <2>1 DEF RowChange, RowKept, StaysOpen, Seeded, Found, Done, Failed, Canceled,
                  Unsettled, TerminalUrlStatuses
  <1>2. IInv /\ [Next]_vars => [Owned]_vars
    BY <1>1
  <1> QED
    BY <1>2, InvariantHolds, PTL DEF Spec, SuccessOnlyWhileRunning

-----------------------------------------------------------------------------
(* The log of attempts.                                                    *)

(* What a step may do to the attempts of a row. *)
LogStep(u) == attempts'[u] = attempts[u] \/ OwnerBegins(u) \/ OwnerEnds(u) \/ LeaseEnds(u)

LEMMA StartFetchLogs ==
  ASSUME IInv, NEW w \in Workers, NEW u \in Urls, StartFetch(w, u), NEW x \in Urls
  PROVE  LogStep(x)
  <1>1. CASE x = u
    <2>1. /\ url[u].claimedBy = w /\ url[u].status = "claimed" /\ Running(u)
          /\ RowOK(url[u], attempts[u])
      BY DEF StartFetch, MayFetch, IInv, RowsOK
    <2>2. attempts'[u] = Append(attempts[u], "in_progress") /\ worker'[w].url = u
      BY DEF StartFetch, IInv, TypeOK, WorkerState
    <2> QED
      BY <1>1, <2>1, <2>2
         DEF LogStep, OwnerBegins, HasOpenAttempt, RowOK, Owns, ActiveUrlStatuses
  <1>2. CASE x # u
    BY <1>2 DEF LogStep, StartFetch, IInv, TypeOK
  <1> QED
    BY <1>1, <1>2

(* A worker that turns to the rest of its batch has let go of the row. *)
LEMMA AfterUrlLetsGo ==
  ASSUME NEW w \in Workers, NEW u
  PROVE  AfterUrl(w, u).url = NoUrl
  BY DEF AfterUrl, IdleWorker

LEMMA CommitFailureLogs ==
  ASSUME IInv, NEW w \in Workers, CommitFailure(w), NEW x \in Urls
  PROVE  LogStep(x)
  <1> DEFINE u == worker[w].url
  <1>1. /\ u \in Urls /\ url[u].claimedBy = w /\ url[u].status = "fetching"
        /\ worker[w].verdict \in {"retry_wait", "failed_permanent"}
        /\ worker[w].verdict = "retry_wait" => url[u].fetchAttempts + 1 < MaxAttempts
        /\ RowOK(url[u], attempts[u]) /\ attempts[u] \in Seq(AttemptResults)
    BY DEF CommitFailure, IInv, TypeOK, WorkerState, WorkersOK, MarkOK, RowsOK
  <1>2. CASE x = u
    <2>1. worker'[w].url = NoUrl
      BY AfterUrlLetsGo DEF CommitFailure, IInv, TypeOK
    <2>2. attempts'[u] = Finished(attempts[u], worker[w].verdict)
      BY <1>1 DEF CommitFailure, IInv, TypeOK
    <2>3. url[u].fetchAttempts + 1 = Len(attempts[u])
      BY <1>1, LenProperties DEF RowOK
    <2> QED
      BY <1>1, <1>2, <2>1, <2>2, <2>3
         DEF LogStep, OwnerEnds, HasOpenAttempt, RowOK, Owns, ActiveUrlStatuses
  <1>3. CASE x # u
    BY <1>3 DEF LogStep, CommitFailure, IInv, TypeOK
  <1> QED
    BY <1>2, <1>3

LEMMA CommitSuccessLogs ==
  ASSUME IInv, NEW w \in Workers, CommitSuccess(w), NEW x \in Urls
  PROVE  LogStep(x)
  <1> DEFINE u == worker[w].url
  <1>1. /\ u \in Urls /\ Owns(w, u) /\ Running(u) /\ url[u].status = "fetching"
        /\ RowOK(url[u], attempts[u])
    BY DEF CommitSuccess, MayRecord, IInv, WorkersOK, FetchOK, RowsOK
  <1>2. CASE x = u
    <2>1. worker'[w].url = NoUrl
      BY AfterUrlLetsGo DEF CommitSuccess, IInv, TypeOK
    <2>2. attempts'[u] = Finished(attempts[u], "success")
      BY <1>1 DEF CommitSuccess, IInv, TypeOK
    <2> QED
      BY <1>1, <1>2, <2>1, <2>2 DEF LogStep, OwnerEnds, HasOpenAttempt, RowOK
  <1>3. CASE x # u
    BY <1>3 DEF LogStep, CommitSuccess, IInv, TypeOK
  <1> QED
    BY <1>2, <1>3

(* The lease that release_expired_leases saw expired still is at its commit. *)
LEMMA CommitTickLogs ==
  ASSUME IInv, CommitTick, NEW x \in Urls
  PROVE  LogStep(x)
  <1>1. CASE x \in scheduler.released /\ HasOpenAttempt(x)
    BY <1>1 DEF CommitTick, LogStep, LeaseEnds, IInv, SchedulerOK
  <1>2. CASE ~(x \in scheduler.released /\ HasOpenAttempt(x))
    BY <1>2 DEF CommitTick, LogStep
  <1> QED
    BY <1>1, <1>2

LEMMA EveryStepLogs ==
  ASSUME IInv, [Next]_vars, NEW x \in Urls
  PROVE  LogStep(x)
  <1> SUFFICES ASSUME attempts' # attempts PROVE LogStep(x)
    BY DEF LogStep
  <1>1. CASE WorkerNext
    <2>1. PICK w \in Workers : ProcessBatch(w)
      BY <1>1 DEF WorkerNext, SelectBatch, CommitClaim, Crash, Heartbeat, rows
    <2>2. \/ \E u \in Urls : StartFetch(w, u)
          \/ CommitFailure(w) \/ CommitSuccess(w)
      BY <2>1 DEF ProcessBatch, SkipUrl, MarkFailure, DiscardResult, rows
    <2> QED
      BY <2>2, StartFetchLogs, CommitFailureLogs, CommitSuccessLogs
  <1>2. CASE CommitTick
    BY <1>2, CommitTickLogs
  <1>3. ~ (ApiNext \/ TimeNext \/ ReleaseLeases \/ CancelWaitingUrls \/ AdvanceJobs
           \/ AbortTick \/ UNCHANGED vars)
    BY DEF ApiNext, CreateCrawl, RequestPause, RequestResume, RequestCancel, CommitCancel,
           AbortCancel, TimeNext, ExpireLease, LapseLease, BackoffElapses, ReleaseLeases,
           CancelWaitingUrls, AdvanceJobs, AbortTick, rows, vars
  <1> QED
    BY <1>1, <1>2, <1>3 DEF Next, Tick

(* repos/attempts.py: an attempt is opened by the owner of the row, ended once by
   the worker that opened it or by the release of its expired lease, and never
   written again. *)
THEOREM LogCorrectness == Spec => AttemptsAreLogged
  <1> DEFINE Logged == \A u \in Urls : attempts'[u] # attempts[u]
                         => OwnerBegins(u) \/ OwnerEnds(u) \/ LeaseEnds(u)
  <1>1. IInv /\ [Next]_vars => [Logged]_vars
    BY EveryStepLogs DEF LogStep
  <1> QED
    BY <1>1, InvariantHolds, PTL DEF Spec, AttemptsAreLogged

-----------------------------------------------------------------------------
(* The contract.                                                           *)

Status == [j \in Jobs |-> IF job[j] = "absent" THEN "pending" ELSE job[j]]
Outcome == [u \in Urls |-> OutcomeOf(url[u])]

LEMMA InitKeepsContract == Init => Contract!Init
  BY ConstantsAssumption
     DEF Init, Contract!Init, OutcomeOf, AbsentRow

LEMMA JobsKeepContract ==
  ASSUME IInv, IInv', [Next]_vars, NEW j \in Jobs
  PROVE  Status'[j] = Status[j] \/ Contract!JobStep(j)
  <1>1. JobChange(j)
    BY EveryStepChangesJobs
  <1>2. job'[j] \in TerminalJobStatuses => \A u \in Urls : JobOf[u] = j => Outcome'[u] # "open"
    BY DEF IInv, JobsOK, FinishedJobsAreSettled, UrlsOf, Outcome, OutcomeOf, TerminalUrlStatuses
  <1>3. job[j] # "pending" /\ job'[j] # "pending"
    BY DEF IInv, JobsOK
  <1> QED
    BY <1>1, <1>2, <1>3
       DEF JobChange, TerminalJobStatuses, Status, Outcome,
           Contract!JobStep, Contract!JobMoves, Contract!SettledAfter

LEMMA RowsKeepContract ==
  ASSUME IInv, IInv', [Next]_vars, NEW u \in Urls
  PROVE  Outcome'[u] = Outcome[u] \/ Contract!UrlStep(u)
  <1>1. RowChange(u)
    BY EveryStepChangesRows
  <1>2. JobOf[u] \in Jobs
    BY ConstantsAssumption
  <1>3. \A v \in Urls : /\ Unsettled(v) <=> Outcome[v] = "open"
                        /\ Unsettled(v)' <=> Outcome'[v] = "open"
                        /\ url[v].status = "absent" <=> Outcome[v] = "absent"
                        /\ url'[v].status \in {"done", "failed_permanent", "canceled"}
                             => Outcome'[v] = url'[v].status
    BY DEF Unsettled, Outcome, OutcomeOf, TerminalUrlStatuses
  <1> QED
    BY <1>1, <1>2, <1>3
       DEF RowChange, RowKept, StaysOpen, Seeded, Found, Done, Failed, Canceled, Running,
           Status, Outcome, OutcomeOf,
           Contract!UrlStep, Contract!Inserted, Contract!Settles, Contract!FoundByDoneRow

(* Workers, scheduler and API together implement the crawl of CrawlContract:
   every step of theirs is a step of it, or changes nothing it speaks of. *)
THEOREM CrawlKeepsContract == Spec => KeepsContract
  <1>1. IInv /\ IInv' /\ [Next]_vars => [Contract!Next]_<<Status, Outcome>>
    BY JobsKeepContract, RowsKeepContract DEF Contract!Next, Status, Outcome
  <1> QED
    BY <1>1, InitKeepsContract, InvariantHolds, PTL
       DEF Spec, KeepsContract, Contract!Spec, Status, Outcome
=============================================================================
