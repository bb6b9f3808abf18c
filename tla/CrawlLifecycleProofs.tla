------------------------ MODULE CrawlLifecycleProofs ------------------------
(***************************************************************************)
(* The safety properties of CrawlLifecycle hold for every set of jobs,     *)
(* rows and workers and every value of the bounds.                         *)
(***************************************************************************)
EXTENDS CrawlInvariant, SequenceTheorems, TLAPS

-----------------------------------------------------------------------------
(* What a statement does to a row and to its attempts.                     *)

(* start_attempt on a row whose attempts are all finished. *)
LEMMA AttemptStarted ==
  ASSUME NEW seq \in Seq(AttemptResults), NEW row, NEW row2,
         RowOK(row, seq), row.status = "claimed",
         row2.status = "fetching",
         row2.claimedBy = row.claimedBy, row2.lease = row.lease,
         row2.fetchAttempts = row.fetchAttempts
  PROVE  /\ Append(seq, "in_progress") \in Seq(AttemptResults)
         /\ RowOK(row2, Append(seq, "in_progress"))
  <1> DEFINE app == Append(seq, "in_progress")
  <1>1. /\ app \in Seq(AttemptResults) /\ app # <<>>
        /\ Len(app) = Len(seq) + 1 /\ Len(seq) \in Nat
        /\ \A i \in 1 .. Len(seq) : app[i] = seq[i]
        /\ app[Len(app)] = "in_progress"
    BY AppendProperties, LenProperties DEF AttemptResults
  <1>2. \A i \in 1 .. Len(seq) :
          seq[i] \in {"retry_wait", "abandoned"} /\ (seq[i] = "retry_wait" => i < MaxAttempts)
    <2> TAKE i \in 1 .. Len(seq)
    <2>1. CASE i = Len(seq)
      <3>1. seq # <<>> /\ seq[i] \in AttemptResults
        BY <2>1, <1>1, EmptySeq, ElementOfSeq
      <3> QED
        BY <3>1, <2>1 DEF RowOK, Open, AttemptResults
    <2>2. CASE i # Len(seq)
      BY <2>2, <1>1 DEF RowOK
    <2> QED
      BY <2>1, <2>2
  <1>3. /\ \A i \in 1 .. Len(app) - 1 : app[i] \in {"retry_wait", "abandoned"}
        /\ \A i \in 1 .. Len(app) : app[i] = "retry_wait" => i < MaxAttempts
    BY <1>1, <1>2
  <1>4. Open(app) /\ app[Len(app)] \notin {"success", "failed_permanent"}
    BY <1>1 DEF Open
  <1> HIDE DEF app
  <1>5. RowOK(row2, app)
    BY <1>1, <1>3, <1>4 DEF RowOK, ActiveUrlStatuses
  <1> QED
    BY <1>1, <1>5 DEF app

(* finish_attempt on a row whose last attempt is open. *)
LEMMA AttemptFinished ==
  ASSUME NEW seq \in Seq(AttemptResults), Open(seq),
         NEW result \in AttemptResults \ {"in_progress"}
  PROVE  /\ Finished(seq, result) \in Seq(AttemptResults)
         /\ Len(Finished(seq, result)) = Len(seq)
         /\ Len(seq) \in Nat \ {0}
         /\ Finished(seq, result) # <<>>
         /\ Finished(seq, result)[Len(seq)] = result
         /\ \A i \in 1 .. Len(seq) - 1 : Finished(seq, result)[i] = seq[i]
         /\ ~Open(Finished(seq, result))
  <1>1. Len(seq) \in Nat \ {0}
    BY EmptySeq DEF Open
  <1>2. /\ Finished(seq, result) \in Seq(AttemptResults)
        /\ Len(Finished(seq, result)) = Len(seq)
        /\ \A i \in 1 .. Len(seq) :
             Finished(seq, result)[i] = IF i = Len(seq) THEN result ELSE seq[i]
    BY <1>1, ExceptSeq DEF Finished
  <1>3. Finished(seq, result) # <<>>
    BY <1>1, <1>2, EmptySeq
  <1> QED
    BY <1>1, <1>2, <1>3 DEF Open

(* A row that was being fetched is settled or requeued with its attempt. *)
LEMMA RowFinished ==
  ASSUME NEW seq \in Seq(AttemptResults), NEW row, NEW row2,
         NEW result \in AttemptResults \ {"in_progress"},
         RowOK(row, seq), row.status = "fetching",
         row2.claimedBy = NoWorker, row2.lease = "none",
         row2.fetchAttempts = row.fetchAttempts + 1,
         \/ result = "success" /\ row2.status = "done"
         \/ result = "failed_permanent" /\ row2.status = "failed_permanent"
         \/ result = "abandoned" /\ row2.status = "queued"
         \/ /\ result = "retry_wait" /\ row2.status = "retry_wait"
            /\ row.fetchAttempts + 1 < MaxAttempts
  PROVE  RowOK(row2, Finished(seq, result))
  <1>1. Open(seq)
    BY DEF RowOK
  <1> DEFINE fin == Finished(seq, result)
  <1>2. /\ Len(fin) = Len(seq) /\ Len(seq) \in Nat \ {0}
        /\ fin # <<>> /\ fin[Len(seq)] = result /\ ~Open(fin)
        /\ \A i \in 1 .. Len(seq) - 1 : fin[i] = seq[i]
    BY <1>1, AttemptFinished
  <1> HIDE DEF fin
  <1>3. /\ \A i \in 1 .. Len(fin) - 1 : fin[i] \in {"retry_wait", "abandoned"}
        /\ \A i \in 1 .. Len(fin) : fin[i] = "retry_wait" => i < MaxAttempts
    BY <1>2 DEF RowOK
  <1>4. RowOK(row2, fin)
    BY <1>2, <1>3 DEF RowOK, ActiveUrlStatuses
  <1> QED
    BY <1>4 DEF fin

LEMMA RowWritten ==
  ASSUME NEW row \in Row, NEW seq \in Seq(AttemptResults), RowOK(row, seq)
  PROVE  /\ row.status = "absent" => RowOK(QueuedRow, seq)
         /\ \A w \in Workers : row.status \in RunnableUrlStatuses
              => RowOK(ClaimedRow(row, w), seq)
         /\ row.status \notin ActiveUrlStatuses \cup TerminalUrlStatuses \cup {"absent"}
              => RowOK(CanceledRow(row), seq)
         /\ \A l \in {"live", "expired"} : row.lease # "none"
              => RowOK([row EXCEPT !.lease = l], seq)
         /\ \A d \in BOOLEAN : RowOK([row EXCEPT !.due = d], seq)
  <1> USE DEF Row, ActiveUrlStatuses
  <1>1. row.status = "absent" => RowOK(QueuedRow, seq)
    BY EmptySeq DEF RowOK, QueuedRow, AbsentRow
  <1>2. \A w \in Workers : row.status \in RunnableUrlStatuses
              => RowOK(ClaimedRow(row, w), seq)
    BY ConstantsAssumption DEF RowOK, ClaimedRow, RunnableUrlStatuses
  <1>3. row.status \notin ActiveUrlStatuses \cup TerminalUrlStatuses \cup {"absent"}
              => RowOK(CanceledRow(row), seq)
    BY DEF RowOK, CanceledRow, Unclaimed, TerminalUrlStatuses
  <1>4. \A l \in {"live", "expired"} : row.lease # "none"
              => RowOK([row EXCEPT !.lease = l], seq)
    BY DEF RowOK
  <1>5. \A d \in BOOLEAN : RowOK([row EXCEPT !.due = d], seq)
    BY DEF RowOK
  <1> QED
    BY <1>1, <1>2, <1>3, <1>4, <1>5

(* release_expired_leases on one row and its attempts. *)
LEMMA RowReleased ==
  ASSUME NEW row \in Row, NEW seq \in Seq(AttemptResults),
         RowOK(row, seq), row.status \in ActiveUrlStatuses
  PROVE  LET seq2 == IF Open(seq) THEN Finished(seq, "abandoned") ELSE seq
         IN  /\ ReleasedRow(row, Open(seq)) \in Row
             /\ seq2 \in Seq(AttemptResults)
             /\ RowOK(ReleasedRow(row, Open(seq)), seq2)
             /\ RowOK(CanceledRow(ReleasedRow(row, Open(seq))), seq2)
  <1> DEFINE seq2 == IF Open(seq) THEN Finished(seq, "abandoned") ELSE seq
             row2 == ReleasedRow(row, Open(seq))
  <1>1. row2 \in Row
    <2>1. Unclaimed(row) \in Row
      BY DEF Unclaimed, Row
    <2> DEFINE n == IF Open(seq) THEN Unclaimed(row).fetchAttempts + 1
                    ELSE Unclaimed(row).fetchAttempts
    <2>2. n \in Nat
      BY <2>1 DEF Row
    <2>3. row2 = [Unclaimed(row) EXCEPT !.status = "queued", !.due = TRUE,
                                        !.fetchAttempts = n]
      BY DEF ReleasedRow
    <2> HIDE DEF n
    <2> QED
      BY <2>1, <2>2, <2>3 DEF Row, UrlStatuses
  <1>2. seq2 \in Seq(AttemptResults)
    BY AttemptFinished DEF AttemptResults
  <1>3. RowOK(row2, seq2)
    <2>1. CASE Open(seq)
      <3>1. row.status = "fetching"
        BY <2>1 DEF RowOK
      <3>2. /\ row2.claimedBy = NoWorker /\ row2.lease = "none"
            /\ row2.fetchAttempts = row.fetchAttempts + 1 /\ row2.status = "queued"
        BY <2>1 DEF ReleasedRow, Unclaimed, Row
      <3> HIDE DEF row2
      <3> QED
        BY <3>1, <3>2, <2>1, RowFinished DEF AttemptResults
    <2>2. CASE ~Open(seq)
      BY <2>2 DEF RowOK, ReleasedRow, Unclaimed, ActiveUrlStatuses, Row
    <2> QED
      BY <2>1, <2>2
  <1>4. row2.status = "queued"
    BY DEF ReleasedRow, Unclaimed, Row
  <1> HIDE DEF row2, seq2
  <1>5. RowOK(CanceledRow(row2), seq2)
    BY <1>1, <1>2, <1>3, <1>4, RowWritten DEF ActiveUrlStatuses, TerminalUrlStatuses
  <1> QED
    BY <1>1, <1>2, <1>3, <1>5 DEF row2, seq2

LEMMA RowTyped ==
  ASSUME NEW row \in Row
  PROVE  /\ QueuedRow \in Row /\ FetchingRow(row) \in Row /\ CanceledRow(row) \in Row
         /\ \A w \in Workers : ClaimedRow(row, w) \in Row
         /\ DoneRow(row) \in Row /\ RetryWaitRow(row) \in Row
         /\ FailedPermanentRow(row) \in Row
  <1>1. Unclaimed(row) \in Row
    BY DEF Unclaimed, Row
  <1>0. Unclaimed(row).fetchAttempts + 1 \in Nat
    BY <1>1 DEF Row
  <1>2. QueuedRow \in Row
    BY DEF QueuedRow, AbsentRow, Row, UrlStatuses
  <1>3. FetchingRow(row) \in Row
    BY DEF FetchingRow, Row, UrlStatuses
  <1>4. CanceledRow(row) \in Row
    BY <1>1 DEF CanceledRow, Row, UrlStatuses
  <1>5. \A w \in Workers : ClaimedRow(row, w) \in Row
    BY DEF ClaimedRow, Row, UrlStatuses
  <1>6. DoneRow(row) \in Row
    BY <1>1, <1>0 DEF DoneRow, Row, UrlStatuses
  <1>7. RetryWaitRow(row) \in Row
    BY <1>1, <1>0 DEF RetryWaitRow, Row, UrlStatuses
  <1>8. FailedPermanentRow(row) \in Row
    BY <1>1, <1>0 DEF FailedPermanentRow, Row, UrlStatuses
  <1> QED
    BY <1>2, <1>3, <1>4, <1>5, <1>6, <1>7, <1>8

-----------------------------------------------------------------------------
(* Parts of the invariant that a step leaves alone.                        *)

LEMMA RowsFrame ==
  ASSUME RowsOK, UNCHANGED <<url, attempts>>
  PROVE  RowsOK'
  BY DEF RowsOK

LEMMA JobsFrame ==
  ASSUME JobsOK, UNCHANGED <<job, url>>
  PROVE  JobsOK'
  BY DEF JobsOK, FinishedJobsAreSettled, PausedJobsFetchNothing, UrlsOf

(* A step that keeps the jobs and the status of every row the scheduler has
   written, and takes no other row where a job it moves must not have it. *)
LEMMA SchedulerKept ==
  ASSUME SchedulerOK, scheduler' = scheduler,
         \A j \in scheduler.moved : job'[j] = job[j] /\ j \notin CancelLocks',
         \A u \in scheduler.canceled : job'[JobOf[u]] = job[JobOf[u]],
         \A u \in Urls :
           \/ url'[u].status = url[u].status
           \/ /\ u \notin SchedulerLocks
              /\ \/ JobOf[u] \notin scheduler.moved
                 \/ /\ url[u].status \notin TerminalUrlStatuses \cup {"absent"}
                    /\ url'[u].status # "fetching" \/ Running(u),
         \A u \in scheduler.released : url'[u].lease = url[u].lease,
         scheduler \in SchedulerState
  PROVE  SchedulerOK'
  <1> DEFINE Same(u) == url'[u].status = url[u].status
  <1>1. \A u \in scheduler.released :
          url'[u].status \in ActiveUrlStatuses /\ url'[u].lease = "expired"
    BY DEF SchedulerOK, SchedulerLocks, SchedulerState
  <1>2. \A u \in scheduler.canceled :
          /\ job'[JobOf[u]] = "canceling"
          /\ \/ u \in scheduler.released
             \/ url'[u].status \notin ActiveUrlStatuses \cup TerminalUrlStatuses \cup {"absent"}
    BY DEF SchedulerOK, SchedulerLocks, SchedulerState
  <1>3. ASSUME NEW j \in scheduler.moved
        PROVE  MovedOK(j)'
    <2>1. MovedOK(j) /\ j \in Jobs
      BY DEF SchedulerOK, SchedulerState
    <2>2. j \notin CancelLocks' /\ job'[j] \in {"pausing", "canceling", "running"}
      BY <2>1 DEF MovedOK
    <2>3. ASSUME NEW u \in UrlsOf(j)', ~Same(u)
          PROVE  /\ u \in UrlsOf(j) /\ job[j] = "pausing"
                 /\ SchedulerSees(u)' # "fetching"
      <3>1. u \in Urls /\ JobOf[u] = j
        BY DEF UrlsOf
      <3>2. /\ u \notin SchedulerLocks
            /\ url[u].status \notin TerminalUrlStatuses \cup {"absent"}
            /\ url'[u].status # "fetching" \/ Running(u)
        BY <2>3, <3>1
      <3>3. u \in UrlsOf(j) /\ SchedulerSees(u) = url[u].status
        BY <3>1, <3>2 DEF UrlsOf, SchedulerSees, SchedulerLocks
      <3>4. SchedulerSees(u)' = url'[u].status
        BY <3>2 DEF SchedulerSees, SchedulerLocks
      <3>5. job[j] = "pausing"
        BY <2>1, <3>2, <3>3 DEF MovedOK
      <3> QED
        BY <3>1, <3>2, <3>3, <3>4, <3>5 DEF Running
    <2>4. ASSUME NEW u \in UrlsOf(j)', Same(u)
          PROVE  u \in UrlsOf(j) /\ SchedulerSees(u)' = SchedulerSees(u)
      BY <2>4 DEF UrlsOf, SchedulerSees
    <2>5. job[j] = "pausing" => \A u \in UrlsOf(j)' : SchedulerSees(u)' # "fetching"
      BY <2>1, <2>3, <2>4 DEF MovedOK
    <2>6. job[j] # "pausing" =>
            \A u \in UrlsOf(j)' : SchedulerSees(u)' \in TerminalUrlStatuses
      BY <2>1, <2>3, <2>4 DEF MovedOK
    <2> QED
      BY <2>2, <2>5, <2>6 DEF MovedOK
  <1> QED
    BY <1>1, <1>2, <1>3 DEF SchedulerOK

LEMMA SchedulerFrame ==
  ASSUME SchedulerOK, UNCHANGED <<job, scheduler, cancels>>,
         \A u \in Urls :
           \/ url'[u].status = url[u].status
           \/ /\ u \notin SchedulerLocks
              /\ \/ JobOf[u] \notin scheduler.moved
                 \/ /\ url[u].status \notin TerminalUrlStatuses \cup {"absent"}
                    /\ url'[u].status # "fetching" \/ Running(u),
         \A u \in scheduler.released : url'[u].lease = url[u].lease,
         scheduler \in SchedulerState
  PROVE  SchedulerOK'
  <1>1. \A j \in scheduler.moved : j \notin CancelLocks'
    BY DEF SchedulerOK, MovedOK, CancelLocks
  <1> QED
    BY <1>1, SchedulerKept

(* A step of one worker, or of none, that leaves the rows other workers have
   locked as they are and gives no row to them. *)
LEMMA OtherWorkersFrame ==
  ASSUME WorkersOK, UNCHANGED scheduler,
         NEW v \in Workers, worker'[v] = worker[v],
         \A u \in Urls : job[JobOf[u]] \in {"running", "pausing", "canceling"}
           => job'[JobOf[u]] \in {"running", "pausing", "canceling"},
         \A x \in Workers \ {v} :
           worker'[x].pc = "claiming" => /\ worker[x].pc = "claiming"
                                         /\ worker'[x].batch = worker[x].batch,
         \A u \in Urls :
           \/ /\ url'[u].status = url[u].status
              /\ url'[u].claimedBy = url[u].claimedBy
              /\ url'[u].fetchAttempts = url[u].fetchAttempts
           \/ /\ worker[v].pc = "claiming" => u \notin worker[v].batch
              /\ worker[v].pc = "marking" => u # worker[v].url
              /\ url'[u].claimedBy # v,
         worker[v].batch \in SUBSET Urls
  PROVE  (ClaimOK(v) /\ FetchOK(v) /\ MarkOK(v))'
  <1>1. ClaimOK(v) /\ FetchOK(v) /\ MarkOK(v)
    BY DEF WorkersOK
  <1>2. ClaimOK(v)'
    BY <1>1 DEF ClaimOK, SchedulerLocks
  <1>3. FetchOK(v)'
    BY <1>1 DEF FetchOK, Owns
  <1>4. MarkOK(v)'
    BY <1>1 DEF MarkOK, SchedulerLocks
  <1> QED
    BY <1>2, <1>3, <1>4

LEMMA WorkerTyped ==
  ASSUME TypeOK, NEW w \in Workers, NEW u \in Urls \cup {NoUrl}
  PROVE  /\ IdleWorker \in WorkerState /\ IdleWorker.pc = "idle"
         /\ AfterUrl(w, u) \in WorkerState
         /\ AfterUrl(w, u).pc \in {"idle", "working"}
  <1>1. worker[w].batch \ {u} \in SUBSET Urls
    BY DEF TypeOK, WorkerState
  <1>2. IdleWorker \in WorkerState /\ IdleWorker.pc = "idle"
    BY DEF IdleWorker, WorkerState
  <1> QED
    BY <1>1, <1>2 DEF AfterUrl, WorkerState

LEMMA BudgetTyped ==
  ASSUME TypeOK, NEW what \in {"requests", "crashes", "lapses"}, Spend(what)
  PROVE  budget' \in Budget
  BY DEF TypeOK, Budget, Spend

-----------------------------------------------------------------------------
(* The worker's steps.                                                     *)

(* A step that only sends a worker back to its batch or to the queue. *)
LEMMA QuietWorkerStep ==
  ASSUME IInv, NEW w \in Workers, NEW s \in WorkerState, s.pc \in {"idle", "working"},
         worker' = [worker EXCEPT ![w] = s], budget' \in Budget,
         UNCHANGED <<rows, scheduler, cancels>>
  PROVE  IInv'
  <1>1. TypeOK'
    BY DEF IInv, TypeOK, rows
  <1>2. RowsOK' /\ JobsOK' /\ SchedulerOK'
    BY RowsFrame, JobsFrame, SchedulerFrame DEF IInv, TypeOK, rows
  <1>3. worker'[w] = s /\ \A v \in Workers \ {w} : worker'[v] = worker[v]
    BY DEF IInv, TypeOK
  <1>4. ASSUME NEW v \in Workers PROVE (ClaimOK(v) /\ FetchOK(v) /\ MarkOK(v))'
    <2>1. CASE v = w
      BY <1>3, <2>1 DEF ClaimOK, FetchOK, MarkOK
    <2>2. CASE v # w
      BY <1>3, <2>2, OtherWorkersFrame DEF IInv, TypeOK, WorkerState, rows
    <2> QED
      BY <2>1, <2>2
  <1> QED
    BY <1>1, <1>2, <1>4 DEF IInv, WorkersOK

LEMMA SelectBatchStep ==
  ASSUME IInv, NEW w \in Workers, SelectBatch(w)
  PROVE  IInv'
  <1>1. PICK batch \in SUBSET Claimable :
          worker' = [worker EXCEPT ![w].pc = "claiming", ![w].batch = batch]
    BY DEF SelectBatch
  <1>2. batch \in SUBSET Urls
    BY DEF Claimable
  <1>3. /\ worker'[w].pc = "claiming" /\ worker'[w].batch = batch
        /\ worker' \in [Workers -> WorkerState]
        /\ \A v \in Workers \ {w} : worker'[v] = worker[v]
    BY <1>1, <1>2 DEF IInv, TypeOK, WorkerState
  <1>4. TypeOK'
    BY <1>3 DEF IInv, TypeOK, SelectBatch, rows
  <1>5. RowsOK' /\ JobsOK' /\ SchedulerOK'
    BY RowsFrame, JobsFrame, SchedulerFrame DEF IInv, TypeOK, SelectBatch, rows
  <1>6. \A u \in batch : /\ url[u].status \in RunnableUrlStatuses
                         /\ u \notin SchedulerLocks
                         /\ \A v \in Workers : worker[v].pc = "claiming" => u \notin worker[v].batch
    BY DEF Claimable, LockedUrls, ClaimLocks
  <1>7. (ClaimOK(w) /\ FetchOK(w) /\ MarkOK(w))'
    BY <1>3, <1>6 DEF ClaimOK, FetchOK, MarkOK, SelectBatch, SchedulerLocks, rows
  <1>8. ASSUME NEW v \in Workers \ {w} PROVE (ClaimOK(v) /\ FetchOK(v) /\ MarkOK(v))'
    <2>1. ClaimOK(v) /\ FetchOK(v) /\ MarkOK(v)
      BY DEF IInv, WorkersOK
    <2>2. ClaimOK(v)'
      BY <1>3, <1>6, <2>1 DEF ClaimOK, SelectBatch, SchedulerLocks, rows
    <2>3. FetchOK(v)'
      BY <1>3, <2>1 DEF FetchOK, Owns, SelectBatch, rows
    <2>4. MarkOK(v)'
      BY <1>3, <2>1 DEF MarkOK, SchedulerLocks, SelectBatch, rows
    <2> QED
      BY <2>2, <2>3, <2>4
  <1> QED
    BY <1>4, <1>5, <1>7, <1>8 DEF IInv, WorkersOK

LEMMA MarkFailureStep ==
  ASSUME IInv, NEW w \in Workers, MarkFailure(w)
  PROVE  IInv'
  <1> DEFINE u == worker[w].url
  <1>1. PICK permanent \in BOOLEAN :
          worker' = [worker EXCEPT ![w].pc = "marking",
                                   ![w].verdict = FailureVerdict(w, permanent)]
    BY DEF MarkFailure
  <1>2. FailureVerdict(w, permanent) \in {"retry_wait", "failed_permanent"}
    BY DEF FailureVerdict
  <1>3. /\ worker' \in [Workers -> WorkerState]
        /\ worker'[w].pc = "marking" /\ worker'[w].url = u
        /\ worker'[w].verdict = FailureVerdict(w, permanent)
        /\ worker'[w].fetchAttempts = worker[w].fetchAttempts
        /\ \A v \in Workers \ {w} : worker'[v] = worker[v]
    BY <1>1, <1>2 DEF IInv, TypeOK, WorkerState
  <1>4. TypeOK'
    BY <1>3 DEF IInv, TypeOK, MarkFailure, rows
  <1>5. RowsOK' /\ JobsOK' /\ SchedulerOK'
    BY RowsFrame, JobsFrame, SchedulerFrame DEF IInv, TypeOK, MarkFailure, rows
  <1>6. /\ u \in Urls \ SchedulerLocks /\ url[u].claimedBy = w
        /\ url[u].status = "fetching" /\ job[JobOf[u]] = "running"
        /\ worker[w].fetchAttempts = url[u].fetchAttempts
        /\ url[u].fetchAttempts \in Nat
    BY DEF IInv, TypeOK, Row, WorkersOK, FetchOK, MarkFailure, MayRecord, Owns, Running, LockedUrls
  <1>7. FailureVerdict(w, permanent) = "retry_wait" => url[u].fetchAttempts + 1 < MaxAttempts
    BY <1>6, ConstantsAssumption DEF FailureVerdict
  <1> HIDE DEF u
  <1>8. (ClaimOK(w) /\ FetchOK(w) /\ MarkOK(w))'
    BY <1>2, <1>3, <1>6, <1>7 DEF ClaimOK, FetchOK, MarkOK, MarkFailure, SchedulerLocks, rows
  <1>9. ASSUME NEW v \in Workers \ {w} PROVE (ClaimOK(v) /\ FetchOK(v) /\ MarkOK(v))'
    BY <1>3, OtherWorkersFrame DEF IInv, TypeOK, WorkerState, MarkFailure, rows
  <1> QED
    BY <1>4, <1>5, <1>8, <1>9 DEF IInv, WorkersOK

LEMMA CommitClaimStep ==
  ASSUME IInv, NEW w \in Workers, CommitClaim(w)
  PROVE  IInv'
  <1> DEFINE batch == worker[w].batch
  <1>1. /\ batch \in SUBSET Urls
        /\ \A u \in batch : url[u].status \in RunnableUrlStatuses /\ u \notin SchedulerLocks
        /\ \A v \in Workers \ {w} : worker[v].pc = "claiming" => worker[v].batch \cap batch = {}
    BY DEF IInv, TypeOK, WorkerState, WorkersOK, ClaimOK, CommitClaim
  <1>2. /\ worker' \in [Workers -> WorkerState] /\ worker'[w].pc = "working"
        /\ \A v \in Workers \ {w} : worker'[v] = worker[v]
    BY DEF IInv, TypeOK, WorkerState, CommitClaim
  <1>3. \A u \in Urls : url'[u] = IF u \in batch THEN ClaimedRow(url[u], w) ELSE url[u]
    BY DEF CommitClaim
  <1>4. \A u \in Urls : url[u] \in Row /\ url'[u] \in Row
    BY <1>3, RowTyped DEF IInv, TypeOK
  <1>5. TypeOK'
    BY <1>2, <1>4 DEF IInv, TypeOK, CommitClaim
  <1>6. \A u \in batch : /\ url'[u].status = "claimed" /\ url'[u].claimedBy = w
                         /\ url[u].status \notin {"absent", "fetching"} \cup TerminalUrlStatuses
    <2> TAKE u \in batch
    <2>1. url'[u] = ClaimedRow(url[u], w) /\ url[u] \in Row /\ url[u].status \in RunnableUrlStatuses
      BY <1>1, <1>3, <1>4
    <2>2. url'[u].status = "claimed" /\ url'[u].claimedBy = w
      BY <2>1 DEF ClaimedRow, Row
    <2> QED
      BY <2>1, <2>2 DEF RunnableUrlStatuses, TerminalUrlStatuses
  <1>7. \A u \in Urls : u \notin batch => url'[u] = url[u]
    BY <1>3
  <1>8. RowsOK'
    <2> SUFFICES ASSUME NEW u \in Urls PROVE RowOK(url'[u], attempts'[u])
      BY DEF RowsOK
    <2>1. attempts' = attempts /\ attempts[u] \in Seq(AttemptResults) /\ RowOK(url[u], attempts[u])
      BY DEF IInv, TypeOK, RowsOK, CommitClaim
    <2>2. CASE u \in batch
      <3>1. url[u].status \in RunnableUrlStatuses /\ url'[u] = ClaimedRow(url[u], w)
        BY <1>1, <1>3, <2>2
      <3>2. RowOK(ClaimedRow(url[u], w), attempts[u])
        BY <1>4, <2>1, <3>1, RowWritten
      <3> QED
        BY <2>1, <3>1, <3>2
    <2>3. CASE u \notin batch
      BY <1>7, <2>1, <2>3
    <2> QED
      BY <2>2, <2>3
  <1>9. JobsOK'
    <2>1. JobsOK /\ job' = job
      BY DEF IInv, CommitClaim
    <2>2. \A u \in Urls : \/ url'[u] = url[u]
                          \/ /\ url'[u].status = "claimed"
                             /\ url[u].status \notin {"absent"} \cup TerminalUrlStatuses
      BY <1>6, <1>7
    <2> QED
      BY <2>1, <2>2 DEF JobsOK, FinishedJobsAreSettled, PausedJobsFetchNothing, UrlsOf
  <1>10. SchedulerOK'
    <2>1. ASSUME NEW u \in Urls
          PROVE  \/ url'[u].status = url[u].status
                 \/ /\ u \notin SchedulerLocks
                    /\ url[u].status \notin TerminalUrlStatuses \cup {"absent"}
                    /\ url'[u].status # "fetching"
      BY <1>1, <1>6, <1>7
    <2>2. \A x \in scheduler.released : url'[x] = url[x]
      BY <1>1, <1>7 DEF IInv, TypeOK, SchedulerState, SchedulerLocks
    <2> QED
      BY <2>1, <2>2, SchedulerFrame DEF IInv, TypeOK, CommitClaim
  <1>11. (ClaimOK(w) /\ FetchOK(w) /\ MarkOK(w))'
    BY <1>2 DEF ClaimOK, FetchOK, MarkOK
  <1>12. ASSUME NEW v \in Workers \ {w} PROVE (ClaimOK(v) /\ FetchOK(v) /\ MarkOK(v))'
    <2>1. worker[v].pc = "marking" => worker[v].url \notin batch
      BY <1>1 DEF IInv, WorkersOK, MarkOK, RunnableUrlStatuses
    <2>2. ASSUME NEW u \in Urls, u \in batch
          PROVE  /\ worker[v].pc = "claiming" => u \notin worker[v].batch
                 /\ worker[v].pc = "marking" => u # worker[v].url
                 /\ url'[u].claimedBy # v
      BY <1>1, <1>6, <2>1, <2>2
    <2>3. worker[v].batch \in SUBSET Urls /\ job' = job /\ scheduler' = scheduler /\ WorkersOK
      BY DEF IInv, TypeOK, WorkerState, CommitClaim
    <2>4. \A x \in Workers \ {v} : worker'[x].pc = "claiming"
            => worker[x].pc = "claiming" /\ worker'[x].batch = worker[x].batch
      BY <1>2
    <2> HIDE DEF batch
    <2> QED
      BY <1>2, <1>7, <2>2, <2>3, <2>4, OtherWorkersFrame
  <1> QED
    BY <1>5, <1>8, <1>9, <1>10, <1>11, <1>12 DEF IInv, WorkersOK

LEMMA StartFetchStep ==
  ASSUME IInv, NEW w \in Workers, NEW u \in Urls, StartFetch(w, u)
  PROVE  IInv'
  <1>1. /\ url[u].claimedBy = w /\ url[u].status = "claimed" /\ Running(u)
        /\ u \notin LockedUrls /\ job' = job
    BY DEF StartFetch, MayFetch
  <1>2. /\ url' = [url EXCEPT ![u] = FetchingRow(url[u])]
        /\ attempts' = [attempts EXCEPT ![u] = Append(attempts[u], "in_progress")]
        /\ url[u] \in Row /\ attempts[u] \in Seq(AttemptResults)
        /\ RowOK(url[u], attempts[u])
    BY DEF IInv, TypeOK, RowsOK, StartFetch
  <1>3. /\ FetchingRow(url[u]) \in Row /\ FetchingRow(url[u]).status = "fetching"
        /\ FetchingRow(url[u]).claimedBy = w
        /\ FetchingRow(url[u]).lease = url[u].lease
        /\ FetchingRow(url[u]).fetchAttempts = url[u].fetchAttempts
    BY <1>1, <1>2, RowTyped DEF FetchingRow, Row
  <1>4. /\ Append(attempts[u], "in_progress") \in Seq(AttemptResults)
        /\ RowOK(FetchingRow(url[u]), Append(attempts[u], "in_progress"))
    BY <1>1, <1>2, <1>3, AttemptStarted
  <1>5. /\ worker' \in [Workers -> WorkerState]
        /\ worker'[w].pc = "fetching" /\ worker'[w].url = u
        /\ worker'[w].fetchAttempts = url[u].fetchAttempts
        /\ \A v \in Workers \ {w} : worker'[v] = worker[v]
    <2>1. url[u].fetchAttempts \in Nat
      BY <1>2 DEF Row
    <2> DEFINE s == [worker[w] EXCEPT !.pc = "fetching", !.url = u,
                                      !.fetchAttempts = url[u].fetchAttempts]
    <2>2. worker[w] \in WorkerState /\ worker' = [worker EXCEPT ![w] = s]
      BY DEF IInv, TypeOK, StartFetch
    <2>3. /\ s \in WorkerState /\ s.pc = "fetching" /\ s.url = u
          /\ s.fetchAttempts = url[u].fetchAttempts
      BY <2>1, <2>2 DEF WorkerState
    <2> HIDE DEF s
    <2> QED
      BY <2>2, <2>3 DEF IInv, TypeOK
  <1>6. /\ url'[u] = FetchingRow(url[u]) /\ attempts'[u] = Append(attempts[u], "in_progress")
        /\ \A x \in Urls \ {u} : url'[x] = url[x] /\ attempts'[x] = attempts[x]
        /\ TypeOK'
    BY <1>2, <1>3, <1>4, <1>5 DEF IInv, TypeOK, StartFetch
  <1>7. RowsOK'
    BY <1>4, <1>6 DEF IInv, RowsOK
  <1>8. JobsOK'
    <2>1. JobsOK /\ url'[u].status = "fetching" /\ job[JobOf[u]] = "running"
      BY <1>1, <1>3, <1>6 DEF IInv, Running
    <2> QED
      BY <1>1, <1>6, <2>1
         DEF JobsOK, FinishedJobsAreSettled, PausedJobsFetchNothing, UrlsOf, TerminalJobStatuses
  <1>9. SchedulerOK'
    <2>1. ASSUME NEW x \in Urls
          PROVE  \/ url'[x].status = url[x].status
                 \/ /\ x \notin SchedulerLocks
                    /\ url[x].status \notin TerminalUrlStatuses \cup {"absent"}
                    /\ Running(x)
      BY <1>1, <1>6 DEF LockedUrls, TerminalUrlStatuses
    <2>2. \A x \in scheduler.released : url'[x] = url[x]
      BY <1>1, <1>6 DEF IInv, TypeOK, SchedulerState, SchedulerLocks, LockedUrls
    <2> QED
      BY <2>1, <2>2, SchedulerFrame DEF IInv, TypeOK, StartFetch
  <1>10. (ClaimOK(w) /\ FetchOK(w) /\ MarkOK(w))'
    BY <1>3, <1>5, <1>6 DEF ClaimOK, FetchOK, MarkOK
  <1>11. ASSUME NEW v \in Workers \ {w} PROVE (ClaimOK(v) /\ FetchOK(v) /\ MarkOK(v))'
    <2>1. /\ worker[v].pc = "marking" => worker[v].url # u
          /\ worker[v].pc = "claiming" => u \notin worker[v].batch
      BY <1>1 DEF LockedUrls, MarkLocks, ClaimLocks
    <2>2. url'[u].claimedBy # v
      BY <1>3, <1>6
    <2>3. worker[v].batch \in SUBSET Urls /\ scheduler' = scheduler /\ WorkersOK
      BY DEF IInv, TypeOK, WorkerState, StartFetch
    <2>4. \A x \in Workers \ {v} : worker'[x].pc = "claiming"
            => worker[x].pc = "claiming" /\ worker'[x].batch = worker[x].batch
      BY <1>5
    <2> QED
      BY <1>1, <1>5, <1>6, <2>1, <2>2, <2>3, <2>4, OtherWorkersFrame
  <1> QED
    BY <1>6, <1>7, <1>8, <1>9, <1>10, <1>11 DEF IInv, WorkersOK

LEMMA CommitFailureStep ==
  ASSUME IInv, NEW w \in Workers, CommitFailure(w)
  PROVE  IInv'
  <1> DEFINE u == worker[w].url
             result == worker[w].verdict
  <1>1. /\ u \in Urls /\ u \notin SchedulerLocks
        /\ url[u].claimedBy = w /\ url[u].status = "fetching"
        /\ result = "retry_wait" => url[u].fetchAttempts + 1 < MaxAttempts
        /\ result \in {"retry_wait", "failed_permanent"}
        /\ job[JobOf[u]] \in {"running", "pausing", "canceling"}
    BY DEF IInv, TypeOK, WorkerState, WorkersOK, MarkOK, CommitFailure
  <1>2. /\ job' = job /\ scheduler' = scheduler /\ cancels' = cancels /\ budget' = budget
        /\ url' = [url EXCEPT ![u] = FailedRow(url[u], result)]
        /\ attempts' = [attempts EXCEPT ![u] = Finished(attempts[u], result)]
        /\ worker' = [worker EXCEPT ![w] = AfterUrl(w, u)]
    BY DEF CommitFailure, IInv, TypeOK
  <1>3. /\ url[u] \in Row /\ attempts[u] \in Seq(AttemptResults)
        /\ RowOK(url[u], attempts[u])
    BY <1>1 DEF IInv, TypeOK, RowsOK
  <1>4. /\ AfterUrl(w, u) \in WorkerState /\ AfterUrl(w, u).pc \in {"idle", "working"}
    BY <1>1, WorkerTyped DEF IInv
  <1> HIDE DEF u, result
  <1>5. /\ FailedRow(url[u], result) \in Row
        /\ FailedRow(url[u], result).status = result
        /\ FailedRow(url[u], result).claimedBy = NoWorker
        /\ FailedRow(url[u], result).lease = "none"
        /\ FailedRow(url[u], result).fetchAttempts = url[u].fetchAttempts + 1
    <2>1. CASE result = "retry_wait"
      BY <1>3, <2>1, RowTyped DEF FailedRow, RetryWaitRow, Unclaimed, Row
    <2>2. CASE result = "failed_permanent"
      BY <1>3, <2>2, RowTyped DEF FailedRow, FailedPermanentRow, Unclaimed, Row
    <2> QED
      BY <1>1, <2>1, <2>2
  <1>6. result \in AttemptResults \ {"in_progress"}
    BY <1>1 DEF AttemptResults
  <1>7. /\ Finished(attempts[u], result) \in Seq(AttemptResults)
        /\ RowOK(FailedRow(url[u], result), Finished(attempts[u], result))
    <2>1. Open(attempts[u])
      BY <1>1, <1>3 DEF RowOK
    <2> QED
      BY <1>1, <1>3, <1>5, <1>6, <2>1, AttemptFinished, RowFinished
  <1>8. /\ worker' \in [Workers -> WorkerState] /\ worker'[w].pc \in {"idle", "working"}
        /\ \A v \in Workers \ {w} : worker'[v] = worker[v]
    BY <1>2, <1>4 DEF IInv, TypeOK
  <1>9. /\ url'[u] = FailedRow(url[u], result)
        /\ attempts'[u] = Finished(attempts[u], result)
        /\ \A x \in Urls \ {u} : url'[x] = url[x] /\ attempts'[x] = attempts[x]
        /\ TypeOK'
    BY <1>1, <1>2, <1>5, <1>7, <1>8 DEF IInv, TypeOK
  <1>10. RowsOK'
    BY <1>7, <1>9 DEF IInv, RowsOK
  <1>11. /\ url'[u].status \notin {"absent", "fetching"} /\ url'[u].claimedBy = NoWorker
    BY <1>1, <1>5, <1>9
  <1>12. JobsOK'
    BY <1>1, <1>2, <1>9, <1>11
       DEF IInv, JobsOK, FinishedJobsAreSettled, PausedJobsFetchNothing, UrlsOf, TerminalJobStatuses
  <1>13. SchedulerOK'
    <2>1. ASSUME NEW x \in Urls
          PROVE  \/ url'[x].status = url[x].status
                 \/ /\ x \notin SchedulerLocks
                    /\ url[x].status \notin TerminalUrlStatuses \cup {"absent"}
                    /\ url'[x].status # "fetching"
      BY <1>1, <1>9, <1>11 DEF TerminalUrlStatuses
    <2>2. \A x \in scheduler.released : url'[x] = url[x]
      BY <1>1, <1>9 DEF IInv, TypeOK, SchedulerState, SchedulerLocks
    <2> QED
      BY <1>2, <2>1, <2>2, SchedulerFrame DEF IInv, TypeOK
  <1>14. (ClaimOK(w) /\ FetchOK(w) /\ MarkOK(w))'
    BY <1>8 DEF ClaimOK, FetchOK, MarkOK
  <1>15. ASSUME NEW v \in Workers \ {w} PROVE (ClaimOK(v) /\ FetchOK(v) /\ MarkOK(v))'
    <2>1. /\ worker[v].pc = "marking" => worker[v].url # u
          /\ worker[v].pc = "claiming" => u \notin worker[v].batch
      BY <1>1 DEF IInv, WorkersOK, MarkOK, ClaimOK, RunnableUrlStatuses
    <2>2. url'[u].claimedBy # v
      BY <1>11, ConstantsAssumption
    <2>3. worker[v].batch \in SUBSET Urls /\ WorkersOK
      BY DEF IInv, TypeOK, WorkerState
    <2>4. \A x \in Workers \ {v} : worker'[x].pc = "claiming"
            => worker[x].pc = "claiming" /\ worker'[x].batch = worker[x].batch
      BY <1>8
    <2> QED
      BY <1>2, <1>8, <1>9, <2>1, <2>2, <2>3, <2>4, OtherWorkersFrame
  <1> QED
    BY <1>9, <1>10, <1>12, <1>13, <1>14, <1>15 DEF IInv, WorkersOK

LEMMA CommitSuccessStep ==
  ASSUME IInv, NEW w \in Workers, CommitSuccess(w)
  PROVE  IInv'
  <1> DEFINE u == worker[w].url
  <1>1. /\ u \in Urls /\ u \notin LockedUrls /\ JobOf[u] \notin LockedJobs
        /\ url[u].claimedBy = w /\ url[u].status = "fetching" /\ Running(u)
    BY DEF IInv, TypeOK, WorkersOK, FetchOK, CommitSuccess, MayRecord, Owns
  <1>2. /\ job' = job /\ scheduler' = scheduler /\ cancels' = cancels /\ budget' = budget
        /\ attempts' = [attempts EXCEPT ![u] = Finished(attempts[u], "success")]
        /\ worker' = [worker EXCEPT ![w] = AfterUrl(w, u)]
    BY DEF CommitSuccess, IInv, TypeOK
  <1>3. PICK found \in SUBSET {v \in Urls : JobOf[v] = JobOf[u] /\ url[v].status = "absent"} :
          url' = [v \in Urls |-> IF v \in found THEN QueuedRow
                                 ELSE IF v = u THEN DoneRow(url[v]) ELSE url[v]]
    BY DEF CommitSuccess
  <1>4. /\ url[u] \in Row /\ attempts[u] \in Seq(AttemptResults)
        /\ RowOK(url[u], attempts[u])
    BY <1>1 DEF IInv, TypeOK, RowsOK
  <1>5. /\ AfterUrl(w, u) \in WorkerState /\ AfterUrl(w, u).pc \in {"idle", "working"}
    BY <1>1, WorkerTyped DEF IInv
  <1> HIDE DEF u
  <1>6. /\ u \notin found
        /\ \A x \in found : x \in Urls /\ JobOf[x] = JobOf[u] /\ url[x].status = "absent"
    BY <1>1
  <1>7. /\ DoneRow(url[u]) \in Row /\ DoneRow(url[u]).status = "done"
        /\ DoneRow(url[u]).claimedBy = NoWorker
        /\ DoneRow(url[u]).lease = "none"
        /\ DoneRow(url[u]).fetchAttempts = url[u].fetchAttempts + 1
    BY <1>4, RowTyped DEF DoneRow, Unclaimed, Row
  <1>8. /\ Finished(attempts[u], "success") \in Seq(AttemptResults)
        /\ RowOK(DoneRow(url[u]), Finished(attempts[u], "success"))
    <2>1. Open(attempts[u]) /\ "success" \in AttemptResults \ {"in_progress"}
      BY <1>1, <1>4 DEF RowOK, AttemptResults
    <2> QED
      BY <1>1, <1>4, <1>7, <2>1, AttemptFinished, RowFinished
  <1>9. QueuedRow \in Row /\ QueuedRow.status = "queued" /\ QueuedRow.claimedBy = NoWorker
    BY <1>4, RowTyped DEF QueuedRow, AbsentRow
  <1>10. /\ worker' \in [Workers -> WorkerState] /\ worker'[w].pc \in {"idle", "working"}
         /\ \A v \in Workers \ {w} : worker'[v] = worker[v]
    BY <1>2, <1>5 DEF IInv, TypeOK
  <1>11. /\ url'[u] = DoneRow(url[u])
         /\ attempts'[u] = Finished(attempts[u], "success")
         /\ \A x \in Urls \ {u} : attempts'[x] = attempts[x]
         /\ \A x \in found : url'[x] = QueuedRow
         /\ \A x \in Urls \ {u} : x \notin found => url'[x] = url[x]
    BY <1>1, <1>2, <1>3, <1>6 DEF IInv, TypeOK
  <1>12. \A x \in Urls : url'[x] \in Row
    BY <1>7, <1>9, <1>11 DEF IInv, TypeOK
  <1>13. TypeOK'
    BY <1>1, <1>2, <1>3, <1>8, <1>10, <1>12 DEF IInv, TypeOK
  <1>14. RowsOK'
    <2> SUFFICES ASSUME NEW x \in Urls PROVE RowOK(url'[x], attempts'[x])
      BY DEF RowsOK
    <2>1. CASE x = u
      BY <1>8, <1>11, <2>1
    <2>2. CASE x \in found
      <3>1. url[x] \in Row /\ attempts[x] \in Seq(AttemptResults) /\ RowOK(url[x], attempts[x])
        BY DEF IInv, TypeOK, RowsOK
      <3>2. RowOK(QueuedRow, attempts[x])
        BY <1>6, <2>2, <3>1, RowWritten
      <3> QED
        BY <1>6, <1>11, <2>2, <3>2
    <2>3. CASE x # u /\ x \notin found
      BY <1>11, <2>3 DEF IInv, RowsOK
    <2> QED
      BY <2>1, <2>2, <2>3
  <1>15. \A x \in Urls \ {u} : \/ url'[x] = url[x]
                              \/ /\ x \in found /\ JobOf[x] = JobOf[u]
                                 /\ url[x].status = "absent"
                                 /\ url'[x].status = "queued" /\ url'[x].claimedBy = NoWorker
    BY <1>6, <1>9, <1>11
  <1>16. url'[u].status = "done" /\ url'[u].claimedBy = NoWorker
    BY <1>7, <1>11
  <1>17. JobsOK'
    BY <1>1, <1>2, <1>15, <1>16
       DEF IInv, JobsOK, FinishedJobsAreSettled, PausedJobsFetchNothing, UrlsOf,
           TerminalJobStatuses, Running, TerminalUrlStatuses
  <1>18. SchedulerOK'
    <2>1. SchedulerLocks \in SUBSET Urls /\ \A x \in SchedulerLocks : url[x].status # "absent"
      BY DEF IInv, TypeOK, SchedulerState, SchedulerLocks, SchedulerOK, ActiveUrlStatuses
    <2>2. ASSUME NEW x \in Urls
          PROVE  \/ url'[x].status = url[x].status
                 \/ x \notin SchedulerLocks /\ JobOf[x] \notin scheduler.moved
      BY <1>1, <1>15, <2>1 DEF LockedUrls, LockedJobs
    <2>3. \A x \in scheduler.released : url'[x] = url[x]
      BY <1>1, <1>15, <2>1 DEF IInv, TypeOK, SchedulerState, SchedulerLocks, LockedUrls
    <2> QED
      BY <1>2, <2>2, <2>3, SchedulerFrame DEF IInv, TypeOK
  <1>19. (ClaimOK(w) /\ FetchOK(w) /\ MarkOK(w))'
    BY <1>10 DEF ClaimOK, FetchOK, MarkOK
  <1>20. ASSUME NEW v \in Workers \ {w} PROVE (ClaimOK(v) /\ FetchOK(v) /\ MarkOK(v))'
    <2>1. /\ worker[v].pc = "marking" => worker[v].url \notin found \cup {u}
          /\ worker[v].pc = "claiming" => worker[v].batch \cap (found \cup {u}) = {}
      BY <1>1, <1>6 DEF IInv, WorkersOK, MarkOK, ClaimOK, RunnableUrlStatuses
    <2>2. \A x \in found \cup {u} : url'[x].claimedBy # v
      BY <1>9, <1>11, <1>16, ConstantsAssumption
    <2>3. worker[v].batch \in SUBSET Urls /\ WorkersOK
      BY DEF IInv, TypeOK, WorkerState
    <2>4. \A x \in Workers \ {v} : worker'[x].pc = "claiming"
            => worker[x].pc = "claiming" /\ worker'[x].batch = worker[x].batch
      BY <1>10
    <2> QED
      BY <1>2, <1>10, <1>11, <2>1, <2>2, <2>3, <2>4, OtherWorkersFrame
  <1> QED
    BY <1>13, <1>14, <1>17, <1>18, <1>19, <1>20 DEF IInv, WorkersOK

-----------------------------------------------------------------------------
(* Time and heartbeats.                                                    *)

(* A step that changes nothing of a row but its lease or its eligibility. *)
LEMMA TimeStep ==
  ASSUME IInv, NEW u \in Urls, NEW row \in Row,
         row.status = url[u].status, row.claimedBy = url[u].claimedBy,
         row.fetchAttempts = url[u].fetchAttempts, RowOK(row, attempts[u]),
         row.lease = url[u].lease \/ u \notin scheduler.released,
         url' = [url EXCEPT ![u] = row], budget' \in Budget,
         UNCHANGED <<job, attempts, worker, scheduler, cancels>>
  PROVE  IInv'
  <1>1. /\ TypeOK' /\ url'[u] = row
        /\ \A x \in Urls \ {u} : url'[x] = url[x]
    BY DEF IInv, TypeOK
  <1>2. \A x \in Urls : /\ url'[x].status = url[x].status
                        /\ url'[x].claimedBy = url[x].claimedBy
                        /\ url'[x].fetchAttempts = url[x].fetchAttempts
    BY <1>1
  <1>3. RowsOK'
    BY <1>1 DEF IInv, RowsOK
  <1>4. JobsOK'
    BY <1>2 DEF IInv, JobsOK, FinishedJobsAreSettled, PausedJobsFetchNothing, UrlsOf
  <1>5. SchedulerOK'
    <2>1. \A x \in scheduler.released : url'[x].lease = url[x].lease
      BY <1>1 DEF IInv, TypeOK, SchedulerState
    <2> QED
      BY <1>2, <2>1, SchedulerFrame DEF IInv, TypeOK
  <1>6. ASSUME NEW v \in Workers PROVE (ClaimOK(v) /\ FetchOK(v) /\ MarkOK(v))'
    BY <1>2, OtherWorkersFrame DEF IInv, TypeOK, WorkerState
  <1> QED
    BY <1>1, <1>3, <1>4, <1>5, <1>6 DEF IInv, WorkersOK

LEMMA HeartbeatStep ==
  ASSUME IInv, NEW w \in Workers, NEW u \in Urls, Heartbeat(w, u)
  PROVE  IInv'
  <1> DEFINE row == [url[u] EXCEPT !.lease = "live"]
  <1>1. /\ url[u] \in Row /\ attempts[u] \in Seq(AttemptResults)
        /\ RowOK(url[u], attempts[u]) /\ url[u].lease # "none"
    BY DEF IInv, TypeOK, RowsOK, Heartbeat
  <1>2. RowOK(row, attempts[u])
    BY <1>1, RowWritten
  <1>3. /\ row \in Row /\ row.status = url[u].status /\ row.claimedBy = url[u].claimedBy
        /\ row.fetchAttempts = url[u].fetchAttempts
    BY <1>1 DEF Row
  <1>4. url' = [url EXCEPT ![u] = row] /\ u \notin scheduler.released
    BY DEF Heartbeat, IInv, TypeOK, LockedUrls, SchedulerLocks
  <1> HIDE DEF row
  <1> QED
    BY <1>2, <1>3, <1>4, TimeStep DEF Heartbeat, IInv, TypeOK

LEMMA LeaseEndsStep ==
  ASSUME IInv, NEW u \in Urls, ExpireLease(u) \/ LapseLease(u)
  PROVE  IInv'
  <1> DEFINE row == [url[u] EXCEPT !.lease = "expired"]
  <1>1. /\ url[u] \in Row /\ attempts[u] \in Seq(AttemptResults)
        /\ RowOK(url[u], attempts[u]) /\ url[u].lease # "none"
    BY DEF IInv, TypeOK, RowsOK, ExpireLease, LapseLease
  <1>2. RowOK(row, attempts[u])
    BY <1>1, RowWritten
  <1>3. /\ row \in Row /\ row.status = url[u].status /\ row.claimedBy = url[u].claimedBy
        /\ row.fetchAttempts = url[u].fetchAttempts
    BY <1>1 DEF Row
  <1>4. url' = [url EXCEPT ![u] = row] /\ u \notin scheduler.released
    BY DEF ExpireLease, LapseLease, IInv, TypeOK, SchedulerOK
  <1>5. budget' \in Budget
    BY BudgetTyped DEF ExpireLease, LapseLease, IInv, TypeOK
  <1> HIDE DEF row
  <1> QED
    BY <1>2, <1>3, <1>4, <1>5, TimeStep DEF ExpireLease, LapseLease

LEMMA BackoffElapsesStep ==
  ASSUME IInv, NEW u \in Urls, BackoffElapses(u)
  PROVE  IInv'
  <1> DEFINE row == [url[u] EXCEPT !.due = TRUE]
  <1>1. /\ url[u] \in Row /\ attempts[u] \in Seq(AttemptResults)
        /\ RowOK(url[u], attempts[u])
    BY DEF IInv, TypeOK, RowsOK
  <1>2. RowOK(row, attempts[u])
    BY <1>1, RowWritten
  <1>3. /\ row \in Row /\ row.status = url[u].status /\ row.claimedBy = url[u].claimedBy
        /\ row.fetchAttempts = url[u].fetchAttempts /\ row.lease = url[u].lease
    BY <1>1 DEF Row
  <1>4. url' = [url EXCEPT ![u] = row]
    BY DEF BackoffElapses, IInv, TypeOK
  <1> HIDE DEF row
  <1> QED
    BY <1>2, <1>3, <1>4, TimeStep DEF BackoffElapses, IInv, TypeOK

-----------------------------------------------------------------------------
(* The requests of the API.                                                *)

LEMMA CreateCrawlStep ==
  ASSUME IInv, NEW j \in Jobs, CreateCrawl(j)
  PROVE  IInv'
  <1> DEFINE s == SeedOf[j]
  <1>1. /\ s \in Urls /\ JobOf[s] = j /\ job[j] = "absent"
        /\ \A x \in Urls : JobOf[x] \in Jobs
        /\ url[s].status = "absent" /\ url[s] \in Row
        /\ attempts[s] \in Seq(AttemptResults) /\ RowOK(url[s], attempts[s])
    BY ConstantsAssumption DEF IInv, TypeOK, RowsOK, JobsOK, CreateCrawl
  <1>2. /\ QueuedRow \in Row /\ QueuedRow.status = "queued" /\ QueuedRow.claimedBy = NoWorker
        /\ RowOK(QueuedRow, attempts[s])
    BY <1>1, RowTyped, RowWritten DEF QueuedRow, AbsentRow
  <1>3. /\ url' = [url EXCEPT ![s] = QueuedRow] /\ job' = [job EXCEPT ![j] = "running"]
        /\ UNCHANGED <<attempts, worker, scheduler, cancels, budget>>
    BY DEF CreateCrawl
  <1> HIDE DEF s
  <1>4. /\ TypeOK' /\ url'[s] = QueuedRow /\ job'[j] = "running"
        /\ \A x \in Urls \ {s} : url'[x] = url[x]
        /\ \A i \in Jobs \ {j} : job'[i] = job[i]
    BY <1>1, <1>2, <1>3 DEF IInv, TypeOK, JobStatuses
  <1>5. RowsOK'
    BY <1>2, <1>3, <1>4 DEF IInv, RowsOK
  <1>6. JobsOK'
    BY <1>1, <1>2, <1>4
       DEF IInv, JobsOK, FinishedJobsAreSettled, PausedJobsFetchNothing, UrlsOf, TerminalJobStatuses
  <1>7. SchedulerOK'
    <2>1. /\ j \notin scheduler.moved /\ s \notin SchedulerLocks
          /\ scheduler \in SchedulerState
          /\ \A u \in scheduler.canceled : JobOf[u] # j /\ u \in Urls
      BY <1>1 DEF IInv, TypeOK, SchedulerState, SchedulerOK, MovedOK, SchedulerLocks, ActiveUrlStatuses
    <2>2. \A i \in scheduler.moved : job'[i] = job[i] /\ i \notin CancelLocks'
      BY <1>3, <1>4, <2>1 DEF IInv, SchedulerOK, MovedOK, CancelLocks, SchedulerState
    <2>3. \A x \in scheduler.released : url'[x] = url[x]
      BY <1>4, <2>1 DEF SchedulerState, SchedulerLocks
    <2> QED
      BY <1>1, <1>3, <1>4, <2>1, <2>2, <2>3, SchedulerKept DEF IInv
  <1>8. ASSUME NEW v \in Workers PROVE (ClaimOK(v) /\ FetchOK(v) /\ MarkOK(v))'
    <2>1. /\ worker[v].pc = "claiming" => s \notin worker[v].batch
          /\ worker[v].pc = "marking" => s # worker[v].url
      BY <1>1 DEF IInv, WorkersOK, ClaimOK, MarkOK, RunnableUrlStatuses
    <2>2. url'[s].claimedBy # v
      BY <1>2, <1>4, ConstantsAssumption
    <2>3. \A u \in Urls : job[JobOf[u]] \in {"running", "pausing", "canceling"}
            => job'[JobOf[u]] \in {"running", "pausing", "canceling"}
      BY <1>1, <1>4
    <2>4. WorkersOK /\ worker[v].batch \in SUBSET Urls
      BY DEF IInv, TypeOK, WorkerState
    <2> QED
      BY <1>3, <1>4, <2>1, <2>2, <2>3, <2>4, OtherWorkersFrame
  <1> QED
    BY <1>4, <1>5, <1>6, <1>7, <1>8 DEF IInv, WorkersOK

(* Pause and resume: an unlocked job moves between running and its pauses. *)
LEMMA PauseResumeStep ==
  ASSUME IInv, NEW j \in Jobs, RequestPause(j) \/ RequestResume(j)
  PROVE  IInv'
  <1>1. PICK to \in {"running", "pausing"} :
          /\ job' = [job EXCEPT ![j] = to]
          /\ to = "pausing" => job[j] = "running"
    BY DEF RequestPause, RequestResume
  <1>2. /\ job[j] \in {"running", "paused"} /\ j \notin LockedJobs
        /\ UNCHANGED <<url, attempts, worker, scheduler, cancels>>
        /\ budget' \in Budget
    BY BudgetTyped DEF IInv, RequestPause, RequestResume
  <1>3. /\ TypeOK' /\ job'[j] = to
        /\ \A i \in Jobs \ {j} : job'[i] = job[i]
        /\ \A u \in Urls : JobOf[u] \in Jobs
    BY <1>1, <1>2, ConstantsAssumption DEF IInv, TypeOK, JobStatuses
  <1>4. RowsOK'
    BY <1>2, RowsFrame DEF IInv
  <1>5. JobsOK'
    BY <1>2, <1>3
       DEF IInv, JobsOK, FinishedJobsAreSettled, PausedJobsFetchNothing, UrlsOf, TerminalJobStatuses
  <1>6. SchedulerOK'
    <2>1. /\ j \notin scheduler.moved /\ scheduler \in SchedulerState
          /\ \A u \in scheduler.canceled : JobOf[u] # j /\ u \in Urls
      BY <1>2 DEF IInv, TypeOK, SchedulerState, SchedulerOK, LockedJobs
    <2>2. \A i \in scheduler.moved : job'[i] = job[i] /\ i \notin CancelLocks'
      BY <1>2, <1>3, <2>1 DEF IInv, SchedulerOK, MovedOK, CancelLocks, SchedulerState
    <2> QED
      BY <1>2, <1>3, <2>1, <2>2, SchedulerKept DEF IInv
  <1>7. ASSUME NEW v \in Workers PROVE (ClaimOK(v) /\ FetchOK(v) /\ MarkOK(v))'
    <2>1. \A u \in Urls : job[JobOf[u]] \in {"running", "pausing", "canceling"}
            => job'[JobOf[u]] \in {"running", "pausing", "canceling"}
      BY <1>3
    <2>2. WorkersOK /\ worker[v].batch \in SUBSET Urls
      BY DEF IInv, TypeOK, WorkerState
    <2> QED
      BY <1>2, <2>1, <2>2, OtherWorkersFrame
  <1> QED
    BY <1>3, <1>4, <1>5, <1>6, <1>7 DEF IInv, WorkersOK

LEMMA CancelBookkeepingStep ==
  ASSUME IInv, NEW j \in Jobs, RequestCancel(j) \/ AbortCancel(j)
  PROVE  IInv'
  <1>1. /\ UNCHANGED <<job, url, attempts, worker, scheduler>>
        /\ budget' \in Budget /\ cancels' \in SUBSET Jobs
        /\ \A i \in cancels' \ cancels : i \notin LockedJobs
    BY BudgetTyped DEF IInv, TypeOK, RequestCancel, AbortCancel, rows
  <1>2. TypeOK'
    BY <1>1 DEF IInv, TypeOK
  <1>3. RowsOK' /\ JobsOK'
    BY <1>1, RowsFrame, JobsFrame DEF IInv
  <1>4. SchedulerOK'
    <2>1. \A i \in scheduler.moved : i \notin CancelLocks'
      BY <1>1 DEF IInv, SchedulerOK, MovedOK, CancelLocks, LockedJobs
    <2> QED
      BY <1>1, <2>1, SchedulerKept DEF IInv, TypeOK
  <1>5. ASSUME NEW v \in Workers PROVE (ClaimOK(v) /\ FetchOK(v) /\ MarkOK(v))'
    BY <1>1, OtherWorkersFrame DEF IInv, TypeOK, WorkerState
  <1> QED
    BY <1>2, <1>3, <1>4, <1>5 DEF IInv, WorkersOK

LEMMA CommitCancelStep ==
  ASSUME IInv, NEW j \in Jobs, CommitCancel(j)
  PROVE  IInv'
  <1> DEFINE W == WaitingUrls(j)
             to == IF job[j] \in CancelableJobStatuses THEN "canceling" ELSE job[j]
  <1>1. /\ j \in cancels /\ W \cap LockedUrls = {}
        /\ job' = [job EXCEPT ![j] = to]
        /\ \A u \in Urls : url'[u] = IF u \in W THEN CanceledRow(url[u]) ELSE url[u]
        /\ url' = [u \in Urls |-> IF u \in W THEN CanceledRow(url[u]) ELSE url[u]]
        /\ cancels' = cancels \ {j}
        /\ UNCHANGED <<attempts, worker, scheduler, budget>>
    BY DEF CommitCancel, IInv, TypeOK
  <1>2. \A u \in W : /\ u \in Urls /\ JobOf[u] = j
                     /\ url[u].status \notin ActiveUrlStatuses \cup TerminalUrlStatuses \cup {"absent"}
    BY DEF WaitingUrls, UrlsOf
  <1>3. \A u \in Urls : url[u] \in Row /\ CanceledRow(url[u]) \in Row
    BY RowTyped DEF IInv, TypeOK
  <1>4. \A u \in W : /\ CanceledRow(url[u]).status = "canceled"
                     /\ CanceledRow(url[u]).claimedBy = NoWorker
    BY <1>2, <1>3 DEF CanceledRow, Unclaimed, Row
  <1>5. to \in JobStatuses \cup {"absent"}
    BY DEF IInv, TypeOK, JobStatuses
  <1> HIDE DEF W
  <1>6. \A u \in Urls : url'[u] \in Row
    BY <1>1, <1>3
  <1>7. /\ TypeOK' /\ job'[j] = to
        /\ \A i \in Jobs \ {j} : job'[i] = job[i]
        /\ \A u \in Urls : JobOf[u] \in Jobs
    BY <1>1, <1>5, <1>6, ConstantsAssumption DEF IInv, TypeOK
  <1>8. \A u \in Urls : \/ url'[u] = url[u]
                        \/ /\ u \in W /\ url'[u].status = "canceled"
                           /\ url'[u].claimedBy = NoWorker
    BY <1>1, <1>4
  <1>9. RowsOK'
    <2> SUFFICES ASSUME NEW u \in Urls PROVE RowOK(url'[u], attempts'[u])
      BY DEF RowsOK
    <2>1. attempts'[u] = attempts[u] /\ attempts[u] \in Seq(AttemptResults) /\ RowOK(url[u], attempts[u])
      BY <1>1 DEF IInv, TypeOK, RowsOK
    <2>2. CASE u \in W
      <3>1. url'[u] = CanceledRow(url[u])
        BY <1>1, <2>2
      <3>2. RowOK(CanceledRow(url[u]), attempts[u])
        BY <1>2, <1>3, <2>1, <2>2, RowWritten
      <3> QED
        BY <2>1, <3>1, <3>2
    <2>3. CASE u \notin W
      BY <1>1, <2>1, <2>3
    <2> QED
      BY <2>2, <2>3
  <1>10. job[j] \in TerminalJobStatuses \cup {"absent"} => W = {}
    BY <1>2 DEF IInv, JobsOK, FinishedJobsAreSettled, UrlsOf
  <1>11. to \in {"canceling", "canceled", "completed", "absent"}
         /\ (to # job[j] => to = "canceling")
    BY DEF IInv, TypeOK, JobsOK, JobStatuses, CancelableJobStatuses
  <1> HIDE DEF to
  <1>12. JobsOK'
    <2>1. \A u \in Urls : url'[u].status # "absent" => url[u].status # "absent"
      BY <1>2, <1>8
    <2>2. \A u \in Urls : url[u].status = "absent" => url'[u].status = "absent"
      BY <1>2, <1>8
    <2>3. \A u \in Urls : url[u].status \in TerminalUrlStatuses => url'[u].status \in TerminalUrlStatuses
      BY <1>2, <1>8
    <2>4. \A u \in Urls : url'[u].status = "fetching" => url[u].status = "fetching"
      BY <1>8
    <2>5. \A i \in Jobs : job'[i] = job[i] \/ job'[i] = "canceling"
      BY <1>7, <1>11
    <2> QED
      BY <2>1, <2>2, <2>3, <2>4, <2>5, ConstantsAssumption
         DEF IInv, JobsOK, FinishedJobsAreSettled, PausedJobsFetchNothing, UrlsOf, TerminalJobStatuses
  <1>13. SchedulerOK'
    <2>1. scheduler \in SchedulerState /\ SchedulerLocks \subseteq LockedUrls
      BY DEF IInv, TypeOK, LockedUrls
    <2>2. \A i \in scheduler.moved : job'[i] = job[i] /\ i \notin CancelLocks' /\ i \in Jobs
      <3> TAKE i \in scheduler.moved
      <3>1. i \in Jobs /\ i \notin CancelLocks
        BY <2>1 DEF IInv, SchedulerOK, MovedOK, SchedulerState
      <3>2. job'[i] = job[i]
        BY <1>1, <1>7, <3>1 DEF CancelLocks, to
      <3> QED
        BY <1>1, <3>1, <3>2 DEF CancelLocks
    <2>3. \A u \in scheduler.canceled : job'[JobOf[u]] = job[JobOf[u]]
      <3> TAKE u \in scheduler.canceled
      <3>1. job[JobOf[u]] = "canceling" /\ u \in Urls
        BY <2>1 DEF IInv, SchedulerOK, SchedulerState
      <3> QED
        BY <1>7, <1>11, <3>1
    <2>4. ASSUME NEW u \in Urls
          PROVE  \/ url'[u].status = url[u].status
                 \/ /\ u \notin SchedulerLocks
                    /\ url[u].status \notin TerminalUrlStatuses \cup {"absent"}
                    /\ url'[u].status # "fetching"
      BY <1>1, <1>2, <1>8, <2>1
    <2>5. \A u \in scheduler.released : url'[u] = url[u]
      BY <1>1, <1>8, <2>1 DEF SchedulerState, SchedulerLocks
    <2> QED
      BY <1>1, <2>1, <2>2, <2>3, <2>4, <2>5, SchedulerKept DEF IInv
  <1>14. ASSUME NEW v \in Workers PROVE (ClaimOK(v) /\ FetchOK(v) /\ MarkOK(v))'
    <2>1. /\ worker[v].pc = "claiming" => worker[v].batch \cap W = {}
          /\ worker[v].pc = "marking" => worker[v].url \notin W
      BY <1>1 DEF LockedUrls, ClaimLocks, MarkLocks
    <2>2. NoWorker # v
      BY ConstantsAssumption
    <2>3. \A u \in Urls : job[JobOf[u]] \in {"running", "pausing", "canceling"}
            => job'[JobOf[u]] \in {"running", "pausing", "canceling"}
      BY <1>7, <1>11
    <2>4. WorkersOK /\ worker[v].batch \in SUBSET Urls
      BY DEF IInv, TypeOK, WorkerState
    <2> QED
      BY <1>1, <1>8, <2>1, <2>2, <2>3, <2>4, OtherWorkersFrame
  <1> QED
    BY <1>7, <1>9, <1>12, <1>13, <1>14 DEF IInv, WorkersOK

-----------------------------------------------------------------------------
(* The reconcile transaction.                                              *)

(* A step that changes the scheduler only, and locks no row a worker holds. *)
LEMMA WorkersKeptBySchedulerStep ==
  ASSUME WorkersOK, UNCHANGED <<job, url, worker>>,
         SchedulerLocks' \cap (ClaimLocks \cup MarkLocks) \subseteq SchedulerLocks
  PROVE  WorkersOK'
  <1> SUFFICES ASSUME NEW v \in Workers PROVE (ClaimOK(v) /\ FetchOK(v) /\ MarkOK(v))'
    BY DEF WorkersOK
  <1>1. ClaimOK(v) /\ FetchOK(v) /\ MarkOK(v)
    BY DEF WorkersOK
  <1>2. ClaimOK(v)'
    <2>1. worker[v].pc = "claiming" => worker[v].batch \subseteq ClaimLocks
      BY DEF ClaimLocks
    <2> QED
      BY <1>1, <2>1 DEF ClaimOK
  <1>3. FetchOK(v)'
    BY <1>1 DEF FetchOK, Owns
  <1>4. MarkOK(v)'
    <2>1. worker[v].pc = "marking" => worker[v].url \in MarkLocks
      BY DEF MarkLocks
    <2> QED
      BY <1>1, <2>1 DEF MarkOK
  <1> QED
    BY <1>2, <1>3, <1>4

LEMMA ReleaseLeasesStep ==
  ASSUME IInv, ReleaseLeases
  PROVE  IInv'
  <1>1. /\ UNCHANGED <<job, url, attempts, worker, cancels, budget>>
        /\ scheduler.pc = "idle" /\ ExpiredUrls \cap LockedUrls = {}
        /\ scheduler' = [scheduler EXCEPT !.pc = "released", !.released = ExpiredUrls]
        /\ scheduler \in SchedulerState /\ ExpiredUrls \in SUBSET Urls
    BY DEF ReleaseLeases, rows, IInv, TypeOK, ExpiredUrls
  <1>2. /\ scheduler' \in SchedulerState /\ scheduler'.pc = "released"
        /\ scheduler'.released = ExpiredUrls
        /\ scheduler'.canceled = {} /\ scheduler'.moved = {}
    BY <1>1 DEF SchedulerState, IInv, SchedulerOK
  <1>3. TypeOK' /\ RowsOK' /\ JobsOK'
    BY <1>1, <1>2, RowsFrame, JobsFrame DEF IInv, TypeOK
  <1>4. SchedulerOK'
    BY <1>1, <1>2 DEF SchedulerOK, ExpiredUrls
  <1>5. WorkersOK'
    BY <1>1, <1>2, WorkersKeptBySchedulerStep DEF IInv, SchedulerLocks, LockedUrls
  <1> QED
    BY <1>3, <1>4, <1>5 DEF IInv

LEMMA CancelWaitingUrlsStep ==
  ASSUME IInv, CancelWaitingUrls
  PROVE  IInv'
  <1>1. /\ UNCHANGED <<job, url, attempts, worker, cancels, budget>>
        /\ scheduler.pc = "released" /\ CancelableUrls \cap (ClaimLocks \cup MarkLocks) = {}
        /\ scheduler' = [scheduler EXCEPT !.pc = "canceled", !.canceled = CancelableUrls]
        /\ scheduler \in SchedulerState /\ CancelableUrls \in SUBSET Urls
    BY DEF CancelWaitingUrls, rows, IInv, TypeOK, CancelableUrls
  <1>2. /\ scheduler' \in SchedulerState /\ scheduler'.pc = "canceled"
        /\ scheduler'.released = scheduler.released
        /\ scheduler'.canceled = CancelableUrls /\ scheduler'.moved = {}
    BY <1>1 DEF SchedulerState, IInv, SchedulerOK
  <1>3. TypeOK' /\ RowsOK' /\ JobsOK'
    BY <1>1, <1>2, RowsFrame, JobsFrame DEF IInv, TypeOK
  <1>4. \A u \in CancelableUrls :
          /\ job[JobOf[u]] = "canceling"
          /\ \/ u \in scheduler.released
             \/ url[u].status \notin ActiveUrlStatuses \cup TerminalUrlStatuses \cup {"absent"}
    BY <1>1 DEF CancelableUrls, SchedulerSees, IInv, SchedulerOK
  <1>5. SchedulerOK'
    BY <1>1, <1>2, <1>4 DEF SchedulerOK, IInv
  <1>6. WorkersOK'
    BY <1>1, <1>2, WorkersKeptBySchedulerStep DEF IInv, SchedulerLocks
  <1> QED
    BY <1>3, <1>5, <1>6 DEF IInv

LEMMA AdvanceJobsStep ==
  ASSUME IInv, AdvanceJobs
  PROVE  IInv'
  <1>1. /\ UNCHANGED <<job, url, attempts, worker, cancels, budget>>
        /\ scheduler.pc = "canceled" /\ JobsToAdvance \cap CancelLocks = {}
        /\ scheduler' = [scheduler EXCEPT !.pc = "advanced", !.moved = JobsToAdvance]
        /\ scheduler \in SchedulerState /\ JobsToAdvance \in SUBSET Jobs
    BY DEF AdvanceJobs, rows, IInv, TypeOK, JobsToAdvance
  <1>2. /\ scheduler' \in SchedulerState /\ scheduler'.pc = "advanced"
        /\ scheduler'.released = scheduler.released
        /\ scheduler'.canceled = scheduler.canceled
        /\ scheduler'.moved = JobsToAdvance
    BY <1>1 DEF SchedulerState
  <1>3. TypeOK' /\ RowsOK' /\ JobsOK'
    BY <1>1, <1>2, RowsFrame, JobsFrame DEF IInv, TypeOK
  <1>4. \A j \in JobsToAdvance : MovedOK(j)
    BY <1>1 DEF JobsToAdvance, MovedOK, ActiveUrlsExist, UnresolvedUrlsExist, ActiveUrlStatuses
  <1>5. \A j \in JobsToAdvance : MovedOK(j)'
    BY <1>1, <1>2, <1>4 DEF MovedOK, CancelLocks, UrlsOf, SchedulerSees
  <1>6. SchedulerOK'
    BY <1>1, <1>2, <1>5 DEF SchedulerOK, IInv
  <1>7. WorkersOK'
    BY <1>1, <1>2, WorkersKeptBySchedulerStep DEF IInv, SchedulerLocks
  <1> QED
    BY <1>3, <1>6, <1>7 DEF IInv

LEMMA AbortTickStep ==
  ASSUME IInv, AbortTick
  PROVE  IInv'
  <1>1. /\ UNCHANGED <<job, url, attempts, worker, cancels>> /\ budget' \in Budget
        /\ scheduler' = IdleScheduler
    BY BudgetTyped DEF AbortTick, rows, IInv
  <1>2. TypeOK' /\ RowsOK' /\ JobsOK'
    BY <1>1, RowsFrame, JobsFrame DEF IInv, TypeOK, IdleScheduler, SchedulerState
  <1>3. SchedulerOK'
    BY <1>1 DEF SchedulerOK, IdleScheduler
  <1>4. WorkersOK'
    BY <1>1, WorkersKeptBySchedulerStep DEF IInv, SchedulerLocks, IdleScheduler
  <1> QED
    BY <1>2, <1>3, <1>4 DEF IInv

(* The commit shows everybody what the transaction has seen. *)
LEMMA TickShowsWhatItSaw ==
  ASSUME IInv, CommitTick, NEW u \in Urls
  PROVE  /\ url'[u] \in Row /\ attempts'[u] \in Seq(AttemptResults)
         /\ RowOK(url'[u], attempts'[u])
         /\ url'[u].status = SchedulerSees(u)
         /\ u \notin SchedulerLocks => url'[u] = url[u] /\ attempts'[u] = attempts[u]
         /\ u \in SchedulerLocks =>
              /\ url'[u].claimedBy = NoWorker
              /\ url[u].status \notin TerminalUrlStatuses \cup {"absent"}
              /\ url'[u].status \in {"queued", "canceled"}
  <1> DEFINE seq == attempts[u]
             seq2 == IF Open(seq) THEN Finished(seq, "abandoned") ELSE seq
             released == ReleasedRow(url[u], Open(seq))
  <1>1. /\ url[u] \in Row /\ seq \in Seq(AttemptResults) /\ RowOK(url[u], seq)
    BY DEF IInv, TypeOK, RowsOK
  <1>2. /\ url'[u] = LET row == IF u \in scheduler.released THEN released ELSE url[u]
                     IN  IF u \in scheduler.canceled THEN CanceledRow(row) ELSE row
        /\ attempts'[u] = IF u \in scheduler.released THEN seq2 ELSE seq
    BY DEF CommitTick, HasOpenAttempt
  <1>3. ASSUME NEW row \in Row
        PROVE  CanceledRow(row) \in Row /\ CanceledRow(row).status = "canceled"
               /\ CanceledRow(row).claimedBy = NoWorker
    BY <1>3, RowTyped DEF CanceledRow, Unclaimed, Row
  <1>4. CASE u \in scheduler.released
    <2>1. url[u].status \in ActiveUrlStatuses
      BY <1>4 DEF IInv, SchedulerOK
    <2>2. /\ released \in Row /\ seq2 \in Seq(AttemptResults)
          /\ RowOK(released, seq2) /\ RowOK(CanceledRow(released), seq2)
      BY <1>1, <2>1, RowReleased
    <2>3. released.status = "queued" /\ released.claimedBy = NoWorker
      BY <1>1 DEF ReleasedRow, Unclaimed, Row
    <2>4. u \in SchedulerLocks /\ url[u].status \notin TerminalUrlStatuses \cup {"absent"}
      BY <1>4, <2>1 DEF SchedulerLocks, TerminalUrlStatuses, ActiveUrlStatuses
    <2> HIDE DEF released, seq2
    <2>5. CASE u \in scheduler.canceled
      BY <1>2, <1>3, <1>4, <2>2, <2>4, <2>5 DEF SchedulerSees
    <2>6. CASE u \notin scheduler.canceled
      BY <1>2, <1>4, <2>2, <2>3, <2>4, <2>6 DEF SchedulerSees
    <2> QED
      BY <2>5, <2>6
  <1>5. CASE u \in scheduler.canceled /\ u \notin scheduler.released
    <2>1. /\ url[u].status \notin ActiveUrlStatuses \cup TerminalUrlStatuses \cup {"absent"}
          /\ u \in SchedulerLocks
      BY <1>5 DEF IInv, SchedulerOK, SchedulerLocks
    <2>2. RowOK(CanceledRow(url[u]), seq)
      BY <1>1, <2>1, RowWritten
    <2>3. url'[u] = CanceledRow(url[u]) /\ attempts'[u] = seq
      BY <1>2, <1>5
    <2> QED
      BY <1>1, <1>3, <1>5, <2>1, <2>2, <2>3 DEF SchedulerSees
  <1>6. CASE u \notin SchedulerLocks
    BY <1>1, <1>2, <1>6 DEF SchedulerLocks, SchedulerSees
  <1> QED
    BY <1>4, <1>5, <1>6 DEF SchedulerLocks

LEMMA CommitTickStep ==
  ASSUME IInv, CommitTick
  PROVE  IInv'
  <1>1. /\ UNCHANGED <<worker, cancels, budget>> /\ scheduler' = IdleScheduler
        /\ job' = [j \in Jobs |->
             IF j \in scheduler.moved THEN AdvancedStatus(job[j]) ELSE job[j]]
        /\ DOMAIN url' = Urls /\ DOMAIN attempts' = Urls
        /\ \A u \in Urls : JobOf[u] \in Jobs
    BY ConstantsAssumption DEF CommitTick
  <1>2. \A j \in Jobs : \/ job'[j] = job[j]
                        \/ job[j] = "pausing" /\ job'[j] = "paused" /\ j \in scheduler.moved
                        \/ job[j] = "canceling" /\ job'[j] = "canceled" /\ j \in scheduler.moved
                        \/ job[j] = "running" /\ job'[j] = "completed" /\ j \in scheduler.moved
    BY <1>1 DEF AdvancedStatus, IInv, SchedulerOK, MovedOK
  <1>3. TypeOK'
    <2>1. /\ url' \in [Urls -> Row] /\ attempts' \in [Urls -> Seq(AttemptResults)]
      BY TickShowsWhatItSaw DEF CommitTick
    <2>2. job' \in [Jobs -> JobStatuses \cup {"absent"}]
      BY <1>1, <1>2 DEF IInv, TypeOK, JobStatuses
    <2> QED
      BY <1>1, <2>1, <2>2 DEF IInv, TypeOK, IdleScheduler, SchedulerState
  <1>4. RowsOK'
    BY TickShowsWhatItSaw DEF RowsOK
  <1>5. SchedulerOK'
    BY <1>1 DEF SchedulerOK, IdleScheduler
  <1>6. \A u \in Urls : /\ url'[u].status = SchedulerSees(u)
                        /\ url'[u].status = url[u].status \/ url'[u].status \in {"queued", "canceled"}
                        /\ url[u].status \in TerminalUrlStatuses \cup {"absent"} => url'[u] = url[u]
                        /\ url'[u].status = "absent" => url[u].status = "absent"
    BY TickShowsWhatItSaw
  <1>7. JobsOK'
    <2>1. ASSUME NEW j \in Jobs
          PROVE  job'[j] \notin {"pending", "failed"}
      BY <1>2 DEF IInv, JobsOK
    <2>2. ASSUME NEW u \in Urls, job'[JobOf[u]] = "absent"
          PROVE  url'[u].status = "absent"
      BY <1>1, <1>2, <1>6, <2>2 DEF IInv, JobsOK
    <2>3. ASSUME NEW j \in Jobs, job'[j] \in TerminalJobStatuses, NEW u \in UrlsOf(j)'
          PROVE  url'[u].status \in TerminalUrlStatuses
      <3>1. u \in UrlsOf(j) /\ u \in Urls
        BY <1>6 DEF UrlsOf
      <3>2. CASE job'[j] = job[j]
        BY <1>6, <2>3, <3>1, <3>2 DEF IInv, JobsOK, FinishedJobsAreSettled
      <3>3. CASE job'[j] # job[j]
        <4>1. MovedOK(j) /\ job[j] # "pausing"
          BY <1>2, <2>3, <3>3 DEF IInv, SchedulerOK, TerminalJobStatuses
        <4> QED
          BY <1>6, <3>1, <4>1 DEF MovedOK
      <3> QED
        BY <3>2, <3>3
    <2>4. ASSUME NEW u \in Urls, job'[JobOf[u]] = "paused"
          PROVE  url'[u].status # "fetching"
      <3>1. CASE job[JobOf[u]] = "paused"
        BY <1>6, <3>1 DEF IInv, JobsOK, PausedJobsFetchNothing
      <3>2. CASE job[JobOf[u]] # "paused"
        <4>1. MovedOK(JobOf[u]) /\ job[JobOf[u]] = "pausing"
          BY <1>1, <1>2, <2>4, <3>2 DEF IInv, SchedulerOK
        <4>2. u \in UrlsOf(JobOf[u]) \/ url[u].status = "absent"
          BY DEF UrlsOf
        <4> QED
          BY <1>6, <4>1, <4>2 DEF MovedOK
      <3> QED
        BY <3>1, <3>2
    <2> QED
      BY <2>1, <2>2, <2>3, <2>4 DEF JobsOK, FinishedJobsAreSettled, PausedJobsFetchNothing
  <1>8. ASSUME NEW v \in Workers PROVE (ClaimOK(v) /\ FetchOK(v) /\ MarkOK(v))'
    <2>1. ClaimOK(v) /\ FetchOK(v) /\ MarkOK(v) /\ SchedulerLocks' = {}
      BY <1>1 DEF IInv, WorkersOK, SchedulerLocks, IdleScheduler
    <2>2. \A u \in Urls : u \notin SchedulerLocks => url'[u] = url[u]
      BY TickShowsWhatItSaw
    <2>3. \A u \in Urls : u \in SchedulerLocks => url'[u].claimedBy # v
      BY TickShowsWhatItSaw, ConstantsAssumption
    <2>4. ClaimOK(v)'
      <3>1. worker[v].batch \in SUBSET Urls
        BY DEF IInv, TypeOK, WorkerState
      <3> QED
        BY <1>1, <2>1, <2>2, <3>1 DEF ClaimOK
    <2>5. FetchOK(v)'
      BY <1>1, <2>1, <2>2, <2>3 DEF FetchOK, Owns
    <2>6. MarkOK(v)'
      <3> SUFFICES ASSUME worker[v].pc = "marking" PROVE MarkOK(v)'
        BY <1>1 DEF MarkOK
      <3> DEFINE u == worker[v].url
      <3>1. u \in Urls \ SchedulerLocks /\ url[u].status = "fetching" /\ url'[u] = url[u]
        BY <2>1, <2>2 DEF MarkOK
      <3>2. SchedulerSees(u) = "fetching" /\ u \in UrlsOf(JobOf[u])
        BY <3>1 DEF SchedulerSees, SchedulerLocks, UrlsOf
      <3>3. JobOf[u] \notin scheduler.moved
        BY <3>2 DEF IInv, SchedulerOK, MovedOK, TerminalUrlStatuses
      <3>4. job'[JobOf[u]] = job[JobOf[u]]
        BY <1>1, <3>1, <3>3
      <3> QED
        BY <1>1, <2>1, <3>1, <3>4 DEF MarkOK
    <2> QED
      BY <2>4, <2>5, <2>6
  <1> QED
    BY <1>3, <1>4, <1>5, <1>7, <1>8 DEF IInv, WorkersOK

-----------------------------------------------------------------------------
(* The invariant.                                                          *)

LEMMA InvariantHoldsInitially == Init => IInv
  <1> SUFFICES ASSUME Init PROVE IInv
    OBVIOUS
  <1>1. /\ \A u \in Urls : url[u] = AbsentRow /\ attempts[u] = <<>>
        /\ \A w \in Workers : worker[w] = IdleWorker
        /\ \A j \in Jobs : job[j] = "absent"
        /\ \A u \in Urls : JobOf[u] \in Jobs
    BY ConstantsAssumption DEF Init
  <1>2. AbsentRow \in Row /\ IdleWorker \in WorkerState /\ <<>> \in Seq(AttemptResults)
    BY EmptySeq DEF AbsentRow, Row, IdleWorker, WorkerState
  <1>3. TypeOK
    BY <1>2, ConstantsAssumption DEF Init, TypeOK, IdleScheduler, SchedulerState, Budget
  <1>4. RowsOK
    <2>1. Len(<<>>) = 0
      BY EmptySeq
    <2>2. RowOK(AbsentRow, <<>>)
      BY <2>1 DEF RowOK, AbsentRow, Open, ActiveUrlStatuses
    <2> QED
      BY <1>1, <2>2 DEF RowsOK
  <1>5. JobsOK
    BY <1>1 DEF JobsOK, FinishedJobsAreSettled, PausedJobsFetchNothing, AbsentRow, TerminalJobStatuses
  <1>6. WorkersOK
    BY <1>1 DEF WorkersOK, ClaimOK, FetchOK, MarkOK, IdleWorker
  <1>7. SchedulerOK
    BY DEF Init, SchedulerOK, IdleScheduler
  <1> QED
    BY <1>3, <1>4, <1>5, <1>6, <1>7 DEF IInv

LEMMA InvariantIsKept == IInv /\ [Next]_vars => IInv'
  <1> SUFFICES ASSUME IInv, [Next]_vars PROVE IInv'
    OBVIOUS
  <1>1. CASE ApiNext
    BY <1>1, CreateCrawlStep, PauseResumeStep, CancelBookkeepingStep, CommitCancelStep DEF ApiNext
  <1>2. CASE WorkerNext
    <2> SUFFICES ASSUME NEW w \in Workers,
                        \/ SelectBatch(w) \/ CommitClaim(w) \/ ProcessBatch(w)
                        \/ Crash(w) \/ \E u \in Urls : Heartbeat(w, u)
                 PROVE  IInv'
      BY <1>2 DEF WorkerNext
    <2>1. CASE SelectBatch(w)
      BY <2>1, SelectBatchStep
    <2>2. CASE CommitClaim(w)
      BY <2>2, CommitClaimStep
    <2>3. ASSUME NEW u \in Urls, StartFetch(w, u) PROVE IInv'
      BY <2>3, StartFetchStep
    <2>4. ASSUME NEW u \in Urls, SkipUrl(w, u) PROVE IInv'
      BY <2>4, WorkerTyped, QuietWorkerStep DEF SkipUrl, IInv, TypeOK
    <2>5. CASE MarkFailure(w)
      BY <2>5, MarkFailureStep
    <2>6. CASE CommitFailure(w)
      BY <2>6, CommitFailureStep
    <2>7. CASE CommitSuccess(w)
      BY <2>7, CommitSuccessStep
    <2>8. CASE DiscardResult(w)
      <3>1. worker[w].url \in Urls \cup {NoUrl}
        BY DEF IInv, TypeOK, WorkerState
      <3> QED
        BY <2>8, <3>1, WorkerTyped, QuietWorkerStep DEF DiscardResult, IInv, TypeOK
    <2>9. CASE Crash(w)
      BY <2>9, WorkerTyped, BudgetTyped, QuietWorkerStep DEF Crash, IInv
    <2>10. ASSUME NEW u \in Urls, Heartbeat(w, u) PROVE IInv'
      BY <2>10, HeartbeatStep
    <2> QED
      BY <2>1, <2>2, <2>3, <2>4, <2>5, <2>6, <2>7, <2>8, <2>9, <2>10 DEF ProcessBatch
  <1>3. CASE TimeNext
    BY <1>3, LeaseEndsStep, BackoffElapsesStep DEF TimeNext
  <1>4. CASE Tick \/ AbortTick
    BY <1>4, ReleaseLeasesStep, CancelWaitingUrlsStep, AdvanceJobsStep, CommitTickStep,
       AbortTickStep DEF Tick
  <1>5. CASE UNCHANGED vars
    <2>1. TypeOK' /\ RowsOK' /\ JobsOK' /\ SchedulerOK'
      BY <1>5, RowsFrame, JobsFrame, SchedulerFrame DEF vars, IInv, TypeOK
    <2>2. WorkersOK'
      BY <1>5, OtherWorkersFrame DEF vars, IInv, TypeOK, WorkerState, WorkersOK
    <2> QED
      BY <2>1, <2>2 DEF IInv
  <1> QED
    BY <1>1, <1>2, <1>3, <1>4, <1>5 DEF Next

(* The inductive invariant holds in every reachable state. *)
THEOREM InvariantHolds == Spec => []IInv
  BY InvariantHoldsInitially, InvariantIsKept, PTL DEF Spec

(* Every variable keeps its type, whatever transactions overlap. *)
THEOREM TypeCorrectness == Spec => []TypeOK
  <1>1. IInv => TypeOK
    BY DEF IInv
  <1> QED
    BY <1>1, InvariantHolds, PTL

(* repos/urls.py: a row has an owner and a lease exactly while it is active. *)
THEOREM OwnershipCorrectness == Spec => []OwnershipMatchesStatus
  <1>1. IInv => OwnershipMatchesStatus
    BY DEF IInv, RowsOK, RowOK, OwnershipMatchesStatus
  <1> QED
    BY <1>1, InvariantHolds, PTL

(* repos/attempts.py and repos/urls.py: fetch_attempts counts the finished
   attempts, and the one that is open belongs to a row being fetched. *)
THEOREM LedgerCorrectness == Spec => []LedgerMatchesRow
  <1>1. ASSUME IInv PROVE LedgerMatchesRow
    BY <1>1 DEF IInv, RowsOK, RowOK, LedgerMatchesRow, HasOpenAttempt
  <1> QED
    BY <1>1, InvariantHolds, PTL

(* services/orchestrator.py: a row is done or failed for good by exactly one
   attempt, its last, and by nothing else. *)
THEOREM VerdictIsUnique == Spec => []OneVerdict
  <1>1. ASSUME IInv, NEW u \in Urls, NEW i \in 1 .. Len(attempts[u]),
               attempts[u][i] \in {"success", "failed_permanent"}
        PROVE  url[u].status \in {"done", "failed_permanent"} /\ i = Len(attempts[u])
    <2>1. attempts[u] \in Seq(AttemptResults) /\ RowOK(url[u], attempts[u])
      BY <1>1 DEF IInv, TypeOK, RowsOK
    <2>2. Len(attempts[u]) \in Nat
      BY <2>1, LenProperties
    <2>3. i = Len(attempts[u])
      BY <1>1, <2>1, <2>2 DEF RowOK
    <2>4. attempts[u] # <<>>
      BY <2>2, <2>3, EmptySeq
    <2> QED
      BY <1>1, <2>1, <2>3, <2>4 DEF RowOK
  <1>2. ASSUME IInv, NEW u \in Urls, url[u].status = "done"
        PROVE  attempts[u] # <<>> /\ attempts[u][Len(attempts[u])] = "success"
    BY <1>2 DEF IInv, RowsOK, RowOK
  <1>3. ASSUME IInv, NEW u \in Urls, url[u].status = "failed_permanent"
        PROVE  attempts[u] # <<>> /\ attempts[u][Len(attempts[u])] = "failed_permanent"
    BY <1>3 DEF IInv, RowsOK, RowOK
  <1>4. IInv => OneVerdict
    BY <1>1, <1>2, <1>3 DEF OneVerdict
  <1> QED
    BY <1>4, InvariantHolds, PTL

(* services/orchestrator.py:441-482: the number the retry decision uses is the
   row's whenever the decision can be written. *)
THEOREM RetryCountFreshness == Spec => []RetryCountIsFresh
  <1>1. ASSUME IInv PROVE RetryCountIsFresh
    BY <1>1 DEF IInv, WorkersOK, FetchOK, MarkOK, RetryCountIsFresh
  <1> QED
    BY <1>1, InvariantHolds, PTL

(* services/orchestrator.py:453-464 and repos/attempts.py:61-82: of all that ends
   an attempt only the scheduler's release does not look at the cap. *)
THEOREM CapIsPassedByAbandonmentOnly == Spec => []OnlyAbandonmentPassesCap
  <1>1. ASSUME IInv, NEW u \in Urls, NEW i \in 1 .. Len(attempts[u]) - 1, i >= MaxAttempts
        PROVE  attempts[u][i] = "abandoned"
    <2>1. RowOK(url[u], attempts[u]) /\ Len(attempts[u]) \in Nat
      BY <1>1, LenProperties DEF IInv, TypeOK, RowsOK
    <2>2. attempts[u][i] \in {"retry_wait", "abandoned"} /\ i \in 1 .. Len(attempts[u])
      BY <1>1, <2>1 DEF RowOK
    <2>3. attempts[u][i] = "retry_wait" => i < MaxAttempts
      BY <2>1, <2>2 DEF RowOK
    <2> QED
      BY <1>1, <2>2, <2>3, ConstantsAssumption
  <1>2. ASSUME IInv, NEW u \in Urls, url[u].status = "retry_wait"
        PROVE  url[u].fetchAttempts < MaxAttempts
    BY <1>2 DEF IInv, RowsOK, RowOK
  <1>3. IInv => OnlyAbandonmentPassesCap
    BY <1>1, <1>2 DEF OnlyAbandonmentPassesCap
  <1> QED
    BY <1>3, InvariantHolds, PTL

(* repos/jobs.py:215-221: a job is completed or canceled only when all its
   rows are settled, and they are then settled for good. *)
THEOREM FinishedJobsCorrectness == Spec => []FinishedJobsAreSettled
  <1>1. IInv => FinishedJobsAreSettled
    BY DEF IInv, JobsOK
  <1> QED
    BY <1>1, InvariantHolds, PTL

(* repos/jobs.py:209-214: nothing of a paused job is being fetched. *)
THEOREM PausedJobsCorrectness == Spec => []PausedJobsFetchNothing
  <1>1. IInv => PausedJobsFetchNothing
    BY DEF IInv, JobsOK
  <1> QED
    BY <1>1, InvariantHolds, PTL
=============================================================================
