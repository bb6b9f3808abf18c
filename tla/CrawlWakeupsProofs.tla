------------------------- MODULE CrawlWakeupsProofs -------------------------
(***************************************************************************)
(* The crawl driven by wake-ups is a crawl: messages decide when a worker  *)
(* claims, never what it may do.  Hence every safety property proved of    *)
(* CrawlLifecycle holds whatever is lost, requeued or delivered twice.     *)
(***************************************************************************)
EXTENDS CrawlWakeups, CrawlContractProofs

(* messaging/rabbitmq.py, workers/crawler_worker.py:69-76: a step of the
   composed system is a step of the crawl or leaves its state alone. *)
THEOREM WakeupsImplementCrawl == WakeupSpec => Spec
  <1>1. WakeupInit => Init
    BY DEF WakeupInit
  <1>2. ASSUME [WakeupNext]_allVars PROVE [Next]_vars
    <2>1. CASE ApiWakes
      BY <2>1 DEF ApiWakes, CreateAndCommit, PublishFirst, PublishFirstFails,
                  Request, Next, ApiNext
    <2>2. CASE BrokerWakes
      BY <2>2 DEF BrokerWakes, LoseMessage, Deliver, CutConnection
    <2>3. CASE WorkerWakes
      BY <2>3 DEF WorkerWakes, Claim, ClaimNothing, Work, Acknowledge,
                  CrashAndRequeue, Next, WorkerNext
    <2>4. CASE TickWakes
      BY <2>4 DEF TickWakes, TickUpToListing, ListRunnable, PublishRunnable,
                  CommitAndForget, Next, Tick
    <2>5. CASE AbortAndForget
      BY <2>5 DEF AbortAndForget, Next
    <2>6. CASE Clock
      BY <2>6 DEF Clock, Next
    <2>7. CASE UNCHANGED allVars
      BY <2>7 DEF allVars
    <2> QED
      BY <1>2, <2>1, <2>2, <2>3, <2>4, <2>5, <2>6, <2>7 DEF WakeupNext
  <1> QED
    BY <1>1, <1>2, PTL DEF WakeupSpec, Spec

(* The invariant of rows, attempts, locks and transactions survives the
   composition with the queue. *)
THEOREM WakeupsKeepInvariant == WakeupSpec => []IInv
  BY WakeupsImplementCrawl, InvariantHolds, PTL

(* So do the contract of a crawl and the log of attempts: a lost, repeated or
   requeued message makes no row settle twice and no attempt overlap another. *)
THEOREM WakeupsKeepContract == WakeupSpec => KeepsContract /\ SettledRowsStay /\ AttemptsAreLogged
  BY WakeupsImplementCrawl, CrawlKeepsContract, SettledRowsCorrectness, LogCorrectness, PTL

-----------------------------------------------------------------------------
LEMMA QueueBounds ==
  ASSUME WakeupTypeOK, NEW w \in Workers
  PROVE  /\ Published \in 0 .. MaxQueue
         /\ Requeued(w) \in 0 .. MaxQueue
         /\ queue > 0 => queue - 1 \in 0 .. MaxQueue
  BY WakeupConstants DEF WakeupTypeOK, Published, Requeued

LEMMA LossesCount ==
  ASSUME WakeupTypeOK, Lose
  PROVE  losses' \in 0 .. MaxLosses
  BY WakeupConstants DEF WakeupTypeOK, Lose

LEMMA WakeupTypeKept == WakeupTypeOK /\ [WakeupNext]_allVars => WakeupTypeOK'
  <1> SUFFICES ASSUME WakeupTypeOK, [WakeupNext]_allVars PROVE WakeupTypeOK'
    OBVIOUS
  <1>0. Published \in 0 .. MaxQueue
    BY WakeupConstants DEF WakeupTypeOK, Published
  <1> USE DEF WakeupTypeOK, wakeups
  <1>1. ASSUME NEW j \in Jobs,
               CreateAndCommit(j) \/ PublishFirst(j) \/ PublishFirstFails(j) \/ Request(j)
        PROVE  WakeupTypeOK'
    BY <1>0, <1>1, LossesCount DEF CreateAndCommit, PublishFirst, PublishFirstFails, Request
  <1>2. ASSUME NEW w \in Workers, Deliver(w) \/ CutConnection(w) PROVE WakeupTypeOK'
    BY <1>2, QueueBounds, LossesCount DEF Deliver, CutConnection
  <1>3. CASE LoseMessage
    <2>1. queue' \in 0 .. MaxQueue
      BY <1>3, WakeupConstants DEF LoseMessage
    <2> QED
      BY <1>3, <2>1, LossesCount DEF LoseMessage
  <1>4. ASSUME NEW w \in Workers,
               \/ Claim(w) \/ ClaimNothing(w) \/ Work(w)
               \/ Acknowledge(w) \/ CrashAndRequeue(w)
        PROVE  WakeupTypeOK'
    BY <1>4, QueueBounds DEF Claim, ClaimNothing, Work, Acknowledge, CrashAndRequeue
  <1>5. CASE TickUpToListing \/ Clock
    BY <1>5 DEF TickUpToListing, Clock
  <1>6. CASE ListRunnable
    <2>1. JobsWithRunnableWork \subseteq Jobs
      BY DEF JobsWithRunnableWork
    <2> QED
      BY <1>6, <2>1 DEF ListRunnable
  <1>7. CASE PublishRunnable
    BY <1>0, <1>7 DEF PublishRunnable
  <1>8. CASE CommitAndForget \/ AbortAndForget
    <2>1. NotListed \in [done : BOOLEAN, jobs : SUBSET Jobs]
      BY DEF NotListed
    <2> QED
      BY <1>8, <2>1 DEF CommitAndForget, AbortAndForget
  <1>9. CASE UNCHANGED allVars
    BY <1>9 DEF allVars
  <1> HIDE DEF WakeupTypeOK, wakeups
  <1>10. CASE ApiWakes \/ BrokerWakes
    BY <1>1, <1>2, <1>3, <1>10 DEF ApiWakes, BrokerWakes
  <1>11. CASE WorkerWakes \/ TickWakes
    BY <1>4, <1>5, <1>6, <1>7, <1>8, <1>11 DEF WorkerWakes, TickWakes
  <1> QED
    BY <1>5, <1>8, <1>9, <1>10, <1>11 DEF WakeupNext

LEMMA WakeupTypeCorrectness == WakeupSpec => []WakeupTypeOK
  <1>1. WakeupInit => WakeupTypeOK
    BY WakeupConstants DEF WakeupInit, WakeupTypeOK, NotListed
  <1> QED
    BY <1>1, WakeupTypeKept, PTL DEF WakeupSpec

-----------------------------------------------------------------------------
(* Only the actions of worker w change its state, and once it has selected a
   batch they are those of a worker that is not idle. *)
LEMMA OthersStayIdle ==
  ASSUME TypeOK, NEW w \in Workers, NEW v \in Workers,
         CommitClaim(v) \/ ProcessBatch(v) \/ (\E u \in Urls : Heartbeat(v, u)),
         worker[w].pc = "idle"
  PROVE  worker'[w].pc = "idle"
  <1> USE DEF TypeOK
  <1>1. CASE CommitClaim(v)
    BY <1>1 DEF CommitClaim
  <1>2. CASE ProcessBatch(v)
    <2>1. v # w
      BY <1>2 DEF ProcessBatch, StartFetch, SkipUrl, MarkFailure, CommitFailure,
                  CommitSuccess, DiscardResult
    <2>2. worker'[w] = worker[w]
      BY <1>2, <2>1 DEF ProcessBatch, StartFetch, SkipUrl, MarkFailure, CommitFailure,
                        CommitSuccess, DiscardResult
    <2> QED
      BY <2>2
  <1>3. CASE \E u \in Urls : Heartbeat(v, u)
    BY <1>3 DEF Heartbeat
  <1> QED
    BY <1>1, <1>2, <1>3

LEMMA OneBatchKept ==
  TypeOK /\ WakeupTypeOK /\ OneBatchPerMessage /\ [WakeupNext]_allVars
    => OneBatchPerMessage'
  <1> SUFFICES ASSUME TypeOK, WakeupTypeOK, OneBatchPerMessage, [WakeupNext]_allVars
               PROVE  OneBatchPerMessage'
    OBVIOUS
  <1> USE DEF OneBatchPerMessage, WakeupTypeOK, wakeups, vars
  <1>1. ASSUME NEW j \in Jobs,
               CreateAndCommit(j) \/ PublishFirst(j) \/ PublishFirstFails(j) \/ Request(j)
        PROVE  OneBatchPerMessage'
    BY <1>1 DEF CreateAndCommit, PublishFirst, PublishFirstFails, Request, CreateCrawl,
                RequestPause, RequestResume, RequestCancel, CommitCancel, AbortCancel
  <1>2. ASSUME NEW w \in Workers, Deliver(w) \/ CutConnection(w)
        PROVE  OneBatchPerMessage'
    BY <1>2 DEF Deliver, CutConnection
  <1>3. CASE LoseMessage
    BY <1>3 DEF LoseMessage
  <1>4. ASSUME NEW w \in Workers, Claim(w) \/ ClaimNothing(w) \/ Acknowledge(w)
        PROVE  OneBatchPerMessage'
    BY <1>4 DEF Claim, ClaimNothing, Acknowledge, SelectBatch, TypeOK
  <1>5. ASSUME NEW v \in Workers, Work(v) PROVE OneBatchPerMessage'
    BY <1>5, OthersStayIdle DEF Work
  <1>6. ASSUME NEW w \in Workers, CrashAndRequeue(w) PROVE OneBatchPerMessage'
    BY <1>6 DEF CrashAndRequeue, Crash, IdleWorker, TypeOK
  <1>7. CASE TickUpToListing \/ Clock
    BY <1>7 DEF TickUpToListing, ReleaseLeases, CancelWaitingUrls, AdvanceJobs, Clock,
                TimeNext, ExpireLease, LapseLease, BackoffElapses
  <1>8. CASE ListRunnable \/ PublishRunnable
    BY <1>8 DEF ListRunnable, PublishRunnable
  <1>9. CASE CommitAndForget \/ AbortAndForget
    BY <1>9 DEF CommitAndForget, CommitTick, AbortAndForget, AbortTick
  <1>10. CASE UNCHANGED allVars
    BY <1>10 DEF allVars
  <1> HIDE DEF OneBatchPerMessage, WakeupTypeOK, wakeups, vars
  <1> QED
    BY <1>1, <1>2, <1>3, <1>4, <1>5, <1>6, <1>7, <1>8, <1>9, <1>10
    DEF WakeupNext, ApiWakes, BrokerWakes, WorkerWakes, TickWakes

(* workers/crawler_worker.py:65-70: a process has one batch at a time, and has
   it on a message that it took and has not finished with. *)
THEOREM OneBatchCorrectness == WakeupSpec => []OneBatchPerMessage
  <1>1. WakeupInit => OneBatchPerMessage
    BY DEF WakeupInit, Init, IdleWorker, OneBatchPerMessage
  <1>2. WakeupSpec => []TypeOK
    BY WakeupsImplementCrawl, TypeCorrectness, PTL
  <1> QED
    BY <1>1, <1>2, OneBatchKept, WakeupTypeCorrectness, PTL DEF WakeupSpec

-----------------------------------------------------------------------------
LEMMA PublishedGrows ==
  ASSUME WakeupTypeOK PROVE Published >= queue /\ queue \in Int /\ Published \in Int
  BY WakeupConstants DEF WakeupTypeOK, Published

(* The property of WakeupsOutliveCrashes, as an action. *)
LEMMA WakeupsOutliveStep ==
  ASSUME WakeupTypeOK, OneBatchPerMessage, WakeupNext
  PROVE  /\ \A w \in unacked \ unacked' :
              \/ consumer[w] = "claimed" /\ worker[w].pc = "idle" /\ UNCHANGED vars
              \/ queue' = Published
         /\ queue' < queue => losses' < losses \/ unacked' \ unacked # {}
  <1> DEFINE Returned == \A w \in unacked \ unacked' :
                           \/ consumer[w] = "claimed" /\ worker[w].pc = "idle" /\ UNCHANGED vars
                           \/ queue' = Published
             Handed == queue' < queue => losses' < losses \/ unacked' \ unacked # {}
  <1>0. /\ queue \in Int /\ Published \in Int /\ Published >= queue
        /\ ~(queue < queue) /\ ~(Published < queue)
    BY PublishedGrows
  <1>1. ASSUME unacked' = unacked, queue' \in {queue, Published}
        PROVE  Returned /\ Handed
    BY <1>0, <1>1
  <1>2. ASSUME NEW j \in Jobs,
               CreateAndCommit(j) \/ PublishFirst(j) \/ PublishFirstFails(j) \/ Request(j)
        PROVE  Returned /\ Handed
    BY <1>1, <1>2 DEF CreateAndCommit, PublishFirst, PublishFirstFails, Request, wakeups
  <1>3. ASSUME NEW w \in Workers, Deliver(w) PROVE Returned /\ Handed
    <2>1. w \notin unacked
      BY <1>3 DEF Deliver, OneBatchPerMessage
    <2> QED
      BY <1>3, <2>1 DEF Deliver
  <1>4. ASSUME NEW w \in Workers, CutConnection(w) PROVE Returned /\ Handed
    <2>1. queue' = Published /\ unacked' = unacked \ {w}
      BY <1>4 DEF CutConnection, Requeued
    <2> QED
      BY <1>0, <2>1
  <1>5. CASE LoseMessage
    <2>1. losses' < losses
      BY <1>5 DEF LoseMessage, Lose, WakeupTypeOK
    <2> QED
      BY <1>5, <2>1 DEF LoseMessage
  <1>6. ASSUME NEW w \in Workers, Claim(w) \/ ClaimNothing(w) \/ Work(w)
        PROVE  Returned /\ Handed
    BY <1>1, <1>6 DEF Claim, ClaimNothing, Work, wakeups
  <1>7. ASSUME NEW w \in Workers, Acknowledge(w) PROVE Returned /\ Handed
    BY <1>0, <1>7 DEF Acknowledge
  <1>8. ASSUME NEW w \in Workers, CrashAndRequeue(w) PROVE Returned /\ Handed
    <2>1. queue' = (IF w \in unacked THEN Published ELSE queue) /\ unacked' = unacked \ {w}
      BY <1>8 DEF CrashAndRequeue, Requeued
    <2> QED
      BY <1>0, <2>1
  <1>9. CASE TickWakes \/ AbortAndForget \/ Clock
    BY <1>1, <1>9 DEF TickWakes, TickUpToListing, ListRunnable, PublishRunnable,
                      CommitAndForget, AbortAndForget, Clock, wakeups
  <1>10. Returned /\ Handed
    BY <1>2, <1>3, <1>4, <1>5, <1>6, <1>7, <1>8, <1>9
    DEF WakeupNext, ApiWakes, BrokerWakes, WorkerWakes
  <1> QED
    BY <1>10

(* workers/crawler_worker.py:70: no crash and no broken connection takes a
   message with it; only the broker's faults and ended batches do. *)
THEOREM WakeupsOutliveCorrectness == WakeupSpec => WakeupsOutliveCrashes
  BY WakeupsOutliveStep, WakeupTypeCorrectness, OneBatchCorrectness, PTL DEF WakeupSpec, WakeupsOutliveCrashes
=============================================================================
