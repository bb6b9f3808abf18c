---------------------------- MODULE CrawlWakeups ----------------------------
(***************************************************************************)
(* The crawl of CrawlLifecycle driven by wake-ups.  A worker claims only   *)
(* when RabbitMQ has delivered a message, one batch per message.  The API  *)
(* publishes one message after it has created a crawl; the scheduler       *)
(* publishes one for every job with runnable work, inside its transaction. *)
(*                                                                         *)
(* The worker ignores the job id in the body, so messages are alike and    *)
(* the queue is a number.  It is durable and its messages are persistent,  *)
(* but the design promises progress even when they are lost, and so does   *)
(* this module: the broker may lose one, and may deliver one again when a  *)
(* connection breaks before the acknowledgement.                           *)
(***************************************************************************)
EXTENDS CrawlLifecycle

CONSTANTS
  MaxQueue,      \* bound: messages counted; those beyond it count as lost
  MaxLosses      \* bound: messages lost, publishes failed, connections cut

ASSUME WakeupConstants == MaxQueue \in Nat \ {0} /\ MaxLosses \in Nat

VARIABLES
  queue,       \* messages ready for delivery
  consumer,    \* consumer[w]: where the worker is in its loop over messages
  unacked,     \* workers whose message the broker has not seen acknowledged
  created,     \* jobs committed by the API and not yet published by it
  listing,     \* what list_jobs_with_runnable_work gave the open tick
  losses       \* what is left of MaxLosses

wakeups == <<queue, consumer, unacked, created, listing, losses>>
allVars == <<vars, wakeups>>

WakeupTypeOK ==
  /\ queue \in 0 .. MaxQueue
  /\ consumer \in [Workers -> {"waiting", "delivered", "claimed"}]
  /\ unacked \in SUBSET Workers
  /\ created \in SUBSET Jobs
  /\ listing \in [done : BOOLEAN, jobs : SUBSET Jobs]
  /\ losses \in 0 .. MaxLosses

NotListed == [done |-> FALSE, jobs |-> {}]

WakeupInit ==
  /\ Init
  /\ queue = 0
  /\ consumer = [w \in Workers |-> "waiting"]
  /\ unacked = {}
  /\ created = {}
  /\ listing = NotListed
  /\ losses = MaxLosses

(* The queue with one more message. *)
Published == IF queue < MaxQueue THEN queue + 1 ELSE queue

(* A message whose connection is gone before its acknowledgement is ready
   again; a worker whose connection was cut before has none to give back. *)
Requeued(w) == IF w \in unacked THEN Published ELSE queue

Lose == losses > 0 /\ losses' = losses - 1

-----------------------------------------------------------------------------
(* The API: publish_job_wakeup_once after the commit of create_crawl.      *)

CreateAndCommit(j) ==
  /\ CreateCrawl(j)
  /\ created' = created \cup {j}
  /\ UNCHANGED <<queue, consumer, unacked, listing, losses>>

PublishFirst(j) ==
  /\ j \in created
  /\ created' = created \ {j}
  /\ queue' = Published
  /\ UNCHANGED <<vars, consumer, unacked, listing, losses>>

(* RabbitMQ does not answer, which is logged, or the request dies. *)
PublishFirstFails(j) ==
  /\ j \in created
  /\ created' = created \ {j}
  /\ Lose
  /\ UNCHANGED <<vars, queue, consumer, unacked, listing>>

(* The other requests publish nothing. *)
Request(j) ==
  /\ \/ RequestPause(j) \/ RequestResume(j) \/ RequestCancel(j)
     \/ CommitCancel(j) \/ AbortCancel(j)
  /\ UNCHANGED wakeups

-----------------------------------------------------------------------------
(* The broker.                                                             *)

(* prefetch_count = 1: nothing is delivered while a message is unsettled. *)
Deliver(w) ==
  /\ queue > 0
  /\ consumer[w] = "waiting"
  /\ queue' = queue - 1
  /\ consumer' = [consumer EXCEPT ![w] = "delivered"]
  /\ unacked' = unacked \cup {w}
  /\ UNCHANGED <<vars, created, listing, losses>>

LoseMessage ==
  /\ queue > 0
  /\ queue' = queue - 1
  /\ Lose
  /\ UNCHANGED <<vars, consumer, unacked, created, listing>>

(* The worker goes on with its batch while another may get its message. *)
CutConnection(w) ==
  /\ w \in unacked
  /\ unacked' = unacked \ {w}
  /\ queue' = Requeued(w)
  /\ Lose
  /\ UNCHANGED <<vars, consumer, created, listing>>

-----------------------------------------------------------------------------
(* The worker: async for message, async with message.process.              *)

Claim(w) ==
  /\ consumer[w] = "delivered"
  /\ SelectBatch(w)
  /\ consumer' = [consumer EXCEPT ![w] = "claimed"]
  /\ UNCHANGED <<queue, unacked, created, listing, losses>>

(* Mutant: a message that found no work goes back to the queue. *)
ClaimNothingAndRequeue(w) ==
  /\ consumer[w] = "delivered"
  /\ Claimable = {}
  /\ consumer' = [consumer EXCEPT ![w] = "waiting"]
  /\ queue' = Requeued(w)
  /\ unacked' = unacked \ {w}
  /\ UNCHANGED <<vars, created, listing, losses>>

(* Nothing is claimable: an empty batch, and the message is spent. *)
ClaimNothing(w) ==
  /\ consumer[w] = "delivered"
  /\ Claimable = {}
  /\ consumer' = [consumer EXCEPT ![w] = "claimed"]
  /\ UNCHANGED <<vars, queue, unacked, created, listing, losses>>

Work(w) ==
  /\ CommitClaim(w) \/ ProcessBatch(w) \/ \E u \in Urls : Heartbeat(w, u)
  /\ UNCHANGED wakeups

(* Mutant: the message is acknowledged when it arrives. *)
AcknowledgeAtOnce(w) ==
  /\ consumer[w] = "claimed"
  /\ consumer' = [consumer EXCEPT ![w] = "waiting"]
  /\ unacked' = unacked \ {w}
  /\ UNCHANGED <<vars, queue, created, listing, losses>>

(* The batch has ended.  On a connection that was cut the acknowledgement
   raises: the process ends and the next one waits for a message. *)
Acknowledge(w) ==
  /\ consumer[w] = "claimed"
  /\ worker[w].pc = "idle"
  /\ consumer' = [consumer EXCEPT ![w] = "waiting"]
  /\ unacked' = unacked \ {w}
  /\ UNCHANGED <<vars, queue, created, listing, losses>>

(* Mutant: message.process() without requeue=True, which is its default. *)
CrashAndForget(w) ==
  /\ Crash(w)
  /\ consumer' = [consumer EXCEPT ![w] = "waiting"]
  /\ unacked' = unacked \ {w}
  /\ UNCHANGED <<queue, created, listing, losses>>

(* message.process(requeue=True) rejects the message of a batch that raised;
   the broker requeues that of a process that died. *)
CrashAndRequeue(w) ==
  /\ Crash(w)
  /\ consumer' = [consumer EXCEPT ![w] = "waiting"]
  /\ unacked' = unacked \ {w}
  /\ queue' = Requeued(w)
  /\ UNCHANGED <<created, listing, losses>>

-----------------------------------------------------------------------------
(* The scheduler publishes before it commits.                              *)

(* Mutants: retries are forgotten; only the rows just released are seen. *)
JobsWithQueuedWork ==
  {j \in Jobs : job[j] = "running" /\ \E u \in UrlsOf(j) : SchedulerSees(u) = "queued"}
JobsWithReleasedWork ==
  {j \in Jobs : job[j] = "running" /\ UrlsOf(j) \cap scheduler.released # {}}

(* Its own writes included: released rows are queued, a job that it has moved
   is no longer running. *)
JobsWithRunnableWork ==
  {j \in Jobs \ scheduler.moved :
     /\ job[j] = "running"
     /\ \E u \in UrlsOf(j) : /\ SchedulerSees(u) \in RunnableUrlStatuses
                             /\ url[u].due \/ u \in scheduler.released}

TickUpToListing ==
  /\ ReleaseLeases \/ CancelWaitingUrls \/ AdvanceJobs
  /\ UNCHANGED wakeups

ListRunnable ==
  /\ scheduler.pc = "advanced"
  /\ ~listing.done
  /\ listing' = [done |-> TRUE, jobs |-> JobsWithRunnableWork]
  /\ UNCHANGED <<vars, queue, consumer, unacked, created, losses>>

PublishRunnable ==
  \E j \in listing.jobs :
    /\ listing' = [listing EXCEPT !.jobs = @ \ {j}]
    /\ queue' = Published
    /\ UNCHANGED <<vars, consumer, unacked, created, losses>>

CommitAndForget ==
  /\ listing.done /\ listing.jobs = {}
  /\ CommitTick
  /\ listing' = NotListed
  /\ UNCHANGED <<queue, consumer, unacked, created, losses>>

(* What was published stays published. *)
AbortAndForget ==
  /\ AbortTick
  /\ listing' = NotListed
  /\ UNCHANGED <<queue, consumer, unacked, created, losses>>

Clock == TimeNext /\ UNCHANGED wakeups

-----------------------------------------------------------------------------
ApiWakes == \E j \in Jobs : CreateAndCommit(j) \/ PublishFirst(j)
                            \/ PublishFirstFails(j) \/ Request(j)

BrokerWakes == LoseMessage \/ \E w \in Workers : Deliver(w) \/ CutConnection(w)

WorkerWakes == \E w \in Workers : \/ Claim(w) \/ ClaimNothing(w) \/ Work(w)
                                  \/ Acknowledge(w) \/ CrashAndRequeue(w)

TickWakes == TickUpToListing \/ ListRunnable \/ PublishRunnable \/ CommitAndForget

WakeupNext ==
  ApiWakes \/ BrokerWakes \/ WorkerWakes \/ TickWakes \/ AbortAndForget \/ Clock

WakeupSpec == WakeupInit /\ [][WakeupNext]_allVars

(* The processes, the broker and the clock go on.  Nothing is assumed of the
   API's publish, of a particular message, or of the environment's faults. *)
WakeupFairness ==
  /\ \A w \in Workers : /\ WF_allVars(Deliver(w))
                        /\ WF_allVars(Claim(w) \/ ClaimNothing(w))
                        /\ WF_allVars((CommitClaim(w) \/ ProcessBatch(w))
                                         /\ UNCHANGED wakeups)
                        /\ WF_allVars(Acknowledge(w))
  /\ \A u \in Urls : /\ WF_allVars(ExpireLease(u) /\ UNCHANGED wakeups)
                     /\ WF_allVars(BackoffElapses(u) /\ UNCHANGED wakeups)
  /\ \A j \in Jobs : WF_allVars(CommitCancel(j) /\ UNCHANGED wakeups)
  /\ WF_allVars(TickWakes)

LiveWakeupSpec == WakeupSpec /\ WakeupFairness

-----------------------------------------------------------------------------
(* Only a worker that has taken a message works, and the broker delivers to a
   worker only after its batch: two batches never share a process, whatever
   is cut, requeued or delivered twice in between. *)
OneBatchPerMessage ==
  \A w \in Workers :
    /\ worker[w].pc # "idle" => consumer[w] = "claimed"
    /\ w \in unacked => consumer[w] # "waiting"

(* workers/crawler_worker.py:70: a message that was taken is spent only by a
   batch that has ended, and is ready again when the batch raised, its process
   died or its connection broke; one that is ready goes to a worker or is lost
   by the broker.  The rows alone would not tell: a later tick publishes for
   them again. *)
WakeupsOutliveCrashes ==
  [][/\ \A w \in unacked \ unacked' :
          \/ consumer[w] = "claimed" /\ worker[w].pc = "idle" /\ UNCHANGED vars
          \/ queue' = Published
     /\ queue' < queue => losses' < losses \/ unacked' \ unacked # {}]_allVars

(* tests/integration/test_rabbitmq_recovery.py:54: a row that may be claimed
   is claimed, or its job stops, although messages are lost, spent before the
   tick that published them commits, or fewer than the batches they are for. *)
WorkIsPickedUp ==
  \A u \in Urls :
    Running(u) /\ url[u].status \in RunnableUrlStatuses
      ~> ~Running(u) \/ url[u].status \notin RunnableUrlStatuses

(* When every crawl has ended the queue drains and the workers wait: no message
   is given back for ever, and a redelivered one finds nothing and is spent. *)
WakeupsDrain ==
  (\A j \in Jobs : job[j] \in TerminalJobStatuses) /\ created = {}
    ~> queue = 0 /\ \A w \in Workers : consumer[w] = "waiting"
=============================================================================
