---------------------------- MODULE WorkerBatch ----------------------------
(***************************************************************************)
(* One batch of a crawler worker in real time: the main task, which        *)
(* processes the rows one after the other, the heartbeat task of each row, *)
(* and the scheduler, which takes back the rows whose lease has run out.   *)
(*                                                                         *)
(* CrawlLifecycle lets a lease lapse at any time.  This module says when a *)
(* lease of a live worker does not, and how soon that of a dead one does,  *)
(* from the intervals of the configuration, the delays of event loop and   *)
(* database, and the difference between the clocks of two hosts.           *)
(***************************************************************************)
EXTENDS Integers

CONSTANTS
  Rows,               \* the rows of the batch
  NoRow,              \* the main task is between two rows
  LeaseDuration,      \* settings.lease_duration_seconds
  HeartbeatInterval,  \* settings.heartbeat_interval_seconds
  PollInterval,       \* settings.scheduler_poll_interval_seconds
  MaxDelay,           \* the most by which a claim, heartbeat or tick is late
  MaxSkew,            \* the most by which the scheduler's clock differs
  MaxTime             \* bound: the time the run ends

(* README.md:65 asks only for an interval shorter than the lease. *)
ASSUME TimingAssumption ==
  /\ LeaseDuration \in Nat /\ HeartbeatInterval \in Nat /\ PollInterval \in Nat
  /\ MaxDelay \in Nat /\ MaxSkew \in Nat /\ MaxTime \in Nat
  /\ HeartbeatInterval + 3 * MaxDelay + MaxSkew < LeaseDuration
  /\ NoRow \notin Rows

VARIABLES
  now,      \* the worker's clock
  row,      \* row[u]: owned by the worker, settled by it, or taken back
  lease,    \* lease[u]: lease_expires_at
  task,     \* task[u]: the heartbeat task
  at,       \* at[u]: when it wakes; when it woke and read the clock; when it ended
  main,     \* the main task, in _process_wakeup
  nextTick  \* when the scheduler wakes up

vars == <<now, row, lease, task, at, main, nextTick>>

MainTask == [pc : {"waiting", "selecting", "looping", "processing", "cleaning",
                   "unwinding", "left", "gone"},
             row : Rows \cup {NoRow},
             todo : SUBSET Rows,
             tasks : SUBSET Rows,     \* the keys of heartbeat_tasks
             raised : BOOLEAN,
             claimedAt : Nat]

TypeOK ==
  /\ now \in Nat
  /\ row \in [Rows -> {"queued", "owned", "settled", "released"}]
  /\ lease \in [Rows -> Nat]
  /\ task \in [Rows -> {"none", "sleeping", "beating", "stopped", "failed", "canceled"}]
  /\ at \in [Rows -> Nat]
  /\ main \in MainTask
  /\ nextTick \in Nat

Alive(u) == task[u] \in {"sleeping", "beating"}

Init ==
  /\ now = 0
  /\ row = [u \in Rows |-> "queued"]
  /\ lease = [u \in Rows |-> 0]
  /\ task = [u \in Rows |-> "none"]
  /\ at = [u \in Rows |-> 0]
  /\ main = [pc |-> "waiting", row |-> NoRow, todo |-> {}, tasks |-> {},
             raised |-> FALSE, claimedAt |-> 0]
  /\ nextTick = PollInterval

-----------------------------------------------------------------------------
(* Time.  What is due happens MaxDelay later at the latest.                *)

Pass ==
  /\ now < MaxTime
  /\ \A u \in Rows : Alive(u) => now < at[u] + MaxDelay
  /\ main.pc = "selecting" => now < main.claimedAt + MaxDelay
  /\ now < nextTick + MaxDelay
  /\ now' = now + 1
  /\ UNCHANGED <<row, lease, task, at, main, nextTick>>

(* Mutant: a lease is released when it is about to run out. *)
ExpiredAtNextTick(clock) ==
  {u \in Rows : row[u] = "owned" /\ lease[u] <= clock + PollInterval}

(* release_expired_leases, by the scheduler's clock. *)
Expired(clock) == {u \in Rows : row[u] = "owned" /\ lease[u] <= clock}

Tick ==
  /\ now >= nextTick
  /\ \E skew \in -MaxSkew .. MaxSkew :
       row' = [u \in Rows |-> IF u \in Expired(now + skew) THEN "released" ELSE row[u]]
  /\ nextTick' = now + PollInterval
  /\ UNCHANGED <<now, lease, task, at, main>>

-----------------------------------------------------------------------------
(* heartbeat_loop.                                                         *)

(* The sleep is over; the clock is read before the statement is sent. *)
Wake(u) ==
  /\ task[u] = "sleeping"
  /\ now >= at[u]
  /\ task' = [task EXCEPT ![u] = "beating"]
  /\ at' = [at EXCEPT ![u] = now]
  /\ UNCHANGED <<now, row, lease, main, nextTick>>

(* Mutant: the lease is counted from the last expiry. *)
ExtendedFromExpiry(u) == lease[u] + LeaseDuration

Extended(u) == at[u] + LeaseDuration

Beat(u) ==
  /\ task[u] = "beating"
  /\ row[u] = "owned"
  /\ lease' = [lease EXCEPT ![u] = Extended(u)]
  /\ task' = [task EXCEPT ![u] = "sleeping"]
  /\ at' = [at EXCEPT ![u] = now + HeartbeatInterval]
  /\ UNCHANGED <<now, row, main, nextTick>>

(* The row is not the worker's any more, or the database fails: the task ends,
   and nobody looks at how before the row is cleaned up. *)
BeatInVain(u) ==
  /\ task[u] = "beating"
  /\ \/ row[u] # "owned" /\ task' = [task EXCEPT ![u] = "stopped"]
     \/ task' = [task EXCEPT ![u] = "failed"]
  /\ at' = [at EXCEPT ![u] = now]
  /\ UNCHANGED <<now, row, lease, main, nextTick>>

-----------------------------------------------------------------------------
(* _process_wakeup.                                                        *)

(* claim_runnable_urls reads the clock, ... *)
Select ==
  /\ main.pc = "waiting"
  /\ \A u \in Rows : row[u] = "queued"
  /\ main' = [main EXCEPT !.pc = "selecting", !.claimedAt = now]
  /\ UNCHANGED <<now, row, lease, task, at, nextTick>>

(* ... and when its commit returns every row gets its heartbeat. *)
CommitClaim ==
  /\ main.pc = "selecting"
  /\ row' = [u \in Rows |-> "owned"]
  /\ lease' = [u \in Rows |-> main.claimedAt + LeaseDuration]
  /\ task' = [u \in Rows |-> "sleeping"]
  /\ at' = [u \in Rows |-> now + HeartbeatInterval]
  /\ main' = [main EXCEPT !.pc = "looping", !.todo = Rows, !.tasks = Rows,
                          !.claimedAt = 0]
  /\ UNCHANGED <<now, nextTick>>

StartRow(u) ==
  /\ main.pc = "looping"
  /\ u \in main.todo
  /\ main' = [main EXCEPT !.pc = "processing", !.row = u, !.todo = @ \ {u}]
  /\ UNCHANGED <<now, row, lease, task, at, nextTick>>

(* process_url settles the row it owns, ... *)
SettleRow ==
  /\ main.pc = "processing"
  /\ row[main.row] = "owned"
  /\ row' = [row EXCEPT ![main.row] = "settled"]
  /\ main' = [main EXCEPT !.pc = "cleaning"]
  /\ UNCHANGED <<now, lease, task, at, nextTick>>

(* ... leaves it as it is, or raises: compute_next_retry_at may, and so may a
   commit. *)
LeaveRow ==
  /\ main.pc = "processing"
  /\ \E raises \in BOOLEAN : main' = [main EXCEPT !.pc = "cleaning", !.raised = raises]
  /\ UNCHANGED <<now, row, lease, task, at, nextTick>>

(* Mutant: the task is popped and never canceled. *)
AwaitedUncanceled(u) == {task[u]}

(* What awaiting the canceled task of a row gives: CancelledError, suppressed;
   the exception of a task that had failed, or fails while it rolls back. *)
Awaited(u) ==
  CASE task[u] = "sleeping" -> {"canceled"}
    [] task[u] = "beating" -> {"canceled", "failed"}
    [] OTHER -> {task[u]}

(* The inner finally: cancel, await, and go on with the next row. *)
CleanRow ==
  LET u == main.row
  IN  /\ main.pc = "cleaning"
      /\ \E end \in Awaited(u) :
           LET raised == main.raised \/ end = "failed"
           IN  /\ task' = [task EXCEPT ![u] = end]
               /\ main' = [main EXCEPT
                    !.pc = IF raised \/ main.todo = {} THEN "unwinding" ELSE "looping",
                    !.row = NoRow, !.tasks = @ \ {u}, !.raised = raised]
      /\ at' = [at EXCEPT ![u] = IF Alive(u) THEN now ELSE @]
      /\ UNCHANGED <<now, row, lease, nextTick>>

(* The outer finally; an exception leaves it, and the tasks that follow. *)
Unwind(u) ==
  /\ main.pc = "unwinding"
  /\ u \in main.tasks
  /\ \E end \in Awaited(u) :
       /\ task' = [task EXCEPT ![u] = end]
       /\ main' = [main EXCEPT !.pc = IF end = "failed" THEN "left" ELSE @,
                               !.tasks = @ \ {u}, !.raised = @ \/ end = "failed"]
  /\ at' = [at EXCEPT ![u] = IF Alive(u) THEN now ELSE @]
  /\ UNCHANGED <<now, row, lease, nextTick>>

EndBatch ==
  /\ main.pc = "unwinding"
  /\ main.tasks = {}
  /\ main' = [main EXCEPT !.pc = IF main.raised THEN "left" ELSE "waiting"]
  /\ UNCHANGED <<now, row, lease, task, at, nextTick>>

(* The process ends: asyncio.run cancels what still runs, or it is killed. *)
End ==
  /\ main.pc \notin {"waiting", "gone"}
  /\ main' = [main EXCEPT !.pc = "gone"]
  /\ task' = [u \in Rows |-> IF Alive(u) THEN "canceled" ELSE task[u]]
  /\ at' = [u \in Rows |-> IF Alive(u) THEN now ELSE at[u]]
  /\ UNCHANGED <<now, row, lease, nextTick>>

-----------------------------------------------------------------------------
HeartbeatNext == \E u \in Rows : Wake(u) \/ Beat(u) \/ BeatInVain(u)

MainNext == \/ Select \/ CommitClaim \/ (\E u \in Rows : StartRow(u))
            \/ SettleRow \/ LeaveRow \/ CleanRow
            \/ (\E u \in Rows : Unwind(u)) \/ EndBatch \/ End

Next == Pass \/ Tick \/ HeartbeatNext \/ MainNext

Spec == Init /\ [][Next]_vars

-----------------------------------------------------------------------------
(* What is known of a lease.  It was counted from a clock reading at most
   MaxDelay old when it was written, and the next heartbeat is not far. *)
LeaseOutlastsHeartbeat(u) ==
  /\ now <= at[u] + MaxDelay
  /\ at[u] + LeaseDuration <=
       lease[u] + HeartbeatInterval + (IF task[u] = "sleeping" THEN 1 ELSE 2) * MaxDelay
  /\ task[u] = "beating" => at[u] <= now

(* Once its heartbeat has ended nobody extends a lease. *)
LeaseIsBounded(u) ==
  /\ task[u] # "none"
  /\ lease[u] <= (IF Alive(u) THEN now ELSE at[u]) + LeaseDuration

(* What the last tick left behind was not expired by any clock. *)
LastTickReleased(u) == nextTick < lease[u] + MaxSkew + PollInterval

(* The tasks still to be canceled are those in the dictionary. *)
TasksAreKnown ==
  LET failed == \E u \in Rows : task[u] = "failed"
  IN  /\ main.pc \in {"waiting", "selecting", "gone"} => \A u \in Rows : ~Alive(u)
      /\ main.pc \in {"looping", "processing", "cleaning", "unwinding"} =>
           \A u \in Rows : Alive(u) => u \in main.tasks
      /\ main.pc \in {"processing", "cleaning"} => main.row \in main.tasks \ main.todo
      /\ main.pc = "left" => failed \/ \A u \in Rows : ~Alive(u)
      /\ main.pc \in {"looping", "processing", "cleaning"} => main.todo \subseteq main.tasks

IInv ==
  /\ TypeOK
  /\ now <= nextTick + MaxDelay /\ nextTick <= now + PollInterval
  /\ main.pc = "selecting" => main.claimedAt <= now /\ now <= main.claimedAt + MaxDelay
  /\ \A u \in Rows : row[u] = "owned" =>
       LeaseIsBounded(u) /\ LastTickReleased(u) /\ (Alive(u) => LeaseOutlastsHeartbeat(u))
  /\ TasksAreKnown

-----------------------------------------------------------------------------
(* README.md:65, repos/urls.py:220-227: the scheduler never takes a row back
   whose heartbeat is alive, neither the one that is processed nor those that
   wait for their turn, however late heartbeat, tick and claim may be and
   whichever clock is ahead, within the bounds of TimingAssumption. *)
HealthyRowsStay ==
  [][\A u \in Rows : row[u] = "owned" /\ row'[u] = "released" => ~Alive(u)]_vars

(* The design, line 398: "fast recovery from dead workers".  A row whose
   heartbeat has ended, with its worker or before it, is settled or taken back
   within a lease, a poll and the delays. *)
RecoveredInTime ==
  \A u \in Rows : row[u] = "owned" /\ ~Alive(u)
    => now < at[u] + LeaseDuration + MaxSkew + PollInterval + MaxDelay

(* tests/integration/test_claiming_and_leases.py:374: no heartbeat outlives
   its batch, unless the heartbeat of another row has failed and its exception
   cut the clean-up short; then only until the process ends.  A worker that
   takes the next message has none left. *)
HeartbeatsEndWithBatch ==
  /\ main.pc \in {"waiting", "gone"} => \A u \in Rows : ~Alive(u)
  /\ main.pc = "left" /\ (\E u \in Rows : Alive(u)) => \E u \in Rows : task[u] = "failed"
=============================================================================
