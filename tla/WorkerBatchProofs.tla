------------------------- MODULE WorkerBatchProofs -------------------------
(***************************************************************************)
(* The timing of leases, for any batch and any intervals, delays and skew  *)
(* that satisfy TimingAssumption: a healthy row is never taken back, an    *)
(* abandoned one is back in time, and no heartbeat outlives its batch.     *)
(***************************************************************************)
EXTENDS WorkerBatch, TLAPS

(* Everything but the types, which the arithmetic below does not need to see. *)
LeasesOK ==
  \A u \in Rows : row[u] = "owned" =>
    LeaseIsBounded(u) /\ LastTickReleased(u) /\ (Alive(u) => LeaseOutlastsHeartbeat(u))

ClocksOK ==
  /\ now <= nextTick + MaxDelay /\ nextTick <= now + PollInterval
  /\ main.pc = "selecting" => main.claimedAt <= now /\ now <= main.claimedAt + MaxDelay

LEMMA InvariantParts == IInv <=> TypeOK /\ ClocksOK /\ LeasesOK /\ TasksAreKnown
  BY DEF IInv, ClocksOK, LeasesOK

-----------------------------------------------------------------------------
TaskStates == {"none", "sleeping", "beating", "stopped", "failed", "canceled"}

(* What the two clean-ups write, with the exception as a Boolean of its own. *)
LEMMA CleanRowChoice ==
  ASSUME CleanRow
  PROVE  \E end \in Awaited(main.row), raised \in BOOLEAN :
           /\ raised <=> main.raised \/ end = "failed"
           /\ task' = [task EXCEPT ![main.row] = end]
           /\ main' = [main EXCEPT
                !.pc = IF raised \/ main.todo = {} THEN "unwinding" ELSE "looping",
                !.row = NoRow, !.tasks = @ \ {main.row}, !.raised = raised]
  BY Zenon DEF CleanRow

LEMMA UnwindChoice ==
  ASSUME NEW u \in Rows, Unwind(u)
  PROVE  \E end \in Awaited(u), raised \in BOOLEAN :
           /\ task' = [task EXCEPT ![u] = end]
           /\ main' = [main EXCEPT !.pc = IF end = "failed" THEN "left" ELSE @,
                                   !.tasks = @ \ {u}, !.raised = raised]
  BY Zenon DEF Unwind

LEMMA TypeKept == TypeOK /\ [Next]_vars => TypeOK'
  <1> SUFFICES ASSUME TypeOK, [Next]_vars PROVE TypeOK'
    OBVIOUS
  <1> USE DEF TypeOK, MainTask
  <1>1. CASE Pass
    BY <1>1 DEF Pass
  <1>2. CASE Tick
    BY <1>2, TimingAssumption DEF Tick
  <1>3. ASSUME NEW u \in Rows, Wake(u) \/ Beat(u) \/ BeatInVain(u) PROVE TypeOK'
    BY <1>3, TimingAssumption DEF Wake, Beat, BeatInVain, Extended
  <1>4. CASE Select \/ SettleRow \/ LeaveRow
    <2>1. CASE Select
      BY <2>1 DEF Select
    <2>2. CASE SettleRow
      BY <2>2 DEF SettleRow
    <2>3. CASE LeaveRow
      BY <2>3 DEF LeaveRow
    <2> QED
      BY <1>4, <2>1, <2>2, <2>3
  <1>11. CASE EndBatch
    <2>1. PICK pc \in {"left", "waiting"} : main' = [main EXCEPT !.pc = pc]
      BY <1>11 DEF EndBatch
    <2> QED
      BY <1>11, <2>1 DEF EndBatch
  <1>5. CASE CommitClaim
    <2>1. main' \in MainTask
      BY <1>5 DEF CommitClaim
    <2>2. main.claimedAt + LeaseDuration \in Nat /\ now + HeartbeatInterval \in Nat
      BY TimingAssumption
    <2> QED
      BY <1>5, <2>1, <2>2 DEF CommitClaim
  <1>6. ASSUME NEW u \in Rows, StartRow(u) PROVE TypeOK'
    BY <1>6 DEF StartRow
  <1>7. CASE CleanRow
    <2>1. PICK end \in Awaited(main.row), raised \in BOOLEAN :
             /\ task' = [task EXCEPT ![main.row] = end]
             /\ main' = [main EXCEPT
                  !.pc = IF raised \/ main.todo = {} THEN "unwinding" ELSE "looping",
                  !.row = NoRow, !.tasks = @ \ {main.row}, !.raised = raised]
      BY <1>7, CleanRowChoice
    <2>2. PICK pc \in {"unwinding", "looping"} :
             main' = [main EXCEPT !.pc = pc, !.row = NoRow,
                                  !.tasks = @ \ {main.row}, !.raised = raised]
      BY <2>1
    <2>3. main' \in MainTask
      BY <2>2
    <2>4. at' \in [Rows -> Nat] /\ task' \in [Rows -> TaskStates]
      BY <1>7, <2>1 DEF CleanRow, Awaited, TaskStates
    <2> QED
      BY <1>7, <2>3, <2>4 DEF CleanRow, TaskStates
  <1>8. ASSUME NEW u \in Rows, Unwind(u) PROVE TypeOK'
    <2>1. PICK end \in Awaited(u), raised \in BOOLEAN :
             /\ task' = [task EXCEPT ![u] = end]
             /\ main' = [main EXCEPT !.pc = IF end = "failed" THEN "left" ELSE @,
                                     !.tasks = @ \ {u}, !.raised = raised]
      BY <1>8, UnwindChoice
    <2>2. PICK pc \in {"unwinding", "left"} :
             main' = [main EXCEPT !.pc = pc, !.tasks = @ \ {u}, !.raised = raised]
      BY <1>8, <2>1 DEF Unwind
    <2>3. main' \in MainTask
      BY <2>2
    <2>4. at' \in [Rows -> Nat] /\ task' \in [Rows -> TaskStates]
      BY <1>8, <2>1 DEF Unwind, Awaited, TaskStates
    <2> QED
      BY <1>8, <2>3, <2>4 DEF Unwind, TaskStates
  <1>9. CASE End
    BY <1>9 DEF End, Alive
  <1>10. CASE UNCHANGED vars
    BY <1>10 DEF vars
  <1> HIDE DEF TypeOK, MainTask
  <1> QED
    BY <1>1, <1>2, <1>3, <1>4, <1>5, <1>6, <1>7, <1>8, <1>9, <1>10, <1>11
    DEF Next, HeartbeatNext, MainNext

-----------------------------------------------------------------------------
LEMMA ClocksKept == TypeOK /\ ClocksOK /\ [Next]_vars => ClocksOK'
  <1> SUFFICES ASSUME TypeOK, ClocksOK, [Next]_vars PROVE ClocksOK'
    OBVIOUS
  <1> USE TimingAssumption DEF TypeOK, MainTask, ClocksOK
  <1>1. CASE Pass
    BY <1>1 DEF Pass
  <1>2. CASE Tick
    BY <1>2 DEF Tick
  <1>3. CASE HeartbeatNext
    BY <1>3 DEF HeartbeatNext, Wake, Beat, BeatInVain
  <1>4. CASE Select
    BY <1>4 DEF Select
  <1>5. ASSUME CommitClaim \/ SettleRow \/ LeaveRow \/ CleanRow \/ EndBatch \/ End
        PROVE  ClocksOK'
    <2>1. main'.pc # "selecting" /\ UNCHANGED <<now, nextTick>>
      BY <1>5 DEF CommitClaim, SettleRow, LeaveRow, CleanRow, EndBatch, End
    <2> QED
      BY <2>1
  <1>6. ASSUME NEW u \in Rows, StartRow(u) \/ Unwind(u) PROVE ClocksOK'
    <2>1. main'.pc # "selecting" /\ UNCHANGED <<now, nextTick>>
      BY <1>6 DEF StartRow, Unwind
    <2> QED
      BY <2>1
  <1>7. CASE UNCHANGED vars
    BY <1>7 DEF vars
  <1> HIDE DEF TypeOK, MainTask, ClocksOK
  <1> QED
    BY <1>1, <1>2, <1>3, <1>4, <1>5, <1>6, <1>7 DEF Next, MainNext

-----------------------------------------------------------------------------
(* A row of which neither the lease nor the heartbeat changes. *)
LEMMA LeaseUntouched ==
  ASSUME NEW u \in Rows, row'[u] = "owned" => row[u] = "owned",
         UNCHANGED <<now, nextTick, lease[u], task[u], at[u]>>,
         row[u] = "owned" =>
           LeaseIsBounded(u) /\ LastTickReleased(u) /\ (Alive(u) => LeaseOutlastsHeartbeat(u))
  PROVE  row'[u] = "owned" =>
           (LeaseIsBounded(u) /\ LastTickReleased(u) /\ (Alive(u) => LeaseOutlastsHeartbeat(u)))'
  BY DEF LeaseIsBounded, LastTickReleased, Alive, LeaseOutlastsHeartbeat

(* A row whose heartbeat task ends now: the lease stays as it was written. *)
LEMMA HeartbeatEnds ==
  ASSUME TypeOK, NEW u \in Rows, row'[u] = row[u],
         UNCHANGED <<now, nextTick, lease[u]>>,
         task'[u] \notin {"none", "sleeping", "beating"},
         at'[u] = IF Alive(u) THEN now ELSE at[u],
         row[u] = "owned" => LeaseIsBounded(u) /\ LastTickReleased(u)
  PROVE  row'[u] = "owned" =>
           (LeaseIsBounded(u) /\ LastTickReleased(u) /\ (Alive(u) => LeaseOutlastsHeartbeat(u)))'
  BY DEF LeaseIsBounded, LastTickReleased, Alive

LEMMA LeasesKept == TypeOK /\ ClocksOK /\ LeasesOK /\ [Next]_vars => LeasesOK'
  <1> SUFFICES ASSUME TypeOK, ClocksOK, LeasesOK, [Next]_vars, NEW v \in Rows
               PROVE  row'[v] = "owned" =>
                        (LeaseIsBounded(v) /\ LastTickReleased(v)
                           /\ (Alive(v) => LeaseOutlastsHeartbeat(v)))'
    BY DEF LeasesOK
  <1> DEFINE Goal == row'[v] = "owned" =>
                        (LeaseIsBounded(v) /\ LastTickReleased(v)
                           /\ (Alive(v) => LeaseOutlastsHeartbeat(v)))'
  <1>0. row[v] = "owned" =>
          LeaseIsBounded(v) /\ LastTickReleased(v) /\ (Alive(v) => LeaseOutlastsHeartbeat(v))
    BY DEF LeasesOK
  <1>1. CASE Pass
    BY <1>0, <1>1, TimingAssumption
    DEF Pass, TypeOK, LeaseIsBounded, LastTickReleased, Alive, LeaseOutlastsHeartbeat
  <1>2. CASE Tick
    <2>1. PICK skew \in -MaxSkew .. MaxSkew :
            row' = [u \in Rows |-> IF u \in Expired(now + skew) THEN "released" ELSE row[u]]
      BY <1>2 DEF Tick
    <2>2. row'[v] = "owned" => row[v] = "owned" /\ now + skew < lease[v]
      BY <2>1, TimingAssumption DEF Expired, TypeOK
    <2> QED
      BY <1>0, <1>2, <2>2, TimingAssumption
      DEF Tick, TypeOK, LeaseIsBounded, LastTickReleased, Alive, LeaseOutlastsHeartbeat
  <1>3. ASSUME NEW u \in Rows, Wake(u) PROVE Goal
    <2>1. CASE u = v
      BY <1>0, <1>3, <2>1, TimingAssumption
      DEF Wake, TypeOK, LeaseIsBounded, LastTickReleased, Alive, LeaseOutlastsHeartbeat
    <2>2. CASE u # v
      BY <1>0, <1>3, <2>2, LeaseUntouched DEF Wake, TypeOK
    <2> QED
      BY <2>1, <2>2
  <1>4. ASSUME NEW u \in Rows, Beat(u) PROVE Goal
    <2>1. CASE u = v
      BY <1>0, <1>4, <2>1, TimingAssumption
      DEF Beat, Extended, TypeOK, ClocksOK, LeaseIsBounded, LastTickReleased, Alive,
          LeaseOutlastsHeartbeat
    <2>2. CASE u # v
      BY <1>0, <1>4, <2>2, LeaseUntouched DEF Beat, TypeOK
    <2> QED
      BY <2>1, <2>2
  <1>5. ASSUME NEW u \in Rows, BeatInVain(u) PROVE Goal
    <2>1. CASE u = v
      BY <1>0, <1>5, <2>1, HeartbeatEnds DEF BeatInVain, TypeOK, Alive
    <2>2. CASE u # v
      BY <1>0, <1>5, <2>2, LeaseUntouched DEF BeatInVain, TypeOK
    <2> QED
      BY <2>1, <2>2
  <1>6. CASE CommitClaim
    BY <1>6, TimingAssumption
    DEF CommitClaim, TypeOK, MainTask, ClocksOK, LeaseIsBounded, LastTickReleased, Alive,
        LeaseOutlastsHeartbeat
  <1>7. ASSUME Select \/ SettleRow \/ LeaveRow \/ EndBatch PROVE Goal
    BY <1>0, <1>7, LeaseUntouched DEF Select, SettleRow, LeaveRow, EndBatch, TypeOK
  <1>8. ASSUME NEW u \in Rows, StartRow(u) PROVE Goal
    BY <1>0, <1>8, LeaseUntouched DEF StartRow
  <1>9. ASSUME NEW u, u \in Rows \cup {NoRow}, NEW end \in Awaited(u),
               task' = [task EXCEPT ![u] = end],
               at' = [at EXCEPT ![u] = IF Alive(u) THEN now ELSE @],
               UNCHANGED <<now, row, lease, nextTick>>
        PROVE  Goal
    <2>1. CASE u = v /\ task[v] # "none"
      BY <1>0, <1>9, <2>1, HeartbeatEnds DEF TypeOK, Awaited, Alive
    <2>2. CASE u # v \/ task[v] = "none"
      BY <1>0, <1>9, <2>2, LeaseUntouched DEF TypeOK, Awaited, Alive
    <2> QED
      BY <2>1, <2>2
  <1>10. CASE CleanRow
    BY <1>9, <1>10 DEF CleanRow, TypeOK, MainTask
  <1>11. ASSUME NEW u \in Rows, Unwind(u) PROVE Goal
    BY <1>9, <1>11 DEF Unwind
  <1>12. CASE End
    <2>1. CASE Alive(v)
      BY <1>0, <1>12, <2>1, HeartbeatEnds DEF End, Alive, TypeOK
    <2>2. CASE ~Alive(v)
      BY <1>0, <1>12, <2>2, LeaseUntouched DEF End, TypeOK
    <2> QED
      BY <2>1, <2>2
  <1>13. CASE UNCHANGED vars
    BY <1>0, <1>13, LeaseUntouched DEF vars
  <1> HIDE DEF Goal
  <1> QED
    BY <1>1, <1>2, <1>3, <1>4, <1>5, <1>6, <1>7, <1>8, <1>10, <1>11, <1>12, <1>13
    DEF Next, HeartbeatNext, MainNext, Goal

-----------------------------------------------------------------------------
LEMMA TasksKept == TypeOK /\ TasksAreKnown /\ [Next]_vars => TasksAreKnown'
  <1> SUFFICES ASSUME TypeOK, TasksAreKnown, [Next]_vars PROVE TasksAreKnown'
    OBVIOUS
  <1> USE DEF TypeOK, MainTask, TasksAreKnown, Alive
  <1>1. ASSUME UNCHANGED <<task, main>> PROVE TasksAreKnown'
    BY <1>1
  <1>2. CASE Pass \/ Tick \/ UNCHANGED vars
    BY <1>1, <1>2 DEF Pass, Tick, vars
  <1>3. ASSUME NEW u \in Rows, Wake(u) \/ Beat(u) \/ BeatInVain(u) PROVE TasksAreKnown'
    <2>1. UNCHANGED main /\ Alive(u)
      BY <1>3 DEF Wake, Beat, BeatInVain
    <2>2. \A v \in Rows : Alive(v)' => Alive(v)
      BY <1>3 DEF Wake, Beat, BeatInVain
    <2>3. \A v \in Rows : task[v] = "failed" => task'[v] = "failed"
      BY <1>3 DEF Wake, Beat, BeatInVain
    <2> HIDE DEF Alive
    <2> QED
      BY <2>1, <2>2, <2>3
  <1>4. CASE Select \/ SettleRow \/ LeaveRow
    <2>1. CASE Select
      BY <2>1 DEF Select
    <2>2. CASE SettleRow
      BY <2>2 DEF SettleRow
    <2>3. CASE LeaveRow
      BY <2>3 DEF LeaveRow
    <2> QED
      BY <1>4, <2>1, <2>2, <2>3
  <1>5. CASE CommitClaim
    BY <1>5 DEF CommitClaim
  <1>6. ASSUME NEW u \in Rows, StartRow(u) PROVE TasksAreKnown'
    BY <1>6 DEF StartRow
  <1>7. CASE CleanRow
    <2>1. PICK end \in Awaited(main.row), raised \in BOOLEAN :
             /\ task' = [task EXCEPT ![main.row] = end]
             /\ main' = [main EXCEPT
                  !.pc = IF raised \/ main.todo = {} THEN "unwinding" ELSE "looping",
                  !.row = NoRow, !.tasks = @ \ {main.row}, !.raised = raised]
      BY <1>7, CleanRowChoice
    <2>2. main.row \in Rows /\ main.row \in main.tasks \ main.todo
      BY <1>7 DEF CleanRow
    <2>3. end \notin {"sleeping", "beating"}
      BY <2>1, <2>2 DEF Awaited
    <2>4. main'.pc \in {"unwinding", "looping"} /\ main'.tasks = main.tasks \ {main.row}
            /\ main'.todo = main.todo
      BY <2>1
    <2>5. \A v \in Rows : Alive(v)' => Alive(v) /\ v # main.row
      BY <2>1, <2>3
    <2>6. \A v \in Rows : Alive(v) => v \in main.tasks
      BY <1>7 DEF CleanRow
    <2>7. main.todo \subseteq main.tasks
      BY <1>7 DEF CleanRow
    <2> QED
      BY <2>2, <2>4, <2>5, <2>6, <2>7
  <1>8. ASSUME NEW u \in Rows, Unwind(u) PROVE TasksAreKnown'
    <2>1. PICK end \in Awaited(u), raised \in BOOLEAN :
             /\ task' = [task EXCEPT ![u] = end]
             /\ main' = [main EXCEPT !.pc = IF end = "failed" THEN "left" ELSE @,
                                     !.tasks = @ \ {u}, !.raised = raised]
      BY <1>8, UnwindChoice
    <2>2. end \notin {"sleeping", "beating"}
      BY <2>1 DEF Awaited
    <2>3. \A v \in Rows : Alive(v)' => Alive(v) /\ v # u
      BY <2>1, <2>2
    <2>4. main.pc = "unwinding" /\ main'.tasks = main.tasks \ {u}
      BY <1>8, <2>1 DEF Unwind
    <2>5. CASE end = "failed"
      BY <2>1, <2>5
    <2>6. CASE end # "failed"
      BY <2>1, <2>3, <2>4, <2>6
    <2> QED
      BY <2>5, <2>6
  <1>9. CASE EndBatch
    <2>1. PICK pc \in {"left", "waiting"} : main' = [main EXCEPT !.pc = pc]
      BY <1>9 DEF EndBatch
    <2>2. \A v \in Rows : ~Alive(v)
      BY <1>9 DEF EndBatch
    <2> QED
      BY <1>9, <2>1, <2>2 DEF EndBatch
  <1>10. CASE End
    BY <1>10 DEF End
  <1> HIDE DEF TypeOK, MainTask, TasksAreKnown, Alive
  <1> QED
    BY <1>2, <1>3, <1>4, <1>5, <1>6, <1>7, <1>8, <1>9, <1>10
    DEF Next, HeartbeatNext, MainNext

LEMMA InvariantAtStart == Init => IInv
  BY TimingAssumption
  DEF Init, IInv, TypeOK, MainTask, TasksAreKnown, Alive

(* The invariant the three properties follow from: how far each lease reaches
   and which heartbeats are still to be canceled. *)
THEOREM InvariantHolds == Spec => []IInv
  <1>1. Init => IInv
    BY InvariantAtStart
  <1>2. IInv /\ [Next]_vars => IInv'
    <2> SUFFICES ASSUME IInv, [Next]_vars PROVE IInv'
      OBVIOUS
    <2>1. TypeOK /\ ClocksOK /\ LeasesOK /\ TasksAreKnown
      BY InvariantParts
    <2>2. TypeOK' /\ ClocksOK' /\ LeasesOK' /\ TasksAreKnown'
      BY <2>1, TypeKept, ClocksKept, LeasesKept, TasksKept
    <2> QED
      BY <2>2 DEF IInv, ClocksOK, LeasesOK
  <1> QED
    BY <1>1, <1>2, PTL DEF Spec

-----------------------------------------------------------------------------
(* release_expired_leases never takes back a row whose heartbeat is alive,
   within the bounds of TimingAssumption. *)
THEOREM HealthyRowsCorrectness == Spec => HealthyRowsStay
  <1> DEFINE Step == \A u \in Rows : row[u] = "owned" /\ row'[u] = "released" => ~Alive(u)
  <1>1. IInv /\ [Next]_vars => [Step]_vars
    <2> SUFFICES ASSUME IInv, [Next]_vars, NEW u \in Rows,
                        row[u] = "owned", row'[u] = "released", Alive(u)
                 PROVE  FALSE
      BY DEF Step
    <2>1. TypeOK /\ LeaseOutlastsHeartbeat(u)
      BY DEF IInv
    <2>2. CASE Tick
      <3>1. PICK skew \in -MaxSkew .. MaxSkew :
              row' = [v \in Rows |-> IF v \in Expired(now + skew) THEN "released" ELSE row[v]]
        BY <2>2 DEF Tick
      <3>2. lease[u] <= now + skew
        BY <2>1, <3>1 DEF Expired, TypeOK
      <3> QED
        BY <2>1, <3>2, TimingAssumption DEF TypeOK, LeaseOutlastsHeartbeat
    <2>3. CASE UNCHANGED row
      BY <2>3
    <2>4. CASE CommitClaim
      BY <2>4 DEF CommitClaim
    <2>5. CASE SettleRow
      BY <2>1, <2>5 DEF SettleRow, TypeOK
    <2>6. [Next]_vars => Tick \/ UNCHANGED row \/ CommitClaim \/ SettleRow
      BY DEF Next, vars, HeartbeatNext, MainNext, Pass, Wake, Beat, BeatInVain, Select,
             StartRow, LeaveRow, CleanRow, Unwind, EndBatch, End
    <2> QED
      BY <2>2, <2>3, <2>4, <2>5, <2>6
  <1> QED
    BY <1>1, InvariantHolds, PTL DEF Spec, HealthyRowsStay

(* A row whose heartbeat has ended is settled or taken back within a lease, a
   poll, the skew and a delay. *)
THEOREM RecoveryCorrectness == Spec => []RecoveredInTime
  <1>1. IInv => RecoveredInTime
    <2> SUFFICES ASSUME IInv, NEW u \in Rows, row[u] = "owned", ~Alive(u)
                 PROVE  now < at[u] + LeaseDuration + MaxSkew + PollInterval + MaxDelay
      BY DEF RecoveredInTime
    <2>1. TypeOK /\ now <= nextTick + MaxDelay /\ LeaseIsBounded(u) /\ LastTickReleased(u)
      BY DEF IInv
    <2> QED
      BY <2>1, TimingAssumption DEF TypeOK, LeaseIsBounded, LastTickReleased
  <1> QED
    BY <1>1, InvariantHolds, PTL

(* _process_wakeup cancels every heartbeat it has created, or leaves them to
   the end of the process when one of them had failed. *)
THEOREM HeartbeatsCorrectness == Spec => []HeartbeatsEndWithBatch
  <1>1. IInv => HeartbeatsEndWithBatch
    BY DEF IInv, TasksAreKnown, HeartbeatsEndWithBatch
  <1> QED
    BY <1>1, InvariantHolds, PTL
=============================================================================
