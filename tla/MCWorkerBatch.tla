---------------------------- MODULE MCWorkerBatch ----------------------------
(* An instance of WorkerBatch for TLC, and the inputs of RetryPolicy: the
   attempts of a job, small and the default intervals, and headers around the
   boundaries. *)
EXTENDS WorkerBatch, RetryPolicy, TLC

CONSTANTS r1, r2

RowSymmetry == Permutations(Rows)

MCAttempts == 0 .. 12
MCIntervals == {0, 1, 7, 10, 300}
MCHeaders == {Absent, NotANumber, -1, 0, 1, 25, 300, 301, LastDate}

(* The requirements of the policy do not depend on the state: TLC evaluates
   them where time has not passed yet. *)

(* domain/retry_policy.py doubles the delay up to the cap. *)
BackoffDoubles == now = 0 => FollowsRecurrence

(* services/orchestrator.py delays a retry beyond the cap only when asked to. *)
DelaysAreBounded == now = 0 => OnlyServersDelayLonger
=============================================================================
