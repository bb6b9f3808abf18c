----------------------------- MODULE RetryPolicy -----------------------------
(***************************************************************************)
(* When a transient failure is tried again: compute_next_retry_at and the  *)
(* header it may follow.  Times and delays are seconds.                    *)
(***************************************************************************)
EXTENDS Integers

CONSTANTS
  Absent,      \* no Retry-After header, or None for its seconds
  NotANumber,  \* a Retry-After that int() refuses, such as an HTTP date
  LastDate,    \* datetime.max
  Attempts,    \* the numbers of attempts,
  Intervals,   \* the base and maximum intervals of a job
  Headers      \* and the Retry-After headers considered

ASSUME DateAssumption ==
  LastDate \in Nat /\ Absent \notin Int /\ NotANumber \notin Int

ASSUME InputsAssumption ==
  /\ Attempts \subseteq Nat /\ Intervals \subseteq Nat
  /\ Headers \subseteq Int \cup {Absent, NotANumber}

(* Mutant: a negative number of seconds is taken as it is. *)
RetryAfterSigned(header, respected) ==
  IF ~respected \/ header \in {Absent, NotANumber} THEN Absent ELSE header

(* _retry_after_seconds, for a job that respects the header or does not. *)
RetryAfterSeconds(header, respected) ==
  IF ~respected \/ header \in {Absent, NotANumber} THEN Absent
  ELSE IF header > 0 THEN header ELSE 0

(* 2 ** n. *)
PowerOfTwo[n \in Nat] == IF n = 0 THEN 1 ELSE 2 * PowerOfTwo[n - 1]

(* Mutant: the first retry already doubles. *)
BackoffDoubledAtOnce(attempt, base, cap) ==
  LET delay == base * PowerOfTwo[attempt] IN IF delay < cap THEN delay ELSE cap

(* min(max_backoff, base * 2 ** max(0, attempt - 1)). *)
Backoff(attempt, base, cap) ==
  LET delay == base * PowerOfTwo[IF attempt > 1 THEN attempt - 1 ELSE 0]
  IN  IF delay < cap THEN delay ELSE cap

Delay(attempt, base, cap, retryAfter) ==
  IF retryAfter # Absent THEN retryAfter ELSE Backoff(attempt, base, cap)

(* The status the header is read for. *)
RetryAfterOf(status, header, respected) ==
  IF status = 429 THEN RetryAfterSeconds(header, respected) ELSE Absent

(* now + timedelta(...), which raises OverflowError beyond the last date. *)
NextRetryOverflows(failedAt, delay) == failedAt + delay > LastDate

-----------------------------------------------------------------------------
(* The recurrence: the first delay is the base, each further one twice the
   last, and none exceeds the cap. *)
FirstIsBase ==
  \A base, cap \in Intervals :
    Backoff(1, base, cap) = IF base < cap THEN base ELSE cap

EachDoublesTheLast ==
  \A n \in Attempts \ {0}, base, cap \in Intervals :
    LET twice == 2 * Backoff(n, base, cap)
    IN  Backoff(n + 1, base, cap) = IF twice < cap THEN twice ELSE cap

(* domain/retry_policy.py:15-19 follows it. *)
FollowsRecurrence == FirstIsBase /\ EachDoublesTheLast

(* A delay does not end before the failure.  It is longer than the cap, or out
   of the range of dates however late the failure, only if a 429 answer said
   so and the job respects it. *)
Bounded(delay, cap, status, header, respected) ==
  LET asked == status = 429 /\ respected /\ delay = header
  IN  /\ delay >= 0
      /\ delay > cap => asked
      /\ NextRetryOverflows(LastDate - cap, delay) => asked

(* services/orchestrator.py:148-158, 466-472: no retry is due before it failed,
   and none waits longer than the cap, or fails to be written because its date
   is out of range, except at the wish of a server that answered 429. *)
OnlyServersDelayLonger ==
  \A n \in Attempts, base, cap \in Intervals, header \in Headers,
     status \in {429, 500}, respected \in BOOLEAN :
    Bounded(Delay(n, base, cap, RetryAfterOf(status, header, respected)),
            cap, status, header, respected)
=============================================================================
