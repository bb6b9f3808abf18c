-------------------------- MODULE RetryPolicyProofs --------------------------
(***************************************************************************)
(* The retry policy is what its recurrence says, for every attempt, every  *)
(* interval and every header.  The back-off has a power of two, so the     *)
(* proofs need induction over the attempts: a set that has 0 and the       *)
(* successors of its members has every natural number, because the others  *)
(* would have a least member.                                              *)
(***************************************************************************)
EXTENDS MCWorkerBatch, WellFoundedInduction, TLAPS

(* Induction, for a set. *)
LEMMA NaturalsByInduction ==
  ASSUME NEW S, 0 \in S, \A n \in Nat : n \in S => n + 1 \in S
  PROVE  Nat \subseteq S
  <1> DEFINE R == OpToRel(<, Nat)
             T == Nat \ S
  <1> SUFFICES ASSUME T # {} PROVE FALSE
    OBVIOUS
  <1>1. IsWellFoundedOn(R, Nat)
    BY NatLessThanWellFounded
  <1>2. T \subseteq Nat
    OBVIOUS
  <1>3. \E x \in T : \A y \in T : ~ (<<y, x>> \in R)
    <2> HIDE DEF R, T
    <2> QED BY <1>1, <1>2, WFMin
  <1>4. PICK x \in T : \A y \in T : ~ (<<y, x>> \in R)
    BY <1>3
  <1>5. \A y \in T : ~(y < x)
    BY <1>4 DEF OpToRel
  <1>6. x \in Nat /\ x # 0
    OBVIOUS
  <1>7. x - 1 \in Nat /\ x - 1 < x
    BY <1>6
  <1>8. x - 1 \in S
    BY <1>5, <1>7
  <1>9. (x - 1) + 1 \in S
    BY <1>7, <1>8
  <1>10. QED
    BY <1>6, <1>9

-----------------------------------------------------------------------------
(* The powers of two up to n. *)
Powers(h, n) ==
  /\ h \in [0 .. n -> Nat]
  /\ h[0] = 1
  /\ \A i \in 1 .. n : h[i] = 2 * h[i - 1]

LEMMA PowersExist == \A n \in Nat : \E h : Powers(h, n)
  <1> DEFINE S == {n \in Nat : \E h : Powers(h, n)}
  <1>1. 0 \in S
    <2>1. Powers([i \in 0 .. 0 |-> 1], 0)
      BY DEF Powers
    <2>2. QED
      BY <2>1
  <1>2. ASSUME NEW n \in Nat, n \in S PROVE n + 1 \in S
    <2>1. PICK h : Powers(h, n)
      BY <1>2
    <2> DEFINE g == [i \in 0 .. n + 1 |-> IF i = n + 1 THEN 2 * h[n] ELSE h[i]]
    <2>2. g \in [0 .. n + 1 -> Nat] /\ g[0] = 1
      BY <2>1 DEF Powers
    <2>3. ASSUME NEW i \in 1 .. n + 1 PROVE g[i] = 2 * g[i - 1]
      <3>1. CASE i = n + 1
        <4>1. i - 1 = n /\ n \in 0 .. n + 1 /\ n # n + 1
          BY <3>1
        <4>2. QED
          BY <3>1, <4>1
      <3>2. CASE i # n + 1
        <4>1. i \in 1 .. n /\ i - 1 \in 0 .. n + 1 /\ i - 1 # n + 1
          BY <3>2
        <4>2. QED
          BY <2>1, <3>2, <4>1 DEF Powers
      <3>3. QED
        BY <3>1, <3>2
    <2>4. Powers(g, n + 1)
      BY <2>2, <2>3 DEF Powers
    <2>5. QED
      BY <2>4
  <1>3. Nat \subseteq S
    <2> HIDE DEF S
    <2> QED BY <1>1, <1>2, NaturalsByInduction
  <1>4. QED
    BY <1>3

(* Two tables agree where both are defined. *)
LEMMA PowersAgree ==
  ASSUME NEW n \in Nat, NEW m \in Nat, NEW g, NEW h, Powers(g, n), Powers(h, m)
  PROVE  \A i \in Nat : i <= n /\ i <= m => g[i] = h[i]
  <1> DEFINE S == {i \in Nat : i <= n /\ i <= m => g[i] = h[i]}
  <1>1. 0 \in S
    BY DEF Powers
  <1>2. ASSUME NEW i \in Nat, i \in S PROVE i + 1 \in S
    <2>1. CASE i + 1 <= n /\ i + 1 <= m
      <3>1. i <= n /\ i <= m /\ i + 1 \in 1 .. n /\ i + 1 \in 1 .. m /\ (i + 1) - 1 = i
        BY <2>1
      <3>2. g[i + 1] = 2 * g[i] /\ h[i + 1] = 2 * h[i]
        BY <3>1 DEF Powers
      <3>3. QED
        BY <1>2, <3>1, <3>2
    <2>2. QED
      BY <2>1
  <1>3. Nat \subseteq S
    <2> HIDE DEF S
    <2> QED BY <1>1, <1>2, NaturalsByInduction
  <1>4. QED
    BY <1>3

(* The recursion defines a function. *)
LEMMA PowerOfTwoDefined ==
  PowerOfTwo = [n \in Nat |-> IF n = 0 THEN 1 ELSE 2 * PowerOfTwo[n - 1]]
  <1> DEFINE T(n) == CHOOSE h : Powers(h, n)
             f == [n \in Nat |-> T(n)[n]]
  <1>1. \A n \in Nat : Powers(T(n), n)
    BY PowersExist
  <1>2. ASSUME NEW n \in Nat PROVE f[n] = IF n = 0 THEN 1 ELSE 2 * f[n - 1]
    <2>1. CASE n = 0
      BY <1>1, <2>1 DEF Powers
    <2>2. CASE n # 0
      <3>1. n - 1 \in Nat /\ n \in 1 .. n /\ n - 1 <= n
        BY <2>2
      <3>2. Powers(T(n), n) /\ Powers(T(n - 1), n - 1)
        BY <1>1, <3>1
      <3>3. T(n)[n - 1] = T(n - 1)[n - 1]
        <4> HIDE DEF T
        <4> QED BY <3>1, <3>2, PowersAgree
      <3>4. T(n)[n] = 2 * T(n)[n - 1]
        BY <3>1, <3>2 DEF Powers
      <3>5. f[n - 1] = T(n - 1)[n - 1]
        BY <3>1
      <3>6. QED
        BY <2>2, <3>3, <3>4, <3>5
    <2>3. QED
      BY <2>1, <2>2
  <1>3. f = [n \in Nat |-> IF n = 0 THEN 1 ELSE 2 * f[n - 1]]
    <2>1. f = [n \in Nat |-> f[n]]
      OBVIOUS
    <2> HIDE DEF f
    <2>2. QED
      BY <1>2, <2>1
  <1>4. \E g : g = [n \in Nat |-> IF n = 0 THEN 1 ELSE 2 * g[n - 1]]
    <2> HIDE DEF f
    <2> QED BY <1>3
  <1>5. QED
    BY <1>4 DEF PowerOfTwo

LEMMA PowersOfTwo ==
  /\ PowerOfTwo[0] = 1
  /\ \A n \in Nat : PowerOfTwo[n] \in Nat /\ PowerOfTwo[n + 1] = 2 * PowerOfTwo[n]
  <1>1. \A n \in Nat : PowerOfTwo[n] = IF n = 0 THEN 1 ELSE 2 * PowerOfTwo[n - 1]
    BY PowerOfTwoDefined
  <1>2. PowerOfTwo[0] = 1
    BY <1>1
  <1>3. ASSUME NEW n \in Nat PROVE PowerOfTwo[n + 1] = 2 * PowerOfTwo[n]
    <2>1. n + 1 \in Nat /\ n + 1 # 0 /\ (n + 1) - 1 = n
      OBVIOUS
    <2>2. QED
      BY <1>1, <2>1
  <1> DEFINE S == {n \in Nat : PowerOfTwo[n] \in Nat}
  <1>4. 0 \in S
    BY <1>2
  <1>5. ASSUME NEW n \in Nat, n \in S PROVE n + 1 \in S
    BY <1>3, <1>5
  <1>6. Nat \subseteq S
    <2> HIDE DEF S
    <2> QED BY <1>4, <1>5, NaturalsByInduction
  <1>7. QED
    BY <1>2, <1>3, <1>6

-----------------------------------------------------------------------------
(* A back-off is within its cap. *)
LEMMA BackoffWithinCap ==
  ASSUME NEW n \in Nat, NEW base \in Nat, NEW cap \in Nat
  PROVE  Backoff(n, base, cap) \in 0 .. cap
  <1> DEFINE k == IF n > 1 THEN n - 1 ELSE 0
  <1>1. k \in Nat
    OBVIOUS
  <1>2. PowerOfTwo[k] \in Nat
    BY <1>1, PowersOfTwo
  <1>3. base * PowerOfTwo[k] \in Nat
    <2> HIDE DEF k
    <2> QED BY <1>2
  <1>4. QED
    <2> DEFINE delay == base * PowerOfTwo[k]
    <2>1. Backoff(n, base, cap) = IF delay < cap THEN delay ELSE cap
      BY DEF Backoff
    <2> HIDE DEF delay, k
    <2>2. QED
      BY <1>3, <2>1 DEF delay

(* domain/retry_policy.py:15-19 follows the recurrence for every attempt, base
   and cap: the first delay is the base, each further one twice the last, and
   none exceeds the cap. *)
THEOREM BackoffFollowsRecurrence ==
  ASSUME NEW base \in Nat, NEW cap \in Nat
  PROVE  /\ Backoff(1, base, cap) = IF base < cap THEN base ELSE cap
         /\ \A n \in Nat \ {0} :
              LET twice == 2 * Backoff(n, base, cap)
              IN  Backoff(n + 1, base, cap) = IF twice < cap THEN twice ELSE cap
  <1>1. Backoff(1, base, cap) = IF base < cap THEN base ELSE cap
    BY PowersOfTwo DEF Backoff
  <1>2. ASSUME NEW n \in Nat \ {0}
        PROVE  LET twice == 2 * Backoff(n, base, cap)
               IN  Backoff(n + 1, base, cap) = IF twice < cap THEN twice ELSE cap
    <2> DEFINE delay == base * PowerOfTwo[n - 1]
               next == base * PowerOfTwo[n]
    <2>1. n - 1 \in Nat /\ (n - 1) + 1 = n
      OBVIOUS
    <2>2. PowerOfTwo[n - 1] \in Nat /\ PowerOfTwo[n] = 2 * PowerOfTwo[n - 1]
      BY <2>1, PowersOfTwo
    <2>3. delay \in Nat /\ next = 2 * delay
      BY <2>2
    <2>4. Backoff(n, base, cap) = IF delay < cap THEN delay ELSE cap
      <3>1. (IF n > 1 THEN n - 1 ELSE 0) = n - 1
        OBVIOUS
      <3>2. QED
        BY <3>1 DEF Backoff
    <2>5. Backoff(n + 1, base, cap) = IF next < cap THEN next ELSE cap
      <3>1. (IF n + 1 > 1 THEN (n + 1) - 1 ELSE 0) = n
        OBVIOUS
      <3>2. QED
        BY <3>1 DEF Backoff
    <2> HIDE DEF delay, next
    <2>6. QED
      BY <2>3, <2>4, <2>5
  <1>3. QED
    BY <1>1, <1>2

(* services/orchestrator.py:148-158, 466-472: no retry is due before it failed,
   and none waits longer than the cap, or falls out of the range of dates,
   unless a server that answered 429 asked for exactly that delay: for every
   attempt, interval and header, whether negative, not a number or absent. *)
THEOREM DelaysFollowServers ==
  ASSUME NEW n \in Nat, NEW base \in Nat, NEW cap \in Nat,
         NEW header \in Int \cup {Absent, NotANumber},
         NEW status \in {429, 500}, NEW respected \in BOOLEAN
  PROVE  Bounded(Delay(n, base, cap, RetryAfterOf(status, header, respected)),
                 cap, status, header, respected)
  <1> DEFINE after == RetryAfterOf(status, header, respected)
             delay == Delay(n, base, cap, after)
             asked == status = 429 /\ respected /\ delay = header
  <1>1. CASE after = Absent
    <2>1. delay = Backoff(n, base, cap)
      BY <1>1 DEF Delay
    <2>2. delay \in 0 .. cap
      BY <2>1, BackoffWithinCap
    <2>3. ~(delay > cap) /\ ~(LastDate - cap + delay > LastDate)
      <3> HIDE DEF delay
      <3> QED BY <2>2, DateAssumption
    <2>4. QED
      BY <2>2, <2>3 DEF NextRetryOverflows, Bounded
  <1>2. CASE after # Absent
    <2>1. delay = after
      BY <1>2 DEF Delay
    <2>2. /\ status = 429 /\ respected /\ header \in Int
          /\ after = IF header > 0 THEN header ELSE 0
      BY <1>2 DEF RetryAfterOf, RetryAfterSeconds
    <2>3. /\ delay >= 0
          /\ delay > cap => asked
          /\ LastDate - cap + delay > LastDate => asked
      <3> HIDE DEF after, delay
      <3> QED BY <2>1, <2>2, DateAssumption
    <2>4. QED
      BY <2>3 DEF NextRetryOverflows, Bounded
  <1>3. QED
    BY <1>1, <1>2

(* Hence the back-offs follow the recurrence for whatever attempts, bases and
   caps the module is given, all of Nat included; the second conjunct is the
   form in which TLC evaluates it on some. *)
THEOREM BackoffCorrectness == FollowsRecurrence /\ BackoffDoubles
  <1>1. FirstIsBase
    BY InputsAssumption, BackoffFollowsRecurrence DEF FirstIsBase
  <1>2. EachDoublesTheLast
    <2> SUFFICES ASSUME NEW n \in Attempts \ {0}, NEW base \in Intervals, NEW cap \in Intervals
                 PROVE  LET twice == 2 * Backoff(n, base, cap)
                        IN  Backoff(n + 1, base, cap) = IF twice < cap THEN twice ELSE cap
      BY DEF EachDoublesTheLast
    <2>1. n \in Nat \ {0} /\ base \in Nat /\ cap \in Nat
      BY InputsAssumption
    <2>2. QED
      BY <2>1, BackoffFollowsRecurrence
  <1>3. QED
    BY <1>1, <1>2 DEF FollowsRecurrence, BackoffDoubles

(* ... and the delays are bounded for whatever attempts, intervals and headers. *)
THEOREM DelayCorrectness == OnlyServersDelayLonger /\ DelaysAreBounded
  <1>1. OnlyServersDelayLonger
    BY InputsAssumption, DelaysFollowServers DEF OnlyServersDelayLonger
  <1>2. QED
    BY <1>1 DEF DelaysAreBounded
=============================================================================
