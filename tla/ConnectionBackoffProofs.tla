------------------------ MODULE ConnectionBackoffProofs ------------------------
(***************************************************************************)
(* The range of the two backoffs of a connection, and that a limiter whose  *)
(* backoff has reached the timeout of the wait never changes again, for     *)
(* every choice of the durations.                                           *)
(***************************************************************************)
EXTENDS ConnectionBackoff, TLAPS

\* How far the manager has come fixes the failure count after a dial, and bounds
\* the backoff after the wait: this makes TypeOK and BackoffRange inductive.
Progress ==
    /\ at \in {"wait", "subscribe", "listen"} => failureCount = 0
    /\ at = "subscribe" => backoffDuration < WaitTimeout
    /\ failureCount <= faults + 1

IInv == TypeOK /\ BackoffRange /\ Progress

\* RecordRateLimitHit, called with a backoff that the wait let pass, leaves it
\* between a second and one and a half times the timeout of the wait.
LEMMA HitInRange ==
    ASSUME NEW d \in Nat, d = 0 \/ FirstBackoff <= d, d < WaitTimeout
    PROVE  /\ Hit(d) \in FirstBackoff..MaxBackoff
           /\ 2 * Hit(d) < 3 * WaitTimeout
<1>1. CASE d = 0
  BY <1>1, BackoffSizes DEF Hit
<1>2. CASE d # 0
  <2> DEFINE h == (d * 3) \div 2
  <2>1. h \in Nat /\ 2 * h <= 3 * d /\ d <= h
    BY <1>2
  <2>2. Hit(d) = IF h > MaxBackoff THEN MaxBackoff ELSE h
    BY <1>2 DEF Hit
  <2>3. h <= MaxBackoff /\ 2 * h < 3 * WaitTimeout
    BY <2>1, BackoffSizes
  <2> QED
    BY <1>2, <2>1, <2>2, <2>3, BackoffSizes
<1> QED
  BY <1>1, <1>2

\* RecordSuccess never raises the backoff, and leaves none below a second.
LEMMA EasedInRange ==
    ASSUME NEW d \in Nat
    PROVE  /\ Eased(d) \in Nat /\ Eased(d) <= d
           /\ Eased(d) = 0 \/ FirstBackoff <= Eased(d)
<1> DEFINE e == (d * 9) \div 10
<1>1. e \in Nat /\ e <= d
  OBVIOUS
<1>2. Eased(d) = IF ~recentHit \/ e < FirstBackoff THEN 0 ELSE e
  BY DEF Eased
<1> HIDE DEF e
<1> QED
  BY <1>1, <1>2, BackoffSizes

\* handleConnectionError yields a delay of at least a second and at most the
\* maximum.
LEMMA DelayInRange ==
    ASSUME NEW n \in Nat \ {0}
    PROVE  (IF n * n > MaxDelay THEN MaxDelay ELSE n * n) \in 1..MaxDelay
<1>1. n * n \in Nat /\ n * n >= 1
  <2>1. n - 1 \in Nat /\ (n - 1) * (n - 1) >= 0
    OBVIOUS
  <2>2. n * n = (n - 1) * (n - 1) + 2 * n - 1
    OBVIOUS
  <2> QED
    BY <2>1, <2>2
<1> QED
  BY <1>1, BackoffSizes

\* The circuit breaker, from any state that satisfies the invariant.
LEMMA ErrorKeepsTypes ==
    ASSUME NEW failures \in Nat, HandleConnectionError(failures)
    PROVE  /\ at' = "select" /\ inBackoff' = TRUE
           /\ failureCount' = failures + 1
           /\ delay' \in 1..MaxDelay
<1>1. failureCount' \in Nat \ {0}
  BY DEF HandleConnectionError
<1> QED
  BY <1>1, DelayInRange DEF HandleConnectionError

\* The invariant holds before the first dial.
LEMMA Initially == Init => IInv
<1> SUFFICES ASSUME Init PROVE IInv
  OBVIOUS
<1>1. Flags
  BY DEF Init, Flags
<1>2. ~inBackoff
  BY DEF Init
<1> QED
  BY <1>1, <1>2, BackoffSizes DEF Init, IInv, TypeOK, BackoffRange, Progress

\* Every step keeps the invariant.
LEMMA Stepwise == IInv /\ [Next]_cbVars => IInv'
<1> SUFFICES ASSUME IInv, [Next]_cbVars PROVE IInv'
  OBVIOUS
<1> USE BackoffSizes
<1>t. /\ failureCount \in Nat /\ backoffDuration \in Nat /\ faults \in Nat
      /\ delay \in Nat
  BY DEF IInv, TypeOK
<1>1. CASE Attempt
  BY <1>1 DEF IInv, TypeOK, Flags, BackoffRange, Progress, Attempt
<1>2. CASE DialFails
  <2>1. HandleConnectionError(failureCount) /\ faults' = faults + 1 /\ faults < MaxFaults
    BY <1>2 DEF DialFails, Fault
  <2>2. UNCHANGED <<backoffDuration, recentHit>>
    BY <1>2 DEF DialFails
  <2>8. at' = "select" /\ failureCount' = failureCount + 1 /\ delay' \in 1..MaxDelay
    BY <1>t, <2>1, ErrorKeepsTypes
  <2>9. Flags'
    BY <1>t, <2>1, <2>2, ErrorKeepsTypes DEF IInv, TypeOK, Flags
  <2> QED
    BY <1>t, <2>1, <2>2, <2>8, <2>9 DEF IInv, TypeOK, BackoffRange, Progress
<1>3. CASE DialSucceeds
  BY <1>3 DEF IInv, TypeOK, Flags, BackoffRange, Progress, DialSucceeds
<1>4. CASE WaitPermits
  BY <1>4 DEF IInv, TypeOK, Flags, BackoffRange, Progress, WaitPermits
<1>5. CASE WaitTimesOut
  <2>1. /\ HandleConnectionError(failureCount)
        /\ UNCHANGED <<backoffDuration, recentHit, faults>> /\ at = "wait"
    BY <1>5 DEF WaitTimesOut
  <2>8. at' = "select" /\ failureCount' = failureCount + 1 /\ delay' \in 1..MaxDelay
    BY <1>t, <2>1, ErrorKeepsTypes
  <2>9. Flags'
    BY <1>t, <2>1, ErrorKeepsTypes DEF IInv, TypeOK, Flags
  <2> QED
    BY <1>t, <2>1, <2>8, <2>9 DEF IInv, TypeOK, BackoffRange, Progress
<1>6. CASE SubscribeFails
  <2>1. /\ HandleConnectionError(failureCount) /\ at = "subscribe"
        /\ backoffDuration' = Hit(backoffDuration) /\ recentHit' = TRUE
        /\ faults' = faults + 1 /\ faults < MaxFaults
    BY <1>6 DEF SubscribeFails, Fault
  <2>2. /\ Hit(backoffDuration) \in FirstBackoff..MaxBackoff
        /\ 2 * Hit(backoffDuration) < 3 * WaitTimeout
    BY <1>t, <2>1, HitInRange DEF IInv, BackoffRange, Progress
  <2>8. at' = "select" /\ failureCount' = failureCount + 1 /\ delay' \in 1..MaxDelay
    BY <1>t, <2>1, ErrorKeepsTypes
  <2>9. Flags'
    BY <1>t, <2>1, ErrorKeepsTypes DEF IInv, TypeOK, Flags
  <2> QED
    BY <1>t, <2>1, <2>2, <2>8, <2>9 DEF IInv, TypeOK, BackoffRange, Progress
<1>7. CASE SubscribeSucceeds
  <2>1. /\ backoffDuration' = Eased(backoffDuration) /\ at = "subscribe" /\ at' = "listen"
        /\ UNCHANGED <<recentHit, failureCount, delay, inBackoff, faults>>
    BY <1>7 DEF SubscribeSucceeds
  <2>2. /\ Eased(backoffDuration) \in Nat /\ Eased(backoffDuration) <= backoffDuration
        /\ Eased(backoffDuration) = 0 \/ FirstBackoff <= Eased(backoffDuration)
    BY <1>t, EasedInRange
  <2>9. Flags'
    BY <2>1 DEF IInv, TypeOK, Flags
  <2> QED
    BY <1>t, <2>1, <2>2, <2>9 DEF IInv, TypeOK, BackoffRange, Progress
<1>8. CASE ReadFails
  <2>1. /\ HandleConnectionError(failureCount) /\ faults' = faults + 1 /\ faults < MaxFaults
        /\ UNCHANGED <<backoffDuration, recentHit>> /\ at = "listen"
    BY <1>8 DEF ReadFails, Fault
  <2>8. at' = "select" /\ failureCount' = failureCount + 1 /\ delay' \in 1..MaxDelay
    BY <1>t, <2>1, ErrorKeepsTypes
  <2>9. Flags'
    BY <1>t, <2>1, ErrorKeepsTypes DEF IInv, TypeOK, Flags
  <2> QED
    BY <1>t, <2>1, <2>8, <2>9 DEF IInv, TypeOK, BackoffRange, Progress
<1>9. CASE DelayEnds
  BY <1>9 DEF IInv, TypeOK, Flags, BackoffRange, Progress, DelayEnds
<1>10. CASE HitAges
  BY <1>10 DEF IInv, TypeOK, Flags, BackoffRange, Progress, HitAges
<1>11. CASE UNCHANGED cbVars
  BY <1>11 DEF IInv, TypeOK, Flags, BackoffRange, Progress, cbVars
<1> QED
  BY <1>1, <1>2, <1>3, <1>4, <1>5, <1>6, <1>7, <1>8, <1>9, <1>10, <1>11 DEF Next

\* The invariant holds always.
LEMMA Invariance == Spec => []IInv
BY Initially, Stepwise, PTL DEF Spec

\* Type correctness of the connection's backoffs: the delay of
\* handleConnectionError stays between a second and its maximum while it is
\* waited out, and the failure count is bounded by the failures.
THEOREM BackoffTypeCorrect == Spec => []TypeOK
<1>1. IInv => TypeOK
  BY DEF IInv
<1> QED
  BY <1>1, Invariance, PTL

\* The backoff of RecordRateLimitHit and RecordSuccess is off or at least a
\* second, and never reaches one and a half times the timeout of the wait in
\* connectExchange: five minutes are out of its reach, for every choice of the
\* durations.
THEOREM BackoffStaysInRange == Spec => []BackoffRange
<1>1. IInv => BackoffRange
  BY DEF IInv
<1> QED
  BY <1>1, Invariance, PTL

\* A limiter whose backoff has reached the timeout that connectExchange gives
\* Wait is locked: no step of the manager ever changes the backoff again.
THEOREM LongBackoffLocks == Spec => LongBackoffIsForever
<1>1. IInv /\ [Next]_cbVars
        => [backoffDuration >= WaitTimeout => backoffDuration' = backoffDuration]_cbVars
  <2> SUFFICES ASSUME IInv, Next, backoffDuration >= WaitTimeout
               PROVE  backoffDuration' = backoffDuration
    BY DEF cbVars
  <2>1. at # "subscribe"
    BY BackoffSizes DEF IInv, TypeOK, Progress
  <2> QED
    BY <2>1 DEF Next, Attempt, DialFails, DialSucceeds, WaitPermits, WaitTimesOut,
                SubscribeFails, SubscribeSucceeds, ReadFails, DelayEnds, HitAges
<1> QED
  BY <1>1, Invariance, PTL DEF Spec, LongBackoffIsForever
================================================================================
