--------------------------- MODULE ConnectionBackoff ---------------------------
(***************************************************************************)
(* One exchange manager with its two backoffs: the circuit breaker of       *)
(* handleConnectionError, and the adaptive backoff of ExchangeRateLimiter   *)
(* that connectExchange sits out in Wait, under a timeout of its own.       *)
(*                                                                          *)
(* Durations of the limiter are in milliseconds, rounded down as the        *)
(* conversion to time.Duration does; those of the circuit breaker in        *)
(* seconds.  Of the time since lastRateLimitHit only whether it is above    *)
(* five minutes matters.  Tokens of the underlying rate.Limiter are always  *)
(* there: a manager takes one per attempt, at most one attempt a second.    *)
(***************************************************************************)
EXTENDS Naturals

CONSTANTS
    FirstBackoff,   \* time.Second
    MaxBackoff,     \* maxBackoff, five minutes
    WaitTimeout,    \* the 10 s context of connectExchange
    MaxDelay,       \* the 60 s of handleConnectionError
    MaxFaults       \* bound: dial, subscribe and read failures

ASSUME BackoffSizes ==
    /\ FirstBackoff \in Nat \ {0} /\ MaxBackoff \in Nat /\ WaitTimeout \in Nat
    /\ MaxDelay \in Nat \ {0} /\ MaxFaults \in Nat
    /\ FirstBackoff <= WaitTimeout /\ 3 * WaitTimeout <= 2 * MaxBackoff

VARIABLES
    at,               \* where the manager is
    backoffDuration,  \* of the limiter
    recentHit,        \* time.Since(lastRateLimitHit) <= 5 min
    failureCount,
    delay,            \* backoffUntil - lastFailureTime, in seconds
    inBackoff,        \* time.Now().Before(ex.backoffUntil)
    faults            \* failures so far

cbVars == <<at, backoffDuration, recentHit, failureCount, delay, inBackoff, faults>>

Init ==
    /\ at = "select"
    /\ backoffDuration = 0
    /\ recentHit = FALSE
    /\ failureCount = 0
    /\ delay = 0
    /\ inBackoff = FALSE
    /\ faults = 0

\* RecordRateLimitHit
Hit(d) ==
    IF d = 0 THEN FirstBackoff
    ELSE IF (d * 3) \div 2 > MaxBackoff THEN MaxBackoff ELSE (d * 3) \div 2

\* RecordSuccess; the mutant forgets to drop what is below a second.
EasedSlowly(d) == IF ~recentHit THEN 0 ELSE (d * 9) \div 10
Eased(d) ==
    IF ~recentHit \/ (d * 9) \div 10 < FirstBackoff THEN 0 ELSE (d * 9) \div 10

\* Mutant: the delay is computed before the count is incremented.
HandleConnectionErrorLate(failures) ==
    /\ at' = "select"
    /\ failureCount' = failures + 1
    /\ delay' = IF failures * failures > MaxDelay THEN MaxDelay ELSE failures * failures
    /\ inBackoff' = TRUE

\* handleConnectionError, after which the manager is back in its select.
HandleConnectionError(failures) ==
    /\ at' = "select"
    /\ failureCount' = failures + 1
    /\ delay' = IF failureCount' * failureCount' > MaxDelay THEN MaxDelay
                ELSE failureCount' * failureCount'
    /\ inBackoff' = TRUE

Fault == faults < MaxFaults /\ faults' = faults + 1

\* A signal or the ticker, outside the circuit breaker's backoff.
Attempt ==
    /\ at = "select"
    /\ ~inBackoff
    /\ at' = "dial"
    /\ UNCHANGED <<backoffDuration, recentHit, failureCount, delay, inBackoff, faults>>

DialFails ==
    /\ at = "dial"
    /\ Fault
    /\ HandleConnectionError(failureCount)
    /\ UNCHANGED <<backoffDuration, recentHit>>

\* A dial that succeeds resets the failure count.
DialSucceeds ==
    /\ at = "dial"
    /\ at' = "wait"
    /\ failureCount' = 0
    /\ UNCHANGED <<backoffDuration, recentHit, delay, inBackoff, faults>>

\* ExchangeRateLimiter.Wait sits the whole backoff out, however old it is ...
WaitPermits ==
    /\ at = "wait"
    /\ backoffDuration < WaitTimeout
    /\ at' = "subscribe"
    /\ UNCHANGED <<backoffDuration, recentHit, failureCount, delay, inBackoff, faults>>

\* Mutant: a timeout counts as a rate limit hit, as in processBatchedSubscriptions.
WaitTimesOutAsHit ==
    /\ at = "wait"
    /\ backoffDuration >= WaitTimeout
    /\ backoffDuration' = Hit(backoffDuration)
    /\ recentHit' = TRUE
    /\ HandleConnectionError(failureCount)
    /\ UNCHANGED faults

\* Mutant: any backoff ends the wait.
WaitTimesOutEarly ==
    /\ at = "wait"
    /\ backoffDuration > 0
    /\ HandleConnectionError(failureCount)
    /\ UNCHANGED <<backoffDuration, recentHit, faults>>

\* ... unless the context ends first; then nothing is recorded.
WaitTimesOut ==
    /\ at = "wait"
    /\ backoffDuration >= WaitTimeout
    /\ HandleConnectionError(failureCount)
    /\ UNCHANGED <<backoffDuration, recentHit, faults>>

\* subscribeX fails to write.
SubscribeFails ==
    /\ at = "subscribe"
    /\ Fault
    /\ backoffDuration' = Hit(backoffDuration)
    /\ recentHit' = TRUE
    /\ HandleConnectionError(failureCount)

SubscribeSucceeds ==
    /\ at = "subscribe"
    /\ at' = "listen"
    /\ backoffDuration' = Eased(backoffDuration)
    /\ UNCHANGED <<recentHit, failureCount, delay, inBackoff, faults>>

ReadFails ==
    /\ at = "listen"
    /\ Fault
    /\ HandleConnectionError(failureCount)
    /\ UNCHANGED <<backoffDuration, recentHit>>

\* Time passes.
DelayEnds ==
    /\ inBackoff
    /\ inBackoff' = FALSE
    /\ UNCHANGED <<at, backoffDuration, recentHit, failureCount, delay, faults>>

HitAges ==
    /\ recentHit
    /\ recentHit' = FALSE
    /\ UNCHANGED <<at, backoffDuration, failureCount, delay, inBackoff, faults>>

Next ==
    \/ Attempt
    \/ DialFails
    \/ DialSucceeds
    \/ WaitPermits
    \/ WaitTimesOut
    \/ SubscribeFails
    \/ SubscribeSucceeds
    \/ ReadFails
    \/ DelayEnds
    \/ HitAges

\* The manager runs, its ticker fires, time passes; a dial or a write that does
\* not fail completes.
Fairness ==
    /\ WF_cbVars(Attempt)
    /\ WF_cbVars(DialSucceeds \/ DialFails)
    /\ WF_cbVars(WaitPermits \/ WaitTimesOut)
    /\ WF_cbVars(SubscribeSucceeds \/ SubscribeFails)
    /\ WF_cbVars(DelayEnds)
    /\ WF_cbVars(HitAges)

Spec == Init /\ [][Next]_cbVars /\ Fairness

--------------------------------------------------------------------------------
\* Type invariant; a manager in backoff waits for at least a second.
Flags == recentHit \in BOOLEAN /\ inBackoff \in BOOLEAN
TypeOK ==
    /\ Flags
    /\ at \in {"select", "dial", "wait", "subscribe", "listen"}
    /\ backoffDuration \in 0..MaxBackoff
    /\ failureCount \in 0..(MaxFaults + 1)
    /\ delay \in 0..MaxDelay
    /\ faults \in 0..MaxFaults
    /\ inBackoff => delay > 0

\* The adaptive backoff is off or at least a second, and since only an attempt
\* that got through Wait can be hit, it stays below one and a half times the
\* wait's timeout: maxBackoff is never reached.
BackoffRange ==
    \/ backoffDuration = 0
    \/ FirstBackoff <= backoffDuration /\ 2 * backoffDuration < 3 * WaitTimeout

\* From the moment the backoff reaches the timeout of the wait it never changes
\* again: no attempt gets far enough to record a success or another hit.
LongBackoffIsForever ==
    [][backoffDuration >= WaitTimeout => backoffDuration' = backoffDuration]_cbVars

\* When the failures end, the exchange serves for good, unless its backoff has
\* reached the timeout of the wait.
ServesOrIsLocked ==
    <>[](at = "listen") \/ <>[](backoffDuration >= WaitTimeout)
================================================================================
