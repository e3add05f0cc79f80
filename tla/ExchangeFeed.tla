------------------------------ MODULE ExchangeFeed ------------------------------
(***************************************************************************)
(* The exchange managers, composed with the subscription registry.          *)
(*                                                                          *)
(* One manageExchangeConnection goroutine per exchange selects on           *)
(* reconnectChan and on a 30 s ticker, connects, subscribes the streams     *)
(* found in activeStreams and then listens until the connection fails.      *)
(* reconnectChan is shared: a signal goes to one manager only.              *)
(*                                                                          *)
(* Time is abstracted to the facts the code compares: "before               *)
(* backoffUntil", "connected less than 5 s ago" and "last message less than *)
(* 60 s ago" are Booleans that time-passing steps turn off.  A connection   *)
(* may go quiet without failing.  Faults are limited by MaxFaults, so that  *)
(* what happens after the last fault can be asked.                          *)
(* Of the rate limiter's adaptive backoff only whether it has reached the   *)
(* 10 s of connectExchange's wait matters: from then on every wait times    *)
(* out.  After how many failed subscribes that happens, and that nothing    *)
(* takes it back, is ConnectionBackoff's matter; here any failed subscribe  *)
(* may be the one.                                                          *)
(*                                                                          *)
(* listenExchange starts a ping goroutine for OKX on every connection; it   *)
(* pings whatever connection ex.conn holds and ends when it finds none or   *)
(* when a ping fails.  A websocket allows one writer at a time: when two    *)
(* goroutines write at once the library may panic, and the program ends.    *)
(***************************************************************************)
EXTENDS Subscriptions

CONSTANTS
    Exchange,   \* the enabled exchanges
    Pinged,     \* those that get a ping goroutine: OKX
    MaxFaults   \* bound on dial, write and read failures

ASSUME FeedConstants == MaxFaults \in Nat /\ Pinged \subseteq Exchange

VARIABLES
    mgr,           \* where each manager is
    conn,          \* ex.conn: "nil", "open", or "quiet" (open, delivers nothing)
    isHealthy,
    isConnecting,
    isSubscribed,
    inBackoff,     \* time.Now().Before(ex.backoffUntil)
    justConnected, \* time.Since(ex.lastConnectTime) < 5 s
    fresh,         \* time.Since(ex.lastUpdate) < 60 s
    found,         \* the streams the current subscribe call read from activeStreams
    sent,          \* the streams subscribed on the current connection
    locked,        \* the limiter's backoffDuration has reached the 10 s of the wait
    faults,        \* failures so far
    pingers,       \* ping goroutines: between ticks, or about to write to the
                   \* current connection or to one that has been closed
    pingFailed,    \* history: a ping failed on the current connection
    crashed        \* a panic has ended the program

pingVars == <<pingers, pingFailed, crashed>>
connVars == <<mgr, conn, isHealthy, isConnecting, isSubscribed, inBackoff,
             justConnected, fresh, found, sent, locked, faults>>
mgrVars == <<connVars, pingVars>>
feedVars == <<vars, mgrVars>>

FeedInit ==
    /\ Init
    /\ mgr = [e \in Exchange |-> "select"]
    /\ conn = [e \in Exchange |-> "nil"]
    /\ isHealthy = [e \in Exchange |-> FALSE]
    /\ isConnecting = [e \in Exchange |-> FALSE]
    /\ isSubscribed = [e \in Exchange |-> FALSE]
    /\ inBackoff = [e \in Exchange |-> FALSE]
    /\ justConnected = [e \in Exchange |-> FALSE]
    /\ fresh = [e \in Exchange |-> TRUE]
    /\ found = [e \in Exchange |-> {}]
    /\ sent = [e \in Exchange |-> {}]
    /\ locked = [e \in Exchange |-> FALSE]
    /\ faults = 0
    /\ pingers = [e \in Exchange |-> [idle |-> 0, current |-> 0, closed |-> 0]]
    /\ pingFailed = [e \in Exchange |-> FALSE]
    /\ crashed = FALSE

\* Mutant: the flag is forgotten.
HandleConnectionErrorStaysHealthy(e) ==
    /\ inBackoff' = [inBackoff EXCEPT ![e] = TRUE]
    /\ UNCHANGED isHealthy

\* handleConnectionError: the flag and the circuit breaker.
HandleConnectionError(e) ==
    /\ isHealthy' = [isHealthy EXCEPT ![e] = FALSE]
    /\ inBackoff' = [inBackoff EXCEPT ![e] = TRUE]

\* connectExchange up to the dial: mark as connecting, close what is there.
BeginConnect(e) ==
    /\ mgr' = [mgr EXCEPT ![e] = "dial"]
    /\ isConnecting' = [isConnecting EXCEPT ![e] = TRUE]
    /\ conn' = [conn EXCEPT ![e] = "nil"]
    /\ sent' = [sent EXCEPT ![e] = {}]
    /\ pingers' = [pingers EXCEPT ![e].current = 0, ![e].closed = @ + pingers[e].current]
    /\ pingFailed' = [pingFailed EXCEPT ![e] = FALSE]
    /\ UNCHANGED <<isHealthy, isSubscribed, inBackoff, justConnected, fresh, found, locked,
                   faults, crashed>>

SkipSignal(e) ==
    isConnecting[e] \/ (isHealthy[e] /\ justConnected[e]) \/ inBackoff[e]

\* Mutant: the comparison with lastUpdate is inverted.
SkipTickStale(e) ==
    isConnecting[e] \/ ~fresh[e] \/ inBackoff[e]

SkipTick(e) ==
    isConnecting[e] \/ (isHealthy[e] /\ fresh[e]) \/ inBackoff[e]

\* A waiting manager receives a reconnect signal; a skipped signal is gone.
ReconnectSignal(e) ==
    /\ mgr[e] = "select"
    /\ TakeSignal
    /\ IF SkipSignal(e) THEN UNCHANGED mgrVars ELSE BeginConnect(e)

\* The 30 s ticker of a waiting manager fires and its check asks for a connection.
HealthCheck(e) ==
    /\ mgr[e] = "select"
    /\ ~SkipTick(e)
    /\ BeginConnect(e)
    /\ UNCHANGED vars

\* dialWithProxy succeeds with one of the proxies.
DialSucceeds(e) ==
    /\ mgr[e] = "dial"
    /\ mgr' = [mgr EXCEPT ![e] = "wait"]
    /\ conn' = [conn EXCEPT ![e] = "open"]
    /\ isHealthy' = [isHealthy EXCEPT ![e] = TRUE]
    /\ fresh' = [fresh EXCEPT ![e] = TRUE]
    /\ justConnected' = [justConnected EXCEPT ![e] = TRUE]
    /\ isSubscribed' = [isSubscribed EXCEPT ![e] = FALSE]
    /\ UNCHANGED <<vars, pingVars, isConnecting, inBackoff, found, sent, locked, faults>>

\* connectExchange returns an error: the deferred reset of isConnecting, then
\* handleConnectionError.
AttemptFails(e) ==
    /\ mgr' = [mgr EXCEPT ![e] = "select"]
    /\ isConnecting' = [isConnecting EXCEPT ![e] = FALSE]
    /\ HandleConnectionError(e)

\* No proxy works.
DialFails(e) ==
    /\ mgr[e] = "dial"
    /\ faults < MaxFaults
    /\ faults' = faults + 1
    /\ AttemptFails(e)
    /\ UNCHANGED <<vars, pingVars, conn, isSubscribed, justConnected, fresh, found, sent, locked>>

\* limiter.Wait sits the backoff out and its 10 s context ends first: no fault of the
\* network, and it happens on every attempt.  The open connection stays in ex.conn.
WaitTimesOut(e) ==
    /\ mgr[e] = "wait"
    /\ locked[e]
    /\ AttemptFails(e)
    /\ UNCHANGED <<vars, pingVars, conn, isSubscribed, justConnected, fresh, found, sent, locked,
                   faults>>

\* The streams subscribeX finds in activeStreams.
SharedStreams == {s \in Symbol : activeStreams[s] > 1}    \* mutant: off by one
TrackedStreams == {s \in Symbol : activeStreams[s] > 0}

\* The limiter permits; subscribeX reads activeStreams under its read lock ...
ReadStreams(e) ==
    /\ mgr[e] = "wait"
    /\ ~locked[e]
    /\ mgr' = [mgr EXCEPT ![e] = "write"]
    /\ found' = [found EXCEPT ![e] = TrackedStreams]
    /\ UNCHANGED <<vars, pingVars, conn, isHealthy, isConnecting, isSubscribed, inBackoff,
                   justConnected, fresh, sent, locked, faults>>

\* Mutant: no second goroutine while there is one.
StartPingerOnce(e) ==
    pingers' = [pingers EXCEPT ![e].idle =
                    IF e \in Pinged /\ pingers[e] = [idle |-> 0, current |-> 0, closed |-> 0]
                    THEN 1 ELSE @]

\* listenExchange begins with another ping goroutine.
StartPinger(e) == pingers' = [pingers EXCEPT ![e].idle = IF e \in Pinged THEN @ + 1 ELSE @]

\* ... and writes the subscribe messages; with nothing to subscribe it succeeds too.
\* connectExchange returns and the manager goes on to listenExchange.
WriteSubscriptions(e) ==
    /\ mgr[e] = "write"
    /\ mgr' = [mgr EXCEPT ![e] = "listen"]
    /\ sent' = [sent EXCEPT ![e] = found[e]]
    /\ found' = [found EXCEPT ![e] = {}]
    /\ isSubscribed' = [isSubscribed EXCEPT ![e] = TRUE]
    /\ isConnecting' = [isConnecting EXCEPT ![e] = FALSE]
    /\ StartPinger(e)
    /\ UNCHANGED <<vars, conn, isHealthy, inBackoff, justConnected, fresh, locked, faults,
                   pingFailed, crashed>>

\* A write fails after some batches went out; RecordRateLimitHit raises the backoff,
\* which may now have reached the wait's time-out.
WriteFails(e) ==
    /\ mgr[e] = "write"
    /\ found[e] # {}
    /\ faults < MaxFaults
    /\ faults' = faults + 1
    /\ \E part \in SUBSET found[e] : sent' = [sent EXCEPT ![e] = part]
    /\ found' = [found EXCEPT ![e] = {}]
    /\ \E long \in BOOLEAN : locked' = [locked EXCEPT ![e] = long]
    /\ AttemptFails(e)
    /\ UNCHANGED <<vars, pingVars, conn, isSubscribed, justConnected, fresh>>

\* listenExchange: ReadMessage delivers a message, lastUpdate is renewed.
Message(e) ==
    /\ mgr[e] = "listen"
    /\ conn[e] = "open"
    /\ fresh' = [fresh EXCEPT ![e] = TRUE]
    /\ UNCHANGED <<vars, pingVars, mgr, conn, isHealthy, isConnecting, isSubscribed, inBackoff,
                   justConnected, found, sent, locked, faults>>

\* listenExchange: ReadMessage fails; ex.conn is kept until the next attempt.
ReadFails(e) ==
    /\ mgr[e] = "listen"
    /\ faults < MaxFaults
    /\ faults' = faults + 1
    /\ mgr' = [mgr EXCEPT ![e] = "select"]
    /\ HandleConnectionError(e)
    /\ UNCHANGED <<vars, pingVars, conn, isConnecting, isSubscribed, justConnected, fresh, found,
                   sent, locked>>

\* The peer stays connected but stops delivering.
GoQuiet(e) ==
    /\ mgr[e] = "listen"
    /\ conn[e] = "open"
    /\ faults < MaxFaults
    /\ faults' = faults + 1
    /\ conn' = [conn EXCEPT ![e] = "quiet"]
    /\ UNCHANGED <<vars, pingVars, mgr, isHealthy, isConnecting, isSubscribed, inBackoff,
                   justConnected, fresh, found, sent, locked>>

\* sendPeriodicPing: its ticker fires, it loads ex.conn and ends without one ...
PingTick(e) ==
    /\ pingers[e].idle > 0
    /\ pingers' = IF conn[e] = "nil" THEN [pingers EXCEPT ![e].idle = @ - 1]
                  ELSE [pingers EXCEPT ![e].idle = @ - 1, ![e].current = @ + 1]
    /\ UNCHANGED <<vars, connVars, pingFailed, crashed>>

\* ... and the ping is written.
PingSent(e) ==
    /\ pingers[e].current > 0
    /\ pingers' = [pingers EXCEPT ![e].current = @ - 1, ![e].idle = @ + 1]
    /\ UNCHANGED <<vars, connVars, pingFailed, crashed>>

\* The write fails and the goroutine ends: on a closed connection always, on one
\* whose reads have failed maybe, on a working one as a fault.
PingFails(e) ==
    /\ \/ /\ pingers[e].closed > 0
          /\ pingers' = [pingers EXCEPT ![e].closed = @ - 1]
          /\ UNCHANGED <<pingFailed, faults>>
       \/ /\ pingers[e].current > 0
          /\ pingers' = [pingers EXCEPT ![e].current = @ - 1]
          /\ pingFailed' = [pingFailed EXCEPT ![e] = TRUE]
          /\ IF isHealthy[e] THEN faults < MaxFaults /\ faults' = faults + 1
             ELSE UNCHANGED faults
    /\ UNCHANGED <<vars, mgr, conn, isHealthy, isConnecting, isSubscribed, inBackoff,
                   justConnected, fresh, found, sent, locked, crashed>>

\* Two goroutines are in a write of the same connection.
WritesCollide(e) ==
    /\ pingers[e].current > (IF mgr[e] = "write" /\ found[e] # {} THEN 0 ELSE 1)
    /\ crashed' = TRUE
    /\ UNCHANGED <<vars, connVars, pingers, pingFailed>>

\* Time passes: a backoff ends, a connection is 5 s old, 60 s without a message.
BackoffEnds(e) ==
    /\ inBackoff[e]
    /\ inBackoff' = [inBackoff EXCEPT ![e] = FALSE]
    /\ UNCHANGED <<vars, pingVars, mgr, conn, isHealthy, isConnecting, isSubscribed,
                   justConnected, fresh, found, sent, locked, faults>>

ConnectionAges(e) ==
    /\ justConnected[e]
    /\ justConnected' = [justConnected EXCEPT ![e] = FALSE]
    /\ UNCHANGED <<vars, pingVars, mgr, conn, isHealthy, isConnecting, isSubscribed, inBackoff,
                   fresh, found, sent, locked, faults>>

MinuteWithoutMessage(e) ==
    /\ fresh[e]
    /\ fresh' = [fresh EXCEPT ![e] = FALSE]
    /\ UNCHANGED <<vars, pingVars, mgr, conn, isHealthy, isConnecting, isSubscribed, inBackoff,
                   justConnected, found, sent, locked, faults>>

ManagerStep(e) ==
    \/ ReconnectSignal(e)
    \/ HealthCheck(e)
    \/ DialSucceeds(e)
    \/ DialFails(e)
    \/ WaitTimesOut(e)
    \/ ReadStreams(e)
    \/ WriteSubscriptions(e)
    \/ WriteFails(e)
    \/ Message(e)
    \/ ReadFails(e)
    \/ GoQuiet(e)
    \/ PingTick(e)
    \/ PingSent(e)
    \/ PingFails(e)
    \/ WritesCollide(e)
    \/ BackoffEnds(e)
    \/ ConnectionAges(e)
    \/ MinuteWithoutMessage(e)

FeedNext ==
    /\ ~crashed
    /\ \/ \E c \in Caller : CallerStep(c) /\ UNCHANGED mgrVars
       \/ TriggerReconnect /\ UNCHANGED mgrVars
       \/ \E e \in Exchange : ManagerStep(e)

\* Go schedules every runnable goroutine, tickers fire and timers expire.  A
\* dial, a wait or a write that does not fail completes.
Fairness ==
    /\ \A c \in Caller :
        WF_feedVars(/\ ~crashed
                    /\ \/ CountInterval(c) \/ CountStream(c) \/ Signal(c)
                       \/ UncountInterval(c) \/ UncountStream(c)
                    /\ UNCHANGED mgrVars)
    /\ \A e \in Exchange :
        /\ WF_feedVars(~crashed /\ HealthCheck(e))
        /\ WF_feedVars(/\ ~crashed
                       /\ \/ DialSucceeds(e) \/ DialFails(e) \/ WaitTimesOut(e)
                          \/ ReadStreams(e) \/ WriteSubscriptions(e) \/ WriteFails(e))
        /\ WF_feedVars(~crashed /\ BackoffEnds(e))

FeedSpec == FeedInit /\ [][FeedNext]_feedVars /\ Fairness

--------------------------------------------------------------------------------
\* Type invariant of the managers (the registry's is TypeOK of Subscriptions).
FeedTypeOK ==
    /\ TypeOK
    /\ mgr \in [Exchange -> {"select", "dial", "wait", "write", "listen"}]
    /\ conn \in [Exchange -> {"nil", "open", "quiet"}]
    /\ {isHealthy, isConnecting, isSubscribed, inBackoff, justConnected, fresh, locked}
         \subseteq [Exchange -> BOOLEAN]
    /\ {found, sent} \subseteq [Exchange -> SUBSET Symbol]
    /\ faults \in 0..MaxFaults
    /\ pingers \in [Exchange -> [idle : Nat, current : Nat, closed : Nat]]
    /\ pingFailed \in [Exchange -> BOOLEAN] /\ crashed \in BOOLEAN

\* isHealthy is set exactly from a successful dial to the error that ends the
\* connection.  So a manager waiting in its select is never healthy and never
\* connecting: the "already connected" and "already connecting" skips of
\* manageExchangeConnection cannot swallow a signal, only the backoff can.  A
\* manager that listens has a connection on which the subscribe call went through.
FlagsMatchConnection ==
    \A e \in Exchange :
        /\ isHealthy[e] <=> mgr[e] \in {"wait", "write", "listen"}
        /\ isConnecting[e] <=> mgr[e] \in {"dial", "wait", "write"}
        /\ mgr[e] = "listen" => conn[e] # "nil" /\ isSubscribed[e]
        /\ conn[e] = "nil" => sent[e] = {}

\* While OKX is listened to somebody pings it, unless a ping has failed on this very
\* connection: the goroutine that a dying connection takes with it, late and with an
\* error on the closed connection, is never the one of the next connection.
ListenerIsPinged ==
    \A e \in Pinged :
        mgr[e] = "listen" /\ ~pingFailed[e] => pingers[e].idle + pingers[e].current > 0

\* Faults give an exchange up in one way only.  However the backoffs were set and whoever
\* took the shared signals, once faults stop every manager ends up listening for good,
\* unless failed subscribes have brought its own limiter's backoff to the wait's time-out,
\* after which it dials and times out for ever, or colliding writes have ended the program.
\* The lock of one exchange keeps no other from serving.
ServesAfterFaults ==
    \A e \in Exchange : <>[]((mgr[e] = "listen" /\ isHealthy[e]) \/ locked[e] \/ crashed)

\* A stream that is tracked when a manager starts to dial, and stays tracked,
\* is subscribed on the new connection unless the attempt fails.
TrackedStreamSubscribed ==
    \A e \in Exchange, s \in Symbol :
        (mgr[e] = "dial" /\ activeStreams[s] > 0)
            ~> (s \in sent[e] \/ activeStreams[s] = 0 \/ mgr[e] = "select" \/ crashed)

\* exchange_aggregator.go:357 "Trigger reconnection for ALL exchanges (each
\* exchange needs the signal)": a stream that stays tracked is subscribed on
\* every exchange in the end.
NewStreamReachesEveryExchange ==
    \A e \in Exchange, s \in Symbol :
        activeStreams[s] > 0 ~> (s \in sent[e] \/ activeStreams[s] = 0)
================================================================================
