----------------------------- MODULE Subscriptions -----------------------------
(***************************************************************************)
(* Reference-counted, on-demand exchange subscriptions.                     *)
(*                                                                          *)
(* The state is the part of ExchangeAggregator that                         *)
(* SubscribeToInterval and UnsubscribeFromInterval touch: the two maps      *)
(* subscriptions (per requested interval) and activeStreams (per symbol,    *)
(* always the 1m stream), each behind a mutex of its own, and the buffered  *)
(* reconnectChan that wakes the exchange managers.  The callers are gRPC    *)
(* handlers and the symbol manager.  Each runs SubscribeToInterval over a   *)
(* list of (symbol, interval) pairs; the streaming handlers later run       *)
(* UnsubscribeFromInterval over the same list, the others never do.         *)
(*                                                                          *)
(* A map entry that does not exist is the count 0: the code deletes an      *)
(* entry when its count reaches 0 and creates it with 1.  Symbols are taken *)
(* after strings.ToUpper, so equal symbols are equal keys of both maps.     *)
(***************************************************************************)
EXTENDS Naturals, Sequences, FiniteSets

CONSTANTS
    Symbol,        \* upper-cased trading pairs
    Interval,      \* candle intervals a client may ask for
    Stream,        \* SubscribeCandles and SubscribePrices calls (paired by a defer)
    OneShot,       \* GetCandles, GetLatestCandle, GetPrice(s) calls, symbol manager
    Request,       \* the lists of (symbol, interval) pairs callers come with
    MaxPairs,      \* length of the longest of them
    NumExchanges,  \* len(a.exchanges)
    ChanCap        \* capacity of reconnectChan

Caller == Stream \cup OneShot
Key == Symbol \X Interval

ASSUME CallersFinite == IsFiniteSet(Stream) /\ IsFiniteSet(OneShot)
ASSUME CallersDisjoint == Stream \cap OneShot = {}
ASSUME RequestsAreLists ==
    Request \subseteq {r \in Seq(Key) : Len(r) \in 1..MaxPairs}
ASSUME SizesAreNat == NumExchanges \in Nat /\ ChanCap \in Nat /\ MaxPairs \in Nat \ {0}

\* A reference that a caller can hold: one pair of its list.  The counts are
\* int32 in the code; natural numbers stand for them as long as there are
\* fewer references than int32 has positive values.
Slot == Caller \X (1..MaxPairs)

MaxInt32 == 2147483647

ASSUME ReferencesFitInt32 == Cardinality(Slot) <= MaxInt32

VARIABLES
    subscriptions,  \* subscriptions[<<symbol, interval>>]: reference count
    activeStreams,  \* activeStreams[symbol]: reference count of symbol@1m
    reconnect,      \* number of signals buffered in reconnectChan
    pc,             \* where each caller is
    req,            \* the list the caller works through
    idx,            \* position in that list
    left,           \* reconnect signals the caller still has to send
    startup         \* signals TriggerReconnectAll still has to send at start-up

vars == <<subscriptions, activeStreams, reconnect, pc, req, idx, left, startup>>

SymbolOf(c) == req[c][idx[c]][1]
KeyOf(c) == req[c][idx[c]]

\* "sub" and "add" are before the first and the second lock section of
\* SubscribeToInterval, "signal" is its notification loop, "unsub" and "drop"
\* are before the two sections of UnsubscribeFromInterval.
Location == {"idle", "sub", "add", "signal", "serve", "unsub", "drop", "done"}

Init ==
    /\ subscriptions = [k \in Key |-> 0]
    /\ activeStreams = [s \in Symbol |-> 0]
    /\ reconnect = 0
    /\ pc = [c \in Caller |-> "idle"]
    /\ req = [c \in Caller |-> <<>>]
    /\ idx = [c \in Caller |-> 1]
    /\ left = [c \in Caller |-> 0]
    /\ startup = NumExchanges

\* A map entry after one more reference: created with 1, or incremented.
RetainedOnce(n) == 1     \* mutant: an existing entry is not incremented
Retained(n) == n + 1

\* A map entry after one reference is released: an entry that is missing or
\* not positive is left alone, one that reaches 0 is deleted.
ReleasedAll(n) == 0      \* mutant: the entry is deleted whatever its count
Released(n) == IF n > 0 THEN n - 1 ELSE n

\* A validated request arrives at a handler.
Arrive(c, r) ==
    /\ pc[c] = "idle"
    /\ pc' = [pc EXCEPT ![c] = "sub"]
    /\ req' = [req EXCEPT ![c] = r]
    /\ idx' = [idx EXCEPT ![c] = 1]
    /\ UNCHANGED <<subscriptions, activeStreams, reconnect, left, startup>>

\* SubscribeToInterval, section under subscriptionsMu.
CountInterval(c) ==
    /\ pc[c] = "sub"
    /\ subscriptions' = [subscriptions EXCEPT ![KeyOf(c)] = Retained(@)]
    /\ pc' = [pc EXCEPT ![c] = "add"]
    /\ UNCHANGED <<activeStreams, reconnect, req, idx, left, startup>>

\* The loop over the list: the call for one pair has returned; go on with the
\* next pair, or leave the loop for the given location.
LastPairMissed(c) == idx[c] > Len(req[c])     \* mutant: off by one
LastPair(c) == idx[c] = Len(req[c])
Advance(c, again, after) ==
    /\ idx' = [idx EXCEPT ![c] = IF LastPair(c) THEN 1 ELSE @ + 1]
    /\ pc' = [pc EXCEPT ![c] = IF LastPair(c) THEN after ELSE again]

\* Subscribed to the whole list: a streaming handler serves its client, the
\* others return.
Subscribed(c) == IF c \in Stream THEN "serve" ELSE "done"

\* SubscribeToInterval, section under activeStreamsMu: a stream that did not
\* exist is created with one reference and the managers are to be signalled.
CountStream(c) ==
    /\ pc[c] = "add"
    /\ activeStreams' = [activeStreams EXCEPT ![SymbolOf(c)] = Retained(@)]
    /\ IF activeStreams[SymbolOf(c)] = 0 /\ NumExchanges > 0
       THEN /\ pc' = [pc EXCEPT ![c] = "signal"]
            /\ left' = [left EXCEPT ![c] = NumExchanges]
            /\ UNCHANGED idx
       ELSE Advance(c, "sub", Subscribed(c)) /\ UNCHANGED left
    /\ UNCHANGED <<subscriptions, reconnect, req, startup>>

\* A non-blocking send on reconnectChan, dropped when the channel is full.
Sent(n) == IF n < ChanCap THEN n + 1 ELSE n

\* One iteration of the notification loop.
Signal(c) ==
    /\ pc[c] = "signal"
    /\ reconnect' = Sent(reconnect)
    /\ left' = [left EXCEPT ![c] = @ - 1]
    /\ IF left[c] > 1 THEN UNCHANGED <<pc, idx>> ELSE Advance(c, "sub", Subscribed(c))
    /\ UNCHANGED <<subscriptions, activeStreams, req, startup>>

\* The client goes away (or the handler fails): the deferred cleanup starts.
Disconnect(c) ==
    /\ pc[c] = "serve"
    /\ pc' = [pc EXCEPT ![c] = "unsub"]
    /\ UNCHANGED <<subscriptions, activeStreams, reconnect, req, idx, left, startup>>

\* UnsubscribeFromInterval, section under subscriptionsMu.
UncountInterval(c) ==
    /\ pc[c] = "unsub"
    /\ subscriptions' = [subscriptions EXCEPT ![KeyOf(c)] = Released(@)]
    /\ pc' = [pc EXCEPT ![c] = "drop"]
    /\ UNCHANGED <<activeStreams, reconnect, req, idx, left, startup>>

\* UnsubscribeFromInterval, section under activeStreamsMu: the decrement does
\* not depend on what the first section found.
UncountStream(c) ==
    /\ pc[c] = "drop"
    /\ activeStreams' = [activeStreams EXCEPT ![SymbolOf(c)] = Released(@)]
    /\ Advance(c, "unsub", "idle")
    /\ UNCHANGED <<subscriptions, reconnect, req, left, startup>>

\* TriggerReconnectAll, run once when the server has started: one send, given up
\* after 100 ms on a full channel.
TriggerReconnect ==
    /\ startup > 0
    /\ startup' = startup - 1
    /\ reconnect' = Sent(reconnect)
    /\ UNCHANGED <<subscriptions, activeStreams, pc, req, idx, left>>

\* Some exchange manager receives from reconnectChan.
TakeSignal ==
    /\ reconnect > 0
    /\ reconnect' = reconnect - 1
    /\ UNCHANGED <<subscriptions, activeStreams, pc, req, idx, left, startup>>

CallerStep(c) ==
    \/ \E r \in Request : Arrive(c, r)
    \/ CountInterval(c)
    \/ CountStream(c)
    \/ Signal(c)
    \/ Disconnect(c)
    \/ UncountInterval(c)
    \/ UncountStream(c)

Next == (\E c \in Caller : CallerStep(c)) \/ TriggerReconnect \/ TakeSignal

Spec == Init /\ [][Next]_vars

--------------------------------------------------------------------------------
\* Type invariant: counts are naturals that fit int32, the channel respects its
\* capacity, and a caller inside a list is at one of its positions.
TypeOK ==
    /\ subscriptions \in [Key -> 0..MaxInt32]
    /\ activeStreams \in [Symbol -> 0..MaxInt32]
    /\ reconnect \in 0..ChanCap
    /\ pc \in [Caller -> Location]
    /\ req \in [Caller -> Request \cup {<<>>}]
    /\ idx \in [Caller -> 1..MaxPairs]
    /\ left \in [Caller -> 0..NumExchanges]
    /\ startup \in 0..NumExchanges
    /\ \A c \in Caller :
        /\ pc[c] # "idle" => req[c] \in Request /\ idx[c] <= Len(req[c])
        /\ pc[c] \in {"serve", "done"} => idx[c] = 1
        /\ pc[c] = "signal" => left[c] > 0

\* Whether the k-th pair of c's list is counted in subscriptions (it is between
\* the two subscriptionsMu sections that count and uncount it) ...
IntervalCounted(c, k) ==
    \/ pc[c] = "sub" /\ k < idx[c]
    \/ pc[c] \in {"add", "signal"} /\ k <= idx[c]
    \/ pc[c] \in {"serve", "done"}
    \/ pc[c] = "unsub" /\ k >= idx[c]
    \/ pc[c] = "drop" /\ k > idx[c]

\* ... and whether it is counted in activeStreams, whose sections come second.
StreamCounted(c, k) ==
    \/ pc[c] \in {"sub", "add"} /\ k < idx[c]
    \/ pc[c] = "signal" /\ k <= idx[c]
    \/ pc[c] \in {"serve", "done"}
    \/ pc[c] \in {"unsub", "drop"} /\ k >= idx[c]

IntervalHolder(c, k, key) ==
    k \in DOMAIN req[c] /\ req[c][k] = key /\ IntervalCounted(c, k)

StreamHolder(c, k, s) ==
    k \in DOMAIN req[c] /\ req[c][k][1] = s /\ StreamCounted(c, k)

\* The references counted for a map entry.
IntervalHolders(key) == {h \in Slot : IntervalHolder(h[1], h[2], key)}
StreamHolders(s) == {h \in Slot : StreamHolder(h[1], h[2], s)}

\* subscriptions counts exactly the references held, whatever the interleaving
\* of the two lock sections of SubscribeToInterval and UnsubscribeFromInterval:
\* the guard "> 0" of the decrement never swallows one.
IntervalCountExact ==
    \A key \in Key : subscriptions[key] = Cardinality(IntervalHolders(key))

\* activeStreams counts exactly the references held over all intervals of a
\* symbol, although its decrement does not look at what the first section of
\* UnsubscribeFromInterval found.
StreamCountExact ==
    \A s \in Symbol : activeStreams[s] = Cardinality(StreamHolders(s))

\* While a streaming handler serves a client, the 1m stream of each of its
\* symbols is tracked: no other client's cleanup removes it.
ServedStreamTracked ==
    \A c \in Stream : pc[c] = "serve" =>
        \A k \in DOMAIN req[c] : activeStreams[req[c][k][1]] > 0

\* The two maps are updated under different locks.  Unless a caller is between
\* its two sections on symbol s, they agree on whether s is subscribed at all.
MapsAgree ==
    \A s \in Symbol :
        (\A c \in Caller : pc[c] \in {"add", "drop"} => SymbolOf(c) # s)
        => ((activeStreams[s] > 0) <=> (\E i \in Interval : subscriptions[<<s, i>>] > 0))
================================================================================
