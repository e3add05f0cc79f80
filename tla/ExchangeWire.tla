------------------------------ MODULE ExchangeWire ------------------------------
(***************************************************************************)
(* What the server asks of an exchange and what it makes of the answers:    *)
(* the six subscribe functions with their batches, the six message handlers *)
(* and the interval tables between them, up to the live candle that         *)
(* ProcessCandleUpdate finds or creates and the periods it is counted in.   *)
(*                                                                          *)
(* A symbol is a sequence of pieces with a letter case, so that the string  *)
(* operations of the code (ReplaceAll, cutting off the last three or four   *)
(* letters) act on it as they do on text: BTCUSDT is <<"BTC", "USD", "T">>. *)
(* Of a message only what the handlers read is kept: the names and the open *)
(* times of its candles; prices and closed flags are RealtimeAggregator's.  *)
(* Connections share nothing but the map of live candles, so they are taken *)
(* one after the other.                                                     *)
(***************************************************************************)
EXTENDS IntervalClock, Sequences, FiniteSets, SequencesExt, Positions

CONSTANTS
    Piece,       \* what symbols are made of
    Symbol,      \* the pairs of the market: [base, quote], sequences of pieces
    Minute,      \* the open times of the 1m candles exchanges report
    BatchLimit,  \* names per request: 200, 50, 10, 20, and 1 for Kraken and Gate.io
    ServerZone,  \* offset of the server's local time in minutes
    MaxLive      \* bound: live candles

Exchange == {"Binance", "Kraken", "Coinbase", "Bybit", "OKX", "Gate.io"}

ASSUME WireSymbols ==
    /\ IsFiniteSet(Symbol)
    /\ {"USD", "T"} \subseteq Piece
    /\ Symbol \subseteq [base : Seq(Piece) \ {<<>>}, quote : Seq(Piece)]
ASSUME WireConstants ==
    /\ Minute \subseteq Nat
    /\ BatchLimit \in [Exchange -> Nat \ {0}]
    /\ ServerZone \in -720..840      \* from UTC-12 to UTC+14
    /\ MaxLive \in Nat

VARIABLES
    tracked,  \* activeStreams while connections are made: a set of symbols
    ex,       \* the exchange at hand, or "none"
    at,       \* "idle", "write", "listen" or "failed"
    args,     \* the names subscribeX asks for, in the order of a map iteration
    next,     \* how many of them have been written
    sent,     \* the requests written on this connection
    live      \* liveCandles: one per symbol, interval and open time

wireVars == <<tracked, ex, at, args, next, sent, live>>

--------------------------------------------------------------------------------
\* Text: pieces, their letters, and a case.
Letters(p) == CASE p = "T" -> 1 [] p = "C" -> 1 [] OTHER -> 3
Text(pieces, case) == [pieces |-> pieces, case |-> case]
LettersAt(ps, D) == Cardinality({x \in D \X (1..3) : x[2] <= Letters(ps[x[1]])})
Unknown == <<"?">>

\* strings.ReplaceAll of USDT by USD: the T of each USDT is left out.
TethersIn(ps) == {i \in 2..Len(ps) : ps[i] = "T" /\ ps[i - 1] = "USD"}
UsdtToUsd(ps) == Kept(ps, DOMAIN ps \ TethersIn(ps))

\* strings.ReplaceAll of USD by USDT: each piece moves up by a T for each USD before it.
UsdIn(ps, n) == {i \in 1..n : ps[i] = "USD"}
MovedTo(ps, i) == i + Cardinality(UsdIn(ps, i - 1))
UsdToUsdt(ps) ==
    [n \in 1..(Len(ps) + Cardinality(UsdIn(ps, Len(ps)))) |->
        IF \E i \in DOMAIN ps : MovedTo(ps, i) = n
        THEN ps[CHOOSE i \in DOMAIN ps : MovedTo(ps, i) = n] ELSE "T"]

\* A separator before the last n letters of a longer symbol.  Inside a piece it makes
\* a pair that no exchange knows.
CutPair(ps, n) ==
    LET cuts == {k \in 1..(Len(ps) - 1) : LettersAt(ps, (k + 1)..Len(ps)) = n}
    IN CASE LettersAt(ps, DOMAIN ps) <= n -> <<ps, <<>> >>
         [] cuts # {} -> LET k == CHOOSE c \in cuts : TRUE
                         IN <<SubSeq(ps, 1, k), SubSeq(ps, k + 1, Len(ps))>>
         [] OTHER -> <<Unknown, Unknown>>

Lookup(table, key, default) ==
    IF \E e \in table : e[1] = key THEN (CHOOSE e \in table : e[1] = key)[2] ELSE default

\* exchange_helpers.go, and the switch of each handler for the way back.
convertIntervalToKraken(i) ==
    Lookup({<<"1m", "1">>, <<"5m", "5">>, <<"15m", "15">>, <<"30m", "30">>, <<"1h", "60">>,
            <<"4h", "240">>, <<"1d", "1440">>, <<"1w", "10080">>}, i, "1")
krakenInterval(w) ==
    Lookup({<<"1", "1m">>, <<"5", "5m">>, <<"15", "15m">>, <<"30", "30m">>, <<"60", "1h">>,
            <<"240", "4h">>, <<"1440", "1d">>}, w, "1m")
convertIntervalToCoinbase(i) ==
    Lookup({<<"1m", "ONE_MINUTE">>, <<"5m", "FIVE_MINUTE">>, <<"15m", "FIFTEEN_MINUTE">>,
            <<"30m", "THIRTY_MINUTE">>, <<"1h", "ONE_HOUR">>, <<"2h", "TWO_HOUR">>,
            <<"6h", "SIX_HOUR">>, <<"1d", "ONE_DAY">>}, i, "ONE_MINUTE")
\* Coinbase names an interval when asked and answers with its seconds.
granularity(w) ==
    Lookup({<<"ONE_MINUTE", "60">>, <<"FIVE_MINUTE", "300">>, <<"FIFTEEN_MINUTE", "900">>,
            <<"THIRTY_MINUTE", "1800">>, <<"ONE_HOUR", "3600">>, <<"TWO_HOUR", "7200">>,
            <<"SIX_HOUR", "21600">>, <<"ONE_DAY", "86400">>}, w, "60")
coinbaseInterval(w) ==
    Lookup({<<"60", "1m">>, <<"300", "5m">>, <<"900", "15m">>, <<"3600", "1h">>,
            <<"21600", "6h">>, <<"86400", "1d">>}, granularity(w), "1m")
convertIntervalToBybit(i) ==
    Lookup({<<"1m", "1">>, <<"3m", "3">>, <<"5m", "5">>, <<"15m", "15">>, <<"30m", "30">>,
            <<"1h", "60">>, <<"2h", "120">>, <<"4h", "240">>, <<"6h", "360">>,
            <<"1d", "D">>, <<"1w", "W">>, <<"1M", "M">>}, i, "1")
bybitInterval(w) ==
    Lookup({<<"1", "1m">>, <<"5", "5m">>, <<"15", "15m">>, <<"30", "30m">>, <<"60", "1h">>,
            <<"240", "4h">>, <<"D", "1d">>, <<"W", "1w">>}, w, "1m")
convertIntervalToOKX(i) ==
    Lookup({<<"1m", "candle1m">>, <<"3m", "candle3m">>, <<"5m", "candle5m">>,
            <<"15m", "candle15m">>, <<"30m", "candle30m">>, <<"1h", "candle1H">>,
            <<"2h", "candle2H">>, <<"4h", "candle4H">>, <<"6h", "candle6H">>,
            <<"12h", "candle12H">>, <<"1d", "candle1D">>, <<"1w", "candle1W">>,
            <<"1M", "candle1M">>}, i, "candle1m")
okxInterval(w) ==
    Lookup({<<"candle1m", "1m">>, <<"candle5m", "5m">>, <<"candle15m", "15m">>,
            <<"candle30m", "30m">>, <<"candle1H", "1h">>, <<"candle4H", "4h">>,
            <<"candle1D", "1d">>, <<"candle1W", "1w">>}, w, "1m")
SameNames == {"1m", "5m", "15m", "30m", "1h", "4h", "8h", "1d"}
convertIntervalToGateIO(i) == IF i \in SameNames THEN i ELSE IF i = "1w" THEN "7d" ELSE "1m"
convertGateIOIntervalToStandard(w) ==
    IF w \in SameNames THEN w ELSE IF w = "7d" THEN "1w" ELSE "1m"

--------------------------------------------------------------------------------
\* The stream of a symbol is symbol@1m in lower case, whatever interval was asked for.
StreamInterval == "1m"
Pieces(s) == s.base \o s.quote
StreamKey(s) == Text(Pieces(s), "lower")
ToUpper(text) == Text(text.pieces, "upper")
ToLower(text) == Text(text.pieces, "lower")

\* A name on the wire: a pair, or an undivided symbol with an empty second part.
Name(pair, case, int) == [pair |-> pair, case |-> case, int |-> int]

\* The name each subscribe function gives a stream.
binanceName(k) == Name(<<ToLower(k).pieces, <<>> >>, ToLower(k).case, StreamInterval)
krakenName(k) ==
    Name(CutPair(UsdtToUsd(k.pieces), 3), ToUpper(k).case, convertIntervalToKraken(StreamInterval))
coinbaseName(k) ==
    Name(CutPair(k.pieces, 4), ToUpper(k).case, convertIntervalToCoinbase(StreamInterval))
bybitName(k) == Name(<<k.pieces, <<>> >>, ToUpper(k).case, convertIntervalToBybit(StreamInterval))
okxName(k) == Name(CutPair(k.pieces, 4), ToUpper(k).case, convertIntervalToOKX(StreamInterval))
gateName(k) == Name(CutPair(k.pieces, 4), ToUpper(k).case, convertIntervalToGateIO(StreamInterval))

NameFor(e, s) ==
    LET k == StreamKey(s) IN
    CASE e = "Binance" -> binanceName(k)   [] e = "Kraken" -> krakenName(k)
      [] e = "Coinbase" -> coinbaseName(k) [] e = "Bybit" -> bybitName(k)
      [] e = "OKX" -> okxName(k)           [] e = "Gate.io" -> gateName(k)

\* A handler's candle: symbol, interval, open time and the location of that time.
CandleOf(text, int, m, zone) ==
    [symbol |-> text, interval |-> int, open |-> m, zone |-> zone]
Joined(n) == Text(n.pair[1] \o n.pair[2], n.case)

\* Binance repeats the interval and answers in upper case; its times are made UTC.
processBinanceMessage(n, m) == CandleOf(ToUpper(Joined(n)), n.int, m, 0)

\* Mutant: USD is not turned back into USDT.
processKrakenMessageUsd(n, m) == CandleOf(Joined(n), krakenInterval(n.int), m, ServerZone)

processKrakenMessage(n, m) ==
    CandleOf(Text(UsdToUsdt(Joined(n).pieces), n.case), krakenInterval(n.int), m, ServerZone)
processCoinbaseMessage(n, m) == CandleOf(Joined(n), coinbaseInterval(n.int), m, ServerZone)
processBybitMessage(n, m) == CandleOf(Joined(n), bybitInterval(n.int), m, ServerZone)
processOKXMessage(n, m) == CandleOf(Joined(n), okxInterval(n.int), m, ServerZone)
processGateIOMessage(n, m) ==
    CandleOf(Joined(n), convertGateIOIntervalToStandard(n.int), m, ServerZone)

Decoded(e, n, m) ==
    CASE e = "Binance" -> processBinanceMessage(n, m)
      [] e = "Kraken" -> processKrakenMessage(n, m)
      [] e = "Coinbase" -> processCoinbaseMessage(n, m)
      [] e = "Bybit" -> processBybitMessage(n, m)
      [] e = "OKX" -> processOKXMessage(n, m)
      [] e = "Gate.io" -> processGateIOMessage(n, m)

\* Kraken's and OKX's handlers walk through all candles of a message, Coinbase's and
\* Bybit's take the first, Binance and Gate.io send one.
TakesAll == {"Kraken", "OKX"}

\* The name under which an exchange lists a symbol.  Kraken's market is in USD.
Listed(e, s) ==
    CASE e \in {"Binance", "Bybit"} -> <<Pieces(s), <<>> >>
      [] e = "Kraken" -> <<s.base, UsdtToUsd(s.quote)>>
      [] OTHER -> <<s.base, s.quote>>

--------------------------------------------------------------------------------
Init ==
    /\ tracked \in SUBSET Symbol
    /\ ex = "none"
    /\ at = "idle"
    /\ args = <<>>
    /\ next = 0
    /\ sent = <<>>
    /\ live = {}

\* subscribeX reads activeStreams and makes its list of names; with no stream it
\* returns without writing anything.
Subscribe(e) ==
    /\ at = "idle"
    /\ ex' = e
    /\ at' = IF tracked = {} THEN "listen" ELSE "write"
    /\ \E order \in SetToSeqs(tracked) :
          args' = [i \in DOMAIN order |-> NameFor(e, order[i])]
    /\ next' = 0
    /\ sent' = <<>>
    /\ UNCHANGED <<tracked, live>>

\* The end of the batch that begins after the first n names.
BatchEnd(n) == IF n + BatchLimit[ex] > Len(args) THEN Len(args) ELSE n + BatchLimit[ex]

\* Mutant: the loop goes on behind the first name of the next batch.
AfterBatchSkips(n) == BatchEnd(n) + 1
AfterBatch(n) == BatchEnd(n)

WriteBatch ==
    /\ at = "write"
    /\ next < Len(args)
    /\ sent' = Append(sent, SubSeq(args, next + 1, BatchEnd(next)))
    /\ next' = AfterBatch(next)
    /\ UNCHANGED <<tracked, ex, at, args, live>>

WriteFails ==
    /\ at = "write"
    /\ next < Len(args)
    /\ at' = "failed"
    /\ UNCHANGED <<tracked, ex, args, next, sent, live>>

SubscribeReturns ==
    /\ at = "write"
    /\ next >= Len(args)
    /\ at' = "listen"
    /\ UNCHANGED <<tracked, ex, args, next, sent, live>>

\* ProcessCandleUpdate: LoadOrStore under symbol, interval and open time.  of is
\* history: the symbol the exchange reported.
SameKey(a, b) == a.symbol = b.symbol /\ a.interval = b.interval /\ a.open = b.open
LoadOrStore(lives, c, s) ==
    IF \E l \in lives : SameKey(l, c) THEN lives
    ELSE lives \cup {[symbol |-> c.symbol, interval |-> c.interval, open |-> c.open,
                      zone |-> c.zone, of |-> s]}

\* An exchange reports candles of a symbol it lists and was asked for, two at most.
Message(s, first, second) ==
    /\ at = "listen"
    /\ \E n \in UNION {Range(batch) : batch \in Range(sent)} :
          /\ n.pair = Listed(ex, s)
          /\ LET one == LoadOrStore(live, Decoded(ex, n, first), s)
             IN live' = IF ex \in TakesAll THEN LoadOrStore(one, Decoded(ex, n, second), s)
                        ELSE one
    /\ Cardinality(live') <= MaxLive
    /\ UNCHANGED <<tracked, ex, at, args, next, sent>>

\* The connection fails or a write did; the manager closes it.
Leave ==
    /\ at \in {"listen", "failed"}
    /\ at' = "idle"
    /\ ex' = "none"
    /\ args' = <<>>
    /\ next' = 0
    /\ sent' = <<>>
    /\ UNCHANGED <<tracked, live>>

Next ==
    \/ \E e \in Exchange : Subscribe(e)
    \/ WriteBatch
    \/ WriteFails
    \/ SubscribeReturns
    \/ \E s \in Symbol, a, b \in Minute : Message(s, a, b)
    \/ Leave

Spec == Init /\ [][Next]_wireVars

--------------------------------------------------------------------------------
\* A pair in USDT, whose base is another coin.
Tether(s) == s.quote = <<"USD", "T">> /\ TethersIn(s.base) = {}

\* When a subscribe function has returned without an error, the exchange has been asked
\* for every tracked symbol once, in requests within its limit, and a pair in USDT under
\* the name it is listed by: neither the slicing into batches nor the cutting of symbols
\* loses one.
EveryStreamAsked ==
    /\ \A batch \in Range(sent) : Len(batch) \in 1..BatchLimit[ex]
    /\ at = "listen" =>
         /\ Cardinality(UNION {{b} \X DOMAIN sent[b] : b \in DOMAIN sent}) = Cardinality(tracked)
         /\ \A s \in tracked : Tether(s) =>
               \E batch \in Range(sent) : \E n \in Range(batch) : n.pair = Listed(ex, s)

\* A live candle stands under the symbol, in upper case, and the interval of the stream
\* that the exchange reported, so that the reports of six exchanges meet in one candle.
\* Kraken's way back is wrong for a USD that is not the quote's USDT: ReplaceAll makes
\* USDCUSD to USDTCUSDT.
StrayUsd(s) ==
    \/ \E p \in Range(s.base) : p = "USD"
    \/ s.quote # <<"USD", "T">> /\ \E p \in Range(s.quote) : p = "USD"
FiledUnderItsStream ==
    \A l \in live :
        /\ l.interval = StreamInterval
        /\ \/ l.symbol = Text(Pieces(l.of), "upper")
           \/ /\ StrayUsd(l.of)
              /\ l.symbol = Text(UsdToUsdt(l.of.base \o UsdtToUsd(l.of.quote)), "upper")

\* Days of the month that the 30 days of intervalToDuration leave out.
ThirtyFirst(t, zone) == ((t + zone) \div Day) - FirstOfMonth((t + zone) \div Day) >= 30

\* The minute of a live candle lies in the period it is counted in, before its close, but
\* for the 31st of a month; and two minutes of one location are counted in the same period
\* or in periods that do not overlap, but for months (February's 30 days reach into
\* March).
PeriodsTile ==
    \A l \in live, k \in live, i \in Intervals :
        LET opensAt(c) == getIntervalOpenTime(c.open, c.zone, i)
            closesAt(c) == CloseTime(c.open, c.zone, i)
        IN /\ opensAt(l) <= l.open
           /\ l.open < closesAt(l) \/ (i = "1M" /\ ThirtyFirst(l.open, l.zone))
           /\ \/ l.zone # k.zone
              \/ opensAt(l) = opensAt(k)
              \/ i = "1M"
              \/ closesAt(l) <= opensAt(k)
              \/ closesAt(k) <= opensAt(l)

\* A live candle keeps the location of whichever exchange came first, UTC or the
\* server's, and its periods are aligned to it.  They are those of UTC as long as the
\* interval divides the server's offset, and always for the three days.
ZoneNeutral ==
    \A l \in live, i \in Intervals :
        i = "3d" \/ ServerZone % intervalToDuration(i) = 0
        => getIntervalOpenTime(l.open, l.zone, i) = getIntervalOpenTime(l.open, 0, i)
================================================================================
