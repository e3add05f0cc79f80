----------------------------- MODULE MCCandleCache -----------------------------
(* A 1m market written through the service and a 5m market written past it.     *)
EXTENDS CandleCache

CONSTANTS btc1m, btc5m, r1, f1

MCList(m, s, l) ==
    [kind |-> "list", market |-> m, source |-> s, limit |-> l, start |-> 0, end |-> 0]
MCLatest(m, s) == [MCList(m, s, 1) EXCEPT !.kind = "latest"]

\* The default limit, another one that is cached and one too large for it; a source
\* without rows; a time range; the latest candle, of the derived interval too.
MCAsked ==
    {MCList(btc1m, "aggregated", 0), MCList(btc1m, "aggregated", 2),
     MCList(btc1m, "aggregated", 9),
     [MCList(btc1m, "aggregated", 1) EXCEPT !.start = 1, !.end = 3],
     MCList(btc1m, "binance", 1), MCLatest(btc1m, "aggregated"), MCLatest(btc5m, "")}
================================================================================
