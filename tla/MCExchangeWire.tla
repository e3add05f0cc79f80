--------------------------- MODULE MCExchangeWire ----------------------------
(* A plain pair, a pair whose base contains USD, a pair with a three-letter     *)
(* quote; minutes at the ends of January, February 2024, of a week, of a day.   *)
EXTENDS ExchangeWire

MCSymbol ==
    {[base |-> <<"BTC">>, quote |-> <<"USD", "T">>],
     [base |-> <<"USD", "C">>, quote |-> <<"USD", "T">>],
     [base |-> <<"BTC">>, quote |-> <<"EUR">>]}

\* Days since the epoch: 31 January, 29 February, 1 March, Sunday 3 and Monday 4 March.
MCMinute ==
    {19753 * Day + 7, 19782 * Day + 1439, 19783 * Day, 19785 * Day + 1439, 19786 * Day}

MCBatchLimit ==
    [e \in Exchange |-> IF e \in {"Kraken", "Gate.io"} THEN 1 ELSE 2]
================================================================================
