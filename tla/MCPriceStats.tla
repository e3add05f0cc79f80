------------------------------ MODULE MCPriceStats ------------------------------
(* A buffer of three slots and more candles than it holds.                     *)
EXTENDS PriceStats, TLC

CONSTANTS c1, c2, c3, c4, r1, r2

MCCandle(m, v) == [min |-> m, vol |-> v]

\* No row, some rows, and as many as the buffer holds; a minute may have a row from
\* each source.
MCRows ==
    {<<>>, <<MCCandle(1, 2)>>, <<MCCandle(1, 1), MCCandle(2, 2)>>,
     <<MCCandle(1, 2), MCCandle(1, 1), MCCandle(2, 2)>>}

Symmetry == Permutations(Call) \cup Permutations(Reader)
================================================================================
