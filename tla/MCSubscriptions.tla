---------------------------- MODULE MCSubscriptions ----------------------------
(* Two symbols, two intervals; requests of one pair (SubscribeCandles) and of  *)
(* two pairs (SubscribePrices, once with a repeated symbol).                   *)
EXTENDS Subscriptions, TLC

CONSTANTS btc, eth, m1, h1, s1, s2, g1

MCRequest ==
    {<< <<btc, m1>> >>, << <<btc, h1>> >>,
     << <<btc, m1>>, <<eth, m1>> >>, << <<btc, m1>>, <<btc, m1>> >>}

Symmetry == Permutations(Stream)
================================================================================
