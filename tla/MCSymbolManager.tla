---------------------------- MODULE MCSymbolManager ----------------------------
(* Three listed symbols and one of the curated list that the backend never lists. *)
EXTENDS SymbolManager

CONSTANTS btc, eth, sol, old, h1

MCDefaults == <<old, btc>>
MCPopular == <<old, eth, btc>>
MCLists == {<<btc>>, <<btc, eth>>, <<eth, btc>>, <<sol, btc>>}
================================================================================
