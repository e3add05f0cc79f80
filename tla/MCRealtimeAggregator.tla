-------------------------- MODULE MCRealtimeAggregator --------------------------
(* One exchange that reports closed candles and one that never does.            *)
EXTENDS RealtimeAggregator

CONSTANTS binance, kraken
================================================================================
