-------------------------- MODULE MCIntervalAggregator --------------------------
(* Periods of two minutes; the configurations choose how many and which order. *)
EXTENDS IntervalAggregator
================================================================================
