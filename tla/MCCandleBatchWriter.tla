-------------------------- MODULE MCCandleBatchWriter --------------------------
(* Four candles for two workers, a channel and batches of two.                 *)
EXTENDS CandleBatchWriter
================================================================================
