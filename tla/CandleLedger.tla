------------------------------ MODULE CandleLedger ------------------------------
(***************************************************************************)
(* What a candle writer promises: a closed candle that was handed to it is  *)
(* refused at once or accepted, an accepted candle is written to the        *)
(* database at most once, or given up with the whole batch it was in, and   *)
(* its fate never changes afterwards.                                       *)
(***************************************************************************)
CONSTANT Candle

VARIABLE fate   \* fate[c] \in {"new", "accepted", "stored", "lost"}

Fate == {"new", "accepted", "stored", "lost"}

LedgerInit == fate = [c \in Candle |-> "new"]

\* The non-blocking send of a closed candle: queued, or dropped when full.
Offer(c) ==
    /\ fate[c] = "new"
    /\ \/ fate' = [fate EXCEPT ![c] = "accepted"]
       \/ fate' = [fate EXCEPT ![c] = "lost"]

\* A batch of accepted candles meets its fate as a whole.
Settle(B, f) ==
    /\ \A c \in B : fate[c] = "accepted"
    /\ fate' = [c \in Candle |-> IF c \in B THEN f ELSE fate[c]]

LedgerNext ==
    \/ \E c \in Candle : Offer(c)
    \/ \E B \in SUBSET Candle : Settle(B, "stored") \/ Settle(B, "lost")

LedgerSpec == LedgerInit /\ [][LedgerNext]_fate
================================================================================
