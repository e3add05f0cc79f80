---------------------------- MODULE MCExchangeFeed -----------------------------
(* One symbol watched by a streaming client and asked for by a one-shot call.  *)
EXTENDS ExchangeFeed

CONSTANTS btc, m1, s1, e1, e2

MCRequest == {<< <<btc, m1>> >>}
================================================================================
