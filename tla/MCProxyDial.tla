------------------------------ MODULE MCProxyDial ------------------------------
(* Two proxies; texts that are empty, have an invalid line, or one proxy twice.   *)
EXTENDS ProxyDial, TLC

CONSTANTS p1, p2, direct, x1, x2

MCFetched == {<<>>, <<p1, direct>>, <<p2, p2, p1>>}

Symmetry == Permutations(Exchange)
================================================================================
