----------------------------- MODULE MCBackend -----------------------------
(* Backend for TLC: ticks of 5 s, so that the timeout (10 s) and the       *)
(* interval (15 s) keep their ratio.                                       *)
EXTENDS Backend

CONSTANTS r1, r2, k1, k2

TwoRequests == {r1, r2}
TwoPings == {k1, k2}
=============================================================================
