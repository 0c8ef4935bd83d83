---------------------------- MODULE MCJournal ----------------------------
(* Two processes over a journal of three generations of two lines.         *)
EXTENDS Journal

CONSTANTS w1, w2

TwoWriters == {w1, w2}
=============================================================================
