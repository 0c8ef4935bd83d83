----------------------------- MODULE MCManager -----------------------------
(* The pool with two profiles, small enough for TLC.                       *)
EXTENDS Manager

CONSTANTS perso, work, v1, v2, i1, i2, i3

TwoProfiles == {perso, work}
TwoSpecs == {v1, v2}
ThreeCalls == {i1, i2, i3}
MostOps == {"active", "switch", "restart"}
===========================================================================
