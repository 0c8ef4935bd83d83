----------------------------- MODULE MCRouter -----------------------------
(* The router over a pool of two profiles, one of whose commands has a     *)
(* tool with the name of one of ours.                                      *)
EXTENDS Router

CONSTANTS perso, work, v1, v2, i1, i2, i3

TwoProfiles == {perso, work}
TwoSpecs == {v1, v2}
ThreeCalls == {i1, i2, i3}
MostOps == {"active", "switch", "restart"}
Homonyms == {v2}
===========================================================================
