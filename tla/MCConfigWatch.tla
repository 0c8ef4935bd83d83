--------------------------- MODULE MCConfigWatch ---------------------------
(* Two valid contents and one that is not.                                 *)
EXTENDS ConfigWatch

CONSTANTS perso, both, half
TwoGood == {perso, both}
OneBad == {half}
TwoSlots == 1..2
=============================================================================
