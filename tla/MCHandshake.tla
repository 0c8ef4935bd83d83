---------------------------- MODULE MCHandshake ----------------------------
(* A proxy with two profiles of two commands, and another proxy that may    *)
(* write an answer of either, in a file too small for both.                 *)
EXTENDS Handshake, TLC

CONSTANTS perso, work, k1, k2

TwoProfiles == {perso, work}
TwoKeys == {k1, k2}
OneUpdate == k1 :> 1 @@ k2 :> 0
HisKey == {k1}
Apart == perso :> k1 @@ work :> k2
=============================================================================
