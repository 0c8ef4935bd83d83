-------------------------- MODULE MCServerDaemon --------------------------
(* The daemon with two clients of one identity, small enough for TLC.      *)
EXTENDS ServerDaemon, TLC

CONSTANTS c1, c2, perso

ReqSnapshot == [key |-> perso, kind |-> "snapshot", persist |-> TRUE]
ReqScratch  == [key |-> perso, kind |-> "snapshot", persist |-> FALSE]
ReqIsolated == [key |-> perso, kind |-> "isolated", persist |-> FALSE]

TwoClients == {c1, c2}
OneKey     == {perso}
OneKind    == {ReqSnapshot}
AllKinds   == {ReqSnapshot, ReqScratch, ReqIsolated}

\* Two sessions to keep, or one to throw away beside one with no directory.
MCInit == /\ Init
          /\ req \in {c1 :> ReqSnapshot @@ c2 :> ReqSnapshot,
                      c1 :> ReqScratch @@ c2 :> ReqIsolated}

\* One kill that fails, or one session overlooked; one pass of the concierge, which asks
\* between the two daemons and sweeps whenever it may.  Of two clients that ask for the
\* same, c1 comes first: they are interchangeable; of two that do not, one daemon is enough.
Bounded ==
  /\ req[c1] # req[c2] => boots' <= 1
  /\ req[c1] = req[c2] /\ sock[c1] = "new" => sock'[c2] = "new"
  /\ Cardinality(overlooked' \cup {c \in Clients : server'[c] = "spared"}) <= 1
  /\ pass = "idle" /\ pass' = "asked" => boots = 1

MCSpec == MCInit /\ [][Next /\ Bounded]_vars /\ Fairness
===========================================================================
