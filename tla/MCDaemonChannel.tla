-------------------------- MODULE MCDaemonChannel --------------------------
(* Two proxies of one user, and two signals.  Each proxy launches at most   *)
(* MaxTries daemons, so that four are always enough.                        *)
EXTENDS DaemonChannel

CONSTANTS c1, c2

TwoProxies == {c1, c2}
=============================================================================
