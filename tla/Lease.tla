------------------------------- MODULE Lease -------------------------------
(***************************************************************************)
(* What the daemon promises to its clients, whatever it takes to keep it:  *)
(* a client that asks is refused, or holds one browser until it leaves or  *)
(* that browser dies; what it gives back may be kept once, never later;    *)
(* the daemon goes when nobody needs it, and not before.  ServerDaemon     *)
(* implements this.                                                        *)
(***************************************************************************)
CONSTANT Clients

VARIABLES
  up,     \* there is a daemon
  conn,   \* each client: new, open, left, or cut by the death of the daemon
  lease,  \* none, asked, refused, held, returned, over, lost
  broken, \* the clients whose browser's death is known
  kept    \* the clients whose session was kept

vars == <<up, conn, lease, broken, kept>>

Init ==
  /\ up = FALSE
  /\ conn = [c \in Clients |-> "new"] /\ lease = [c \in Clients |-> "none"]
  /\ broken = {} /\ kept = {}

Needed(n, l) == \E c \in Clients : n[c] = "open" \/ l[c] \in {"held", "returned"}

Gone(n, l) ==
  /\ up' = FALSE
  /\ conn' = [c \in Clients |-> IF n[c] = "open" THEN "cut" ELSE n[c]]
  /\ lease' = [c \in Clients |-> IF l[c] \in {"asked", "held", "returned"} THEN "lost" ELSE l[c]]

\* with n and l, the daemon stays if somebody needs it
Then(n, l) == IF Needed(n, l) THEN conn' = n /\ lease' = l /\ UNCHANGED up ELSE Gone(n, l)

GiveBack(c) == {[lease EXCEPT ![c] = l] : l \in {"returned", "over"}}

Start == ~up /\ up' = TRUE /\ UNCHANGED <<conn, lease, broken, kept>>
Kill == up /\ Gone(conn, lease) /\ UNCHANGED <<broken, kept>>

Come(c) ==
  /\ up /\ conn[c] = "new" /\ conn' = [conn EXCEPT ![c] = "open"]
  /\ UNCHANGED <<up, lease, broken, kept>>

Turn(c, from, to) ==
  /\ up /\ lease[c] = from /\ lease' = [lease EXCEPT ![c] = to]
  /\ UNCHANGED <<up, conn, broken, kept>>

Ask(c) == conn[c] = "open" /\ Turn(c, "none", "asked")
Refuse(c) == (conn[c] = "open" /\ Turn(c, "none", "refused")) \/ Turn(c, "asked", "refused")
Grant(c) == Turn(c, "asked", "held")

Leave(c) ==
  /\ up /\ conn[c] = "open"
  /\ \E l \in IF lease[c] = "held" THEN GiveBack(c) ELSE {lease} :
       Then([conn EXCEPT ![c] = "left"], l)
  /\ UNCHANGED <<broken, kept>>

Break(c) ==
  /\ up /\ c \notin broken /\ broken' = broken \cup {c}
  /\ \/ lease[c] \in {"held", "returned"} /\ \E l \in GiveBack(c) : Then(conn, l)
     \/ lease[c] # "held" /\ UNCHANGED <<up, conn, lease>>
  /\ UNCHANGED kept

Finish(c) ==
  /\ up /\ lease[c] = "returned" /\ Then(conn, [lease EXCEPT ![c] = "over"])
  /\ kept' \in {kept, kept \cup {c}} /\ UNCHANGED broken

Next ==
  \/ Start \/ Kill
  \/ \E c \in Clients : \/ Come(c) \/ Ask(c) \/ Refuse(c) \/ Grant(c)
                        \/ Leave(c) \/ Break(c) \/ Finish(c)

Spec == Init /\ [][Next]_vars
=============================================================================
