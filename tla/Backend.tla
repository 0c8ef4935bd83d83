------------------------------ MODULE Backend ------------------------------
(***************************************************************************)
(* One Backend (src/backend.js): the client's requests forwarded to it, and*)
(* the watchdog that pings it while one of them waits, so that a server    *)
(* that is busy is told from one that is frozen.                           *)
(*                                                                         *)
(* Time is discrete.  A running timer is the number of ticks left; at 0 it *)
(* is due, and time does not pass before its callback ran.  Timers due     *)
(* together, and messages, come in any order.                              *)
(***************************************************************************)
EXTENDS Integers

CONSTANTS
  Requests,   \* ids of the client's requests, reused once answered
  Pings,      \* bound: ids of pings, reused once settled
  Interval,   \* PING_INTERVAL_MS
  Timeout,    \* PING_TIMEOUT_MS
  MaxMissed   \* MAX_MISSED_PINGS

Off == -1

ASSUME TimesAssumption ==
  /\ Interval \in Nat /\ Timeout \in Nat /\ MaxMissed \in Nat
  /\ Interval > Timeout /\ Timeout > 0 /\ MaxMissed > 1

VARIABLES
  forward,   \* _forward: requests in flight
  replies,   \* how many replies the client had to the last request of each id
  watchdog,  \* ticks before the next ping, or Off
  pings,     \* ticks before the timeout of each ping in flight, or Off
  missed,    \* _missedPings
  frozen,    \* the server never answers again
  exited,    \* why _onExit ran, or "no"
  stopped,   \* stop() was called
  silence    \* history: pings in a row the server did not serve, up to MaxMissed

vars == <<forward, replies, watchdog, pings, missed, frozen, exited, stopped, silence>>

Timer(n) == Off..n

TypeOK ==
  /\ forward \subseteq Requests
  /\ replies \in [Requests -> Nat]
  /\ watchdog \in Timer(Interval)
  /\ pings \in [Pings -> Timer(Timeout)]
  /\ missed \in Nat
  /\ frozen \in BOOLEAN
  /\ exited \in {"no", "transport", "unresponsive"}
  /\ stopped \in BOOLEAN
  /\ silence \in Nat

\* the handshake is over, and nobody waits
Init ==
  /\ forward = {}
  /\ replies = [r \in Requests |-> 1]
  /\ watchdog = Off
  /\ pings = [k \in Pings |-> Off]
  /\ missed = 0
  /\ frozen = FALSE
  /\ exited = "no"
  /\ stopped = FALSE
  /\ silence = 0

Reply(R) == replies' = [r \in Requests |-> replies[r] + (IF r \in R THEN 1 ELSE 0)]

---------------------------------------------------------------------------
(* Requests.                                                               *)

\* forwardRequest, called by the router on the backend get() just gave; a watchdog
\* that runs already is left alone
Forward(r) ==
  /\ exited = "no" /\ ~stopped /\ r \notin forward
  /\ forward' = forward \cup {r}
  /\ replies' = [replies EXCEPT ![r] = 0]
  /\ watchdog' = IF watchdog = Off THEN Interval ELSE watchdog
  /\ missed' = IF watchdog = Off THEN 0 ELSE missed
  /\ UNCHANGED <<pings, frozen, exited, stopped, silence>>

\* the answer to a request: the last one stops the watchdog
Respond(r) ==
  /\ ~frozen /\ r \in forward
  /\ forward' = forward \ {r} /\ Reply({r})
  /\ IF forward' = {} THEN watchdog' = Off /\ missed' = 0
                      ELSE UNCHANGED <<watchdog, missed>>
  /\ UNCHANGED <<pings, frozen, exited, stopped, silence>>

---------------------------------------------------------------------------
(* The end of the backend.                                                 *)

\* mutant: what waits stays in the table
Exit_KeepsTable(why) ==
  /\ exited' = why
  /\ watchdog' = Off /\ missed' = 0
  /\ pings' = [k \in Pings |-> Off]
  /\ Reply(forward)
  /\ UNCHANGED forward

\* _onExit: every request in flight gets -32000, pings are rejected and forgotten
Exit(why) ==
  /\ exited' = why
  /\ watchdog' = Off /\ missed' = 0
  /\ pings' = [k \in Pings |-> Off]
  /\ Reply(forward)
  /\ forward' = {}

\* 'exit', 'error' or 'close' of the transport; only the first one counts
Breaks ==
  /\ exited = "no"
  /\ Exit("transport")
  /\ UNCHANGED <<frozen, stopped, silence>>

\* stop(): the exit comes with the 'close' of the transport, later
Stop ==
  /\ ~stopped /\ stopped' = TRUE
  /\ watchdog' = Off /\ missed' = 0
  /\ UNCHANGED <<forward, replies, pings, frozen, exited, silence>>

---------------------------------------------------------------------------
(* The watchdog.                                                           *)

\* _pingOnce, up to its await; the interval starts again
Ping(k) ==
  /\ watchdog = 0 /\ pings[k] = Off
  /\ IF exited # "no" \/ forward = {}
     THEN watchdog' = Off /\ missed' = 0 /\ UNCHANGED pings
     ELSE /\ watchdog' = Interval
          /\ pings' = [pings EXCEPT ![k] = Timeout]
          /\ UNCHANGED missed
  /\ UNCHANGED <<forward, replies, frozen, exited, stopped, silence>>

\* mutant: the count of missed pings is never reset by an answer
Pong_KeepsCount(k) ==
  /\ ~frozen /\ pings[k] # Off
  /\ pings' = [pings EXCEPT ![k] = Off]
  /\ silence' = 0
  /\ UNCHANGED <<forward, replies, watchdog, missed, frozen, exited, stopped>>

\* the server answers in time
Pong(k) ==
  /\ ~frozen /\ pings[k] # Off
  /\ pings' = [pings EXCEPT ![k] = Off]
  /\ missed' = 0 /\ silence' = 0
  /\ UNCHANGED <<forward, replies, watchdog, frozen, exited, stopped>>

\* mutant: a ping that failed is forgotten
Lost_Forgets(k) ==
  /\ pings' = [pings EXCEPT ![k] = Off]
  /\ UNCHANGED <<forward, replies, watchdog, missed, exited>>

\* a ping that failed counts, and one too many is the verdict
Lost(k) ==
  \/ /\ missed + 1 < MaxMissed
     /\ missed' = missed + 1
     /\ pings' = [pings EXCEPT ![k] = Off]
     /\ UNCHANGED <<forward, replies, watchdog, exited>>
  \/ missed + 1 >= MaxMissed /\ Exit("unresponsive")

LongerSilence == silence' = IF silence < MaxMissed THEN silence + 1 ELSE silence

\* nothing came in time
TimesOut(k) ==
  /\ pings[k] = 0
  /\ Lost(k) /\ LongerSilence
  /\ UNCHANGED <<frozen, stopped>>

\* an error answers the ping: the same promise is rejected as when the backend dies
Refused(k) ==
  /\ ~frozen /\ pings[k] # Off
  /\ Lost(k) /\ LongerSilence
  /\ UNCHANGED <<frozen, stopped>>

---------------------------------------------------------------------------
Freeze ==
  /\ ~frozen /\ frozen' = TRUE
  /\ UNCHANGED <<forward, replies, watchdog, pings, missed, exited, stopped, silence>>

Due == watchdog = 0 \/ \E k \in Pings : pings[k] = 0

Less(t) == IF t = Off THEN Off ELSE t - 1

Tick ==
  /\ ~Due
  /\ watchdog # Off \/ \E k \in Pings : pings[k] # Off
  /\ watchdog' = Less(watchdog)
  /\ pings' = [k \in Pings |-> Less(pings[k])]
  /\ UNCHANGED <<forward, replies, missed, frozen, exited, stopped, silence>>

Next ==
  \/ \E r \in Requests : Forward(r) \/ Respond(r)
  \/ \E k \in Pings : Ping(k) \/ Pong(k) \/ TimesOut(k) \/ Refused(k)
  \/ Breaks \/ Stop \/ Freeze \/ Tick

Spec == Init /\ [][Next]_vars

\* Timers fire and time passes; a stopped transport emits 'close' (the manager gives
\* back the socket as it stops, and the daemon then kills the server).  Nothing is
\* asked of the server, of the client or of chance.
Fair ==
  /\ WF_vars(Tick)
  /\ WF_vars(\E k \in Pings : Ping(k))
  /\ WF_vars(\E k \in Pings : TimesOut(k))
  /\ WF_vars(stopped /\ Breaks)

LiveSpec == Spec /\ Fair

InFlight == {k \in Pings : pings[k] # Off}

---------------------------------------------------------------------------
(* Properties.                                                             *)

\* Whatever the order of answers, timeouts, stop, 'error' and 'close', a request has
\* one reply: none while it is in flight, exactly one afterwards.
OneReply == \A r \in Requests : replies[r] = IF r \in forward THEN 0 ELSE 1

\* Even with watchdogs stopped and started again within the timeout of a ping, there
\* is never more than one ping in flight, and it is settled before the next is due.
OnePing ==
  /\ \A j, k \in Pings : pings[j] # Off /\ pings[k] # Off => j = k
  /\ watchdog # Off => \A k \in Pings : pings[k] # Off => pings[k] < watchdog

\* What the properties above and below need of each other: the watchdog runs
\* exactly while somebody waits on a live backend; off, at most one ping was lost since.
Inductive ==
  /\ TypeOK
  /\ OneReply
  /\ OnePing
  /\ watchdog # Off <=> forward # {} /\ exited = "no" /\ ~stopped
  /\ watchdog = Off => missed = 0 \/ (missed = 1 /\ InFlight = {})
  /\ exited # "no" => forward = {} /\ InFlight = {}
  /\ missed < MaxMissed
  /\ missed <= silence

\* "frozen" is said of a server that served none of its last MaxMissed pings, counted
\* over the whole life of the backend: pings lost around an answer, or under two
\* watchdogs, never add up (backend.js:129-133: busy is not frozen).  A ping answered
\* by an error is one it did not serve.
FrozenIsSilent == exited = "unresponsive" => silence >= MaxMissed

\* "frozen" is said only when somebody waits: a ping that outlives its watchdog and
\* times out on an idle backend does not kill it.
VerdictOnlyIfAwaited ==
  [][exited = "no" /\ exited' = "unresponsive" => forward # {} /\ ~stopped]_vars

\* No call hangs on a frozen server (README: never a call that hangs in silence).
FrozenIsCut == \A r \in Requests : (frozen /\ r \in forward) ~> r \notin forward
=============================================================================
