---------------------------- MODULE HttpSession ----------------------------
(***************************************************************************)
(* The HTTP transport of one backend (src/http-transport.js) and the server*)
(* it talks to: POSTs in flight, the GET stream, a session the server may  *)
(* end at any time, and its reopening after a 404.                         *)
(*                                                                         *)
(* A message is one send() of the Backend; Ping is the watchdog's, sent    *)
(* again and again while a request waits.  The response headers of a POST  *)
(* travel: what the server said of a session may be read much later.       *)
(***************************************************************************)
EXTENDS Naturals, FiniteSets

CONSTANTS
  Requests,     \* the client's requests
  Ping,         \* the watchdog's message
  MaxSessions,  \* ids of sessions, used again once nobody holds them
  MaxEnds       \* bound: sessions the server ends by itself

NoSession == 0
Sessions == 1..MaxSessions
Messages == Requests \cup {Ping}

ASSUME BoundsAssumption ==
  /\ MaxSessions \in Nat \ {0} /\ MaxEnds \in Nat /\ Ping \notin Requests
  /\ Cardinality(Messages) + 1 < MaxSessions   \* an id is always free: see Held

VARIABLES
  sid,      \* sessionId
  reopen,   \* _reouverture: none, or how far it is
  fresh,    \* the session its initialize was answered with
  out,      \* each send(): where it is
  header,   \* the session id its last POST carried
  again,    \* dejaRouvert
  get,      \* the loop of _openGet
  getId,    \* the session id the last GET carried
  closed,   \* _closed
  failed,   \* 'error' was emitted: the Backend exited
  reply,    \* Backend: what the client was told of each request
  live,     \* server: sessions that exist
  ends,     \* server: sessions it ended by itself
  runs      \* history: how many times the server began to execute each request

client == <<sid, reopen, fresh, out, header, again, get, getId, closed, failed,
            reply>>
server == <<live, ends, runs>>
vars == <<client, server>>

Ids == Sessions \cup {NoSession}

TypeOK ==
  /\ sid \in Ids /\ fresh \in Ids /\ getId \in Ids
  /\ reopen \in {"none", "posted", "answered", "refused", "notifying"}
  /\ out \in [Messages -> {"idle", "posted", "running", "reading", "cut", "400", "404", "waiting",
                           "done"}]
  /\ reply \in [Requests -> {"none", "result", "error"}]
  /\ header \in [Messages -> Ids]
  /\ again \in [Messages -> BOOLEAN]
  /\ get \in {"posted", "streaming", "404", "waiting", "delay", "failing", "off"}
  /\ closed \in BOOLEAN /\ failed \in BOOLEAN
  /\ live \subseteq Sessions /\ ends \in 0..MaxEnds
  /\ runs \in [Messages -> Nat]

\* the handshake gave session 1, and its end opened the GET stream
Init ==
  /\ sid = 1 /\ reopen = "none" /\ fresh = NoSession
  /\ out = [m \in Messages |-> "idle"]
  /\ header = [m \in Messages |-> NoSession]
  /\ again = [m \in Messages |-> FALSE]
  /\ get = "posted" /\ getId = 1
  /\ closed = FALSE /\ failed = FALSE
  /\ reply = [r \in Requests |-> "none"]
  /\ live = {1} /\ ends = 0
  /\ runs = [m \in Messages |-> 0]

Pending == {r \in Requests : out[r] # "idle" /\ reply[r] = "none"}
Waiting == {m \in Messages : out[m] = "waiting"}

---------------------------------------------------------------------------
(* Sending.                                                                *)

\* the POSTs of messages M leave, with the session id of this moment
Post(M, retried) ==
  /\ out' = [m \in Messages |-> IF m \in M THEN "posted" ELSE out[m]]
  /\ header' = [m \in Messages |-> IF m \in M THEN sid ELSE header[m]]
  /\ again' = [m \in Messages |-> IF m \in M THEN retried ELSE again[m]]

\* the Backend exits: every request in flight gets -32000
Exits == reply' = [r \in Requests |-> IF r \in Pending THEN "error" ELSE reply[r]]

\* _fail, of message m: the transport is not closed, and the others go on
Fail == IF closed THEN UNCHANGED <<failed, reply>> ELSE failed' = TRUE /\ Exits

Done(m) == out' = [out EXCEPT ![m] = "done"] /\ UNCHANGED <<header, again>>

Alive == ~closed /\ ~failed

Send(r) ==
  /\ Alive /\ out[r] = "idle"
  /\ Post({r}, FALSE)
  /\ UNCHANGED <<sid, reopen, fresh, get, getId, closed, failed, reply, server>>

\* the watchdog: one ping at a time, while a request is in flight
SendPing ==
  /\ Alive /\ Pending # {} /\ out[Ping] \in {"idle", "done", "cut"}
  /\ Post({Ping}, FALSE)
  /\ UNCHANGED <<sid, reopen, fresh, get, getId, closed, failed, reply, server>>

---------------------------------------------------------------------------
(* The server.                                                             *)

\* it reads a POST: executes it, or refuses it and says why.  Without a session id, the
\* specification advises 400; 404 is what some servers answer.
Serve(m) ==
  /\ out[m] = "posted"
  /\ \/ /\ header[m] \in live
        /\ out' = [out EXCEPT ![m] = "running"]
        /\ runs' = IF m = Ping THEN runs ELSE [runs EXCEPT ![m] = @ + 1]
     \/ /\ header[m] = NoSession
        /\ \E status \in {"400", "404"} : out' = [out EXCEPT ![m] = status]
        /\ UNCHANGED runs
     \/ /\ header[m] \notin live \cup {NoSession}
        /\ out' = [out EXCEPT ![m] = "404"]
        /\ UNCHANGED runs
  /\ UNCHANGED <<sid, reopen, fresh, header, again, get, getId, closed, failed, reply, live, ends>>

\* the headers of a 200: any session id in them is captured (send), then the stream is read
Headers(m) ==
  /\ out[m] = "running"
  /\ sid' \in {sid, header[m]}
  /\ out' = [out EXCEPT ![m] = IF header[m] \in live THEN "reading" ELSE "cut"]
  /\ UNCHANGED <<reopen, fresh, header, again, get, getId, closed, failed, reply, server>>

\* the response comes in the stream, and 'message' gives it to the Backend
Answer(m) ==
  /\ out[m] = "reading"
  /\ Done(m)
  /\ reply' = [r \in Requests |-> IF r = m /\ reply[r] = "none" THEN "result" ELSE reply[r]]
  /\ UNCHANGED <<sid, reopen, fresh, get, getId, closed, failed, server>>

\* mutant: a response cut short is a POST to send again
EndSession_Resends(s) ==
  /\ s \in live /\ ends < MaxEnds
  /\ live' = live \ {s} /\ ends' = ends + 1
  /\ out' = [m \in Messages |-> IF out[m] = "reading" /\ header[m] = s THEN "404" ELSE out[m]]
  /\ get' = IF get = "streaming" /\ getId = s THEN "delay" ELSE get
  /\ UNCHANGED <<sid, reopen, fresh, header, again, getId, closed, failed, reply,
                 runs>>

\* the server ends a session: its streams end, with the responses they would have
\* carried (_consumeSse logs at most a read error, and returns)
EndSession(s) ==
  /\ s \in live /\ ends < MaxEnds
  /\ live' = live \ {s} /\ ends' = ends + 1
  /\ out' = [m \in Messages |-> IF out[m] = "reading" /\ header[m] = s THEN "cut" ELSE out[m]]
  /\ get' = IF get = "streaming" /\ getId = s THEN "delay" ELSE get
  /\ UNCHANGED <<sid, reopen, fresh, header, again, getId, closed, failed, reply,
                 runs>>

\* the connection breaks, or the status is no success: before the headers of the response, the POST fails (_post tries
\* again only a connect, which sent nothing); after them, a JSON body is unreadable, a stream
\* ends early
BreakPost(m) ==
  /\ \/ out[m] \in {"posted", "running", "reading"} /\ Done(m) /\ Fail
     \/ /\ out[m] = "reading"
        /\ out' = [out EXCEPT ![m] = "cut"]
        /\ UNCHANGED <<header, again, failed, reply>>
  /\ UNCHANGED <<sid, reopen, fresh, get, getId, closed, server>>

---------------------------------------------------------------------------
(* Refusals, and the reopening.                                            *)

Read400(m) ==
  /\ out[m] = "400"
  /\ Done(m) /\ Fail
  /\ UNCHANGED <<sid, reopen, fresh, get, getId, closed, server>>

\* _rouvrirSession: one reopening serves everybody who asks while it runs
Rouvrir ==
  IF reopen = "none" THEN reopen' = "posted" /\ sid' = NoSession /\ UNCHANGED fresh
                     ELSE UNCHANGED <<reopen, sid, fresh>>

\* a 404: the message waits for a new session, unless it was sent again already
Read404(m) ==
  /\ out[m] = "404"
  /\ IF again[m]
     THEN Done(m) /\ Fail /\ UNCHANGED <<sid, reopen, fresh>>
     ELSE /\ Rouvrir
          /\ out' = [out EXCEPT ![m] = "waiting"]
          /\ UNCHANGED <<header, again, failed, reply>>
  /\ UNCHANGED <<get, getId, closed, server>>

\* the session ids that somebody still uses
InFlight == {m \in Messages : out[m] \in {"posted", "running", "reading"}}
Held == {sid, getId} \cup {header[m] : m \in InFlight}

\* the server answers the initialize of the reopening with a session nobody knows
Initialized ==
  /\ reopen = "posted" /\ reopen' = "answered"
  /\ \E s \in Sessions \ Held :
       /\ \A t \in Sessions \ Held : s <= t
       /\ fresh' = s /\ live' = live \cup {s}
  /\ UNCHANGED <<sid, out, header, again, get, getId, closed, failed, reply,
                 ends, runs>>

ReopenBreaks ==
  /\ reopen = "posted"
  /\ reopen' = "refused"
  /\ UNCHANGED <<sid, fresh, out, header, again, get, getId, closed, failed, reply, server>>

\* mutant: notifications/initialized is not awaited: who waits is forgotten
Adopt_Forgets ==
  /\ reopen = "answered"
  /\ sid' = fresh /\ reopen' = "none" /\ fresh' = NoSession
  /\ UNCHANGED <<out, header, again, get, getId, closed, failed, reply, server>>

\* its headers: from now on every POST carries the new session
Adopt ==
  /\ reopen = "answered"
  /\ sid' = fresh /\ reopen' = "notifying" /\ fresh' = NoSession
  /\ UNCHANGED <<out, header, again, get, getId, closed, failed, reply, server>>

\* mutant: the GET loop is forgotten once the session is open
Reopened_ForgetsGet ==
  /\ reopen = "notifying"
  /\ reopen' = "none"
  /\ Post(Waiting, TRUE)
  /\ UNCHANGED <<sid, fresh, get, getId, closed, failed, reply, server>>

\* notifications/initialized was posted: everybody goes on with the new session
Reopened ==
  /\ reopen = "notifying"
  /\ reopen' = "none"
  /\ IF closed THEN out' = [m \in Messages |-> IF m \in Waiting THEN "done" ELSE out[m]]
                    /\ UNCHANGED <<header, again>>
               ELSE Post(Waiting, TRUE)
  /\ get' = IF get # "waiting" THEN get ELSE IF closed THEN "off" ELSE "delay"
  /\ UNCHANGED <<sid, fresh, getId, closed, failed, reply, server>>

\* it could not: the messages that waited fail, and the GET loop after its delay
NotReopened ==
  /\ reopen = "refused"
  /\ reopen' = "none"
  /\ out' = [m \in Messages |-> IF m \in Waiting THEN "done" ELSE out[m]]
  /\ IF Waiting = {} THEN UNCHANGED <<failed, reply>> ELSE Fail
  /\ get' = IF get # "waiting" THEN get ELSE IF closed THEN "off" ELSE "failing"
  /\ UNCHANGED <<sid, fresh, header, again, getId, closed, server>>

---------------------------------------------------------------------------
(* The GET stream.                                                         *)

GetServed ==
  /\ get = "posted"
  /\ \/ getId \in live /\ get' = "streaming"
     \/ getId \notin live \cup {NoSession} /\ get' = "404"
     \/ getId = NoSession /\ get' = "404"
     \/ get' = "delay"   \* another status, or no stream
     \/ get' = "off"     \* 405: the server has no such stream
  /\ UNCHANGED <<sid, reopen, fresh, out, header, again, getId, closed, failed, reply, server>>

\* the GET cannot be sent, or its stream ends, by an error or by the server: the loop waits
GetBreaks ==
  /\ get \in {"posted", "streaming"} /\ get' = "delay"
  /\ UNCHANGED <<sid, reopen, fresh, out, header, again, getId, closed, failed, reply, server>>

GetRead404 ==
  /\ get = "404"
  /\ Rouvrir
  /\ get' = "waiting"
  /\ UNCHANGED <<out, header, again, getId, closed, failed, reply, server>>

\* the reopening had failed: the loop says so, and ends
GetFails ==
  /\ get = "failing" /\ get' = "off"
  /\ Fail
  /\ UNCHANGED <<sid, reopen, fresh, out, header, again, getId, closed, server>>

\* GET_RETRY_MS or GET_REOPEN_MS later
GetAgain ==
  /\ get = "delay"
  /\ IF closed THEN get' = "off" /\ UNCHANGED getId ELSE get' = "posted" /\ getId' = sid
  /\ UNCHANGED <<sid, reopen, fresh, out, header, again, closed, failed, reply,
                 server>>

---------------------------------------------------------------------------
\* close(): sockets are destroyed with what was in flight on them, the session this
\* transport knows is deleted, and 'close' makes the Backend exit
Close ==
  /\ ~closed
  /\ closed' = TRUE
  /\ live' = live \ {sid}
  /\ out' = [m \in Messages |->
               IF out[m] \in {"posted", "running", "reading", "400", "404"} THEN "done" ELSE out[m]]
  /\ reopen' = IF reopen \in {"posted", "answered"} THEN "refused" ELSE reopen
  /\ get' = IF get \in {"posted", "streaming", "404"} THEN "off" ELSE get
  /\ Exits
  /\ UNCHANGED <<sid, fresh, header, again, getId, failed, ends, runs>>

Next ==
  \/ \E r \in Requests : Send(r)
  \/ \E m \in Messages : Serve(m) \/ Headers(m) \/ Answer(m) \/ BreakPost(m)
                          \/ Read400(m) \/ Read404(m)
  \/ \E s \in Sessions : EndSession(s)
  \/ SendPing \/ Initialized \/ ReopenBreaks \/ Adopt \/ Reopened \/ NotReopened
  \/ GetServed \/ GetBreaks \/ GetRead404 \/ GetFails \/ GetAgain \/ Close

Spec == Init /\ [][Next]_vars

\* The network delivers, the event loop runs, the server works and answers what it
\* executes; it need not end sessions, and nobody need send or close.
Fair ==
  /\ \A m \in Messages :
       /\ WF_vars(Serve(m)) /\ WF_vars(Headers(m)) /\ WF_vars(Answer(m))
       /\ WF_vars(Read400(m)) /\ WF_vars(Read404(m))
  /\ WF_vars(SendPing) /\ WF_vars(Initialized) /\ WF_vars(Adopt) /\ WF_vars(Reopened)
  /\ WF_vars(NotReopened) /\ WF_vars(GetServed) /\ WF_vars(GetRead404) /\ WF_vars(GetFails)
  /\ WF_vars(GetAgain)

LiveSpec == Spec /\ Fair

---------------------------------------------------------------------------
(* Properties.                                                             *)

\* Once closed, nothing new is on the network: close ends what it finds there, and neither
\* the end of a reopening nor that of a delay of the GET loop starts anything (_closed).
NothingAfterClose == closed =>
  /\ \A m \in Messages : out[m] \in {"idle", "waiting", "cut", "done"}
  /\ get \in {"waiting", "delay", "failing", "off"} /\ reopen \in {"none", "refused", "notifying"}

Consistent == TypeOK /\ NothingAfterClose

\* No request is executed twice (http-transport.js:126-129: a POST sent twice is an
\* action of the browser done twice), though a 404 makes it be sent again.
AtMostOnce == \A r \in Requests : runs[r] <= 1

\* What waits for a session has a reopening in progress to wait for, so that no 404 is
\* left behind when reopenings follow one another.
WaitersAreServed == Waiting # {} \/ get = "waiting" => reopen # "none"

\* A request the server did not cut short ends: with its result, or with an error.
EndsUnlessCut == \A r \in Requests : out[r] = "posted" ~> reply[r] # "none" \/ out[r] = "cut"

=============================================================================
