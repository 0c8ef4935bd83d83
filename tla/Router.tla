------------------------------ MODULE Router ------------------------------
(***************************************************************************)
(* The router over the pool (src/router.js with src/manager.js): what the  *)
(* client asks, where it goes while the pool moves under it, and what the  *)
(* client is told.  A step is a step of Manager with the continuation it   *)
(* awakes in the router (React), or an event of the router alone.          *)
(*                                                                         *)
(* A message that needs a backend occupies a slot of Manager's calls; one  *)
(* answered at once (ping, current_profile, an unknown profile) moves      *)
(* nothing.  Answers from the memory of handshakes are Handshake.tla's.    *)
(***************************************************************************)
EXTENDS Manager

CONSTANTS
  Clashing,  \* specs whose server has a tool with the name of one of ours
  MaxAsks    \* bound: questions of servers not answered yet

ASSUME RouterAssumption == Clashing \subseteq Specs /\ MaxAsks \in Nat

VARIABLES
  msg,       \* what the router does for each slot's message
  collided,  \* _collisions is not empty
  shown,     \* the name our tools had in the last list: "bare" or "proxy"
  seen,      \* the profile it described as active, or Absent before any list
  due,       \* tools/list_changed was sent since the client last asked
  asks,      \* _toBackend: the backends whose question is not answered, by number
  strayed    \* history: an answer of the client went to a server of another profile

client == <<collided, shown, seen, due>>
questions == <<asks, strayed>>
routerVars == <<msg, client, questions>>
allVars == <<vars, routerVars>>

Asks == 1..MaxAsks
NoMsg == [kind |-> "none", phase |-> "idle", at |-> None, from |-> Default, late |-> FALSE]
Done == [NoMsg EXCEPT !.phase = "done"]

RouterTypeOK ==
  /\ msg \in [Calls -> [kind : {"none", "call", "list", "act"},
                        phase : {"idle", "asked", "sent", "done"},
                        at : Ids \cup {None}, from : Profiles, late : BOOLEAN]]
  /\ collided \in BOOLEAN /\ shown \in {"bare", "proxy"}
  /\ seen \in Profiles \cup {Absent} /\ due \in BOOLEAN
  /\ asks \in [Asks -> Ids \cup {None}]
  /\ strayed \in BOOLEAN

RouterInit ==
  /\ Init
  /\ msg = [i \in Calls |-> NoMsg]
  /\ collided = FALSE /\ shown = "bare"
  /\ seen = Absent /\ due = FALSE
  /\ asks = [q \in Asks |-> None] /\ strayed = FALSE

---------------------------------------------------------------------------
(* The continuations a step of the manager awakes.                         *)

Got(i) == calls[i].pc # "ok" /\ calls'[i].pc = "ok"          \* its await returned
Threw(i) == calls[i].pc # "failed" /\ calls'[i].pc = "failed"

\* mutant: the active profile is read again after the await
Obtained_Again(i) == IF pool'[active'] = None THEN calls[i].on ELSE pool'[active']

\* the backend get() returns to a call
Obtained(i) == IF calls[i].pc = "free" THEN pool[active] ELSE calls[i].on

\* mutant: the requests of Claude in flight are forgotten, not answered
Broken_Silent(m) == FALSE

\* _onExit: what is in flight in a backend that exits is answered, or rejected
Broken(m) == m.phase = "sent" /\ st[m.at] # "exited" /\ st'[m.at] = "exited"

\* the message m of slot i after this step
After(i, m) ==
  CASE m.phase = "asked" /\ Threw(i) -> Done
    [] m.phase = "asked" /\ Got(i) ->
         IF m.kind = "act" THEN Done
                    ELSE [m EXCEPT !.phase = "sent", !.at = Obtained(i)]
    [] Broken(m) -> Done
    [] OTHER -> m

\* tools/list has no list to give in time: our tools alone, under their bare names
Bare(yes) ==
  /\ shown' = IF yes THEN "bare" ELSE shown
  /\ seen' = IF yes THEN active' ELSE seen

\* the label is read after the await: a profile removed meanwhile makes the act a failure
Succeeded(i, m) ==
  m.kind = "act" /\ Got(i) /\ (calls[i].pc = "free" \/ config[calls[i].prof] # Absent)

\* mutant: the reload does not say that the tools changed
Changed_ByActs(i, m) == Succeeded(i, m)

\* notifyToolsChanged: an act that succeeded, a reload that was reconciled
Changed(i, m) == Succeeded(i, m) \/ (m.kind = "none" /\ Got(i) /\ calls'[i].op = "reconcile")

\* M is the table of messages, the one that starts with this step included
React(M) ==
  /\ msg' = [i \in Calls |-> After(i, M[i])]
  /\ Bare(\E i \in Calls : M[i].kind = "list" /\ ~M[i].late
            /\ M[i].phase # "done" /\ msg'[i].phase = "done")
  /\ due' = ((due /\ \A i \in Calls : M[i].kind # "list" \/ msg[i].kind = "list")
             \/ \E i \in Calls : Changed(i, M[i]))
  /\ UNCHANGED <<collided, questions>>

New(i, kind) ==
  React([msg EXCEPT ![i] = [NoMsg EXCEPT !.kind = kind, !.phase = "asked", !.from = active]])

---------------------------------------------------------------------------
(* What the client sends.                                                  *)

\* anything that is not ours, a homonym of ours under its bare name included (isOurToolCall)
Passthrough(i) == Active(i) /\ New(i, "call")

AskList(i) == Active(i) /\ New(i, "list")

\* the active profile is not in the file: the list is degraded, a call gets an error
ListWithoutProfile ==
  /\ Quiet /\ config[active] = Absent
  /\ UNCHANGED <<vars, msg, collided, questions>>
  /\ Bare(TRUE)
  /\ due' = FALSE

\* the call of one of our tools, under the name the list gave it
Ours == shown = "proxy" \/ ~collided

HandleAct(i, p) == Ours /\ (Switch(i, p) \/ Restart(i, p)) /\ New(i, "act")

\* mutant: the answer of the client goes to the active backend
Asker_Active(k) == pool[active]

\* _handleClientResponse: whom the manager has now for the profile of the asker
Asker(k) == pool[prof[k]]

ClientAnswers(q) ==
  /\ Quiet /\ asks[q] # None
  /\ asks' = [asks EXCEPT ![q] = None]
  /\ LET b == Asker(asks[q])
     IN strayed' = (strayed \/ (b # None /\ prof[b] # prof[asks[q]]))
  /\ UNCHANGED <<vars, msg, client>>

---------------------------------------------------------------------------
(* What servers send, and time.                                            *)

Sent(i, kind) == Quiet /\ msg[i].kind = kind /\ msg[i].phase = "sent" /\ st[msg[i].at] = "ready"
Ends(i) == msg' = [msg EXCEPT ![i] = Done]

\* _onMessage, a response: it goes to the client
ServerAnswers(i) == Sent(i, "call") /\ Ends(i) /\ UNCHANGED <<vars, client, questions>>

\* _checkCollisions
Checked(i) == spec[msg[i].at] \in Clashing

\* the list is read; after the deadline it only makes the client ask again
ListRead(i) ==
  /\ Sent(i, "list") /\ Ends(i)
  /\ IF msg[i].late
     THEN due' = TRUE /\ UNCHANGED <<collided, shown, seen>>
     ELSE /\ collided' = Checked(i)
          /\ shown' = IF spec[msg[i].at] \in Clashing THEN "proxy" ELSE "bare"
          /\ seen' = active
          /\ UNCHANGED due
  /\ UNCHANGED <<vars, questions>>

\* withDeadline: the client is answered, what it asked goes on
Deadline(i) ==
  /\ Quiet /\ msg[i].kind = "list" /\ msg[i].phase \in {"asked", "sent"} /\ ~msg[i].late
  /\ msg' = [msg EXCEPT ![i].late = TRUE]
  /\ UNCHANGED <<vars, collided, due, questions>>
  /\ Bare(TRUE)

\* a request of a server to the client, under a number of ours
ForwardBackendRequest(q, k) ==
  /\ Quiet /\ st[k] = "ready" /\ asks[q] = None
  /\ asks' = [asks EXCEPT ![q] = k]
  /\ UNCHANGED <<vars, msg, client, strayed>>

---------------------------------------------------------------------------
\* what the manager does of itself
Turns(i) == (Wait(i) \/ Resume(i) \/ Reload(i)) /\ React(msg)
Happens(k) == Event(k) /\ React(msg)

RouterNext ==
  \/ \E i \in Calls :
       \/ Passthrough(i) \/ AskList(i) \/ ServerAnswers(i) \/ ListRead(i) \/ Deadline(i)
       \/ Turns(i)
       \/ \E p \in Profiles : HandleAct(i, p)
  \/ ListWithoutProfile
  \/ \E k \in Ids : Happens(k) \/ \E q \in Asks : ForwardBackendRequest(q, k)
  \/ \E q \in Asks : ClientAnswers(q)

RouterSpec == RouterInit /\ [][RouterNext]_allVars

---------------------------------------------------------------------------
(* Properties.                                                             *)

\* A call goes to a server of the profile that was active when the client sent it, whatever
\* switches, restarts and reloads did while it waited: the wrong account is an incident the
\* router tells of (router.js:361-363).
RightAccount ==
  \A i \in Calls : msg[i].kind = "call" /\ msg[i].at # None => prof[msg[i].at] = msg[i].from

ListPending == \E i \in Calls : msg[i].kind = "list" /\ ~msg[i].late /\ msg[i].phase # "done"
Reconciling == \E i \in Calls : Busy(i) /\ calls[i].op = "reconcile"

\* The description the client holds names the active profile, or the client has been told
\* to ask again, or is asking, or a reload is about to tell it (router.js:360-363).  A switch
\* to a profile removed while it waited escapes: the client is told of a failure.
DescriptionFollows ==
  \/ seen \in {Absent, active} \/ due \/ ListPending \/ Reconciling
  \/ config[active] = Absent

\* The answer to a server's question never goes to a server of another profile.
AnswersKeepProfile == ~strayed

\* Nobody waits for what will never come: a message the client sent waits for a call of the
\* manager that is still in progress (and ends: Manager!CallsEnd), or is in a server that has
\* not exited (and answers, exits, or is cut: Backend!FrozenIsCut) (router.js:130, backend.js:231).
NobodyForgotten ==
  \A i \in Calls :
    /\ msg[i].phase = "asked" => Busy(i)
    /\ msg[i].phase = "sent" => st[msg[i].at] \in {"ready", "closing"}
===========================================================================
