--------------------------- MODULE DaemonChannel ---------------------------
(***************************************************************************)
(* How proxies find, launch and leave the one daemon of a user             *)
(* (src/daemon-client.js, src/daemon-main.js, ServerDaemon.demarrer and    *)
(* arreter): a socket file that any process may bind or unlink, where      *)
(* channelIsFile.  A client here is one acquirerProfil of one proxy, and   *)
(* the life of the socket it got; what the daemon does for it is           *)
(* ServerDaemon's, and only its length matters here.                       *)
(***************************************************************************)
EXTENDS Naturals

CONSTANTS
  Clients,
  MaxDaemons, \* bound: daemon processes, numbered in the order of their birth
  MaxTries,   \* MAX_ESSAIS
  MaxKills,   \* bound: daemons that a signal ended
  MayDie      \* clients that may die or leave

None == 0   \* no daemon
Daemons == 1..MaxDaemons

ASSUME ChannelAssumption ==
  /\ MayDie \subseteq Clients /\ MaxDaemons \in Nat
  /\ MaxTries \in Nat \ {0} /\ MaxKills \in Nat

VARIABLES
  path,     \* the socket file: the daemon that bound it
  daemon,   \* how far each daemon process is
  said,     \* what it wrote on its stdout
  pc,       \* how far each acquirerProfil is
  tries,    \* essai
  mine,     \* the daemon each client launched
  conn,     \* the daemon at the other end of each client's socket
  accepted, \* the clients whose connection the daemon has seen
  kills

vars == <<path, daemon, said, pc, tries, mine, conn, accepted, kills>>

TypeOK ==
  /\ path \in Daemons \cup {None}
  /\ daemon \in [Daemons -> {"unborn", "off", "starting", "bound", "listening",
                            "leaving", "closed"}]
  /\ said \in [Daemons -> {"nothing", "ready", "busy"}]
  /\ pc \in [Clients -> {"idle", "connecting", "refused", "launch", "launching", "asking",
                         "served", "failed", "gone"}]
  /\ tries \in [Clients -> 0..MaxTries]
  /\ mine \in [Clients -> Daemons \cup {None}]
  /\ conn \in [Clients -> Daemons \cup {None}]
  /\ accepted \subseteq Clients
  /\ kills \in 0..MaxKills

Init ==
  /\ path = None
  /\ daemon = [d \in Daemons |-> "unborn"] /\ said = [d \in Daemons |-> "nothing"]
  /\ pc = [c \in Clients |-> "idle"] /\ tries = [c \in Clients |-> 0]
  /\ mine = [c \in Clients |-> None] /\ conn = [c \in Clients |-> None]
  /\ accepted = {} /\ kills = 0

Goto(c, there) == pc' = [pc EXCEPT ![c] = there]
Heard(d) == {c \in accepted : conn[c] = d}   \* getConnections

---------------------------------------------------------------------------
(* A client: acquirerProfil.                                               *)

Acquire(c) ==
  /\ pc[c] = "idle" /\ Goto(c, "connecting")
  /\ tries' = [tries EXCEPT ![c] = 1]
  /\ UNCHANGED <<path, daemon, said, mine, conn, accepted, kills>>

\* the kernel's answer: nobody has the name, somebody listens, or nobody listens any
\* more (or not yet)
Connect(c) ==
  /\ pc[c] = "connecting"
  /\ \/ path = None /\ Goto(c, "launch") /\ UNCHANGED conn
     \/ path # None /\ daemon[path] \in {"listening", "leaving"}
        /\ Goto(c, "asking") /\ conn' = [conn EXCEPT ![c] = path]
     \/ path # None /\ daemon[path] \notin {"listening", "leaving"}
        /\ Goto(c, "refused") /\ UNCHANGED conn
  /\ UNCHANGED <<path, daemon, said, tries, mine, accepted, kills>>

\* mutant: the file of a dead daemon is left there
Unlink_Kept(c) ==
  /\ pc[c] = "refused" /\ Goto(c, "launch")
  /\ UNCHANGED <<path, daemon, said, tries, mine, conn, accepted, kills>>

\* ECONNREFUSED: the file is removed, whoever bound it by now
Unlink(c) ==
  /\ pc[c] = "refused" /\ Goto(c, "launch")
  /\ path' = None
  /\ UNCHANGED <<daemon, said, tries, mine, conn, accepted, kills>>

\* lancerDaemon
Launch(c) ==
  /\ pc[c] = "launch" /\ Goto(c, "launching")
  /\ \E d \in Daemons :
       /\ daemon[d] = "unborn" /\ \A e \in 1..d - 1 : daemon[e] # "unborn"
       /\ daemon' = [daemon EXCEPT ![d] = "starting"]
       /\ mine' = [mine EXCEPT ![c] = d]
  /\ UNCHANGED <<path, said, tries, conn, accepted, kills>>

\* one more turn of the loop, or the end of it
Again(c) ==
  IF tries[c] < MaxTries
    THEN Goto(c, "connecting") /\ tries' = [tries EXCEPT ![c] = @ + 1]
    ELSE Goto(c, "failed") /\ UNCHANGED tries

\* the launcher reads "ready" or "busy", or hears first that its daemon ended: nothing makes
\* Node tell of the end of a process after what it said
Signal(c) ==
  /\ pc[c] = "launching"
  /\ \/ said[mine[c]] # "nothing" /\ Again(c)
     \/ daemon[mine[c]] = "off" /\ Goto(c, "failed") /\ UNCHANGED tries
  /\ mine' = [mine EXCEPT ![c] = None]
  /\ UNCHANGED <<path, daemon, said, conn, accepted, kills>>

\* mutant: the loss of the socket is not heard
Cut_Deaf(c) ==
  /\ pc[c] = "served" /\ daemon[conn[c]] \in {"off", "closed"}
  /\ conn' = [conn EXCEPT ![c] = None]
  /\ Goto(c, "gone") /\ UNCHANGED <<path, daemon, said, mine, accepted, kills, tries>>

\* the daemon is gone: before its answer, another turn; after it, the manager's business
Cut(c) ==
  /\ pc[c] \in {"asking", "served"} /\ daemon[conn[c]] \in {"off", "closed"}
  /\ conn' = [conn EXCEPT ![c] = None]
  /\ IF pc[c] = "asking" THEN Again(c) ELSE Goto(c, "gone") /\ UNCHANGED tries
  /\ UNCHANGED <<path, daemon, said, mine, accepted, kills>>

\* a proxy dies or gives its socket back
Die(c) ==
  /\ c \in MayDie /\ pc[c] \notin {"idle", "failed", "gone"}
  /\ Goto(c, "gone") /\ mine' = [mine EXCEPT ![c] = None]
  /\ UNCHANGED <<path, daemon, said, tries, conn, accepted, kills>>

---------------------------------------------------------------------------
(* A daemon.                                                               *)

\* demarrer: bind, which fails when the file exists
Start(d) ==
  /\ daemon[d] = "starting"
  /\ \/ path = None /\ path' = d
        /\ daemon' = [daemon EXCEPT ![d] = "bound"] /\ UNCHANGED said
     \/ path # None /\ UNCHANGED path
        /\ daemon' = [daemon EXCEPT ![d] = "off"] /\ said' = [said EXCEPT ![d] = "busy"]
  /\ UNCHANGED <<pc, tries, mine, conn, accepted, kills>>

Listen(d) ==
  /\ daemon[d] = "bound"
  /\ daemon' = [daemon EXCEPT ![d] = "listening"] /\ said' = [said EXCEPT ![d] = "ready"]
  /\ UNCHANGED <<path, pc, tries, mine, conn, accepted, kills>>

Accept(c) ==
  /\ conn[c] # None /\ c \notin accepted /\ daemon[conn[c]] = "listening"
  /\ accepted' = accepted \cup {c}
  /\ UNCHANGED <<path, daemon, said, pc, tries, mine, conn, kills>>

Answer(c) ==
  /\ pc[c] = "asking" /\ c \in accepted /\ daemon[conn[c]] = "listening"
  /\ Goto(c, "served")
  /\ UNCHANGED <<path, daemon, said, tries, mine, conn, accepted, kills>>

\* mutant: the daemon leaves with the last client that had a profile
Departure_Alone(c) ==
  /\ c \in accepted /\ pc[c] = "gone" /\ daemon[conn[c]] = "listening"
  /\ conn' = [conn EXCEPT ![c] = None] /\ accepted' = accepted \ {c}
  /\ IF \A b \in Heard(conn[c]) \ {c} : pc[b] # "served"
       THEN daemon' = [daemon EXCEPT ![conn[c]] = "leaving"]
       ELSE UNCHANGED daemon
  /\ UNCHANGED <<path, said, pc, tries, mine, kills>>


\* _sortirSiInutile, once a client left and its instance is tidied: is anybody heard?
Departure(c) ==
  /\ c \in accepted /\ pc[c] = "gone" /\ daemon[conn[c]] = "listening"
  /\ conn' = [conn EXCEPT ![c] = None] /\ accepted' = accepted \ {c}
  /\ IF Heard(conn[c]) = {c} THEN daemon' = [daemon EXCEPT ![conn[c]] = "leaving"]
                             ELSE UNCHANGED daemon
  /\ UNCHANGED <<path, said, pc, tries, mine, kills>>

\* arreter closes the listener; closing may remove the file, as Node documents
Close(d) ==
  /\ daemon[d] = "leaving"
  /\ daemon' = [daemon EXCEPT ![d] = "closed"]
  /\ path' \in {path, None}
  /\ accepted' = accepted \ Heard(d)
  /\ UNCHANGED <<said, pc, tries, mine, conn, kills>>

\* then arreter removes the file, whoever bound it by now, and the process exits
Exit(d) ==
  /\ daemon[d] = "closed" /\ daemon' = [daemon EXCEPT ![d] = "off"]
  /\ path' = None
  /\ UNCHANGED <<said, pc, tries, mine, conn, accepted, kills>>

\* SIGTERM or SIGINT, once the daemon said it is ready: arreter, whoever is connected
Terminate(d) ==
  /\ kills < MaxKills /\ daemon[d] = "listening"
  /\ kills' = kills + 1
  /\ daemon' = [daemon EXCEPT ![d] = "leaving"]
  /\ accepted' = accepted \ Heard(d)
  /\ UNCHANGED <<path, said, pc, tries, mine, conn>>

\* kill -9, or any signal before: the file stays
Kill(d) ==
  /\ kills < MaxKills /\ daemon[d] \notin {"unborn", "off"}
  /\ kills' = kills + 1
  /\ daemon' = [daemon EXCEPT ![d] = "off"]
  /\ accepted' = accepted \ Heard(d)
  /\ UNCHANGED <<path, said, pc, tries, mine, conn>>

\* a client that died in the queue of a daemon that is gone leaves nothing
Forget(c) ==
  /\ pc[c] = "gone" /\ conn[c] # None /\ daemon[conn[c]] \in {"off", "closed"}
  /\ conn' = [conn EXCEPT ![c] = None]
  /\ UNCHANGED <<path, daemon, said, pc, tries, mine, accepted, kills>>

---------------------------------------------------------------------------
ClientStep(c) ==
  Connect(c) \/ Unlink(c) \/ Launch(c) \/ Signal(c) \/ Cut(c)
DaemonStep(d) == Start(d) \/ Listen(d) \/ Close(d) \/ Exit(d)
Serve(c) == Accept(c) \/ Answer(c) \/ Departure(c) \/ Forget(c)

Next ==
  \/ \E c \in Clients : Acquire(c) \/ ClientStep(c) \/ Serve(c) \/ Die(c)
  \/ \E d \in Daemons : DaemonStep(d) \/ Terminate(d) \/ Kill(d)

\* the event loops of the processes that live, and the kernel; nobody has to ask, to
\* leave or to be killed
Fairness ==
  /\ \A c \in Clients :
       /\ WF_vars(ClientStep(c)) /\ WF_vars(Departure(c)) /\ WF_vars(Forget(c))
       /\ WF_vars(Accept(c)) /\ WF_vars(Answer(c))
  /\ \A d \in Daemons : WF_vars(DaemonStep(d))

Spec == Init /\ [][Next]_vars
LiveSpec == Spec /\ Fairness

---------------------------------------------------------------------------
(* Properties.                                                             *)

Alive(d) == daemon[d] \in {"bound", "listening", "leaving", "closed"}

Kept(c) == c \in accepted /\ conn[c] # None /\ daemon[conn[c]] = "listening"

\* A daemon never leaves of itself a client it has heard, served or not yet: only a signal,
\* kill -9 or one that daemon-main.js:97 hears, takes its socket from it (_sortirSiInutile
\* asks for the connections, not for the instances).
HeardIsKept ==
  kills = 0 => \A c \in Clients : c \in accepted \/ pc[c] = "served" => Kept(c)

\* Daemons that no signal ended leave no file behind, whatever happened to the file in
\* between (arreter).
NoStaleFile == kills = 0 /\ path # None => daemon[path] # "off"

\* Every acquisition ends: an instance, an error, or the end of its proxy
\* (acquirerProfil: "Sans ca, l'agent malchanceux n'obtient JAMAIS son navigateur").
Settles ==
  \A c \in Clients : pc[c] = "connecting" ~> pc[c] \in {"served", "failed", "gone"}

Still(c) == \A b \in Clients \ {c} : pc[b] \in {"idle", "failed", "gone"}

Alone(c) ==
  /\ pc[c] = "connecting" /\ tries[c] = 1 /\ kills = MaxKills /\ Still(c)
  /\ \A d \in Daemons : daemon[d] \in {"unborn", "off"}

\* The file of a daemon that is gone does not stop the next client: alone, and with no signal
\* left to come, it gets its profile at its first call (connecter: ECONNREFUSED is the one case
\* in which something is removed).
StaleFileNoObstacle ==
  \A c \in Clients : Alone(c) ~> pc[c] \in {"served", "gone"} \/ ~Still(c)

\* A daemon whose clients have all gone, and that heard one, leaves, or hears another
\* (_onConnexion: a daemon that never served a profile used to stay).
Deserted(d) == Heard(d) # {} /\ \A c \in Heard(d) : pc[c] = "gone"


\* The inductive invariant of DaemonChannelProofs.
Inductive ==
  /\ TypeOK
  /\ kills = 0 /\ path # None => Alive(path)
  /\ \A c \in accepted : Kept(c)
  /\ \A c \in Clients :
       /\ kills = 0 /\ pc[c] = "served" => c \in accepted
       /\ pc[c] \in {"asking", "served"} => conn[c] # None
       /\ pc[c] \notin {"asking", "served", "gone"} => conn[c] = None
=============================================================================
