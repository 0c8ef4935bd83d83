--------------------------- MODULE ServerDaemon ---------------------------
(***************************************************************************)
(* The daemon that owns the browsers (src/server-daemon.js): one process,  *)
(* one thread, N clients, ONE instance per client.  A client is one        *)
(* connection that asks once (daemon-client.js sends exactly one acquire); *)
(* its socket staying open is what keeps its instance alive.               *)
(*                                                                         *)
(* One action is one turn of the daemon's event loop: what the code does   *)
(* between two awaits on something outside the process (port, readiness,   *)
(* exit event, Chrome letting its directory go).  The store operations     *)
(* materialiser and snapshotRetour contain no await, so each is one step;  *)
(* the queue in front of them (_serie) never holds two.                    *)
(***************************************************************************)
EXTENDS Naturals, FiniteSets

CONSTANTS
  Clients,      \* the sockets that may connect; each acquires at most once
  Keys,         \* `identite || profil`: what instance numbers are counted by
  Requests,     \* what a client may ask for: [key, kind, persist]
  Limit,        \* maxBrowsers; 0 stands for `null`, no limit
  PortRace,     \* may a foreign process answer on the allotted port?
  MaxBoots      \* bound: daemons started in a behaviour

Kinds == {"isolated", "snapshot", "inplace"}

ASSUME RequestsAssumption ==
  Requests \subseteq [key : Keys, kind : Kinds, persist : BOOLEAN]
ASSUME BoundsAssumption ==
  Limit \in Nat /\ MaxBoots \in Nat /\ PortRace \in BOOLEAN

VARIABLES
  daemon,    \* the daemon process: none yet, up, exited by itself, killed
  boots,     \* how many daemons have been started
  counters,  \* _compteurs: instances numbered so far, per key (volatile)
  req,       \* what each client asks for
  sock,      \* its socket: not yet connected, open, left by it, cut by a death
  phase,     \* where its acquisition stands
  reply,     \* what the daemon wrote back
  num,       \* the n of its instance id
  server,    \* the guardian and the server it carries; spared: the kill did not end it
  exited,    \* etat.exited: the exit event of the guardian was delivered
  chrome,    \* is a Chrome running on the instance directory?
  dirs,      \* instance directories on disk
  finis,     \* directories renamed `<dir>.fini`, on disk
  saved,     \* clients whose session reached the vault whole
  alerts,    \* <<why, client>>: what the operator was told
  pass,      \* a pass of the concierge: none, or it has asked and found no daemon
  tenants,   \* clients whose Chrome the listing of attendreLibre named
  overlooked \* history: a listing did not show their processes or a pass did not end
             \* them, or they came after that pass had asked for a daemon

daemonVars  == <<daemon, boots, counters>>
clientVars  == <<req, sock, phase, reply, num>>
processVars == <<server, exited, chrome>>
diskVars    == <<dirs, finis, saved>>
seenVars    == <<pass, tenants, overlooked>>
vars == <<daemonVars, clientVars, processVars, diskVars, alerts, seenVars>>

Phases == {"none", "starting", "probing", "live", "closing", "unlocking",
           "storing", "ended", "refused", "lost"}
Replies == {"none", "ok", "error"}

Up == daemon = "up"
Alive(c) == server[c] \in {"running", "spared"}
Pending   == {"starting", "probing"}                \* inside _acquerir
Tidying   == {"closing", "unlocking", "storing"}    \* counted by _rangements
InFlight  == Pending \cup Tidying \cup {"live"}

Instances == {c \in Clients : phase[c] = "live"}    \* this._instances
Snapshot(c) == req[c].kind = "snapshot"
Dir(c) == <<req[c].key, num[c]>>                    \* instancesDir/<key>-<n>

TypeOK ==
  /\ daemon \in {"absent", "up", "exited", "killed"}
  /\ boots \in Nat
  /\ counters \in [Keys -> Nat]
  /\ req \in [Clients -> Requests]
  /\ sock \in [Clients -> {"new", "open", "left", "cut"}]
  /\ phase \in [Clients -> Phases]
  /\ reply \in [Clients -> Replies]
  /\ num \in [Clients -> Nat]
  /\ server \in [Clients -> {"none", "running", "spared", "dead"}]
  /\ exited \in [Clients -> BOOLEAN]
  /\ chrome \in [Clients -> BOOLEAN]
  /\ dirs \subseteq Keys \X Nat
  /\ finis \subseteq Keys \X Nat
  /\ saved \subseteq Clients
  /\ alerts \subseteq {"shared", "locked", "oversize"} \X Clients
  /\ pass \in {"idle", "asked"}
  /\ tenants \subseteq Clients
  /\ overlooked \subseteq Clients

Init ==
  /\ daemon = "absent"
  /\ boots = 0
  /\ counters = [k \in Keys |-> 0]
  /\ req \in [Clients -> Requests]
  /\ sock = [c \in Clients |-> "new"]
  /\ phase = [c \in Clients |-> "none"]
  /\ reply = [c \in Clients |-> "none"]
  /\ num = [c \in Clients |-> 0]
  /\ server = [c \in Clients |-> "none"]
  /\ exited = [c \in Clients |-> FALSE]
  /\ chrome = [c \in Clients |-> FALSE]
  /\ dirs = {}
  /\ finis = {}
  /\ saved = {}
  /\ alerts = {}
  /\ pass = "idle"
  /\ tenants = {} /\ overlooked = {}

---------------------------------------------------------------------------
(* The process dies or stops: every socket is cut, and whatever was in     *)
(* flight is lost.  The disk and the other processes stay.                 *)

\* mutant: a tidying in progress is no reason to stay (the loss of 05/09)
Useful_NoTidying(s, p) == \E c \in Clients : s[c] = "open" \/ p[c] = "live"

Useful(s, p) == \E c \in Clients : s[c] = "open" \/ p[c] \in Tidying \cup {"live"}

Cut(s)  == [c \in Clients |-> IF s[c] = "open" THEN "cut" ELSE s[c]]
Lose(p) == [c \in Clients |-> IF p[c] \in InFlight THEN "lost" ELSE p[c]]

\* s and p are the sockets and the phases a handler leaves behind; _sortirSiInutile
\* is its last statement.  A pending acquisition is no reason to stay.
SortirSiInutile(s, p) ==
  IF Useful(s, p) THEN sock' = s /\ phase' = p /\ UNCHANGED daemon
                  ELSE sock' = Cut(s) /\ phase' = Lose(p) /\ daemon' = "exited"

Die ==
  /\ Up
  /\ daemon' = "killed"
  /\ sock' = Cut(sock)
  /\ phase' = Lose(phase)
  /\ UNCHANGED <<boots, counters, req, reply, num, exited, chrome, diskVars, alerts, seenVars>>

\* kill -9, out of memory: the guardians learn it later, by end of file
Killed == Die /\ UNCHANGED server

\* SIGTERM or SIGINT: arreter() kills the servers of the table, saving nothing; what
\* it fails to kill is left to the guardians
Terminated ==
  /\ Die
  /\ \E killed \in SUBSET Instances :
       server' = [c \in Clients |-> IF c \in killed /\ Alive(c) THEN "dead" ELSE server[c]]

Boot ==
  /\ ~Up
  /\ boots < MaxBoots
  /\ daemon' = "up"
  /\ boots' = boots + 1
  /\ counters' = [k \in Keys |-> 0]
  /\ UNCHANGED <<clientVars, processVars, diskVars, alerts, seenVars>>

---------------------------------------------------------------------------
(* Acquiring.                                                              *)

Connect(c) ==
  /\ Up
  /\ sock[c] = "new"
  /\ sock' = [sock EXCEPT ![c] = "open"]
  /\ UNCHANGED <<daemonVars, req, phase, reply, num, processVars, diskVars, alerts, seenVars>>

Reply(c, r) == reply' = [reply EXCEPT ![c] = r]

\* validerRequete or the token says no
Invalid(c) ==
  /\ Up /\ sock[c] = "open" /\ phase[c] = "none"
  /\ phase' = [phase EXCEPT ![c] = "refused"]
  /\ Reply(c, "error")
  /\ UNCHANGED <<daemonVars, req, sock, num, processVars, diskVars, alerts, seenVars>>

PlaceDisponible == Limit = 0 \/ Cardinality(Instances) < Limit

\* mutant: the limit evicts another client's browser instead of refusing
OverLimit_Evicts(c) ==
  /\ Up /\ sock[c] = "open" /\ phase[c] = "none"
  /\ ~PlaceDisponible
  /\ \E d \in Instances :
       /\ phase' = [phase EXCEPT ![c] = "starting", ![d] = "closing"]
       /\ server' = [server EXCEPT ![d] = "dead"]
  /\ UNCHANGED <<daemonVars, req, sock, reply, num, exited, chrome, diskVars, alerts, seenVars>>

OverLimit(c) ==
  /\ Up /\ sock[c] = "open" /\ phase[c] = "none"
  /\ ~PlaceDisponible
  /\ phase' = [phase EXCEPT ![c] = "refused"]
  /\ Reply(c, "error")
  /\ UNCHANGED <<daemonVars, req, sock, num, processVars, diskVars, alerts, seenVars>>

SharesIdentity(c) ==
  /\ req[c].kind # "isolated"
  /\ \E d \in Instances : req[d].kind # "isolated" /\ req[d].key = req[c].key

\* mutant: a directory left by another daemon is reused
Materialise_Reuses(c, dir) ==
  /\ phase' = [phase EXCEPT ![c] = "starting"]
  /\ dirs' = IF Snapshot(c) THEN dirs \cup {dir} ELSE dirs
  /\ UNCHANGED reply

\* _serie(materialiser).  A directory of that name is never overwritten; a copy that
\* fails halfway leaves what it copied, for it is outside the try of _acquerir.
Materialise(c, dir) ==
  \/ /\ ~(Snapshot(c) /\ dir \in dirs)
     /\ phase' = [phase EXCEPT ![c] = "starting"]
     /\ dirs' = IF Snapshot(c) THEN dirs \cup {dir} ELSE dirs
     /\ UNCHANGED reply
  \/ /\ Snapshot(c)
     /\ phase' = [phase EXCEPT ![c] = "refused"]
     /\ Reply(c, "error")
     /\ dirs' = dirs \cup {dir}

\* _acquerir up to its first wait: limit, number, warning, directory
Acquire(c) ==
  LET n == counters[req[c].key] + 1 IN
  /\ Up /\ sock[c] = "open" /\ phase[c] = "none"
  /\ PlaceDisponible
  /\ counters' = [counters EXCEPT ![req[c].key] = n]
  /\ num' = [num EXCEPT ![c] = n]
  /\ alerts' = alerts \cup (IF SharesIdentity(c) THEN {<<"shared", c>>} ELSE {})
  /\ Materialise(c, <<req[c].key, n>>)
  /\ UNCHANGED <<daemon, boots, req, sock, processVars, finis, saved, seenVars>>

\* supprimerInstance: a removal that fails is logged, and the directory stays
Removed(dir, set) == {set, set \ {dir}}

\* mutant: the failure is logged and the client left waiting
GiveUp_Silent(c) ==
  /\ phase' = [phase EXCEPT ![c] = "refused"]
  /\ dirs' \in IF Snapshot(c) THEN Removed(Dir(c), dirs) ELSE {dirs}
  /\ UNCHANGED reply

\* the catch of _acquerir: the directory that served nobody is removed
GiveUp(c) ==
  /\ phase' = [phase EXCEPT ![c] = "refused"]
  /\ dirs' \in IF Snapshot(c) THEN Removed(Dir(c), dirs) ELSE {dirs}
  /\ Reply(c, "error")

Spawn(c) ==
  /\ Up /\ phase[c] = "starting"
  /\ server' = [server EXCEPT ![c] = "running"]
  /\ phase' = [phase EXCEPT ![c] = "probing"]
  /\ UNCHANGED <<daemonVars, req, sock, reply, num, exited, chrome, diskVars, alerts, seenVars>>

SpawnFails(c) ==
  /\ Up /\ phase[c] = "starting"
  /\ GiveUp(c)
  /\ UNCHANGED <<daemonVars, req, sock, num, processVars, finis, saved, alerts, seenVars>>

\* verdict 'pret': somebody answers on the port.  The client may be gone by now:
\* the instance is entered all the same, with a listener that will never be called.
Ready(c) ==
  /\ Up /\ phase[c] = "probing"
  /\ server[c] = "running" \/ PortRace
  /\ phase' = [phase EXCEPT ![c] = "live"]
  /\ Reply(c, "ok")
  /\ UNCHANGED <<daemonVars, req, sock, num, processVars, diskVars, alerts, seenVars>>

\* treeKill, which never throws: a kill that fails is not noticed
Kill(c) ==
  \/ server' = [server EXCEPT ![c] = "dead"]
  \/ server[c] = "running" /\ server' = [server EXCEPT ![c] = "spared"]

\* mutant: the aborted server is not killed
NotReady_NoKill(c) ==
  /\ Up /\ phase[c] = "probing"
  /\ GiveUp(c)
  /\ UNCHANGED <<daemonVars, req, sock, num, processVars, finis, saved, alerts, seenVars>>

\* verdicts 'mort' and 'muet': the aborted server is killed
NotReady(c) ==
  /\ Up /\ phase[c] = "probing"
  /\ Kill(c)
  /\ GiveUp(c)
  /\ UNCHANGED <<daemonVars, req, sock, num, exited, chrome, finis, saved, alerts, seenVars>>

---------------------------------------------------------------------------
(* Tidying: _finirInstance and _rangerInstance.                            *)

\* what a phase becomes once the exit event is known
AfterExit(c) == IF Snapshot(c) THEN "unlocking" ELSE "ended"

\* attendreLibre lists the processes once, as it begins.  A listing that fails is an
\* empty one (prockill.js): a Chrome that runs is then named by nobody.
List(c) ==
  IF Snapshot(c) /\ chrome[c]
  THEN \/ tenants' = tenants \cup {c} /\ UNCHANGED overlooked
       \/ overlooked' = overlooked \cup {c} /\ UNCHANGED tenants
  ELSE UNCHANGED <<tenants, overlooked>>

\* the 'close' event of the socket: the two listeners, in order
Closed(c, p) == SortirSiInutile([sock EXCEPT ![c] = "left"], [phase EXCEPT ![c] = p])

ClientLeaves(c) ==
  /\ Up /\ sock[c] = "open"
  /\ \/ /\ phase[c] # "live"
        /\ Closed(c, phase[c])
        /\ UNCHANGED <<server, tenants, overlooked>>
     \/ /\ phase[c] = "live" /\ exited[c]
        /\ Closed(c, AfterExit(c))
        /\ List(c)
        /\ UNCHANGED server
     \/ /\ phase[c] = "live" /\ ~exited[c]
        /\ Closed(c, "closing")
        /\ Kill(c)
        /\ UNCHANGED <<tenants, overlooked>>
     \/ /\ phase[c] = "live" /\ ~exited[c]          \* the kill throws: nothing is tidied
        /\ Closed(c, "ended")
        /\ server' = [server EXCEPT ![c] = IF @ = "running" THEN "spared" ELSE @]
        /\ UNCHANGED <<tenants, overlooked>>
  /\ UNCHANGED <<boots, counters, req, reply, num, exited, chrome, diskVars, alerts, pass>>

\* the 'exit' event of the guardian reaches the daemon
ExitEvent(c) ==
  /\ Up /\ server[c] = "dead" /\ ~exited[c] /\ phase[c] \in {"probing", "live", "closing"}
  /\ exited' = [exited EXCEPT ![c] = TRUE]
  /\ IF phase[c] \in {"live", "closing"}
     THEN SortirSiInutile(sock, [phase EXCEPT ![c] = AfterExit(c)]) /\ List(c)
     ELSE UNCHANGED <<sock, phase, daemon, tenants, overlooked>>
  /\ UNCHANGED <<boots, counters, req, reply, num, server, chrome, diskVars, alerts, pass>>

\* mutant: the rename alone decides, as on a system that does not lock files
Free_RenameOnly(c) == TRUE

\* none of the processes that were listed is alive
Free(c) == ~(c \in tenants /\ chrome[c])

\* attendreLibre: the directory is renamed out of reach of any late writer, unless the
\* target name is taken; of one that is gone, an empty target is handed back
Unlock(c) ==
  /\ Up /\ phase[c] = "unlocking"
  /\ Free(c)
  /\ \/ Dir(c) \in dirs /\ Dir(c) \notin finis /\ dirs' = dirs \ {Dir(c)}
     \/ Dir(c) \notin dirs /\ UNCHANGED dirs
  /\ finis' = finis \cup {Dir(c)}
  /\ phase' = [phase EXCEPT ![c] = "storing"]
  /\ tenants' = tenants \ {c}
  /\ UNCHANGED <<daemonVars, req, sock, reply, num, processVars, saved, alerts>>
  /\ UNCHANGED <<pass, overlooked>>

\* attendreLibre returns null: a process listed lives, or the rename fails, for the
\* whole budget
UnlockTimeout(c) ==
  /\ Up /\ phase[c] = "unlocking"
  /\ alerts' = alerts \cup {<<"locked", c>>}
  /\ SortirSiInutile(sock, [phase EXCEPT ![c] = "ended"])
  /\ tenants' = tenants \ {c}
  /\ UNCHANGED <<boots, counters, req, reply, num, processVars, diskVars, pass, overlooked>>

\* what was copied under a Chrome, or from a directory taken away, is no session kept
Whole(c) == {c} \ overlooked

\* mutant: the removal runs in a finally, after a snapshot that threw as well
Stored_Finally(c) ==
  /\ finis' = finis \ {Dir(c)}
  /\ \/ saved' = saved \cup Whole(c) /\ UNCHANGED alerts
     \/ alerts' = alerts \cup {<<"oversize", c>>} /\ UNCHANGED saved
     \/ UNCHANGED <<saved, alerts>>

\* snapshotRetour, then supprimerInstance; it is not reached when the first throws
Stored(c) ==
  \/ /\ finis' \in Removed(Dir(c), finis)
     /\ \/ ~req[c].persist /\ UNCHANGED <<saved, alerts>>
        \/ req[c].persist /\ saved' = saved \cup Whole(c) /\ UNCHANGED alerts
        \/ req[c].persist /\ alerts' = alerts \cup {<<"oversize", c>>} /\ UNCHANGED saved
  \/ req[c].persist /\ UNCHANGED <<finis, saved, alerts>>

\* mutant: the end of a tidying does not ask whether the daemon is still useful
Store_Forgets(c) ==
  /\ Up /\ phase[c] = "storing"
  /\ Stored(c)
  /\ phase' = [phase EXCEPT ![c] = "ended"]
  /\ UNCHANGED <<daemonVars, req, sock, reply, num, processVars, dirs, seenVars>>

Store(c) ==
  /\ Up /\ phase[c] = "storing"
  /\ Stored(c)
  /\ SortirSiInutile(sock, [phase EXCEPT ![c] = "ended"])
  /\ UNCHANGED <<boots, counters, req, reply, num, processVars, dirs, seenVars>>

---------------------------------------------------------------------------
(* The processes around the daemon.                                        *)

\* Chrome is started by the first tool call, so by a client that has the URL
ChromeStarts(c) ==
  /\ Alive(c) /\ reply[c] = "ok" /\ ~chrome[c]
  /\ chrome' = [chrome EXCEPT ![c] = TRUE]
  /\ UNCHANGED <<daemonVars, clientVars, server, exited, diskVars, alerts, seenVars>>

\* it writes where it was told to: a directory that went under it is there again
ChromeWrites(c) ==
  /\ chrome[c] /\ Snapshot(c)
  /\ dirs' = dirs \cup {Dir(c)}
  /\ UNCHANGED <<daemonVars, clientVars, processVars, finis, saved, alerts, seenVars>>

\* it closes when it wants; it may outlive its server by the time of a clean close
ChromeCloses(c) ==
  /\ chrome[c]
  /\ chrome' = [chrome EXCEPT ![c] = FALSE]
  /\ UNCHANGED <<daemonVars, clientVars, server, exited, diskVars, alerts, seenVars>>

\* a server that dies of itself takes its guardian along (child-guard.js)
ServerDies(c) ==
  /\ Alive(c)
  /\ server' = [server EXCEPT ![c] = "dead"]
  /\ UNCHANGED <<daemonVars, clientVars, exited, chrome, diskVars, alerts, seenVars>>

\* the guardian reads end of file: its daemon is gone
GuardianEof(c) ==
  /\ phase[c] = "lost" /\ Alive(c)
  /\ server' = [server EXCEPT ![c] = "dead"]
  /\ UNCHANGED <<daemonVars, clientVars, exited, chrome, diskVars, alerts, seenVars>>

\* janitor.js finds no daemon; one may come before the pass goes on
ConciergeAsks ==
  /\ ~Up /\ pass = "idle"
  /\ pass' = "asked"
  /\ UNCHANGED <<daemonVars, clientVars, processVars, diskVars, alerts>>
  /\ UNCHANGED <<tenants, overlooked>>

\* It kills what its listing shows and removes every directory, as one step (Janitor.tla
\* takes it apart).  The listing, a kill or a removal may fail: alive are the sessions
\* whose processes it does not end, and what it could not remove stays.
ConciergeSweeps ==
  /\ pass = "asked"
  /\ pass' = "idle"
  /\ \E alive \in SUBSET {c \in Clients : Alive(c) \/ chrome[c]} :
       /\ server' = [c \in Clients |-> IF Alive(c) /\ c \notin alive THEN "dead" ELSE server[c]]
       /\ chrome' = [c \in Clients |-> chrome[c] /\ c \in alive]
       /\ overlooked' = overlooked \cup alive \cup {c \in Clients : phase[c] \in InFlight}
  /\ dirs' \in SUBSET dirs /\ finis' \in SUBSET finis
  /\ UNCHANGED <<daemonVars, clientVars, exited, saved, alerts, tenants>>

Acquiring(c) == Invalid(c) \/ OverLimit(c) \/ Acquire(c)
Probed(c) == Ready(c) \/ NotReady(c)
Daemon(c) == \/ Spawn(c) \/ SpawnFails(c) \/ Probed(c) \/ ExitEvent(c)
             \/ Unlock(c) \/ UnlockTimeout(c) \/ Store(c)
Client(c) == Connect(c) \/ Acquiring(c) \/ ClientLeaves(c)
Process(c) == \/ ChromeStarts(c) \/ ChromeWrites(c) \/ ChromeCloses(c)
              \/ ServerDies(c) \/ GuardianEof(c)

Next ==
  \/ Boot \/ Killed \/ Terminated \/ ConciergeAsks \/ ConciergeSweeps
  \/ \E c \in Clients : Client(c) \/ Daemon(c) \/ Process(c)

Spec == Init /\ [][Next]_vars

\* The event loop goes on with an acquisition: port, spawn and readiness all have a
\* budget; the guardian of a killed daemon reads its end of file.  Nothing forces a
\* client to come or to leave, a server to die, a tidying to progress, a daemon to be
\* started or a Chrome to let go.
Fairness ==
  \A c \in Clients :
    /\ WF_vars(Acquiring(c) \/ Spawn(c) \/ SpawnFails(c) \/ Probed(c))
    /\ WF_vars(GuardianEof(c))

FairSpec == Spec /\ Fairness
---------------------------------------------------------------------------
(* Properties.                                                             *)

\* Two browsers never run on the same instance directory, across restarts of the
\* daemon too: numbers start again at 1, and only the refusal of materialiser to
\* reuse a directory keeps a new session off the files of a dying Chrome
\* (identity-store.js:114-116).  But for the sessions a listing, a kill or a late pass
\* overlooked: their directory went under them, and its name with it.
OneChromePerDirectory ==
  \A c, d \in Clients \ overlooked :
    c # d /\ chrome[c] /\ chrome[d] /\ Snapshot(c) /\ Snapshot(d) => Dir(c) # Dir(d)

\* No step takes the directory away from under a running Chrome it was shown
\* (server-daemon.js:404-406, 416-427): the processes are listed once, so no Chrome may
\* start between that listing and the rename.
ChromeHasItsDirectory ==
  \A c \in Clients \ overlooked : chrome[c] /\ Snapshot(c) => Dir(c) \in dirs

\* The snapshot is taken at rest: server dead, and no Chrome but one that no listing
\* showed (_rangerInstance).
StoredAtRest ==
  \A c \in Clients :
    phase[c] = "storing" => server[c] = "dead" /\ (chrome[c] => c \in overlooked)

\* Why the three hold, in a form every step preserves.  A holder is a session whose
\* directory something may still be writing to.
Holders ==
  {c \in Clients \ overlooked :
     /\ Snapshot(c)
     /\ \/ phase[c] \in Pending \cup {"live", "closing", "unlocking"}
        \/ Alive(c) /\ reply[c] = "ok"
        \/ chrome[c]}

HoldersOnDisk == \A c \in Holders : Dir(c) \in dirs
HoldersApart == \A c, d \in Holders : c # d => Dir(c) # Dir(d)

\* The sessions of one daemon are apart by their numbers, whatever goes on on the disk,
\* and apart from the holders other daemons left.
Flying == {c \in Clients : phase[c] \in InFlight}
NumbersApart ==
  \A c \in Flying :
    /\ num[c] <= counters[req[c].key]
    /\ \A d \in Flying : c # d => Dir(c) # Dir(d)
    /\ Snapshot(c) => \A d \in Holders : c # d => Dir(c) # Dir(d)

\* What is unlocked without a tenant has none.
Rest ==
  \A c \in Clients :
    phase[c] \in {"unlocking", "storing"} /\ chrome[c] =>
      c \in overlooked \/ (phase[c] = "unlocking" /\ c \in tenants)

\* Which process may be alive in which phase.
ProcessesFollowPhases ==
  \A c \in Clients :
    /\ phase[c] \in {"none", "starting"} => server[c] = "none"
    /\ phase[c] \in {"unlocking", "storing"} => server[c] = "dead"
    /\ exited[c] => server[c] = "dead"
    /\ chrome[c] => reply[c] = "ok"
    /\ reply[c] = "ok" => phase[c] \in Tidying \cup {"live", "ended", "lost"}

OnlySnapshotsUnlock ==
  \A c \in Clients : phase[c] \in {"unlocking", "storing"} => Snapshot(c)

NothingInFlightWhenDown == ~Up => \A c \in Clients : phase[c] \notin InFlight

Inductive == /\ TypeOK
             /\ ProcessesFollowPhases
             /\ OnlySnapshotsUnlock
             /\ NothingInFlightWhenDown
             /\ Rest
             /\ NumbersApart
             /\ HoldersOnDisk
             /\ HoldersApart

\* A browser in use is never taken from its client: it leaves the table when its
\* client leaves, when its own server died, or when the daemon itself is killed;
\* never for another client's sake (server-daemon.js:133-136, "never an LRU").
LeaseEndsForCause ==
  [][\A c \in Clients :
       sock[c] = "open" /\ phase[c] = "live" /\ phase'[c] # "live"
         => sock'[c] = "left" \/ exited'[c] \/ daemon' = "killed"]_vars

\* When the daemon exits of itself it cuts no client and loses no session that was
\* served or is being tidied (_sortirSiInutile, _rangements).
ExitLosesNothing ==
  [][Up /\ daemon' = "exited" =>
       \A c \in Clients :
         /\ sock'[c] = "cut" => sock[c] = "cut"
         /\ phase[c] \in Tidying \cup {"live"} => phase'[c] = "ended"]_vars

\* It exits as soon as its last reason to live goes: no handler forgets to ask
\* (server-daemon.js:183-188, the leak of 02/08).
NoIdleDaemon ==
  [][Up /\ Useful(sock, phase) => Useful(sock', phase') \/ daemon' # "up"]_vars

\* A session to be kept ends in the vault, whole, or the operator is told, or its files
\* are still on disk (_rangerInstance: every early return); but for one whose directory
\* a pass took, or whose Chrome a listing did not show.
NoSilentLoss ==
  [][\A c \in Clients \ overlooked :
       /\ phase[c] \in Tidying \cup {"live"} /\ phase'[c] = "ended"
       /\ Snapshot(c) /\ req[c].persist
       => \/ c \in saved' \/ Dir(c) \in finis' \/ Dir(c) \in dirs'
          \/ <<"locked", c>> \in alerts' \/ <<"oversize", c>> \in alerts']_vars

\* Every client that stays connected gets an answer, whatever its server does.
EveryoneAnswered ==
  \A c \in Clients : sock[c] = "open" ~> reply[c] # "none" \/ sock[c] # "open"

\* No server outlives its purpose: refused, ended, or lost with its daemon
\* (child-guard.js, and the kill of an aborted server at server-daemon.js:363).  One the
\* daemon failed to kill is its guardian's, if it is lost with its daemon.
Orphan(c) == \/ phase[c] = "lost" /\ Alive(c)
             \/ phase[c] \in {"refused", "ended"} /\ server[c] = "running"
NoOrphanServer == \A c \in Clients : Orphan(c) ~> ~Orphan(c)

\* The stage of a session as its client sees it.
Stage(p) ==
  CASE p \in Pending -> "asked" [] p = "live" -> "held" [] p \in Tidying -> "returned"
    [] p = "ended" -> "over" [] OTHER -> p

L == INSTANCE Lease WITH up <- Up, conn <- sock, broken <- {c \in Clients : exited[c]},
                         lease <- [c \in Clients |-> Stage(phase[c])], kept <- saved

\* The daemon does what Lease promises.
Promise == L!Spec

---------------------------------------------------------------------------
(* What a comment says and the code does not do.                           *)

\* "chaque instance vivante a, par construction, un client qui la tient"
\* (server-daemon.js:134-135).  A client that left during its own acquisition
\* leaves an instance nobody holds when another client keeps the daemon alive.
EveryInstanceHeld == \A c \in Clients : phase[c] = "live" => sock[c] = "open"
===========================================================================
