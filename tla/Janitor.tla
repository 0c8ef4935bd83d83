------------------------------ MODULE Janitor ------------------------------
(***************************************************************************)
(* The concierge (src/janitor.js, janitor-pure.js, janitor-main.js), a     *)
(* process the system starts when the user's session opens after a boot,   *)
(* and on Windows when the machine wakes, once the user installed it, or   *)
(* the user by hand: it asks whether a daemon lives, and if none does      *)
(* kills what carries our signature, then removes the directories of       *)
(* instances.  Daemons, proxies and their servers go on meanwhile; any     *)
(* call of the pass may fail.  One pass runs at a time.  ServerDaemon.tla  *)
(* takes what a pass does once it has asked as one step.                   *)
(*                                                                         *)
(* An instance is a server, its guardian and its Chrome, and a directory;  *)
(* those of a stdio proxy (Private) have no directory of ours and no       *)
(* daemon, but the same user-data-dir in their command line.  A pid stands *)
(* for one process: that the system gives it to another between the        *)
(* listing and the kill is left out.                                       *)
(***************************************************************************)
EXTENDS Naturals

CONSTANTS
  Instances,
  Private,   \* instances that a stdio proxy launches for itself
  Platforms, \* the systems checked, among win32, linux and darwin
  MaxBoots,  \* bound: daemons
  MaxReturns \* bound: boots and wakes of the machine

ASSUME JanitorAssumption ==
  /\ Private \subseteq Instances /\ MaxBoots \in Nat \ {0} /\ MaxReturns \in Nat
  /\ Platforms \subseteq {"win32", "linux", "darwin"}

VARIABLES
  boots,   \* daemons so far
  up,      \* the last one lives
  proxies, \* the private instances whose proxy lives
  owner,   \* the daemon that launched each instance; 1 for a private one
  proc,    \* its processes run
  dir,     \* its directory is there
  platform,
  armed,   \* the events on which the system starts a pass
  due,     \* it is about to start one
  returns, \* boots and wakes so far
  at,      \* how far the pass is
  victims, \* what is still to be killed, as it was listed
  doomed,  \* directories still to be removed
  asked,   \* history: the daemons there had been when the pass asked for one
  listed,  \* history: the daemons there had been at its last enumeration, if it made one
  hindered, \* history: a call of the last pass failed, or it was interrupted
  owed     \* history: the machine came back, and the installed concierge owes a pass

world == <<boots, up, proxies, owner, proc, dir>>
system == <<platform, armed, due, owed, returns>>
pass == <<at, victims, doomed, asked, listed, hindered>>
janitorVars == <<world, system, pass>>

Events == {"boot", "wake"}

Nobody == 0
Owned(i) == owner[i] # Nobody /\ IF i \in Private THEN i \in proxies ELSE up /\ owner[i] = boots

JanitorTypeOK ==
  /\ boots \in 0..MaxBoots /\ up \in BOOLEAN
  /\ proxies \subseteq Private
  /\ owner \in [Instances -> 0..MaxBoots]
  /\ proc \in [Instances -> BOOLEAN] /\ dir \in [Instances -> BOOLEAN]
  /\ platform \in Platforms /\ armed \subseteq Events
  /\ returns \in 0..MaxReturns
  /\ due \in BOOLEAN /\ owed \in BOOLEAN /\ hindered \in BOOLEAN
  /\ at \in {"idle", "asked", "kill", "purge"}
  /\ victims \subseteq Instances \X (0..MaxBoots)
  /\ doomed \subseteq Instances
  /\ asked \in 0..MaxBoots /\ listed \in 0..MaxBoots

JanitorInit ==
  /\ boots = 0 /\ up = FALSE /\ proxies = {}
  /\ owner = [i \in Instances |-> Nobody]
  /\ proc = [i \in Instances |-> FALSE] /\ dir = [i \in Instances |-> FALSE]
  /\ platform \in Platforms /\ armed = {} /\ due = FALSE /\ owed = FALSE /\ returns = 0
  /\ at = "idle" /\ victims = {} /\ doomed = {} /\ asked = 0 /\ listed = 0
  /\ hindered = FALSE

---------------------------------------------------------------------------
(* Daemons, proxies, guardians.                                            *)

Boot ==
  /\ ~up /\ boots < MaxBoots
  /\ up' = TRUE /\ boots' = boots + 1
  /\ UNCHANGED <<proxies, owner, proc, dir, system, pass>>

DaemonDies == up /\ up' = FALSE /\ UNCHANGED <<boots, proxies, owner, proc, dir, system, pass>>

\* a proxy has one server, a daemon a new name for each
Launch(i) ==
  /\ IF i \in Private THEN owner[i] = Nobody /\ proxies' = proxies \cup {i}
                      ELSE up /\ ~dir[i] /\ ~Owned(i) /\ UNCHANGED proxies
  /\ ~proc[i] /\ proc' = [proc EXCEPT ![i] = TRUE]
  /\ dir' = [dir EXCEPT ![i] = i \notin Private]
  /\ owner' = [owner EXCEPT ![i] = IF i \in Private THEN 1 ELSE boots]
  /\ UNCHANGED <<boots, up, system, pass>>

\* its client is gone: the owner stops it and removes its directory
End(i) ==
  /\ Owned(i)
  /\ owner' = [owner EXCEPT ![i] = Nobody]
  /\ proc' = [proc EXCEPT ![i] = FALSE] /\ dir' = [dir EXCEPT ![i] = FALSE]
  /\ UNCHANGED <<boots, up, proxies, system, pass>>

ProxyDies(i) ==
  /\ i \in proxies /\ proxies' = proxies \ {i}
  /\ UNCHANGED <<boots, up, owner, proc, dir, system, pass>>

\* the guardian of an orphan reads end of file
Eof(i) ==
  /\ proc[i] /\ ~Owned(i) /\ proc' = [proc EXCEPT ![i] = FALSE]
  /\ UNCHANGED <<boots, up, proxies, owner, dir, system, pass>>

---------------------------------------------------------------------------
(* The system, and the installation (janitor-main.js).                     *)

\* mutant: nobody asks Windows to run it after a sleep
Plan_BootOnly == {"boot"}

\* planInstallation.  Windows tells of the session and of the wake.  launchd tells of no wake;
\* the unit of Linux is wanted by targets of sleep, but it is enabled with --user, and the
\* manager of a user has no such target.
Plan == IF platform = "win32" THEN Events ELSE {"boot"}

\* --install, which may fail, and then leaves what was there
Install ==
  /\ armed' = Plan
  /\ UNCHANGED <<world, platform, due, owed, returns, pass>>

\* the system starts a pass, unless one runs already (IgnoreNew, oneshot)
Announced(event) ==
  /\ returns < MaxReturns /\ returns' = returns + 1
  /\ IF at' = "idle"
     THEN /\ due' = (due \/ event \in armed)
          /\ owed' = (owed \/ (armed # {} /\ (event = "boot" \/ platform = "win32")))
     ELSE UNCHANGED <<due, owed>>

Wakes ==
  /\ at' = at /\ Announced("wake")
  /\ hindered' = (hindered /\ at # "idle")
  /\ UNCHANGED <<world, platform, armed, victims, doomed, asked, listed>>

\* the machine stops, with all its processes, and boots
Restarts ==
  /\ up' = FALSE /\ proxies' = {} /\ proc' = [i \in Instances |-> FALSE]
  /\ at' = "idle" /\ victims' = {} /\ doomed' = {} /\ hindered' = FALSE
  /\ Announced("boot")
  /\ UNCHANGED <<boots, owner, dir, platform, armed, asked, listed>>

---------------------------------------------------------------------------
(* passeConcierge.                                                         *)

Hindered(how) == hindered' = (hindered \/ how)

\* a pass begins, by an event or by hand
Starts == at = "idle" /\ due' = FALSE /\ owed' = FALSE /\ UNCHANGED <<platform, armed, returns>>

\* mutant: the daemon is not asked for
Ask_Blind ==
  /\ Starts /\ at' = "asked" /\ asked' = boots /\ listed' = boots /\ hindered' = FALSE
  /\ UNCHANGED <<world, victims, doomed>>

\* daemonVivant, then the processes
Ask ==
  /\ Starts /\ ~up
  /\ at' = "asked" /\ asked' = boots /\ listed' = boots /\ hindered' = FALSE
  /\ UNCHANGED <<world, victims, doomed>>

\* with a daemon, or with a channel it cannot tell of, the pass ends here
LeftAlone ==
  /\ Starts /\ asked' = boots /\ listed' = boots /\ hindered' = ~up
  /\ UNCHANGED <<world, at, victims, doomed>>

\* what our signature tells in a command line: the guardian of a daemon's server, and, when
\* profiles.json can be read, the user-data-dir of any (uddDeLaConfig)
Signed(readable) == IF readable THEN Instances ELSE Instances \ Private

\* listProcesses; an enumeration that fails finds nobody
Enumerated(ok) == {i \in Instances : ok /\ proc[i]}

\* victimesConcierge
List ==
  /\ at = "asked" /\ at' = "kill" /\ listed' = boots
  /\ \E readable, enumerated \in BOOLEAN :
       /\ Hindered(~readable \/ ~enumerated)
       /\ victims' = {<<i, owner[i]>> : i \in Signed(readable) \cap Enumerated(enumerated)}
  /\ UNCHANGED <<world, system, doomed, asked>>

\* treeKill, which never throws, on every pid of the instance: the guardian leads its group, a
\* Chrome that left it is listed and killed by itself; what survives is a hindrance
Kill(v) ==
  /\ at = "kill" /\ v \in victims /\ victims' = victims \ {v}
  /\ \/ proc' = [proc EXCEPT ![v[1]] = @ /\ owner[v[1]] # v[2]] /\ UNCHANGED hindered
     \/ UNCHANGED proc /\ Hindered(TRUE)
  /\ UNCHANGED <<boots, up, proxies, owner, dir, system, at, doomed, asked, listed>>

\* mutant: directories before processes
Purge_Early ==
  /\ at = "kill" /\ at' = "purge" /\ listed' = boots
  /\ doomed' = {i \in Instances : dir[i]}
  /\ UNCHANGED <<world, system, victims, asked, hindered>>

\* instancesDirDeLaConfig, which may not read it, and the list of purgerInstancesOrphelines
Purge ==
  /\ at = "kill" /\ victims = {} /\ at' = "purge" /\ listed' = boots
  /\ \E readable \in BOOLEAN :
       Hindered(~readable) /\ doomed' = {i \in Instances : dir[i] /\ readable}
  /\ UNCHANGED <<world, system, victims, asked>>

Remove(i) ==
  /\ at = "purge" /\ i \in doomed /\ doomed' = doomed \ {i}
  /\ \/ dir' = [dir EXCEPT ![i] = FALSE] /\ UNCHANGED hindered
     \/ UNCHANGED dir /\ Hindered(TRUE)
  /\ UNCHANGED <<boots, up, proxies, owner, proc, system, at, victims, asked, listed>>

PassEnds ==
  /\ at = "purge" /\ doomed = {} /\ at' = "idle"
  /\ UNCHANGED <<world, system, victims, doomed, asked, listed, hindered>>

\* the pass is killed
Interrupted ==
  /\ at # "idle" /\ at' = "idle" /\ victims' = {} /\ doomed' = {} /\ Hindered(TRUE)
  /\ UNCHANGED <<world, system, asked, listed>>

---------------------------------------------------------------------------
Killing == \E v \in victims : Kill(v)
Removing == \E i \in Instances : Remove(i)

JanitorNext ==
  \/ Boot \/ DaemonDies \/ Install \/ Wakes \/ Restarts
  \/ Ask \/ LeftAlone \/ List \/ Killing \/ Purge \/ Removing \/ PassEnds \/ Interrupted
  \/ \E i \in Instances : Launch(i) \/ End(i) \/ ProxyDies(i) \/ Eof(i)

JanitorSpec == JanitorInit /\ [][JanitorNext]_janitorVars

\* The system starts the pass that is due, and lets it run.  Nothing else need happen:
\* no daemon need start, no guardian need read the end of its pipe.
Fair ==
  /\ WF_janitorVars(due /\ (Ask \/ LeftAlone)) /\ WF_janitorVars(List) /\ WF_janitorVars(Killing)
  /\ WF_janitorVars(Purge) /\ WF_janitorVars(Removing) /\ WF_janitorVars(PassEnds)

LiveSpec == JanitorSpec /\ Fair

---------------------------------------------------------------------------
(* Properties.                                                             *)

(* A daemon that starts after the pass asked, and launches before the pass *)
(* enumerates, is taken for a dead one: asked and listed tell it apart.    *)

Alone == boots = asked
Served == Instances \ Private

\* A pass that no daemon joins has found them all dead; unless one of its calls failed, it
\* has every process left of theirs on its list, and, once at the directories, every one
\* left and no process (passeConcierge).
Consistent ==
  /\ JanitorTypeOK
  /\ asked <= listed /\ listed <= boots
  /\ at # "idle" /\ Alone => ~up
  /\ at = "kill" /\ Alone /\ ~hindered => \A i \in Served : proc[i] => <<i, owner[i]>> \in victims
  /\ at = "purge" /\ Alone /\ ~hindered => \A i \in Served : ~proc[i] /\ (dir[i] => i \in doomed)

\* An instance of a daemon that lives keeps its processes and its directory, if that daemon
\* was there when the pass asked; one that came after the last enumeration keeps at least
\* its processes, a directory of a name listed before being removed all the same
\* (janitor-pure.js: with a daemon alive nothing is touched, "ZERO EXCEPTION").
DaemonsKeepTheirs ==
  [][\A i \in Served : Owned(i) /\ Owned(i)' =>
       /\ owner[i] <= asked => proc'[i] = proc[i] /\ dir'[i] = dir[i]
       /\ owner[i] > listed => proc'[i] = proc[i]]_janitorVars

Orphan(i) == (proc[i] \/ dir[i]) /\ ~Owned(i)

\* Once installed, after each boot, and each wake of Windows, no orphan is left, process or
\* directory, or a daemon lives again, or a call of the pass failed (janitor-main.js:11-13;
\* janitor.js: the next session meets neither "browser is already in use" nor its own name).
SweptAfterwards == owed ~> up \/ hindered \/ \A i \in Served : ~Orphan(i)
=============================================================================
