----------------------------- MODULE Handshake -----------------------------
(***************************************************************************)
(* What the client is told of the server and its tools (src/router.js),    *)
(* from a live backend or from memory (src/handshake-cache.js, shared by   *)
(* the proxies of a machine): served while no backend of the active        *)
(* profile runs, confronted with the live list at the first call that      *)
(* starts one.                                                             *)
(*                                                                         *)
(* An answer is the list a backend gives: its command, and the version of  *)
(* its package when it started.  Starting and stopping are the manager's   *)
(* business: here a start ends or not, and a profile has one backend.      *)
(* What initialize answers is not told apart: it is remembered, or not.    *)
(***************************************************************************)
EXTENDS Naturals, Sequences

CONSTANTS
  Profiles, Keys,
  KeyOf,      \* cleHandshake of each profile's command
  Default,    \* the active profile of a new proxy
  MaxUpdates, \* bound: updates of each command's package
  MaxRestarts, \* bound: restart_profile
  OtherKeys,  \* the commands of another proxy
  MaxEntries  \* the ceiling of the file

ASSUME HandshakeAssumption ==
  /\ KeyOf \in [Profiles -> Keys] /\ Default \in Profiles
  /\ MaxUpdates \in [Keys -> Nat] /\ OtherKeys \subseteq Keys /\ MaxEntries \in Nat \ {0}
  /\ MaxRestarts \in Nat
  /\ <<>> \notin Profiles

VARIABLES
  version,  \* the installed version of what each command runs
  active,   \* activeProfile
  backend,  \* manager.backends: None, Starting, Dead, or what the backend answers
  file,     \* the entries on disk, oldest first
  other,    \* another proxy's completer: the key it writes in the file it read, or
            \* None; it writes once
  servis,   \* _servis: the list served from memory
  verifies, \* _verifies
  confront, \* confrontations in flight: the list each compares with, or None
  greeting, \* initialize, the first message: due, waiting for a backend, or over
  list,     \* the profile a tools/list waits for, or None
  call,     \* the profile a relayed call waits for, or None
  doing,    \* the switch or restart in flight
  late,     \* profiles a degraded answer still waits for (_refreshWhenReady)
  seen,     \* what the client was last answered
  restarts, \* restarts so far
  news      \* history: since it last asked, whether it was told of a change ("told"), or
            \* what would have told it was lost

store == <<file, other>>                     \* the file, and who writes it
memory == <<servis, verifies, confront>>     \* SouvenirHandshake
pending == <<greeting, list, call, doing, late>>       \* what the router waits for
vars == <<version, restarts, active, backend, store, memory, pending, seen, news>>

None == <<>>
Starting == <<"starting">>
Dead == <<"dead">>
Degraded == <<"degraded">>
Over == <<"over">>
Answers == UNION {{k} \X (0..MaxUpdates[k]) : k \in Keys}
Idle == [at |-> "none", profile |-> Default]
At(there, p) == [at |-> there, profile |-> p]
Ready(p) == backend[p] \in Answers

EntryType == [key : Keys, init : BOOLEAN, tools : Answers \cup {None}]

TypeOK ==
  /\ version \in [Keys -> Nat] /\ \A k \in Keys : version[k] <= MaxUpdates[k]
  /\ restarts \in 0..MaxRestarts /\ active \in Profiles
  /\ backend \in [Profiles -> Answers \cup {None, Starting, Dead}]
  /\ file \in Seq(EntryType)
  /\ other \in {None, Over} \cup OtherKeys \X Seq(EntryType)
  /\ greeting \in {"due", "waiting", "over"}
  /\ servis \in Answers \cup {None}
  /\ verifies \subseteq Profiles
  /\ confront \in [Profiles -> Answers \cup {None}]
  /\ list \in Profiles \cup {None}
  /\ call \in Profiles \cup {None}
  /\ doing \in [at : {"none", "switch", "restart"}, profile : Profiles]
  /\ late \subseteq Profiles
  /\ seen \in Answers \cup {None, Degraded}
  /\ news \in {"none", "told", "lost"}

\* a new proxy; former ones may have left the answer of its profile
Init ==
  /\ version = [k \in Keys |-> 0] /\ restarts = 0 /\ active = Default
  /\ backend = [p \in Profiles |-> None]
  /\ file \in {<<>>, <<[key |-> KeyOf[Default], init |-> TRUE, tools |-> <<KeyOf[Default], 0>>]>>}
  /\ other = None
  /\ servis = None /\ verifies = {} /\ confront = [p \in Profiles |-> None]
  /\ greeting = "due" /\ list = None /\ call = None /\ doing = Idle /\ late = {}
  /\ seen = None /\ news = "none"

---------------------------------------------------------------------------
(* The file: ecrireEntree, lireEntree, completer.                          *)

Entries(doc, k) == {doc[i] : i \in {j \in DOMAIN doc : doc[j].key = k}}
Memory(k) == {e.tools : e \in Entries(file, k)} \ {None}

\* the entry, with what it had, goes last; the oldest ones go out.  A key has one entry.
Others(doc, k) ==
  IF Entries(doc, k) = {} THEN doc
  ELSE LET i == CHOOSE j \in DOMAIN doc : doc[j].key = k
       IN  SubSeq(doc, 1, i - 1) \o SubSeq(doc, i + 1, Len(doc))

Entry(doc, k, init, tools) ==
  [key |-> k, init |-> init \/ \E e \in Entries(doc, k) : e.init,
   tools |-> IF tools = None /\ Entries(doc, k) # {}
             THEN (CHOOSE e \in Entries(doc, k) : TRUE).tools ELSE tools]

Written(doc, k, init, tools) ==
  LET all == Append(Others(doc, k), Entry(doc, k, init, tools))
  IN  IF Len(all) > MaxEntries THEN SubSeq(all, Len(all) - MaxEntries + 1, Len(all)) ELSE all

\* memoriser: under the key of the profile active now
Memorise(init, tools) == file' = Written(file, KeyOf[active], init, tools)

\* another proxy: completer reads the file, then renames its own over it.  Bound: it reads
\* before our client's first message, so that it overwrites all we remember.
OtherReads(k) ==
  /\ other = None /\ greeting = "due" /\ other' = <<k, file>>
  /\ UNCHANGED <<version, active, backend, file, memory, pending, seen, news>>

OtherWrites ==
  /\ other \notin {None, Over} /\ other' = Over
  /\ file' = Written(other[2], other[1], FALSE, <<other[1], version[other[1]]>>)
  /\ UNCHANGED <<version, active, backend, memory, pending, seen, news>>

---------------------------------------------------------------------------
(* Backends, as the manager keeps them.                                    *)

Waited(p) ==
  \/ greeting = "waiting" /\ p = Default
  \/ list = p \/ call = p \/ p \in late
  \/ doing # Idle /\ doing.profile = p

Create(p) ==
  /\ Waited(p) /\ backend[p] \in {None, Dead}
  /\ backend' = [backend EXCEPT ![p] = Starting]
  /\ UNCHANGED <<version, active, store, memory, pending, seen, news>>

Started(p) ==
  /\ backend[p] = Starting
  /\ backend' = [backend EXCEPT ![p] = <<KeyOf[p], version[KeyOf[p]]>>]
  /\ UNCHANGED <<version, active, store, memory, pending, seen, news>>

\* the end of a backend rejects what waits for it: a list becomes degraded, a
\* confrontation is only logged; the next one is another Backend, never confronted
Ended(p, state) ==
  /\ backend' = [backend EXCEPT ![p] = state]
  /\ confront' = [confront EXCEPT ![p] = None] /\ verifies' = verifies \ {p}
  /\ late' = late \ {p}
  /\ call' = IF call = p THEN None ELSE call
  /\ list' = IF list = p THEN None ELSE list
  /\ greeting' = IF greeting = "waiting" /\ p = Default THEN "over" ELSE greeting
  /\ seen' = IF list' # list \/ greeting' # greeting THEN Degraded ELSE seen

\* what the client will be told of thanks to p
Owes(p) == confront[p] # None \/ Waited(p)

\* a backend dies, or there never was one: no transport.  The client is not told of it,
\* nor of the next one, unless a list from memory is still to be confronted.
Crash(p) ==
  /\ \/ backend[p] \notin {None, Dead} /\ Ended(p, Dead)
     \/ backend[p] = None /\ Waited(p) /\ Ended(p, None)
  /\ doing' = IF doing.profile = p THEN Idle ELSE doing
  /\ news' = IF news = "none" /\ (Owes(p) \/ servis # seen) THEN "lost" ELSE news
  /\ UNCHANGED <<version, active, store, servis>>

\* the packages of a command are updated
Update(k) ==
  /\ version[k] < MaxUpdates[k] /\ version' = [version EXCEPT ![k] = @ + 1]
  /\ UNCHANGED <<active, backend, store, memory, pending, seen, news>>

---------------------------------------------------------------------------
(* initialize: _handleInitialize.                                          *)

Cold == backend[active] = None   \* froid

\* from memory: no backend is started
GreetMemory ==
  /\ greeting = "due" /\ Cold /\ \E e \in Entries(file, KeyOf[active]) : e.init
  /\ greeting' = "over"
  /\ UNCHANGED <<version, active, backend, store, memory, list, call, doing, late, seen, news>>

GreetLive ==
  /\ greeting = "due" /\ ~(Cold /\ \E e \in Entries(file, KeyOf[active]) : e.init)
  /\ greeting' = "waiting"
  /\ UNCHANGED <<version, active, backend, store, memory, list, call, doing, late, seen, news>>

Greeted ==
  /\ greeting = "waiting" /\ Ready(Default) /\ greeting' = "over"
  /\ Memorise(TRUE, None)
  /\ UNCHANGED <<version, active, backend, other, memory, list, call, doing, late, seen, news>>

\* too late: the session lives, and the list will be asked for again
GreetDeadline ==
  /\ greeting = "waiting" /\ greeting' = "over" /\ seen' = Degraded
  /\ late' = late \cup {Default}
  /\ UNCHANGED <<version, active, backend, store, memory, list, call, doing, news>>

---------------------------------------------------------------------------
(* tools/list: _handleToolsList.                                           *)

\* from memory: no backend is started
ListMemory ==
  /\ greeting = "over" /\ list = None /\ Cold
  /\ \E tools \in Memory(KeyOf[active]) :
       /\ seen' = tools /\ servis' = tools
       /\ news' = IF tools[1] = KeyOf[active] THEN "none" ELSE "lost"
  /\ UNCHANGED <<version, active, backend, store, verifies, confront, pending>>

ListLive ==
  /\ greeting = "over" /\ list = None /\ ~(Cold /\ Memory(KeyOf[active]) # {})
  /\ list' = active /\ news' = "none"
  /\ UNCHANGED <<version, active, backend, store, memory, greeting, call, doing, late, seen>>

\* _collectBackendTools, once the backend is ready and has answered
Listed ==
  /\ list # None /\ Ready(list) /\ list' = None
  /\ seen' = backend[list] /\ Memorise(FALSE, backend[list])
  /\ UNCHANGED <<version, active, backend, other, memory, greeting, call, doing, late, news>>

\* mutant: nobody waits for the backend any more
Deadline_Forgets ==
  /\ list # None /\ list' = None /\ seen' = Degraded
  /\ UNCHANGED <<version, active, backend, store, memory, greeting, call, doing, late, news>>

\* too late: our own tools only, and the list again once the backend is there
Deadline ==
  /\ list # None /\ list' = None /\ seen' = Degraded
  /\ late' = late \cup {list}
  /\ UNCHANGED <<version, active, backend, store, memory, greeting, call, doing, news>>

CaughtUp(p) ==
  /\ p \in late /\ Ready(p) /\ late' = late \ {p} /\ news' = "told"
  /\ UNCHANGED <<version, active, backend, store, memory, greeting, list, call, doing, seen>>

---------------------------------------------------------------------------
(* Calls: the passthrough of _handleClientRequest, and confronter.         *)

Calls ==
  /\ greeting = "over" /\ call = None /\ call' = active
  /\ UNCHANGED <<version, active, backend, store, memory, greeting, list, doing, late, seen, news>>

Relayed ==
  /\ call # None /\ Ready(call) /\ call' = None
  /\ IF servis # None /\ call \notin verifies
       THEN /\ verifies' = verifies \cup {call} /\ servis' = None
            /\ confront' = [confront EXCEPT ![call] = servis]
       ELSE UNCHANGED memory
  /\ UNCHANGED <<version, active, backend, store, greeting, list, doing, late, seen, news>>

\* mutant: the memory is corrected, the client is not told
Confronted_Mute(p) ==
  /\ confront[p] # None /\ confront' = [confront EXCEPT ![p] = None]
  /\ Memorise(TRUE, backend[p])
  /\ UNCHANGED <<version, active, backend, other, servis, verifies, pending, seen, news>>

\* the live list is there: it is remembered, and the client told if it differs.  The debt of
\* the active profile may have been paid by a call of the former one, of the same command.
Confronted(p) ==
  /\ confront[p] # None /\ confront' = [confront EXCEPT ![p] = None]
  /\ Memorise(TRUE, backend[p])
  /\ news' = IF backend[p] # confront[p] THEN "told"
             ELSE IF p # active /\ news = "none" THEN "lost" ELSE news
  /\ UNCHANGED <<version, active, backend, other, servis, verifies, pending, seen>>

---------------------------------------------------------------------------
(* switch_profile and restart_profile: _agirSurProfil.                     *)

Switch(q) ==
  /\ greeting = "over" /\ doing = Idle /\ doing' = At("switch", q)
  /\ UNCHANGED <<version, active, backend, store, memory, greeting, list, call, late, seen, news>>

Restart(p) ==
  /\ greeting = "over" /\ doing = Idle /\ doing' = At("restart", p)
  /\ IF backend[p] # None
     THEN Ended(p, None)
     ELSE UNCHANGED <<backend, confront, verifies, greeting, list, call, late, seen>>
  /\ UNCHANGED <<version, active, store, servis, news>>

\* a switch releases the former profile
Done ==
  /\ doing # Idle /\ Ready(doing.profile) /\ doing' = Idle /\ news' = "told"
  /\ IF doing.at = "switch" THEN active' = doing.profile ELSE UNCHANGED active
  /\ IF active' # active /\ backend[active] # None
       THEN Ended(active, None)
       ELSE UNCHANGED <<backend, confront, verifies, greeting, list, call, late, seen>>
  /\ UNCHANGED <<version, store, servis>>

---------------------------------------------------------------------------
Moves ==
  \/ GreetMemory \/ GreetLive \/ Greeted \/ GreetDeadline
  \/ ListMemory \/ ListLive \/ Listed \/ Deadline
  \/ Calls \/ Relayed \/ Done \/ OtherWrites
  \/ \E p \in Profiles :
       Create(p) \/ Started(p) \/ Crash(p) \/ CaughtUp(p) \/ Confronted(p) \/ Switch(p)
  \/ \E k \in OtherKeys : OtherReads(k)
  \/ \E k \in Keys : Update(k)

Next ==
  \/ Moves /\ UNCHANGED restarts
  \/ /\ restarts < MaxRestarts /\ restarts' = restarts + 1
     /\ \E p \in Profiles : Restart(p)

Spec == Init /\ [][Next]_vars

---------------------------------------------------------------------------
(* Properties.                                                             *)

Coming == news # "none" \/ list # None \/ doing # Idle \/ late # {}

\* When the list the client holds is not the one of the backend it talks to, something
\* is on its way that will tell it: a confrontation of that very list, due or in flight, or
\* an answer (handshake-cache.js: "LE SOUVENIR NE FAIT JAMAIS FOI SEUL").  Deaths do not
\* break the promise while that list is still to be confronted.
StaleIsConfronted ==
  seen \in Answers /\ Ready(active) /\ seen # backend[active] =>
    Coming \/ servis = seen \/ \E p \in Profiles : confront[p] = seen

\* After a degraded answer, the client will be told to ask again, unless the start it
\* waited for failed (_refreshWhenReady).
DegradedIsCaughtUp == seen = Degraded => Coming

=============================================================================
