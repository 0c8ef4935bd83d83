------------------------------ MODULE Manager ------------------------------
(***************************************************************************)
(* The proxy's pool of backends (src/manager.js), in http mode: one        *)
(* backend, one HTTP session and one socket to the daemon per profile.     *)
(* The router awaits nothing between two client messages, so calls of get, *)
(* setActiveProfile, restartProfile, of the hot reload and of the automatic*)
(* restart overlap; each is a thread of turns of one event loop.           *)
(*                                                                         *)
(* A number of Ids names what one acquisition gives: the socket, the       *)
(* transport over it and the Backend, made together in _makeTransport.     *)
(* When an await settles, what waited for it runs before any other event   *)
(* (microtasks): the guard Quiet.                                          *)
(***************************************************************************)
EXTENDS Naturals, FiniteSets

CONSTANTS
  Profiles,   \* names that may be in profiles.json
  Specs,      \* what buildSpec may give for a profile: command and arguments
  Absent,     \* the profile is not in profiles.json
  Default,    \* defaultProfile
  Pinned,     \* PW_MCP_PROFILE, or Absent
  Calls,      \* bound: calls in a behaviour, whoever makes them
  Ops,        \* which calls the client makes
  MaxIds,     \* bound: acquisitions that succeed
  MaxEdits    \* bound: accepted edits of profiles.json

None == 0
Ids == 1..MaxIds

ASSUME NamesAssumption ==
  /\ Default \in Profiles /\ Pinned \in Profiles \cup {Absent}
  /\ Absent \notin Profiles \cup Specs
ASSUME BoundsAssumption ==
  /\ MaxIds \in Nat /\ MaxEdits \in Nat
  /\ Ops \subseteq {"active", "switch", "restart"}

VARIABLES
  config,   \* spec of each profile of profiles.json, or Absent
  active,   \* activeProfile
  pool,     \* backends: profile -> backend, or None
  conns,    \* _connexions: profile -> socket, or None
  open,     \* sockets this process has not destroyed
  st,       \* state of each backend; "closing": stopped, 'close' not emitted yet
  prof,     \* the profile each was made for
  spec,     \* the spec its transport carries
  calls,    \* the calls in progress, by slot
  born,     \* acquisitions so far
  edits     \* edits so far

poolVars == <<pool, conns, open, st>>
bornVars == <<prof, spec, born>>
vars == <<config, active, poolVars, bornVars, calls, edits>>

AllOps == {"active", "switch", "restart", "auto", "reconcile"}
Free == [pc |-> "free", op |-> "active", prof |-> Default, prev |-> Default,
         spec |-> Absent, on |-> None, todo |-> {}]

TypeOK ==
  /\ config \in [Profiles -> Specs \cup {Absent}]
  /\ active \in Profiles
  /\ pool \in [Profiles -> Ids \cup {None}]
  /\ conns \in [Profiles -> Ids \cup {None}]
  /\ open \subseteq Ids
  /\ st \in [Ids -> {"unborn", "starting", "ready", "closing", "exited"}]
  /\ prof \in [Ids -> Profiles]
  /\ spec \in [Ids -> Specs \cup {Absent}]
  /\ calls \in [Calls -> [pc : {"free", "acquiring", "waiting", "ok", "failed"},
                          op : AllOps, prof : Profiles, prev : Profiles,
                          spec : Specs \cup {Absent}, on : Ids \cup {None},
                          todo : SUBSET (Profiles \X Ids)]]
  /\ born \in 0..MaxIds
  /\ edits \in Nat

\* a file the manager accepts (_loadConfig)
Accepted(cfg) == cfg[Default] # Absent /\ (Pinned # Absent => cfg[Pinned] # Absent)

Init ==
  /\ config \in {cfg \in [Profiles -> Specs] : Accepted(cfg)}
  /\ active = IF Pinned # Absent THEN Pinned ELSE Default
  /\ pool = [p \in Profiles |-> None]
  /\ conns = [p \in Profiles |-> None]
  /\ open = {}
  /\ st = [k \in Ids |-> "unborn"]
  /\ prof = [k \in Ids |-> Default]
  /\ spec = [k \in Ids |-> Absent]
  /\ calls = [i \in Calls |-> Free]
  /\ born = 0
  /\ edits = 0

Pooled(p) == pool[p] # None
Pool(p, S) == Pooled(p) /\ st[pool[p]] \in S
Settled(i) == calls[i].pc = "waiting" /\ st[calls[i].on] \in {"ready", "exited"}
Quiet == \A i \in Calls : ~Settled(i)
Busy(i) == calls[i].pc \in {"acquiring", "waiting"}

---------------------------------------------------------------------------
(* What the calls share.                                                   *)

\* backends K stopped, profiles P out of the pool and their sockets destroyed.  A
\* stopped backend exits when its DELETE was answered or broken.
Drop(P, K) ==
  /\ pool' = [p \in Profiles |-> IF p \in P THEN None ELSE pool[p]]
  /\ conns' = [p \in Profiles |-> IF p \in P THEN None ELSE conns[p]]
  /\ open' = open \ {conns[p] : p \in P}
  /\ st' = [k \in Ids |-> IF k \in K /\ st[k] # "exited" THEN "closing" ELSE st[k]]

\* of a call that ended, only what it was and how it ended matters
End(i, how) == calls' = [calls EXCEPT ![i] = [Free EXCEPT !.pc = how, !.op = calls[i].op,
                                                          !.prof = calls[i].prof]]

\* _makeTransport up to its await: the spec is the one of this moment
Acquiring(i, op, p, prev, cfg, todo) ==
  calls' = [calls EXCEPT ![i] = [pc |-> "acquiring", op |-> op, prof |-> p, prev |-> prev,
                                 spec |-> cfg[p], on |-> None, todo |-> todo]]

\* get(p), when it has to wait: on a backend that starts already, or for a new one.
\* One that exited is taken out first; its socket stays until the new one arrives.
Get(i, op, p) ==
  \/ /\ Pool(p, {"starting"})
     /\ calls' = [calls EXCEPT ![i] = [Free EXCEPT !.pc = "waiting", !.op = op, !.prof = p,
                                                   !.prev = active, !.on = pool[p]]]
     /\ UNCHANGED <<st, pool>>
  \/ /\ ~Pooled(p) \/ Pool(p, {"exited"})
     /\ pool' = [pool EXCEPT ![p] = None]
     /\ Acquiring(i, op, p, active, config, {})
     /\ UNCHANGED st

\* mutant: the socket of the previous profile is given back, its backend kept
Become_KeepsBackend(target, previous) ==
  /\ active' = target
  /\ conns' = IF previous # target THEN [conns EXCEPT ![previous] = None] ELSE conns
  /\ open' = IF previous # target THEN open \ {conns[previous]} ELSE open
  /\ UNCHANGED <<pool, st>>

\* the end of setActiveProfile: only now is the previous profile given back
Become(target, previous) ==
  /\ active' = target
  /\ IF previous # target
     THEN Drop({previous}, IF Pooled(previous) THEN {pool[previous]} ELSE {})
     ELSE UNCHANGED poolVars

---------------------------------------------------------------------------
(* The calls of the client.                                                *)

\* slots have no meaning: they are used in one order
Idle(i) == i = CHOOSE j \in Calls : calls[j].pc = "free"

Starts(i, op) == op \in Ops /\ calls[i].pc = "free" /\ Idle(i) /\ Quiet

\* active(), in front of every passthrough, initialize and tools/list
Active(i) ==
  /\ Starts(i, "active") /\ config[active] # Absent
  /\ IF Pool(active, {"ready"}) THEN End(i, "ok") /\ UNCHANGED <<st, pool>>
                                ELSE Get(i, "active", active)
  /\ UNCHANGED <<config, active, conns, open, bornVars, edits>>

\* mutant: the previous profile is given back before the target is obtained
Switch_ReleasesFirst(i, target) ==
  /\ Starts(i, "switch") /\ config[target] # Absent
  /\ IF Pool(target, {"ready"})
     THEN Become(target, active) /\ End(i, "ok")
     ELSE /\ Drop({active}, IF Pooled(active) THEN {pool[active]} ELSE {})
          /\ Acquiring(i, "switch", target, active, config, {})
          /\ UNCHANGED active
  /\ UNCHANGED <<config, bornVars, edits>>

\* setActiveProfile
Switch(i, target) ==
  /\ Starts(i, "switch") /\ config[target] # Absent
  /\ IF Pool(target, {"ready"})
     THEN Become(target, active) /\ End(i, "ok")
     ELSE Get(i, "switch", target) /\ UNCHANGED <<active, conns, open>>
  /\ UNCHANGED <<config, bornVars, edits>>

\* restartProfile: stop, give back, ask again.  For a profile with a fixed directory it also
\* kills what runs on it (sweepByCmd): to a pool, this one or another's, that is a backend
\* that breaks, and any may at any moment (InitBreaks, Breaks).
Renew(i, op, p) ==
  /\ Drop({p}, IF Pooled(p) THEN {pool[p]} ELSE {})
  /\ Acquiring(i, op, p, active, config, {})

Restart(i, p) ==
  /\ Starts(i, "restart") /\ config[p] # Absent
  /\ Renew(i, "restart", p)
  /\ UNCHANGED <<config, active, bornVars, edits>>

---------------------------------------------------------------------------
(* Hot reload.                                                             *)

\* _reconcile from one await to the next, over the pairs <<profile, backend>> it
\* captured and has not seen yet.  Only the active profile is asked for again at once.
Reconcile(i, todo, cfg, act) ==
  LET stale(e)  == cfg[e[1]] # Absent /\ spec[e[2]] # cfg[e[1]]
      awaits(e) == stale(e) /\ e[1] = act
      out(S)    == {e \in S : cfg[e[1]] = Absent \/ stale(e)}
      drop(S)   == Drop({e[1] : e \in out(S)}, {e[2] : e \in out(S)})
  IN \/ /\ \A e \in todo : ~awaits(e)
        /\ drop(todo)
        /\ calls' = [calls EXCEPT ![i] = [Free EXCEPT !.pc = "ok", !.op = "reconcile"]]
     \/ \E e \in todo, seen \in SUBSET todo :
          /\ awaits(e) /\ e \notin seen /\ \A f \in seen : ~awaits(f)
          /\ drop(seen \cup {e})
          /\ Acquiring(i, "reconcile", e[1], act, cfg, todo \ (seen \cup {e}))

Entries == {<<p, pool[p]>> : p \in {q \in Profiles : Pooled(q)}}

\* an edit that _loadConfig accepts; an edit it refuses changes nothing
Reload(i) ==
  /\ calls[i].pc = "free" /\ Idle(i) /\ Quiet /\ edits < MaxEdits
  /\ \E p \in Profiles, s \in Specs \cup {Absent} :
       LET cfg == [config EXCEPT ![p] = s]
           act == IF cfg[active] = Absent THEN Default ELSE active
       IN /\ cfg # config /\ Accepted(cfg)
          /\ config' = cfg
          /\ active' = act
          /\ Reconcile(i, Entries, cfg, act)
  /\ edits' = edits + 1
  /\ UNCHANGED bornVars

---------------------------------------------------------------------------
(* What the calls wait for.                                                *)

\* mutant: the socket of the profile is overwritten, the former one never destroyed
Arrive_Overwrites(i) ==
  LET p == calls[i].prof
      k == born + 1
  IN /\ calls[i].pc = "acquiring" /\ Quiet /\ born < MaxIds
     /\ born' = k
     /\ open' = open \cup {k}
     /\ conns' = [conns EXCEPT ![p] = k]
     /\ pool' = [pool EXCEPT ![p] = k]
     /\ st' = [st EXCEPT ![k] = "starting"]
     /\ prof' = [prof EXCEPT ![k] = p]
     /\ spec' = [spec EXCEPT ![k] = calls[i].spec]
     /\ calls' = [calls EXCEPT ![i].pc = "waiting", ![i].on = k]
     /\ UNCHANGED <<config, active, edits>>

\* acquerirProfil resolves: a socket, a transport, a backend, in place of whatever the
\* profile has by now; the one it replaces is not stopped
Arrive(i) ==
  LET p == calls[i].prof
      k == born + 1
  IN /\ calls[i].pc = "acquiring" /\ Quiet /\ born < MaxIds
     /\ born' = k
     /\ open' = (open \ {conns[p]}) \cup {k}
     /\ conns' = [conns EXCEPT ![p] = k]
     /\ pool' = [pool EXCEPT ![p] = k]
     /\ st' = [st EXCEPT ![k] = "starting"]
     /\ prof' = [prof EXCEPT ![k] = p]
     /\ spec' = [spec EXCEPT ![k] = calls[i].spec]
     /\ calls' = [calls EXCEPT ![i].pc = "waiting", ![i].on = k]
     /\ UNCHANGED <<config, active, edits>>

\* a failed call: reported to the client, alerted (auto), or logged (reconcile)
Fail(i) ==
  IF calls[i].op = "reconcile"
  THEN Reconcile(i, calls[i].todo, config, active) /\ UNCHANGED active
  ELSE End(i, "failed") /\ UNCHANGED <<active, poolVars>>

AcquireFails(i) ==
  /\ calls[i].pc = "acquiring" /\ Quiet
  /\ Fail(i)
  /\ UNCHANGED <<config, bornVars, edits>>

\* the await of b.start() returns or throws
Resume(i) ==
  /\ Settled(i)
  /\ IF st[calls[i].on] = "exited" THEN Fail(i)
     ELSE CASE calls[i].op = "switch" ->
                 Become(calls[i].prof, calls[i].prev) /\ End(i, "ok")
            [] calls[i].op = "reconcile" ->
                 Reconcile(i, calls[i].todo, config, active) /\ UNCHANGED active
            [] OTHER -> End(i, "ok") /\ UNCHANGED <<active, poolVars>>
  /\ UNCHANGED <<config, bornVars, edits>>

---------------------------------------------------------------------------
(* Backends.                                                               *)

Turn(k, from, to) ==
  /\ Quiet /\ st[k] = from
  /\ st' = [st EXCEPT ![k] = to]

Elsewhere == <<config, active, pool, conns, open, bornVars, calls, edits>>

\* initialize is answered, when it is: it has no deadline, the watchdog looks only at what
\* the client asked, and a stream cut after its headers is logged and no more
InitOk(k) == Turn(k, "starting", "ready") /\ UNCHANGED Elsewhere

\* error or end of the transport, before or after initialize
InitBreaks(k) == Turn(k, "starting", "exited") /\ UNCHANGED Elsewhere
Breaks(k) == Turn(k, "ready", "exited") /\ UNCHANGED Elsewhere

\* mutant: 'close' waits for an answer to the DELETE, which a killed server never gives
Closed_IfAnswered(k) == FALSE

\* 'close' of a stopped transport, once its DELETE is answered or broken
Closed(k) == Turn(k, "closing", "exited") /\ UNCHANGED Elsewhere

\* mutant: the event of a backend that was replaced restarts the profile all the same
Watched_AnyBackend(k) == TRUE

\* the guard of _onBackendUnresponsive: still the backend of its profile
Watched(k) == pool[prof[k]] = k

\* the watchdog declares k frozen.  The manager restarts the profile, unless it has
\* done so too often (shouldAutoRestart) or the profile is gone from the file.
Freeze(k) ==
  /\ Quiet /\ st[k] = "ready"
  /\ \/ /\ st' = [st EXCEPT ![k] = "exited"]
        /\ UNCHANGED Elsewhere
     \/ \E i \in Calls :
          /\ Watched(k) /\ calls[i].pc = "free" /\ Idle(i) /\ config[prof[k]] # Absent
          /\ pool' = [pool EXCEPT ![prof[k]] = None]
          /\ conns' = [conns EXCEPT ![prof[k]] = None]
          /\ open' = open \ {conns[prof[k]]}
          /\ st' = [st EXCEPT ![k] = "exited"]
          /\ Acquiring(i, "auto", prof[k], active, config, {})
          /\ UNCHANGED <<config, active, bornVars, edits>>

Call(i) == \/ Active(i) \/ \E p \in Profiles : Switch(i, p) \/ Restart(i, p)
           \/ Reload(i)
Wait(i) == Arrive(i) \/ AcquireFails(i)
Event(k) == InitOk(k) \/ InitBreaks(k) \/ Breaks(k) \/ Closed(k) \/ Freeze(k)

Next == \/ \E i \in Calls : Call(i) \/ Wait(i) \/ Resume(i)
        \/ \E k \in Ids : Event(k)

Spec == Init /\ [][Next]_vars

\* An acquisition is answered or times out (daemon-client.js); what waits is resumed; a
\* closed transport says so, once its DELETE was answered or the end of its server broke it.
\* Nothing makes a server answer initialize, or break.
Fairness ==
  /\ \A i \in Calls : WF_vars(Wait(i)) /\ WF_vars(Resume(i))
  /\ \A k \in Ids : WF_vars(Closed(k))

FairSpec == Spec /\ Fairness
---------------------------------------------------------------------------
(* Properties.                                                             *)

\* The sockets this process keeps open are the ones _connexions can close, each
\* under its own profile: a socket lost by overlapping calls would hold a browser in
\* the daemon for as long as the proxy lives (manager.js:67-70, 360, 367-373).
SocketsTracked ==
  /\ open = {conns[p] : p \in Profiles} \ {None}
  /\ \A p \in Profiles : conns[p] # None => prof[conns[p]] = p

\* A backend of the pool never outlives the socket that keeps its server: that was
\* the spawn loop of 02/08 (manager.js:378-382).
PooledHasSocket ==
  \A p \in Profiles : Pooled(p) => pool[p] \in open /\ conns[p] = pool[p]

\* The pool never holds a backend this process has stopped: get() would start it
\* again on a closed transport (manager.js:243-256).
PooledNotStopped ==
  \A p \in Profiles : Pooled(p) => st[pool[p]] \in {"starting", "ready", "exited"}

\* A call names only backends that exist, of the profile it is about.
CallsNameBackends ==
  \A i \in Calls :
    /\ calls[i].pc = "waiting" => calls[i].on \in 1..born /\ prof[calls[i].on] = calls[i].prof
    /\ \A e \in calls[i].todo : e[2] \in 1..born /\ prof[e[2]] = e[1]

BornAreKnown ==
  /\ \A k \in Ids : k <= born <=> st[k] # "unborn"
  /\ \A p \in Profiles : conns[p] <= born

Inductive == /\ TypeOK
             /\ SocketsTracked
             /\ PooledHasSocket
             /\ PooledNotStopped
             /\ CallsNameBackends
             /\ BornAreKnown

\* Until it succeeds, a switch to another profile leaves the agent the profile, backend and
\* socket it works with; when it fails, for good (manager.js:384-385, 392).
SwitchFailsSafe ==
  [][\A i \in Calls :
       /\ calls'[i] # calls[i] /\ calls'[i].op = "switch" /\ calls'[i].pc # "ok"
       /\ calls'[i].prof # active
       /\ Pool(active, {"starting", "ready"})
       => /\ active' = active
          /\ pool'[active] = pool[active]
          /\ conns'[active] = conns[active]
          /\ st'[pool[active]] = st[pool[active]]]_vars

\* What happens to a backend that has been replaced concerns nobody: its breaking or
\* freezing moves neither the pool nor the sockets (manager.js:282).
StaleEventsIgnored ==
  [][\A k \in Ids :
       st[k] # "exited" /\ st'[k] = "exited" /\ pool[prof[k]] # k
         => UNCHANGED <<pool, conns, open>>]_vars

Initializing(i) == calls[i].pc = "waiting" /\ st[calls[i].on] = "starting"

\* Every call ends, whatever the other calls do to the backend it waits for: the hang
\* of 23/07 (manager.js:242-247, backend.js:86-89); unless it waits for ever for a server
\* that took initialize, neither answers nor breaks, and that no other call stops.
CallsEnd == \A i \in Calls : []<>~Busy(i) \/ <>[]Initializing(i)

===========================================================================
