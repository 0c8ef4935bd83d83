---------------------------- MODULE RouterProofs ----------------------------
(* No overlap of calls, reloads and failures makes the proxy lose a socket. *)
(* The router implements the pool it stands on, and what the client asks   *)
(* reaches the account it asked it of, whatever moves meanwhile.           *)
EXTENDS Router, TLAPS

---------------------------------------------------------------------------
(* The pool (Manager.tla).                                                 *)

Tracked == SocketsTracked /\ PooledHasSocket /\ PooledNotStopped /\ BornAreKnown

\* What Drop does to what the invariant says, when the backends stopped are those of
\* the profiles given back.
LEMMA DropKeeps ==
  ASSUME TypeOK, Tracked, NEW P \in SUBSET Profiles, NEW K \in SUBSET Ids,
         \A k \in K : k <= born /\ prof[k] \in P,
         Drop(P, K), UNCHANGED bornVars
  PROVE  /\ pool' \in [Profiles -> Ids \cup {None}]
         /\ conns' \in [Profiles -> Ids \cup {None}]
         /\ open' \subseteq Ids
         /\ st' \in [Ids -> {"unborn", "starting", "ready", "closing", "exited"}]
         /\ Tracked'
<1>1. /\ pool' \in [Profiles -> Ids \cup {None}]
      /\ conns' \in [Profiles -> Ids \cup {None}]
      /\ open' \subseteq Ids
      /\ st' \in [Ids -> {"unborn", "starting", "ready", "closing", "exited"}]
  BY DEF TypeOK, Drop
<1>2. SocketsTracked'
  <2>1. \A p, q \in Profiles : conns[p] # None /\ conns[p] = conns[q] => p = q
    BY DEF Tracked, SocketsTracked
  <2>2. \A p \in Profiles : conns'[p] = IF p \in P THEN None ELSE conns[p]
    BY DEF Drop
  <2>3. open' = {conns'[p] : p \in Profiles} \ {None}
    BY <2>1, <2>2 DEF Drop, Tracked, SocketsTracked
  <2>4. \A p \in Profiles : conns'[p] # None => prof'[conns'[p]] = p
    BY <2>2 DEF Tracked, SocketsTracked, bornVars
  <2> QED BY <2>3, <2>4 DEF SocketsTracked
<1>3. PooledHasSocket'
  <2> SUFFICES ASSUME NEW p \in Profiles, pool'[p] # None
               PROVE  pool'[p] \in open' /\ conns'[p] = pool'[p]
    BY DEF PooledHasSocket, Pooled
  <2>1. p \notin P /\ pool'[p] = pool[p] /\ conns'[p] = conns[p]
    BY DEF Drop
  <2>2. pool[p] \in open /\ conns[p] = pool[p]
    BY <2>1 DEF Tracked, PooledHasSocket, Pooled
  <2>3. \A q \in P : conns[q] # conns[p]
    BY <2>1, <2>2 DEF Tracked, SocketsTracked
  <2> QED BY <2>1, <2>2, <2>3 DEF Drop
<1>4. PooledNotStopped'
  <2> SUFFICES ASSUME NEW p \in Profiles, pool'[p] # None
               PROVE  st'[pool'[p]] \in {"starting", "ready", "exited"}
    BY DEF PooledNotStopped, Pooled
  <2>1. p \notin P /\ pool'[p] = pool[p] /\ pool[p] # None
    BY DEF Drop
  <2>2. pool[p] \in Ids /\ prof[pool[p]] = p
    BY <2>1 DEF Tracked, PooledHasSocket, SocketsTracked, Pooled, TypeOK
  <2> QED BY <2>1, <2>2 DEF Drop, Tracked, PooledNotStopped, Pooled
<1>5. BornAreKnown'
  BY DEF Tracked, BornAreKnown, Drop, bornVars, TypeOK, Ids, None
<1> QED BY <1>1, <1>2, <1>3, <1>4, <1>5 DEF Tracked

CallType == [pc : {"free", "acquiring", "waiting", "ok", "failed"},
             op : AllOps, prof : Profiles, prev : Profiles,
             spec : Specs \cup {Absent}, on : Ids \cup {None},
             todo : SUBSET (Profiles \X Ids)]
CallOk(r) == /\ r.pc = "waiting" => r.on \in 1..born /\ prof[r.on] = r.prof
             /\ \A e \in r.todo : e[2] \in 1..born /\ prof[e[2]] = e[1]

\* Changing one slot to a good record keeps every slot good.
LEMMA SlotKeeps ==
  ASSUME TypeOK, CallsNameBackends, NEW i \in Calls, NEW r \in CallType, CallOk(r),
         calls' = [calls EXCEPT ![i] = r], UNCHANGED bornVars
  PROVE  calls' \in [Calls -> CallType] /\ CallsNameBackends'
<1>1. calls \in [Calls -> CallType]
  BY DEF TypeOK, CallType
<1>2. calls' \in [Calls -> CallType]
  BY <1>1
<1>3. \A j \in Calls : calls'[j] = IF j = i THEN r ELSE calls[j]
  BY <1>1
<1>4. CallsNameBackends'
  BY <1>3 DEF CallsNameBackends, CallOk, bornVars
<1> QED BY <1>2, <1>4

LEMMA EndKeeps ==
  ASSUME TypeOK, CallsNameBackends, NEW i \in Calls, NEW how \in {"ok", "failed"},
         End(i, how), UNCHANGED bornVars
  PROVE  calls' \in [Calls -> CallType] /\ CallsNameBackends'
<1> DEFINE r == [Free EXCEPT !.pc = how, !.op = calls[i].op, !.prof = calls[i].prof]
<1>1. calls[i].op \in AllOps /\ calls[i].prof \in Profiles
  BY DEF TypeOK
<1>2. r \in CallType /\ r.pc = how /\ r.todo = {}
  BY <1>1, NamesAssumption DEF CallType, Free
<1>3. CallOk(r)
  BY <1>2 DEF CallOk
<1>4. calls' = [calls EXCEPT ![i] = r]
  BY DEF End
<1> HIDE DEF r
<1> QED BY <1>2, <1>3, <1>4, SlotKeeps

LEMMA AcquiringKeeps ==
  ASSUME TypeOK, CallsNameBackends, NEW i \in Calls, NEW op \in AllOps,
         NEW p \in Profiles, NEW prev \in Profiles,
         NEW cfg \in [Profiles -> Specs \cup {Absent}],
         NEW todo \in SUBSET (Profiles \X Ids),
         \A e \in todo : e[2] \in 1..born /\ prof[e[2]] = e[1],
         Acquiring(i, op, p, prev, cfg, todo), UNCHANGED bornVars
  PROVE  calls' \in [Calls -> CallType] /\ CallsNameBackends'
<1> DEFINE r == [pc |-> "acquiring", op |-> op, prof |-> p, prev |-> prev,
                 spec |-> cfg[p], on |-> None, todo |-> todo]
<1>1. r \in CallType
  BY DEF CallType
<1>2. CallOk(r)
  BY DEF CallOk
<1>3. calls' = [calls EXCEPT ![i] = r]
  BY DEF Acquiring
<1> HIDE DEF r
<1> QED BY <1>1, <1>2, <1>3, SlotKeeps

LEMMA AcquiringAfresh ==
  ASSUME TypeOK, CallsNameBackends, NEW i \in Calls, NEW op \in AllOps, NEW p \in Profiles,
         Acquiring(i, op, p, active, config, {}), UNCHANGED bornVars
  PROVE  calls' \in [Calls -> CallType] /\ CallsNameBackends'
<1>1. config \in [Profiles -> Specs \cup {Absent}] /\ active \in Profiles
  BY DEF TypeOK
<1> DEFINE todo == {}
<1>2. todo \in SUBSET (Profiles \X Ids) /\ \A e \in todo : e[2] \in 1..born /\ prof[e[2]] = e[1]
  OBVIOUS
<1>3. Acquiring(i, op, p, active, config, todo)
  OBVIOUS
<1> HIDE DEF todo
<1> QED BY <1>1, <1>2, <1>3, AcquiringKeeps

Types == /\ pool \in [Profiles -> Ids \cup {None}]
         /\ conns \in [Profiles -> Ids \cup {None}]
         /\ open \subseteq Ids
         /\ st \in [Ids -> {"unborn", "starting", "ready", "closing", "exited"}]

\* What is left when the backends, the calls, the file and the numbers are dealt with.
LEMMA Assemble ==
  ASSUME TypeOK, Types', Tracked', calls' \in [Calls -> CallType], CallsNameBackends',
         config' \in [Profiles -> Specs \cup {Absent}], active' \in Profiles,
         UNCHANGED bornVars, edits' \in Nat
  PROVE  Inductive'
BY DEF TypeOK, Types, Inductive, Tracked, CallType, bornVars

LEMMA BecomeKeeps ==
  ASSUME TypeOK, Tracked, UNCHANGED bornVars,
         NEW target \in Profiles, NEW previous \in Profiles, Become(target, previous)
  PROVE  Types' /\ Tracked' /\ active' \in Profiles
<1> DEFINE K == IF Pooled(previous) THEN {pool[previous]} ELSE {}
<1>1. K \in SUBSET Ids /\ \A k \in K : k <= born /\ prof[k] \in {previous}
  BY DEF Tracked, PooledHasSocket, SocketsTracked, BornAreKnown, TypeOK, Pooled
<1>2. CASE previous # target
  <2>1. Drop({previous}, K)
    BY <1>2 DEF Become
  <2> HIDE DEF K
  <2> QED BY <1>1, <2>1, DropKeeps DEF Types, Become
<1>3. CASE previous = target
  BY <1>3 DEF Become, poolVars, bornVars, Types, TypeOK, Tracked, SocketsTracked,
       PooledHasSocket, PooledNotStopped, BornAreKnown, Pooled
<1> QED BY <1>2, <1>3

\* Profile p given back with its own backend, if it has one.
LEMMA RenewKeeps ==
  ASSUME TypeOK, Tracked, CallsNameBackends, UNCHANGED bornVars,
         NEW i \in Calls, NEW op \in AllOps, NEW p \in Profiles, Renew(i, op, p)
  PROVE  Types' /\ Tracked' /\ calls' \in [Calls -> CallType] /\ CallsNameBackends'
<1> DEFINE K == IF Pooled(p) THEN {pool[p]} ELSE {}
<1>1. K \in SUBSET Ids /\ \A k \in K : k <= born /\ prof[k] \in {p}
  BY DEF Tracked, PooledHasSocket, SocketsTracked, BornAreKnown, TypeOK, Pooled
<1>2. Drop({p}, K) /\ Acquiring(i, op, p, active, config, {})
  BY DEF Renew
<1>3. calls' \in [Calls -> CallType] /\ CallsNameBackends'
  BY <1>2, AcquiringAfresh
<1> HIDE DEF K
<1> QED BY <1>1, <1>2, <1>3, DropKeeps DEF Types

LEMMA ReconcileKeeps ==
  ASSUME TypeOK, Tracked, CallsNameBackends, UNCHANGED bornVars,
         NEW i \in Calls, NEW todo \in SUBSET (Profiles \X Ids),
         \A e \in todo : e[2] \in 1..born /\ prof[e[2]] = e[1],
         NEW cfg \in [Profiles -> Specs \cup {Absent}], NEW act \in Profiles,
         Reconcile(i, todo, cfg, act)
  PROVE  Types' /\ Tracked' /\ calls' \in [Calls -> CallType] /\ CallsNameBackends'
<1> DEFINE stale(e)  == cfg[e[1]] # Absent /\ spec[e[2]] # cfg[e[1]]
           awaits(e) == stale(e) /\ e[1] = act
           out(S)    == {e \in S : cfg[e[1]] = Absent \/ stale(e)}
           done      == [Free EXCEPT !.pc = "ok", !.op = "reconcile"]
<1>1. ASSUME NEW S \in SUBSET todo,
             Drop({e[1] : e \in out(S)}, {e[2] : e \in out(S)})
      PROVE  Types' /\ Tracked'
  <2> DEFINE P == {e[1] : e \in out(S)}
             K == {e[2] : e \in out(S)}
  <2>1. P \in SUBSET Profiles /\ K \in SUBSET Ids
    OBVIOUS
  <2>2. \A k \in K : k <= born /\ prof[k] \in P
    BY DEF TypeOK
  <2>3. Drop(P, K)
    BY <1>1
  <2> HIDE DEF P, K
  <2> QED BY <2>1, <2>2, <2>3, DropKeeps DEF Types
<1>2. CASE /\ Drop({e[1] : e \in out(todo)}, {e[2] : e \in out(todo)})
           /\ calls' = [calls EXCEPT ![i] = done]
  <2>1. done \in CallType /\ CallOk(done)
    BY NamesAssumption DEF Free, CallType, CallOk, AllOps
  <2> HIDE DEF done
  <2>2. calls' \in [Calls -> CallType] /\ CallsNameBackends'
    BY <1>2, <2>1, SlotKeeps
  <2> HIDE DEF out
  <2> QED BY <1>1, <1>2, <2>2
<1>3. ASSUME NEW e \in todo, NEW visited \in SUBSET todo,
             Drop({f[1] : f \in out(visited \cup {e})}, {f[2] : f \in out(visited \cup {e})}),
             Acquiring(i, "reconcile", e[1], act, cfg, todo \ (visited \cup {e}))
      PROVE  Types' /\ Tracked' /\ calls' \in [Calls -> CallType] /\ CallsNameBackends'
  <2>1. e[1] \in Profiles /\ visited \cup {e} \in SUBSET todo /\ "reconcile" \in AllOps
    BY DEF AllOps
  <2>2. calls' \in [Calls -> CallType] /\ CallsNameBackends'
    BY <1>3, <2>1, AcquiringKeeps
  <2> HIDE DEF out
  <2>3. Types' /\ Tracked'
    BY <1>1, <1>3, <2>1
  <2> QED BY <2>2, <2>3
<1> QED BY <1>2, <1>3 DEF Reconcile

THEOREM InitInductive == Init => Inductive
<1> SUFFICES ASSUME Init PROVE Inductive
  OBVIOUS
<1>1. TypeOK
  BY NamesAssumption, BoundsAssumption DEF Init, TypeOK, Free, AllOps, Ids, None
<1>2. SocketsTracked /\ PooledHasSocket /\ PooledNotStopped
  BY DEF Init, SocketsTracked, PooledHasSocket, PooledNotStopped, Pooled
<1>3. CallsNameBackends /\ BornAreKnown
  BY DEF Init, CallsNameBackends, BornAreKnown, Free, Ids, None
<1> QED BY <1>1, <1>2, <1>3 DEF Inductive

\* get(p) when it waits, and a call that ends on a ready backend
LEMMA GetKeeps ==
  ASSUME Inductive, NEW i \in Calls, NEW op \in AllOps, NEW p \in Profiles, Get(i, op, p),
         UNCHANGED <<conns, open, config, active, bornVars, edits>>
  PROVE  Inductive'
<1> USE DEF Inductive
<1>1. CASE /\ Pool(p, {"starting"})
           /\ calls' = [calls EXCEPT ![i] = [Free EXCEPT !.pc = "waiting", !.op = op,
                                      !.prof = p, !.prev = active, !.on = pool[p]]]
           /\ UNCHANGED <<st, pool>>
  <2> DEFINE r == [Free EXCEPT !.pc = "waiting", !.op = op, !.prof = p,
                                !.prev = active, !.on = pool[p]]
  <2>1. pool[p] \in Ids /\ pool[p] \in 1..born /\ prof[pool[p]] = p
    BY <1>1 DEF Pool, Pooled, PooledHasSocket, SocketsTracked, BornAreKnown, TypeOK, Ids, None
  <2>2. r \in CallType
    BY <2>1, NamesAssumption DEF Free, CallType, TypeOK
  <2>3. CallOk(r)
    BY <2>1 DEF Free, CallOk
  <2>4. calls' = [calls EXCEPT ![i] = r]
    BY <1>1
  <2> HIDE DEF r
  <2>5. calls' \in [Calls -> CallType] /\ CallsNameBackends'
    BY <2>2, <2>3, <2>4, SlotKeeps DEF bornVars
  <2>6. Types' /\ Tracked'
    BY <1>1 DEF Types, TypeOK, Tracked, SocketsTracked, PooledHasSocket, PooledNotStopped,
         BornAreKnown, Pooled, bornVars
  <2> QED BY <2>5, <2>6, Assemble DEF TypeOK
<1>2. CASE /\ pool' = [pool EXCEPT ![p] = None]
           /\ Acquiring(i, op, p, active, config, {})
           /\ UNCHANGED st
  <2>1. calls' \in [Calls -> CallType] /\ CallsNameBackends'
    BY <1>2, AcquiringAfresh
  <2>2. Types' /\ Tracked'
    BY <1>2 DEF Types, TypeOK, Tracked, SocketsTracked, PooledHasSocket, PooledNotStopped,
         BornAreKnown, Pooled, bornVars
  <2> QED BY <2>1, <2>2, Assemble DEF TypeOK
<1> QED BY <1>1, <1>2 DEF Get

LEMMA EndInductive ==
  ASSUME Inductive, NEW i \in Calls, NEW how \in {"ok", "failed"}, End(i, how),
         Types', Tracked', active' \in Profiles, UNCHANGED <<config, bornVars, edits>>
  PROVE  Inductive'
<1>1. calls' \in [Calls -> CallType] /\ CallsNameBackends'
  BY EndKeeps DEF Inductive
<1> QED BY <1>1, Assemble DEF Inductive, TypeOK

LEMMA PoolUnchanged ==
  ASSUME Inductive, UNCHANGED <<poolVars, bornVars>>
  PROVE  Types' /\ Tracked'
BY DEF Inductive, Types, TypeOK, Tracked, SocketsTracked, PooledHasSocket, PooledNotStopped,
     BornAreKnown, Pooled, bornVars, poolVars

LEMMA ActiveStep == ASSUME Inductive, NEW i \in Calls, Active(i) PROVE Inductive'
<1>1. CASE End(i, "ok") /\ UNCHANGED <<st, pool>>
  <2>1. Types' /\ Tracked'
    BY <1>1, PoolUnchanged DEF Active, poolVars
  <2> QED BY <1>1, <2>1, EndInductive DEF Active, Inductive, TypeOK
<1>2. CASE Get(i, "active", active)
  BY <1>2, GetKeeps DEF Active, AllOps, Inductive, TypeOK
<1> QED BY <1>1, <1>2 DEF Active

LEMMA SwitchStep ==
  ASSUME Inductive, NEW i \in Calls, NEW target \in Profiles, Switch(i, target)
  PROVE  Inductive'
<1>1. CASE Become(target, active) /\ End(i, "ok")
  <2>1. Types' /\ Tracked' /\ active' \in Profiles
    BY <1>1, BecomeKeeps DEF Switch, Inductive, Tracked, TypeOK
  <2> QED BY <1>1, <2>1, EndInductive DEF Switch
<1>2. CASE Get(i, "switch", target) /\ UNCHANGED <<active, conns, open>>
  BY <1>2, GetKeeps DEF Switch, AllOps
<1> QED BY <1>1, <1>2 DEF Switch

LEMMA RestartStep ==
  ASSUME Inductive, NEW i \in Calls, NEW p \in Profiles, Restart(i, p) PROVE Inductive'
<1>1. Types' /\ Tracked' /\ calls' \in [Calls -> CallType] /\ CallsNameBackends'
  BY RenewKeeps DEF Restart, Inductive, Tracked, AllOps
<1> QED BY <1>1, Assemble DEF Restart, Inductive, TypeOK

LEMMA EntriesKnown ==
  ASSUME Inductive
  PROVE  /\ Entries \in SUBSET (Profiles \X Ids)
         /\ \A e \in Entries : e[2] \in 1..born /\ prof[e[2]] = e[1]
BY DEF Inductive, Entries, Pooled, PooledHasSocket, SocketsTracked, BornAreKnown, TypeOK,
     Ids, None

LEMMA ReloadStep == ASSUME Inductive, NEW i \in Calls, Reload(i) PROVE Inductive'
<1>1. PICK p \in Profiles, s \in Specs \cup {Absent} :
        LET cfg == [config EXCEPT ![p] = s]
            act == IF cfg[active] = Absent THEN Default ELSE active
        IN config' = cfg /\ active' = act /\ Reconcile(i, Entries, cfg, act)
  BY DEF Reload
<1> DEFINE cfg == [config EXCEPT ![p] = s]
           act == IF cfg[active] = Absent THEN Default ELSE active
<1>2. cfg \in [Profiles -> Specs \cup {Absent}] /\ act \in Profiles
  BY NamesAssumption DEF Inductive, TypeOK
<1>3. config' = cfg /\ active' = act /\ Reconcile(i, Entries, cfg, act)
  BY <1>1
<1> HIDE DEF cfg, act
<1>4. TypeOK /\ Tracked /\ CallsNameBackends /\ UNCHANGED bornVars /\ edits' \in Nat
  BY DEF Reload, Inductive, Tracked, TypeOK
<1>5. Types' /\ Tracked' /\ calls' \in [Calls -> CallType] /\ CallsNameBackends'
  BY <1>2, <1>3, <1>4, EntriesKnown, ReconcileKeeps
<1> QED BY <1>2, <1>3, <1>4, <1>5, Assemble

LEMMA ArriveStep == ASSUME Inductive, NEW i \in Calls, Arrive(i) PROVE Inductive'
<1> DEFINE p == calls[i].prof
           k == born + 1
           r == [calls[i] EXCEPT !.pc = "waiting", !.on = k]
<1>0. TypeOK /\ calls[i] \in CallType
  BY DEF Inductive, TypeOK, CallType
<1>1. p \in Profiles /\ k \in Ids /\ born \in Nat /\ born < k /\ k # None
  BY <1>0, BoundsAssumption DEF Arrive, TypeOK, CallType, Ids, None
<1>2. /\ born' = k
      /\ open' = (open \ {conns[p]}) \cup {k}
      /\ conns' = [conns EXCEPT ![p] = k]
      /\ pool' = [pool EXCEPT ![p] = k]
      /\ st' = [st EXCEPT ![k] = "starting"]
      /\ prof' = [prof EXCEPT ![k] = p]
      /\ spec' = [spec EXCEPT ![k] = calls[i].spec]
      /\ calls' = [calls EXCEPT ![i] = r]
      /\ UNCHANGED <<config, active, edits>>
  <2>1. calls' = [calls EXCEPT ![i] = r]
    BY <1>0 DEF Arrive, CallType
  <2> QED BY <2>1 DEF Arrive
<1>3. \A q \in Profiles : conns[q] # k /\ pool[q] # k /\ conns[q] \in Ids \cup {None}
  BY <1>1, <1>0 DEF Inductive, BornAreKnown, TypeOK, PooledHasSocket, Pooled, Ids, None
<1>4. TypeOK'
  <2>1. r \in CallType
    BY <1>0, <1>1 DEF CallType
  <2>2. calls' \in [Calls -> CallType]
    BY <1>0, <1>2, <2>1 DEF TypeOK, CallType
  <2>3. calls[i].spec \in Specs \cup {Absent}
    BY <1>0 DEF CallType
  <2> HIDE DEF p, k, r
  <2>4. born' \in 0..MaxIds
    BY <1>1, <1>2 DEF Ids, None
  <2> QED BY <1>0, <1>1, <1>2, <2>2, <2>3, <2>4 DEF TypeOK, CallType
<1>5. SocketsTracked'
  <2> HIDE DEF p, k, r
  <2>1. \A q \in Profiles : conns'[q] = IF q = p THEN k ELSE conns[q]
    BY <1>0, <1>1, <1>2 DEF TypeOK
  <2>2. \A q \in Profiles : conns'[q] # None => prof'[conns'[q]] = q
    BY <1>0, <1>1, <1>2, <1>3, <2>1 DEF Inductive, SocketsTracked, TypeOK
  <2>3. open' = {conns'[q] : q \in Profiles} \ {None}
    <3>1. \A q, s \in Profiles : conns[q] # None /\ conns[q] = conns[s] => q = s
      BY DEF Inductive, SocketsTracked
    <3> QED BY <1>1, <1>2, <1>3, <2>1, <3>1 DEF Inductive, SocketsTracked
  <2> QED BY <2>2, <2>3 DEF SocketsTracked
<1>6. PooledHasSocket'
  <2> HIDE DEF p, k, r
  <2> SUFFICES ASSUME NEW q \in Profiles, pool'[q] # None
               PROVE  pool'[q] \in open' /\ conns'[q] = pool'[q]
    BY DEF PooledHasSocket, Pooled
  <2>1. CASE q = p
    BY <1>0, <1>1, <1>2, <2>1 DEF TypeOK
  <2>2. CASE q # p
    <3>1. pool'[q] = pool[q] /\ conns'[q] = conns[q]
      BY <1>0, <1>2, <2>2 DEF TypeOK
    <3>2. pool[q] \in open /\ conns[q] = pool[q]
      BY <3>1 DEF Inductive, PooledHasSocket, Pooled
    <3>3. conns[q] # conns[p]
      BY <1>1, <2>2, <3>1, <3>2 DEF Inductive, SocketsTracked
    <3> QED BY <1>2, <3>1, <3>2, <3>3
  <2> QED BY <2>1, <2>2
<1>7. PooledNotStopped'
  <2> HIDE DEF p, k, r
  <2> QED BY <1>0, <1>1, <1>2, <1>3 DEF Inductive, PooledNotStopped, Pooled, TypeOK
<1>8. CallsNameBackends'
  <2>1. \A j \in Calls : calls'[j] = IF j = i THEN r ELSE calls[j]
    BY <1>0, <1>2 DEF TypeOK
  <2>2. r.pc = "waiting" /\ r.on = k /\ r.prof = p /\ r.todo = calls[i].todo
    BY <1>0 DEF CallType
  <2>3. \A j \in Calls : \A e \in calls[j].todo : e[2] \in 1..born' /\ prof'[e[2]] = e[1]
    <3> SUFFICES ASSUME NEW j \in Calls, NEW e \in calls[j].todo
                 PROVE  e[2] \in 1..born' /\ prof'[e[2]] = e[1]
      OBVIOUS
    <3>1. e[2] \in 1..born /\ prof[e[2]] = e[1]
      BY DEF Inductive, CallsNameBackends
    <3> QED BY <1>0, <1>1, <1>2, <3>1 DEF TypeOK, Ids
  <2>4. \A j \in Calls : calls[j].pc = "waiting" /\ j # i =>
          calls[j].on \in 1..born' /\ prof'[calls[j].on] = calls[j].prof
    <3> SUFFICES ASSUME NEW j \in Calls, calls[j].pc = "waiting", j # i
                 PROVE  calls[j].on \in 1..born' /\ prof'[calls[j].on] = calls[j].prof
      OBVIOUS
    <3>1. calls[j].on \in 1..born /\ prof[calls[j].on] = calls[j].prof
      BY DEF Inductive, CallsNameBackends
    <3> QED BY <1>0, <1>1, <1>2, <3>1 DEF TypeOK, Ids
  <2>5. k \in 1..born' /\ prof'[k] = p
    BY <1>0, <1>1, <1>2 DEF TypeOK
  <2> HIDE DEF p, k, r
  <2> QED BY <2>1, <2>2, <2>3, <2>4, <2>5 DEF CallsNameBackends
<1>9. BornAreKnown'
  <2> HIDE DEF p, r
  <2>1. \A q \in Profiles : conns'[q] <= born'
    <3> SUFFICES ASSUME NEW q \in Profiles PROVE conns'[q] <= born'
      OBVIOUS
    <3>1. conns[q] <= born /\ conns[q] \in Ids \cup {None}
      BY <1>3 DEF Inductive, BornAreKnown
    <3> QED BY <1>0, <1>1, <1>2, <3>1 DEF TypeOK, Ids, None
  <2>2. \A j \in Ids : j <= born' <=> st'[j] # "unborn"
    BY <1>0, <1>1, <1>2 DEF Inductive, BornAreKnown, TypeOK, Ids
  <2> QED BY <2>1, <2>2 DEF BornAreKnown
<1> QED BY <1>4, <1>5, <1>6, <1>7, <1>8, <1>9 DEF Inductive

LEMMA GoesOn ==
  ASSUME Inductive, NEW i \in Calls, Reconcile(i, calls[i].todo, config, active),
         UNCHANGED <<config, active, bornVars, edits>>
  PROVE  Inductive'
<1>1. /\ calls[i].todo \in SUBSET (Profiles \X Ids)
      /\ \A e \in calls[i].todo : e[2] \in 1..born /\ prof[e[2]] = e[1]
      /\ config \in [Profiles -> Specs \cup {Absent}] /\ active \in Profiles
      /\ TypeOK /\ Tracked /\ CallsNameBackends /\ UNCHANGED bornVars
  BY DEF Inductive, TypeOK, CallsNameBackends, Tracked
<1>2. Types' /\ Tracked' /\ calls' \in [Calls -> CallType] /\ CallsNameBackends'
  BY <1>1, ReconcileKeeps
<1> QED BY <1>1, <1>2, Assemble DEF TypeOK

LEMMA FailKeeps ==
  ASSUME Inductive, NEW i \in Calls, Fail(i), UNCHANGED <<config, bornVars, edits>>
  PROVE  Inductive'
<1>1. CASE Reconcile(i, calls[i].todo, config, active) /\ UNCHANGED active
  BY <1>1, GoesOn
<1>2. CASE End(i, "failed") /\ UNCHANGED <<active, poolVars>>
  <2>1. Types' /\ Tracked'
    BY <1>2, PoolUnchanged
  <2> QED BY <1>2, <2>1, EndInductive DEF Inductive, TypeOK
<1> QED BY <1>1, <1>2 DEF Fail

LEMMA ResumeStep == ASSUME Inductive, NEW i \in Calls, Resume(i) PROVE Inductive'
<1>1. CASE Fail(i)
  BY <1>1, FailKeeps DEF Resume
<1>2. CASE Become(calls[i].prof, calls[i].prev) /\ End(i, "ok")
  <2>1. calls[i].prof \in Profiles /\ calls[i].prev \in Profiles
    BY DEF Inductive, TypeOK
  <2>2. Types' /\ Tracked' /\ active' \in Profiles
    BY <1>2, <2>1, BecomeKeeps DEF Resume, Inductive, Tracked
  <2> QED BY <1>2, <2>2, EndInductive DEF Resume
<1>3. CASE Reconcile(i, calls[i].todo, config, active) /\ UNCHANGED active
  BY <1>3, GoesOn DEF Resume
<1>4. CASE End(i, "ok") /\ UNCHANGED <<active, poolVars>>
  <2>1. Types' /\ Tracked'
    BY <1>4, PoolUnchanged DEF Resume
  <2> QED BY <1>4, <2>1, EndInductive DEF Resume, Inductive, TypeOK
<1> QED BY <1>1, <1>2, <1>3, <1>4 DEF Resume

LEMMA TurnKeeps ==
  ASSUME Inductive, NEW k \in Ids, st[k] # "unborn", NEW to \in {"ready", "exited"},
         st' = [st EXCEPT ![k] = to], UNCHANGED Elsewhere
  PROVE  Inductive'
<1>1. TypeOK'
  BY DEF Inductive, TypeOK, Elsewhere, bornVars
<1>2. SocketsTracked' /\ PooledHasSocket' /\ PooledNotStopped' /\ BornAreKnown'
  BY DEF Inductive, TypeOK, Elsewhere, bornVars, SocketsTracked, PooledHasSocket,
       PooledNotStopped, BornAreKnown, Pooled
<1>3. CallsNameBackends'
  BY DEF Inductive, Elsewhere, bornVars, CallsNameBackends
<1> QED BY <1>1, <1>2, <1>3 DEF Inductive

LEMMA FreezeStep == ASSUME Inductive, NEW k \in Ids, Freeze(k) PROVE Inductive'
<1>1. CASE st' = [st EXCEPT ![k] = "exited"] /\ UNCHANGED Elsewhere
  BY <1>1, TurnKeeps DEF Freeze
<1>2. ASSUME NEW i \in Calls, Watched(k),
             pool' = [pool EXCEPT ![prof[k]] = None],
             conns' = [conns EXCEPT ![prof[k]] = None],
             open' = open \ {conns[prof[k]]},
             st' = [st EXCEPT ![k] = "exited"],
             Acquiring(i, "auto", prof[k], active, config, {}),
             UNCHANGED <<config, active, bornVars, edits>>
      PROVE  Inductive'
  <2> DEFINE p == prof[k]
  <2>1. p \in Profiles /\ TypeOK /\ CallsNameBackends /\ Tracked
    BY DEF Inductive, TypeOK, Tracked
  <2>2. calls' \in [Calls -> CallType] /\ CallsNameBackends'
    BY <1>2, <2>1, AcquiringAfresh DEF AllOps
  <2>3. Types'
    BY <1>2 DEF Inductive, TypeOK, Types
  <2> HIDE DEF p
  <2>4. \A q \in Profiles : /\ conns'[q] = IF q = prof[k] THEN None ELSE conns[q]
                            /\ pool'[q] = IF q = prof[k] THEN None ELSE pool[q]
    BY <1>2, <2>1 DEF TypeOK
  <2>5. \A q, s \in Profiles : conns[q] # None /\ conns[q] = conns[s] => q = s
    BY <2>1 DEF Tracked, SocketsTracked
  <2>6. prof[k] \in Profiles
    BY <2>1 DEF TypeOK
  <2>7. SocketsTracked'
    <3>1. open' = {conns'[q] : q \in Profiles} \ {None}
      BY <1>2, <2>1, <2>4, <2>5, <2>6 DEF Tracked, SocketsTracked
    <3>2. \A q \in Profiles : conns'[q] # None => prof'[conns'[q]] = q
      BY <1>2, <2>1, <2>4 DEF Tracked, SocketsTracked, bornVars
    <3> QED BY <3>1, <3>2 DEF SocketsTracked
  <2>8. PooledHasSocket'
    BY <1>2, <2>1, <2>4, <2>5, <2>6 DEF Tracked, PooledHasSocket, Pooled
  <2>9. PooledNotStopped' /\ BornAreKnown'
    BY <1>2, <2>1, <2>4 DEF Tracked, PooledNotStopped, Pooled, BornAreKnown, bornVars,
         TypeOK, Freeze, Ids, None
  <2> QED BY <1>2, <2>1, <2>2, <2>3, <2>7, <2>8, <2>9, Assemble DEF Tracked, TypeOK
<1> QED BY <1>1, <1>2 DEF Freeze

LEMMA EventStep == ASSUME Inductive, NEW k \in Ids, Event(k) PROVE Inductive'
<1>1. CASE Freeze(k)
  BY <1>1, FreezeStep
<1>2. CASE InitOk(k) \/ InitBreaks(k) \/ Breaks(k) \/ Closed(k)
  BY <1>2, TurnKeeps DEF InitOk, InitBreaks, Breaks, Closed, Turn
<1> QED BY <1>1, <1>2 DEF Event

LEMMA StepInductive == Inductive /\ [Next]_vars => Inductive'
<1> SUFFICES ASSUME Inductive, [Next]_vars PROVE Inductive'
  OBVIOUS
<1>1. ASSUME NEW i \in Calls, Call(i) PROVE Inductive'
  BY <1>1, ActiveStep, SwitchStep, RestartStep, ReloadStep DEF Call
<1>2. ASSUME NEW i \in Calls, Wait(i) PROVE Inductive'
  BY <1>2, ArriveStep, FailKeeps DEF Wait, AcquireFails
<1>3. CASE UNCHANGED vars
  BY <1>3 DEF vars, poolVars, bornVars, Inductive, TypeOK, SocketsTracked, PooledHasSocket,
       PooledNotStopped, CallsNameBackends, BornAreKnown, Pooled
<1> QED BY <1>1, <1>2, <1>3, ResumeStep, EventStep DEF Next

\* The inductive invariant of the pool: whatever calls, reloads, failures and freezes
\* overlap, pool, sockets and backends agree (manager.js:198-477).
THEOREM InductiveHolds == Spec => []Inductive
<1> QED BY InitInductive, StepInductive, PTL DEF Spec

\* No socket to the daemon is ever lost, so none holds a browser for nobody
\* (manager.js:360, 367-373).
THEOREM SocketsHolds == Spec => []SocketsTracked
<1>1. Inductive => SocketsTracked
  BY DEF Inductive
<1> QED BY <1>1, InductiveHolds, PTL

\* No backend stays in the pool once its server was given back: the cause of the
\* spawn loop of 02/08 (manager.js:378-382).
THEOREM PooledHolds == Spec => []PooledHasSocket
<1>1. Inductive => PooledHasSocket
  BY DEF Inductive
<1> QED BY <1>1, InductiveHolds, PTL

\* A stopped backend is "closing"; only its own event makes it exit.
LEMMA DropNeverExits ==
  ASSUME TypeOK, NEW P, NEW K, Drop(P, K), NEW k \in Ids, st'[k] = "exited"
  PROVE  st[k] = "exited"
BY DEF TypeOK, Drop

LEMMA ReconcileNeverExits ==
  ASSUME TypeOK, NEW i \in Calls, NEW todo, NEW cfg, NEW act, Reconcile(i, todo, cfg, act),
         NEW k \in Ids, st'[k] = "exited"
  PROVE  st[k] = "exited"
BY DropNeverExits DEF Reconcile

LEMMA CallsNeverExit ==
  ASSUME TypeOK, NEW i \in Calls, Call(i) \/ Wait(i) \/ Resume(i),
         NEW k \in Ids, st'[k] = "exited"
  PROVE  st[k] = "exited"
<1>1. CASE Active(i)
  BY <1>1 DEF Active, Get
<1>2. ASSUME NEW p \in Profiles, Switch(i, p) PROVE st[k] = "exited"
  <2>1. CASE Become(p, active)
    BY <2>1, DropNeverExits DEF Become, poolVars
  <2>2. CASE Get(i, "switch", p)
    BY <2>2 DEF Get
  <2> QED BY <1>2, <2>1, <2>2 DEF Switch
<1>3. ASSUME NEW p \in Profiles, Restart(i, p) PROVE st[k] = "exited"
  BY <1>3, DropNeverExits DEF Restart, Renew
<1>4. CASE Reload(i)
  BY <1>4, ReconcileNeverExits DEF Reload
<1>5. CASE Arrive(i)
  BY <1>5 DEF Arrive, TypeOK
<1>6. ASSUME Fail(i) PROVE st[k] = "exited"
  BY <1>6, ReconcileNeverExits DEF Fail, poolVars
<1>7. CASE Resume(i)
  <2>1. CASE Become(calls[i].prof, calls[i].prev)
    BY <2>1, DropNeverExits DEF Become, poolVars
  <2> QED BY <1>6, <1>7, <2>1, ReconcileNeverExits DEF Resume, poolVars
<1> QED BY <1>1, <1>2, <1>3, <1>4, <1>5, <1>6, <1>7 DEF Call, Wait, AcquireFails

\* A late event of a backend that was replaced moves nothing (manager.js:282).
THEOREM StaleEvents == Spec => StaleEventsIgnored
<1>1. ASSUME Inductive, [Next]_vars, NEW k \in Ids,
             st[k] # "exited", st'[k] = "exited", pool[prof[k]] # k
      PROVE  UNCHANGED <<pool, conns, open>>
  <2>0. TypeOK
    BY <1>1 DEF Inductive
  <2>1. ASSUME NEW i \in Calls, Call(i) \/ Wait(i) \/ Resume(i) PROVE FALSE
    BY <1>1, <2>0, <2>1, CallsNeverExit
  <2>2. ASSUME NEW j \in Ids, Event(j) PROVE UNCHANGED <<pool, conns, open>>
    <3>1. CASE InitOk(j) \/ InitBreaks(j) \/ Breaks(j) \/ Closed(j)
      BY <3>1 DEF InitOk, InitBreaks, Breaks, Closed, Turn, Elsewhere
    <3>2. CASE Freeze(j)
      <4>1. j = k
        BY <1>1, <2>0, <3>2 DEF Freeze, TypeOK
      <4> QED BY <1>1, <3>2, <4>1 DEF Freeze, Watched, Elsewhere
    <3> QED BY <2>2, <3>1, <3>2 DEF Event
  <2>3. CASE UNCHANGED vars
    BY <1>1, <2>3 DEF vars, poolVars
  <2> QED BY <1>1, <2>1, <2>2, <2>3 DEF Next
<1> DEFINE A == \A k \in Ids :
       st[k] # "exited" /\ st'[k] = "exited" /\ pool[prof[k]] # k
         => UNCHANGED <<pool, conns, open>>
<1>2. Inductive /\ [Next]_vars => A
  BY <1>1
<1>3. Inductive /\ [Next]_vars => [A]_vars
  BY <1>2
<1> QED BY <1>3, InductiveHolds, PTL DEF Spec, StaleEventsIgnored

\* A reconciliation ends, or asks for a backend again.
LEMMA Reconciles ==
  ASSUME NEW i \in Calls, NEW todo, NEW cfg, NEW act, Reconcile(i, todo, cfg, act)
  PROVE  \/ calls' = [calls EXCEPT ![i] = [Free EXCEPT !.pc = "ok", !.op = "reconcile"]]
         \/ \E p, left : Acquiring(i, "reconcile", p, act, cfg, left)
BY DEF Reconcile

\* What a slot holds once something was asked for it, or it ended.
LEMMA SlotAfter ==
  ASSUME TypeOK, NEW i \in Calls
  PROVE  /\ \A how : End(i, how) => calls'[i].pc = how /\ calls'[i].op = calls[i].op
         /\ \A op, p, prev, cfg, todo : Acquiring(i, op, p, prev, cfg, todo) =>
              calls'[i].op = op
         /\ \A todo, cfg, act : Reconcile(i, todo, cfg, act) => calls'[i].op = "reconcile"
         /\ \A op, p : Get(i, op, p) => calls'[i].op = op /\ calls'[i].prof = p
<1>1. \A r : calls' = [calls EXCEPT ![i] = r] => calls'[i] = r
  BY DEF TypeOK
<1>2. \A how : End(i, how) => calls'[i].pc = how /\ calls'[i].op = calls[i].op
  BY <1>1 DEF End, Free
<1>3. \A op, p, prev, cfg, todo : Acquiring(i, op, p, prev, cfg, todo) =>
        calls'[i].op = op /\ calls'[i].prof = p
  <2> SUFFICES ASSUME NEW op, NEW p, NEW prev, NEW cfg, NEW todo,
                      Acquiring(i, op, p, prev, cfg, todo)
               PROVE  calls'[i].op = op /\ calls'[i].prof = p
    OBVIOUS
  <2>1. calls'[i] = [pc |-> "acquiring", op |-> op, prof |-> p, prev |-> prev,
                     spec |-> cfg[p], on |-> None, todo |-> todo]
    BY <1>1 DEF Acquiring
  <2> QED BY <2>1
<1>4. \A todo, cfg, act : Reconcile(i, todo, cfg, act) => calls'[i].op = "reconcile"
  <2> SUFFICES ASSUME NEW todo, NEW cfg, NEW act, Reconcile(i, todo, cfg, act)
               PROVE  calls'[i].op = "reconcile"
    OBVIOUS
  <2>1. \/ calls' = [calls EXCEPT ![i] = [Free EXCEPT !.pc = "ok", !.op = "reconcile"]]
        \/ \E p, left : Acquiring(i, "reconcile", p, act, cfg, left)
    BY Reconciles
  <2>2. CASE calls' = [calls EXCEPT ![i] = [Free EXCEPT !.pc = "ok", !.op = "reconcile"]]
    BY <1>1, <2>2 DEF Free
  <2> QED BY <1>3, <2>1, <2>2
<1>5. \A op, p : Get(i, op, p) => calls'[i].op = op /\ calls'[i].prof = p
  BY <1>1, <1>3 DEF Get, Free
<1> QED BY <1>2, <1>3, <1>4, <1>5

\* Only the call whose turn it is changes.
LEMMA OneSlot ==
  ASSUME TypeOK, NEW i \in Calls, NEW j \in Calls, Call(j) \/ Wait(j) \/ Resume(j),
         calls'[i] # calls[i]
  PROVE  i = j
<1>1. \A r : calls' = [calls EXCEPT ![j] = r] => i = j
  OBVIOUS
<1>2. \A how : End(j, how) => i = j
  BY DEF End
<1>3. \A op, p, prev, cfg, todo : Acquiring(j, op, p, prev, cfg, todo) => i = j
  BY DEF Acquiring
<1>4. \A todo, cfg, act : Reconcile(j, todo, cfg, act) => i = j
  BY <1>1, <1>3, Reconciles
<1>5. \A op, p : Get(j, op, p) => i = j
  <2> SUFFICES ASSUME NEW op, NEW p, Get(j, op, p) PROVE i = j
    OBVIOUS
  <2>1. CASE Pool(p, {"starting"}) /\ calls' = [calls EXCEPT ![j] =
               [Free EXCEPT !.pc = "waiting", !.op = op, !.prof = p, !.prev = active,
                            !.on = pool[p]]]
    BY <1>1, <2>1
  <2>2. CASE Acquiring(j, op, p, active, config, {})
    BY <1>3, <2>2
  <2> QED BY <2>1, <2>2 DEF Get
<1>6. Fail(j) => i = j
  BY <1>2, <1>4 DEF Fail
<1>7. Call(j) => i = j
  BY <1>2, <1>3, <1>4, <1>5 DEF Call, Active, Switch, Restart, Renew, Reload
<1>8. Wait(j) => i = j
  <2>1. CASE Arrive(j)
    BY <2>1 DEF Arrive, TypeOK
  <2>2. CASE AcquireFails(j)
    BY <1>6, <2>2 DEF AcquireFails
  <2> QED BY <2>1, <2>2 DEF Wait
<1>9. Resume(j) => i = j
  BY <1>2, <1>4, <1>6 DEF Resume
<1> QED BY <1>7, <1>8, <1>9

\* A switch that waits or fails leaves the agent what it worked with (manager.js:392).
THEOREM SwitchSafe == Spec => SwitchFailsSafe
<1> DEFINE Kept == /\ active' = active
                   /\ pool'[active] = pool[active]
                   /\ conns'[active] = conns[active]
                   /\ st'[pool[active]] = st[pool[active]]
<1>1. ASSUME Inductive, [Next]_vars, NEW i \in Calls,
             calls'[i] # calls[i], calls'[i].op = "switch", calls'[i].pc # "ok",
             calls'[i].prof # active, Pool(active, {"starting", "ready"})
      PROVE  Kept
  <2>0. TypeOK /\ BornAreKnown
    BY <1>1 DEF Inductive
  <2>1. CASE Call(i)
    <3>1. CASE Active(i)
      BY <1>1, <2>0, <3>1, SlotAfter DEF Active
    <3>2. ASSUME NEW p \in Profiles, Switch(i, p) PROVE Kept
      <4>1. Get(i, "switch", p) /\ UNCHANGED <<active, conns, open>>
        BY <1>1, <2>0, <3>2, SlotAfter DEF Switch
      <4>2. p # active
        BY <1>1, <2>0, <4>1, SlotAfter
      <4> QED BY <2>0, <4>1, <4>2 DEF Get, TypeOK
    <3>3. ASSUME NEW p \in Profiles, Restart(i, p) PROVE FALSE
      BY <1>1, <2>0, <3>3, SlotAfter DEF Restart, Renew
    <3>4. CASE Reload(i)
      BY <1>1, <2>0, <3>4, SlotAfter DEF Reload
    <3> QED BY <2>1, <3>1, <3>2, <3>3, <3>4 DEF Call
  <2>2. CASE Arrive(i)
    <3>1. calls'[i].prof = calls[i].prof
      BY <2>0, <2>2 DEF Arrive, TypeOK
    <3>2. calls[i].prof # active /\ active' = active
      BY <1>1, <2>2, <3>1 DEF Arrive
    <3>3. pool'[active] = pool[active] /\ conns'[active] = conns[active]
      BY <2>0, <2>2, <3>2 DEF Arrive, TypeOK
    <3>4. pool[active] \in Ids /\ pool[active] <= born
      BY <1>1, <2>0 DEF Pool, Pooled, TypeOK, BornAreKnown
    <3>5. pool[active] # born + 1
      BY <2>0, <3>4 DEF TypeOK, Ids
    <3> QED BY <2>0, <2>2, <3>2, <3>3, <3>4, <3>5 DEF Arrive, TypeOK
  <2>3. ASSUME Fail(i) PROVE UNCHANGED <<active, poolVars>>
    BY <1>1, <2>0, <2>3, SlotAfter DEF Fail
  <2>4. CASE AcquireFails(i)
    BY <2>3, <2>4 DEF AcquireFails, poolVars
  <2>5. CASE Resume(i)
    <3>1. CASE st[calls[i].on] = "exited"
      BY <2>3, <2>5, <3>1 DEF Resume, poolVars
    <3>2. CASE st[calls[i].on] # "exited"
      BY <1>1, <2>0, <2>5, <3>2, SlotAfter DEF Resume
    <3> QED BY <3>1, <3>2
  <2>6. ASSUME NEW j \in Calls, Call(j) \/ Wait(j) \/ Resume(j) PROVE Kept
    <3>1. i = j
      BY <1>1, <2>0, <2>6, OneSlot
    <3> QED BY <2>1, <2>2, <2>4, <2>5, <2>6, <3>1 DEF Wait
  <2>7. ASSUME NEW k \in Ids, Event(k) PROVE FALSE
    <3>1. CASE InitOk(k) \/ InitBreaks(k) \/ Breaks(k) \/ Closed(k)
      BY <1>1, <3>1 DEF InitOk, InitBreaks, Breaks, Closed, Turn, Elsewhere
    <3>2. CASE Freeze(k)
      <4>1. PICK j \in Calls : Acquiring(j, "auto", prof[k], active, config, {})
        BY <1>1, <3>2 DEF Freeze, Elsewhere
      <4>2. i = j
        BY <1>1, <4>1 DEF Acquiring
      <4> QED BY <1>1, <2>0, <4>1, <4>2, SlotAfter
    <3> QED BY <2>7, <3>1, <3>2 DEF Event
  <2>8. CASE UNCHANGED vars
    BY <1>1, <2>8 DEF vars
  <2> QED BY <1>1, <2>6, <2>7, <2>8 DEF Next
<1> DEFINE A == \A i \in Calls :
       /\ calls'[i] # calls[i] /\ calls'[i].op = "switch" /\ calls'[i].pc # "ok"
       /\ calls'[i].prof # active
       /\ Pool(active, {"starting", "ready"})
       => Kept
<1>2. Inductive /\ [Next]_vars => A
  BY <1>1
<1>3. Inductive /\ [Next]_vars => [A]_vars
  BY <1>2
<1> QED BY <1>3, InductiveHolds, PTL DEF Spec, SwitchFailsSafe

---------------------------------------------------------------------------
(* The router over it.                                                     *)

LEMMA StepRefines == [RouterNext]_allVars => [Next]_vars
<1> SUFFICES ASSUME [RouterNext]_allVars PROVE [Next]_vars
  OBVIOUS
<1>1. ASSUME NEW i \in Calls, Passthrough(i) \/ AskList(i) PROVE Next
  BY <1>1 DEF Passthrough, AskList, Next, Call
<1>2. ASSUME NEW i \in Calls, ServerAnswers(i) \/ ListRead(i) \/ Deadline(i)
      PROVE  UNCHANGED vars
  BY <1>2 DEF ServerAnswers, ListRead, Deadline
<1>3. ASSUME NEW i \in Calls, Turns(i) PROVE Next
  BY <1>3 DEF Turns, Next, Call
<1>4. ASSUME NEW i \in Calls, NEW p \in Profiles, HandleAct(i, p) PROVE Next
  BY <1>4 DEF HandleAct, Next, Call
<1>5. CASE ListWithoutProfile
  BY <1>5 DEF ListWithoutProfile
<1>6. ASSUME NEW k \in Ids, Happens(k) PROVE Next
  BY <1>6 DEF Happens, Next
<1>7. ASSUME NEW k \in Ids, NEW q \in Asks, ForwardBackendRequest(q, k) PROVE UNCHANGED vars
  BY <1>7 DEF ForwardBackendRequest
<1>8. ASSUME NEW q \in Asks, ClientAnswers(q) PROVE UNCHANGED vars
  BY <1>8 DEF ClientAnswers
<1>9. CASE UNCHANGED allVars
  BY <1>9 DEF allVars
<1> QED BY <1>1, <1>2, <1>3, <1>4, <1>5, <1>6, <1>7, <1>8, <1>9 DEF RouterNext

\* Every behaviour of the router is one of the pool: what is proved of the manager
\* alone holds under the router (router.js over manager.js).
THEOREM RouterImplements == RouterSpec => Spec
<1>1. RouterInit => Init
  BY DEF RouterInit
<1> QED BY <1>1, StepRefines, PTL DEF RouterSpec, Spec

LEMMA PoolHolds == RouterSpec => []Inductive
<1> QED BY RouterImplements, InductiveHolds, PTL

---------------------------------------------------------------------------
(* How a step of the manager moves calls and backends.                     *)

Asked == {"active", "switch", "restart"}

LEMMA EndIs ==
  ASSUME TypeOK, NEW i \in Calls, NEW how, End(i, how), NEW j \in Calls
  PROVE  IF j = i THEN /\ calls'[j].pc = how /\ calls'[j].op = calls[j].op
                       /\ calls'[j].prof = calls[j].prof
                  ELSE calls'[j] = calls[j]
BY DEF TypeOK, End, Free

LEMMA AcquiringIs ==
  ASSUME TypeOK, NEW i \in Calls, NEW op, NEW p, NEW prev, NEW cfg, NEW todo,
         Acquiring(i, op, p, prev, cfg, todo), NEW j \in Calls
  PROVE  IF j = i THEN calls'[j].pc = "acquiring" /\ calls'[j].op = op /\ calls'[j].prof = p
                  ELSE calls'[j] = calls[j]
BY DEF TypeOK, Acquiring

LEMMA ReconcileIs ==
  ASSUME TypeOK, NEW i \in Calls, NEW todo, NEW cfg, NEW act, Reconcile(i, todo, cfg, act),
         NEW j \in Calls
  PROVE  IF j = i THEN calls'[j].pc \in {"acquiring", "ok"} /\ calls'[j].op = "reconcile"
                  ELSE calls'[j] = calls[j]
<1>1. CASE calls' = [calls EXCEPT ![i] = [Free EXCEPT !.pc = "ok", !.op = "reconcile"]]
  BY <1>1 DEF TypeOK, Free
<1>2. ASSUME NEW p, NEW rest, Acquiring(i, "reconcile", p, act, cfg, rest)
      PROVE  IF j = i THEN calls'[j].pc = "acquiring" /\ calls'[j].op = "reconcile"
                      ELSE calls'[j] = calls[j]
  BY <1>2, AcquiringIs
<1> QED BY <1>1, <1>2 DEF Reconcile

GoesOnOrEnds(j) ==
  /\ Busy(j) /\ calls'[j].op = calls[j].op
  /\ calls'[j].pc \in {"acquiring", "waiting", "ok", "failed"}
  /\ calls[j].op # "reconcile" => calls'[j].prof = calls[j].prof
  /\ calls[j].op = "active" /\ calls'[j].pc = "ok" =>
       calls[j].pc = "waiting" /\ st[calls[j].on] = "ready" /\ UNCHANGED st
  /\ calls[j].op = "reconcile" => calls'[j].pc # "failed"

LEMMA FailMoves ==
  ASSUME TypeOK, NEW i \in Calls, Busy(i), Fail(i), NEW j \in Calls
  PROVE  calls'[j] = calls[j] \/ GoesOnOrEnds(j)
<1>1. CASE calls[i].op = "reconcile"
  BY <1>1, ReconcileIs DEF Fail, GoesOnOrEnds
<1>2. CASE calls[i].op # "reconcile"
  BY <1>2, EndIs DEF Fail, GoesOnOrEnds
<1> QED BY <1>1, <1>2

LEMMA TurnMoves ==
  ASSUME TypeOK, NEW i \in Calls, Wait(i) \/ Resume(i), NEW j \in Calls
  PROVE  calls'[j] = calls[j] \/ GoesOnOrEnds(j)
<1>1. CASE Arrive(i)
  BY <1>1 DEF Arrive, TypeOK, GoesOnOrEnds, Busy
<1>2. CASE AcquireFails(i)
  BY <1>2, FailMoves DEF AcquireFails, Busy
<1>3. CASE Resume(i)
  <2>0. Busy(i) /\ calls[i].pc = "waiting" /\ st[calls[i].on] \in {"ready", "exited"}
    BY <1>3 DEF Resume, Settled, Busy
  <2>1. CASE Fail(i)
    BY <2>0, <2>1, FailMoves
  <2>2. CASE calls[i].op = "switch" /\ End(i, "ok")
    BY <2>0, <2>2, EndIs DEF GoesOnOrEnds
  <2>3. CASE calls[i].op = "reconcile" /\ Reconcile(i, calls[i].todo, config, active)
    BY <2>0, <2>3, ReconcileIs DEF GoesOnOrEnds
  <2>4. CASE st[calls[i].on] # "exited" /\ End(i, "ok") /\ UNCHANGED poolVars
    BY <2>0, <2>4, EndIs DEF GoesOnOrEnds, poolVars
  <2> QED BY <1>3, <2>1, <2>2, <2>3, <2>4 DEF Resume
<1> QED BY <1>1, <1>2, <1>3 DEF Wait

OfItself(j) ==
  /\ calls[j].pc = "free" /\ calls'[j].op \in {"auto", "reconcile"}
  /\ calls'[j].pc = "acquiring" \/ (calls'[j].pc = "ok" /\ calls'[j].op = "reconcile")

LEMMA ReloadMoves ==
  ASSUME TypeOK, NEW i \in Calls, Reload(i), NEW j \in Calls
  PROVE  calls'[j] = calls[j] \/ OfItself(j)
BY ReconcileIs DEF Reload, OfItself

LEMMA EventMoves ==
  ASSUME TypeOK, NEW k \in Ids, Event(k), NEW j \in Calls
  PROVE  calls'[j] = calls[j] \/ OfItself(j)
<1>1. CASE UNCHANGED Elsewhere
  BY <1>1 DEF Elsewhere
<1>2. ASSUME NEW i \in Calls, calls[i].pc = "free",
             Acquiring(i, "auto", prof[k], active, config, {})
      PROVE  calls'[j] = calls[j] \/ OfItself(j)
  BY <1>2, AcquiringIs DEF OfItself
<1> QED BY <1>1, <1>2 DEF Event, InitOk, InitBreaks, Breaks, Closed, Freeze

LEMMA ActiveMoves ==
  ASSUME TypeOK, NEW i \in Calls, Active(i)
  PROVE  /\ calls[i].pc = "free" /\ \A j \in Calls : j # i => calls'[j] = calls[j]
         /\ \/ /\ calls'[i].pc \in {"acquiring", "waiting"} /\ calls'[i].op = "active"
               /\ calls'[i].prof = active
            \/ calls'[i].pc = "ok" /\ Pool(active, {"ready"}) /\ UNCHANGED st
         /\ UNCHANGED <<bornVars, active>>
<1>1. CASE Pool(active, {"ready"}) /\ End(i, "ok") /\ UNCHANGED st
  BY <1>1, EndIs DEF Active, Starts
<1>2. CASE Get(i, "active", active)
  <2>1. CASE Acquiring(i, "active", active, active, config, {})
    BY <2>1, AcquiringIs DEF Active, Starts
  <2>2. CASE calls' = [calls EXCEPT ![i] = [Free EXCEPT !.pc = "waiting", !.op = "active",
                        !.prof = active, !.prev = active, !.on = pool[active]]]
    BY <2>2 DEF Active, Starts, TypeOK, Free
  <2> QED BY <1>2, <2>1, <2>2 DEF Get
<1> QED BY <1>1, <1>2 DEF Active

LEMMA ActMoves ==
  ASSUME TypeOK, NEW i \in Calls, NEW p \in Profiles, Switch(i, p) \/ Restart(i, p)
  PROVE  /\ calls[i].pc = "free" /\ \A j \in Calls : j # i => calls'[j] = calls[j]
         /\ \/ calls'[i].pc \in {"acquiring", "waiting"} /\ calls'[i].op \in {"switch", "restart"}
            \/ calls'[i].pc = "ok"
<1>1. CASE End(i, "ok") /\ Switch(i, p)
  BY <1>1, EndIs DEF Switch, Starts
<1>2. CASE Get(i, "switch", p) /\ Switch(i, p)
  <2>1. CASE Acquiring(i, "switch", p, active, config, {})
    BY <1>2, <2>1, AcquiringIs DEF Switch, Starts
  <2>2. CASE calls' = [calls EXCEPT ![i] = [Free EXCEPT !.pc = "waiting", !.op = "switch",
                        !.prof = p, !.prev = active, !.on = pool[p]]]
    BY <1>2, <2>2 DEF Switch, Starts, TypeOK, Free
  <2> QED BY <1>2, <2>1, <2>2 DEF Get
<1>3. CASE Restart(i, p)
  BY <1>3, AcquiringIs DEF Restart, Renew, Starts
<1> QED BY <1>1, <1>2, <1>3 DEF Switch

LEMMA DropMoves ==
  ASSUME TypeOK, NEW P, NEW K, Drop(P, K), NEW k \in Ids, st[k] \in {"ready", "closing"}
  PROVE  st'[k] \in {"ready", "closing"}
BY DEF TypeOK, Drop

LEMMA ReconcileMoves ==
  ASSUME TypeOK, NEW i \in Calls, NEW todo, NEW cfg, NEW act, Reconcile(i, todo, cfg, act),
         NEW k \in Ids, st[k] \in {"ready", "closing"}
  PROVE  st'[k] \in {"ready", "closing"}
BY DropMoves DEF Reconcile

LEMMA BecomeMoves ==
  ASSUME TypeOK, NEW p, NEW q, Become(p, q), NEW k \in Ids, st[k] \in {"ready", "closing"}
  PROVE  st'[k] \in {"ready", "closing"}
BY DropMoves DEF Become, poolVars

\* A backend that answers or is being closed stays so until it exits.
LEMMA BackendMoves ==
  ASSUME Inductive, [Next]_vars, NEW k \in 1..born
  PROVE  /\ k \in Ids /\ k \in 1..born' /\ prof'[k] = prof[k]
         /\ st[k] \in {"ready", "closing"} => st'[k] \in {"ready", "closing", "exited"}
<1>0. TypeOK /\ k \in Ids /\ born \in Nat
  BY BoundsAssumption DEF Inductive, TypeOK, Ids
<1>1. k \in 1..born' /\ prof'[k] = prof[k]
  <2>1. CASE UNCHANGED bornVars
    BY <2>1 DEF bornVars
  <2>2. ASSUME NEW i \in Calls, Arrive(i) PROVE k \in 1..born' /\ prof'[k] = prof[k]
    BY <1>0, <2>2 DEF Arrive, TypeOK
  <2>3. CASE UNCHANGED vars
    BY <2>3 DEF vars, bornVars
  <2> QED BY <2>1, <2>2, <2>3 DEF Next, Call, Wait, Event, Active, Switch, Restart, Reload,
            AcquireFails, Resume, InitOk, InitBreaks, Breaks, Closed, Freeze, Elsewhere
<1>2. ASSUME st[k] \in {"ready", "closing"} PROVE st'[k] \in {"ready", "closing", "exited"}
  <2>1. ASSUME NEW i \in Calls, Active(i) PROVE st'[k] \in {"ready", "closing"}
    BY <1>2, <2>1 DEF Active, Get
  <2>2. ASSUME NEW i \in Calls, NEW p \in Profiles, Switch(i, p)
        PROVE  st'[k] \in {"ready", "closing"}
    BY <1>0, <1>2, <2>2, BecomeMoves DEF Switch, Get
  <2>3. ASSUME NEW i \in Calls, NEW p \in Profiles, Restart(i, p)
        PROVE  st'[k] \in {"ready", "closing"}
    BY <1>0, <1>2, <2>3, DropMoves DEF Restart, Renew
  <2>4. ASSUME NEW i \in Calls, Reload(i) PROVE st'[k] \in {"ready", "closing"}
    BY <1>0, <1>2, <2>4, ReconcileMoves DEF Reload
  <2>5. ASSUME NEW i \in Calls, Arrive(i) PROVE st'[k] \in {"ready", "closing"}
    BY <1>0, <1>2, <2>5 DEF Arrive, TypeOK
  <2>6. ASSUME NEW i \in Calls, Fail(i) PROVE st'[k] \in {"ready", "closing"}
    BY <1>0, <1>2, <2>6, ReconcileMoves DEF Fail, poolVars
  <2>7. ASSUME NEW i \in Calls, Resume(i) PROVE st'[k] \in {"ready", "closing"}
    <3>1. CASE Become(calls[i].prof, calls[i].prev)
      BY <1>0, <1>2, <3>1, BecomeMoves
    <3> QED BY <1>0, <1>2, <2>6, <2>7, <3>1, ReconcileMoves DEF Resume, poolVars
  <2>8. ASSUME NEW j \in Ids, Event(j) PROVE st'[k] \in {"ready", "closing", "exited"}
    BY <1>0, <1>2, <2>8 DEF Event, InitOk, InitBreaks, Breaks, Closed, Freeze, Turn, TypeOK
  <2>9. CASE UNCHANGED vars
    BY <1>2, <2>9 DEF vars, poolVars
  <2> QED BY <2>1, <2>2, <2>3, <2>4, <2>5, <2>6, <2>7, <2>8, <2>9
          DEF Next, Call, Wait, AcquireFails
<1> QED BY <1>0, <1>1, <1>2
---------------------------------------------------------------------------
(* The message of each slot and the call of the manager it waits for.      *)

Slot(i) ==
  LET m == msg[i]
  IN /\ calls[i].pc = "free" => m.phase = "idle"
     /\ Busy(i) => m.phase = IF calls[i].op \in Asked THEN "asked" ELSE "idle"
     /\ m.phase \in {"idle", "done"} => m.kind = "none" /\ m.at = None
     /\ m.phase = "asked" => /\ Busy(i) /\ m.at = None /\ m.kind # "none"
                             /\ IF m.kind = "act" THEN calls[i].op \in {"switch", "restart"}
                                ELSE calls[i].op = "active" /\ calls[i].prof = m.from
     /\ m.phase = "sent" => /\ m.kind \in {"call", "list"} /\ ~Busy(i)
                            /\ m.at \in 1..born /\ prof[m.at] = m.from
                            /\ st[m.at] \in {"ready", "closing"}

Matches == \A i \in Calls : Slot(i)
RouterInductive == Inductive /\ RouterTypeOK /\ Matches

MsgType == [kind : {"none", "call", "list", "act"}, phase : {"idle", "asked", "sent", "done"},
            at : Ids \cup {None}, from : Profiles, late : BOOLEAN]

\* The message after the step, case by case.
LEMMA AfterIs ==
  ASSUME NEW i \in Calls, NEW m \in MsgType
  PROVE  /\ m.phase = "asked" /\ Threw(i) => After(i, m) = Done
         /\ m.phase = "asked" /\ Got(i) /\ m.kind = "act" => After(i, m) = Done
         /\ m.phase = "asked" /\ Got(i) /\ m.kind # "act" =>
              After(i, m) = [m EXCEPT !.phase = "sent", !.at = Obtained(i)]
         /\ m.phase = "sent" /\ Broken(m) => After(i, m) = Done
         /\ m.phase = "asked" /\ ~Threw(i) /\ ~Got(i) => After(i, m) = m
         /\ m.phase = "sent" /\ ~Broken(m) => After(i, m) = m
         /\ m.phase \in {"idle", "done"} => After(i, m) = m
<1>1. m.phase \in {"idle", "asked", "sent", "done"}
  BY DEF MsgType
<1>2. m.phase = "asked" => ~Broken(m)
  BY DEF Broken
<1>3. m.phase \in {"idle", "done"} => ~Broken(m)
  BY DEF Broken
<1>4. Threw(i) => ~Got(i)
  BY DEF Threw, Got
<1> QED BY <1>1, <1>2, <1>3, <1>4 DEF After

LEMMA DoneIs == Done \in MsgType /\ Done.phase = "done" /\ Done.kind = "none" /\ Done.at = None
BY NamesAssumption DEF Done, NoMsg, MsgType

\* The backend a message was given stays one of its profile until it exits.
LEMMA GivenKeeps ==
  ASSUME Inductive, [Next]_vars, NEW i \in Calls, NEW b \in 1..born, NEW m \in MsgType,
         m.phase = "sent", m.kind \in {"call", "list"}, m.at = b, prof[b] = m.from,
         st[b] \in {"ready", "closing"}, st'[b] # "exited", msg'[i] = m,
         calls'[i].pc \in {"ok", "failed"}
  PROVE  Slot(i)'
<1>1. b \in 1..born' /\ prof'[b] = prof[b] /\ st'[b] \in {"ready", "closing"}
  BY BackendMoves
<1> QED BY <1>1 DEF Slot, Busy

LEMMA SlotEnds ==
  ASSUME NEW i \in Calls, msg'[i] = Done, calls'[i].pc \in {"ok", "failed"}
  PROVE  Slot(i)'
BY DoneIs DEF Slot, Busy

LEMMA SlotReacts ==
  ASSUME RouterInductive, [Next]_vars, NEW i \in Calls, msg'[i] = After(i, msg[i]),
         calls'[i] = calls[i] \/ GoesOnOrEnds(i) \/ OfItself(i)
  PROVE  Slot(i)' /\ msg'[i] \in MsgType
<1> DEFINE m == msg[i]
<1>0. m \in MsgType /\ Inductive /\ Slot(i) /\ TypeOK
  BY DEF RouterInductive, RouterTypeOK, MsgType, Matches, Inductive
<1>1. calls[i].pc \in {"free", "acquiring", "waiting", "ok", "failed"}
  BY <1>0 DEF TypeOK
<1>2. CASE m.phase = "idle"
  <2>1. msg'[i] = msg[i]
    BY <1>0, <1>2, AfterIs
  <2>2. ~(m.phase \in {"asked", "sent"}) /\ m.kind = "none" /\ m.at = None
    BY <1>0, <1>2 DEF Slot
  <2>3. Busy(i)' => calls'[i].op \notin Asked
    BY <1>0, <1>2 DEF Slot, GoesOnOrEnds, OfItself, Busy, Asked
  <2> QED BY <1>0, <1>2, <2>1, <2>2, <2>3 DEF Slot
<1>3. CASE m.phase = "done"
  <2>1. msg'[i] = msg[i]
    BY <1>0, <1>3, AfterIs
  <2>2. calls[i].pc # "free" /\ ~Busy(i)
    BY <1>0, <1>3 DEF Slot
  <2>3. calls'[i] = calls[i]
    BY <2>2 DEF GoesOnOrEnds, OfItself
  <2> QED BY <1>0, <1>3, <2>1, <2>2, <2>3 DEF Slot, Busy
<1>4. CASE m.phase = "sent"
  <2>1. calls[i].pc \in {"ok", "failed"} /\ ~Busy(i)
    BY <1>0, <1>1, <1>4 DEF Slot, Busy
  <2>2. calls'[i] = calls[i]
    BY <2>1 DEF GoesOnOrEnds, OfItself
  <2>3. CASE Broken(m)
    <3>1. msg'[i] = Done
      BY <1>0, <1>4, <2>3, AfterIs
    <3> QED BY <2>1, <2>2, <3>1, SlotEnds, DoneIs
  <2>4. CASE ~Broken(m)
    <3>1. msg'[i] = m
      BY <1>0, <1>4, <2>4, AfterIs
    <3>2. /\ m.kind \in {"call", "list"} /\ m.at \in 1..born /\ prof[m.at] = m.from
          /\ st[m.at] \in {"ready", "closing"}
      BY <1>0, <1>4 DEF Slot
    <3>3. st'[m.at] # "exited"
      BY <1>4, <2>4, <3>2 DEF Broken
    <3> HIDE DEF m
    <3> QED BY <1>0, <1>4, <2>1, <2>2, <3>1, <3>2, <3>3, GivenKeeps
  <2> QED BY <2>3, <2>4
<1>5. CASE m.phase = "asked"
  <2>0. /\ Busy(i) /\ m.at = None /\ m.kind # "none"
        /\ IF m.kind = "act" THEN calls[i].op \in {"switch", "restart"}
                             ELSE calls[i].op = "active" /\ calls[i].prof = m.from
    BY <1>0, <1>5 DEF Slot
  <2>1. calls'[i] = calls[i] \/ GoesOnOrEnds(i)
    BY <2>0 DEF OfItself, Busy
  <2>2. CASE calls'[i].pc \in {"acquiring", "waiting"}
    <3>1. msg'[i] = m
      BY <1>0, <1>5, <2>2, AfterIs DEF Got, Threw
    <3>2. calls'[i].op = calls[i].op /\ Busy(i)'
      BY <2>1, <2>2 DEF GoesOnOrEnds, Busy
    <3>3. calls[i].op = "active" => calls'[i].prof = calls[i].prof
      BY <2>1 DEF GoesOnOrEnds
    <3> QED BY <1>0, <1>5, <2>0, <2>2, <3>1, <3>2, <3>3 DEF Slot, Asked
  <2>3. CASE calls'[i].pc = "failed"
    <3>1. Threw(i)
      BY <2>0, <2>3 DEF Threw, Busy
    <3>2. msg'[i] = Done
      BY <1>0, <1>5, <3>1, AfterIs
    <3> QED BY <2>3, <3>2, SlotEnds, DoneIs
  <2>4. CASE calls'[i].pc = "ok"
    <3>1. Got(i)
      BY <2>0, <2>4 DEF Got, Busy
    <3>2. CASE m.kind = "act"
      <4>1. msg'[i] = Done
        BY <1>0, <1>5, <3>1, <3>2, AfterIs
      <4> QED BY <2>4, <4>1, SlotEnds, DoneIs
    <3>3. CASE m.kind # "act"
      <4> DEFINE n == [m EXCEPT !.phase = "sent", !.at = Obtained(i)]
                 b == calls[i].on
      <4>1. msg'[i] = n
        BY <1>0, <1>5, <3>1, <3>3, AfterIs
      <4>2. calls'[i] # calls[i]
        BY <2>0, <2>4 DEF Busy
      <4>3. calls[i].pc = "waiting" /\ st[b] = "ready" /\ st' = st
        BY <2>0, <2>1, <2>4, <3>3, <4>2 DEF GoesOnOrEnds
      <4>4. b \in 1..born /\ prof[b] = m.from
        BY <1>0, <2>0, <3>3, <4>3 DEF Inductive, CallsNameBackends
      <4>5. b \in Ids
        BY <1>0, <4>4, BackendMoves
      <4>6. Obtained(i) = b
        BY <4>3 DEF Obtained
      <4>7. /\ n \in MsgType /\ n.phase = "sent" /\ n.kind \in {"call", "list"} /\ n.at = b
            /\ n.from = m.from
        <5> HIDE DEF b
        <5> QED BY <1>0, <2>0, <3>3, <4>5, <4>6 DEF MsgType
      <4> HIDE DEF n, b
      <4> QED BY <1>0, <2>4, <4>1, <4>3, <4>4, <4>7, GivenKeeps
    <3> QED BY <3>2, <3>3
  <2> QED BY <2>0, <2>1, <2>2, <2>3, <2>4 DEF GoesOnOrEnds, Busy
<1> QED BY <1>0, <1>2, <1>3, <1>4, <1>5 DEF MsgType

\* What a message starts as, and what it is after a step that started it.
LEMMA SlotStarts ==
  ASSUME RouterInductive, [Next]_vars, NEW i \in Calls, NEW kind \in {"call", "list", "act"},
         msg'[i] = After(i, [NoMsg EXCEPT !.kind = kind, !.phase = "asked", !.from = active]),
         calls[i].pc = "free",
         \/ /\ calls'[i].pc \in {"acquiring", "waiting"}
            /\ IF kind = "act" THEN calls'[i].op \in {"switch", "restart"}
                              ELSE calls'[i].op = "active" /\ calls'[i].prof = active
         \/ calls'[i].pc = "ok" /\ (kind # "act" => Pool(active, {"ready"}) /\ UNCHANGED st)
  PROVE  Slot(i)' /\ msg'[i] \in MsgType
<1> DEFINE m == [NoMsg EXCEPT !.kind = kind, !.phase = "asked", !.from = active]
<1>0. Inductive /\ TypeOK
  BY DEF RouterInductive, Inductive
<1>1. /\ m \in MsgType /\ m.phase = "asked" /\ m.kind = kind /\ m.from = active
      /\ m.at = None
  BY <1>0 DEF MsgType, NoMsg, TypeOK
<1>2. msg'[i] = After(i, m)
  OBVIOUS
<1> HIDE DEF m
<1>3. CASE calls'[i].pc \in {"acquiring", "waiting"}
  <2>1. msg'[i] = m
    BY <1>1, <1>2, <1>3, AfterIs DEF Got, Threw
  <2> QED BY <1>1, <1>3, <2>1 DEF Slot, Busy, Asked
<1>4. CASE calls'[i].pc = "ok" /\ kind = "act"
  <2>1. msg'[i] = Done
    BY <1>1, <1>2, <1>4, AfterIs DEF Got
  <2> QED BY <1>4, <2>1, SlotEnds, DoneIs
<1>5. CASE calls'[i].pc = "ok" /\ kind # "act"
  <2> DEFINE n == [m EXCEPT !.phase = "sent", !.at = Obtained(i)]
             b == pool[active]
  <2>1. msg'[i] = n
    BY <1>1, <1>2, <1>5, AfterIs DEF Got
  <2>2. Obtained(i) = b
    BY DEF Obtained
  <2>3. active \in Profiles /\ pool[active] # None /\ st[b] = "ready" /\ st' = st
    BY <1>0, <1>5 DEF Pool, Pooled, TypeOK
  <2>4. b \in Ids /\ b \in 1..born /\ prof[b] = active
    BY <1>0, <2>3 DEF Inductive, PooledHasSocket, SocketsTracked, BornAreKnown, TypeOK, Pooled,
         Ids, None
  <2>5. /\ n \in MsgType /\ n.phase = "sent" /\ n.kind \in {"call", "list"} /\ n.at = b
        /\ n.from = active
    <3> HIDE DEF b
    <3> QED BY <1>1, <1>5, <2>2, <2>4 DEF MsgType
  <2> HIDE DEF n, b
  <2> QED BY <1>0, <1>5, <2>1, <2>3, <2>4, <2>5, GivenKeeps
<1> QED BY <1>3, <1>4, <1>5

ClientTypes ==
  /\ collided \in BOOLEAN /\ shown \in {"bare", "proxy"}
  /\ seen \in Profiles \cup {Absent} /\ due \in BOOLEAN
  /\ asks \in [Asks -> Ids \cup {None}] /\ strayed \in BOOLEAN

LEMMA BareTypes ==
  ASSUME ClientTypes, active' \in Profiles, NEW yes \in BOOLEAN, Bare(yes)
  PROVE  /\ shown' \in {"bare", "proxy"}
         /\ seen' \in Profiles \cup {Absent}
BY DEF ClientTypes, Bare

LEMMA ReactTypes ==
  ASSUME ClientTypes, active' \in Profiles, NEW M, React(M) PROVE ClientTypes'
<1> DEFINE yes == \E i \in Calls : M[i].kind = "list" /\ ~M[i].late
                       /\ M[i].phase # "done" /\ msg'[i].phase = "done"
<1>1. yes \in BOOLEAN /\ Bare(yes) /\ due' \in BOOLEAN /\ UNCHANGED <<collided, questions>>
  BY DEF React
<1> HIDE DEF yes
<1>2. /\ shown' \in {"bare", "proxy"}
      /\ seen' \in Profiles \cup {Absent}
  BY <1>1, BareTypes
<1> QED BY <1>1, <1>2 DEF ClientTypes, questions

LEMMA RouterAssemble ==
  ASSUME Inductive', \A i \in Calls : Slot(i)' /\ msg'[i] \in MsgType,
         msg' = [i \in Calls |-> msg'[i]], ClientTypes'
  PROVE  RouterInductive'
<1>1. msg' \in [Calls -> MsgType]
  OBVIOUS
<1> QED BY <1>1 DEF RouterInductive, RouterTypeOK, Matches, MsgType, ClientTypes

LEMMA StartKeeps ==
  ASSUME RouterInductive, [Next]_vars, NEW i \in Calls, NEW kind \in {"call", "list", "act"},
         New(i, kind), calls[i].pc = "free", \A j \in Calls : j # i => calls'[j] = calls[j],
         \/ /\ calls'[i].pc \in {"acquiring", "waiting"}
            /\ IF kind = "act" THEN calls'[i].op \in {"switch", "restart"}
                              ELSE calls'[i].op = "active" /\ calls'[i].prof = active
         \/ calls'[i].pc = "ok" /\ (kind # "act" => Pool(active, {"ready"}) /\ UNCHANGED st)
  PROVE  RouterInductive'
<1> DEFINE m == [NoMsg EXCEPT !.kind = kind, !.phase = "asked", !.from = active]
           M == [msg EXCEPT ![i] = m]
<1>1. React(M)
  BY DEF New
<1>2. msg' = [j \in Calls |-> After(j, M[j])]
  BY <1>1 DEF React
<1>3. M[i] = m /\ \A j \in Calls : j # i => M[j] = msg[j]
  BY DEF RouterInductive, RouterTypeOK
<1>4. Inductive' /\ ClientTypes /\ active' \in Profiles
  BY StepInductive DEF RouterInductive, RouterTypeOK, ClientTypes, Inductive, TypeOK
<1>5. Slot(i)' /\ msg'[i] \in MsgType
  BY <1>2, <1>3, SlotStarts
<1>6. ASSUME NEW j \in Calls, j # i PROVE Slot(j)' /\ msg'[j] \in MsgType
  BY <1>2, <1>3, <1>6, SlotReacts
<1>7. ClientTypes'
  BY <1>1, <1>4, ReactTypes
<1>8. msg' = [j \in Calls |-> msg'[j]]
  BY <1>2
<1> QED BY <1>4, <1>5, <1>6, <1>7, <1>8, RouterAssemble

LEMMA ReactKeeps ==
  ASSUME RouterInductive, [Next]_vars, React(msg),
         \A i \in Calls : calls'[i] = calls[i] \/ GoesOnOrEnds(i) \/ OfItself(i)
  PROVE  RouterInductive'
<1>1. msg' = [i \in Calls |-> After(i, msg[i])]
  BY DEF React
<1>2. Inductive' /\ ClientTypes /\ active' \in Profiles
  BY StepInductive DEF RouterInductive, RouterTypeOK, ClientTypes, Inductive, TypeOK
<1>3. \A i \in Calls : Slot(i)' /\ msg'[i] \in MsgType
  BY <1>1, SlotReacts
<1>4. ClientTypes'
  BY <1>2, ReactTypes
<1>5. msg' = [i \in Calls |-> msg'[i]]
  BY <1>1
<1> QED BY <1>2, <1>3, <1>4, <1>5, RouterAssemble

\* Steps of the router alone: the pool stays, and one message at most ends or is late.
LEMMA AloneKeeps ==
  ASSUME RouterInductive, UNCHANGED vars, ClientTypes', NEW i \in Calls,
         \/ msg' = msg
         \/ msg' = [msg EXCEPT ![i] = Done] /\ msg[i].phase = "sent"
         \/ msg' = [msg EXCEPT ![i].late = TRUE]
  PROVE  RouterInductive'
<1>1. Inductive'
  BY StepInductive DEF RouterInductive
<1>2. UNCHANGED <<calls, born, prof, st>>
  BY DEF vars, bornVars, poolVars
<1>3. msg \in [Calls -> MsgType]
  BY DEF RouterInductive, RouterTypeOK, MsgType
<1>4. msg' = [j \in Calls |-> msg'[j]]
  BY <1>3
<1>5. ASSUME NEW j \in Calls, msg'[j] = msg[j] PROVE Slot(j)' /\ msg'[j] \in MsgType
  BY <1>2, <1>3, <1>5 DEF RouterInductive, Matches, Slot, Busy
<1>6. CASE msg' = [msg EXCEPT ![i] = Done] /\ msg[i].phase = "sent"
  <2>1. calls[i].pc # "free" /\ ~Busy(i)
    BY <1>6 DEF RouterInductive, Matches, Slot
  <2>2. calls'[i].pc \in {"ok", "failed"}
    BY <1>2, <2>1 DEF RouterInductive, Inductive, TypeOK, Busy
  <2>3. msg'[i] = Done
    BY <1>3, <1>6
  <2>4. Slot(i)' /\ msg'[i] \in MsgType
    BY <2>2, <2>3, SlotEnds, DoneIs
  <2>5. \A j \in Calls : j # i => msg'[j] = msg[j]
    BY <1>3, <1>6
  <2> QED BY <1>1, <1>4, <1>5, <2>4, <2>5, RouterAssemble
<1>7. CASE msg' = [msg EXCEPT ![i].late = TRUE]
  <2> DEFINE n == [msg[i] EXCEPT !.late = TRUE]
  <2>1. msg'[i] = n /\ \A j \in Calls : j # i => msg'[j] = msg[j]
    BY <1>3, <1>7
  <2>2. /\ n \in MsgType /\ n.kind = msg[i].kind /\ n.phase = msg[i].phase
        /\ n.at = msg[i].at /\ n.from = msg[i].from
    BY <1>3 DEF MsgType
  <2>3. Slot(i)
    BY DEF RouterInductive, Matches
  <2> HIDE DEF n
  <2>4. Slot(i)'
    BY <1>2, <2>1, <2>2, <2>3 DEF Slot, Busy
  <2> QED BY <1>1, <1>4, <1>5, <2>1, <2>2, <2>4, RouterAssemble
<1>8. CASE msg' = msg
  BY <1>1, <1>4, <1>5, <1>8, RouterAssemble
<1> QED BY <1>6, <1>7, <1>8

LEMMA RouterStepKeeps == RouterInductive /\ [RouterNext]_allVars => RouterInductive'
<1> SUFFICES ASSUME RouterInductive, [RouterNext]_allVars PROVE RouterInductive'
  OBVIOUS
<1>0. [Next]_vars /\ TypeOK /\ ClientTypes /\ active \in Profiles
  BY StepRefines DEF RouterInductive, RouterTypeOK, ClientTypes, Inductive, TypeOK
<1>1. ASSUME NEW i \in Calls, Active(i), NEW kind \in {"call", "list"}, New(i, kind)
      PROVE  RouterInductive'
  BY <1>0, <1>1, ActiveMoves, StartKeeps
<1>2. ASSUME NEW i \in Calls, NEW p \in Profiles, HandleAct(i, p) PROVE RouterInductive'
  <2>1. (Switch(i, p) \/ Restart(i, p)) /\ New(i, "act")
    BY <1>2 DEF HandleAct
  <2> QED BY <1>0, <2>1, ActMoves, StartKeeps
<1>3. ASSUME NEW i \in Calls, Turns(i) PROVE RouterInductive'
  <2>1. React(msg) /\ (Wait(i) \/ Resume(i) \/ Reload(i))
    BY <1>3 DEF Turns
  <2>2. \A j \in Calls : calls'[j] = calls[j] \/ GoesOnOrEnds(j) \/ OfItself(j)
    BY <1>0, <2>1, TurnMoves, ReloadMoves
  <2> QED BY <1>0, <2>1, <2>2, ReactKeeps
<1>4. ASSUME NEW k \in Ids, Happens(k) PROVE RouterInductive'
  <2>1. React(msg) /\ Event(k)
    BY <1>4 DEF Happens
  <2>2. \A j \in Calls : calls'[j] = calls[j] \/ GoesOnOrEnds(j) \/ OfItself(j)
    BY <1>0, <2>1, EventMoves
  <2> QED BY <1>0, <2>1, <2>2, ReactKeeps
<1>5. ASSUME NEW i \in Calls, ServerAnswers(i) PROVE RouterInductive'
  <2>1. UNCHANGED <<vars, client, questions>> /\ msg' = [msg EXCEPT ![i] = Done]
        /\ msg[i].phase = "sent"
    BY <1>5 DEF ServerAnswers, Ends, Sent
  <2>2. ClientTypes'
    BY <1>0, <2>1 DEF ClientTypes, client, questions
  <2> QED BY <2>1, <2>2, AloneKeeps
<1>6. ASSUME NEW i \in Calls, ListRead(i) PROVE RouterInductive'
  <2>1. UNCHANGED <<vars, questions>> /\ msg' = [msg EXCEPT ![i] = Done]
        /\ msg[i].phase = "sent"
    BY <1>6 DEF ListRead, Ends, Sent
  <2>2. collided' \in BOOLEAN
    <3>1. CASE msg[i].late
      BY <1>0, <1>6, <3>1 DEF ClientTypes, ListRead
    <3>2. CASE ~msg[i].late
      <4>1. collided' = Checked(i)
        BY <1>6, <3>2 DEF ListRead
      <4> QED BY <4>1 DEF Checked
    <3> QED BY <3>1, <3>2
  <2>3. /\ shown' \in {"bare", "proxy"}
        /\ seen' \in Profiles \cup {Absent} /\ due' \in BOOLEAN
    BY <1>0, <1>6 DEF ClientTypes, ListRead
  <2>4. ClientTypes'
    BY <1>0, <2>1, <2>2, <2>3 DEF ClientTypes, questions
  <2> QED BY <2>1, <2>4, AloneKeeps
<1>7. ASSUME NEW i \in Calls, Deadline(i) PROVE RouterInductive'
  <2>1. UNCHANGED <<vars, collided, due, questions>> /\ msg' = [msg EXCEPT ![i].late = TRUE]
        /\ Bare(TRUE)
    BY <1>7 DEF Deadline
  <2>2. ClientTypes'
    BY <1>0, <2>1 DEF ClientTypes, questions, Bare, vars
  <2> QED BY <2>1, <2>2, AloneKeeps
<1>8. CASE ListWithoutProfile
  <2>1. UNCHANGED <<vars, collided, questions, msg>> /\ Bare(TRUE) /\ due' = FALSE
    BY <1>8 DEF ListWithoutProfile
  <2>2. ClientTypes'
    BY <1>0, <2>1 DEF ClientTypes, questions, Bare, vars
  <2>3. CASE \E i \in Calls : TRUE
    BY <2>1, <2>2, <2>3, AloneKeeps
  <2>4. CASE ~ \E i \in Calls : TRUE
    BY <2>1, <2>2, <2>4, StepInductive DEF RouterInductive, RouterTypeOK, ClientTypes, Matches
  <2> QED BY <2>3, <2>4
<1>9. ASSUME NEW k \in Ids, NEW q \in Asks, ForwardBackendRequest(q, k) PROVE RouterInductive'
  <2>1. UNCHANGED <<vars, msg, client, strayed>> /\ asks' = [asks EXCEPT ![q] = k]
    BY <1>9 DEF ForwardBackendRequest
  <2>2. ClientTypes'
    BY <1>0, <2>1 DEF ClientTypes, client
  <2>3. \A i \in Calls : Slot(i)'
    BY <2>1 DEF RouterInductive, Matches, Slot, Busy, vars, bornVars, poolVars
  <2> QED BY <1>0, <2>1, <2>2, <2>3, StepInductive
          DEF RouterInductive, RouterTypeOK, ClientTypes, Matches
<1>10. ASSUME NEW q \in Asks, ClientAnswers(q) PROVE RouterInductive'
  <2>1. UNCHANGED <<vars, msg, client>> /\ asks' = [asks EXCEPT ![q] = None]
        /\ strayed' \in BOOLEAN
    BY <1>0, <1>10 DEF ClientAnswers, ClientTypes
  <2>2. ClientTypes'
    BY <1>0, <2>1 DEF ClientTypes, client
  <2>3. \A i \in Calls : Slot(i)'
    BY <2>1 DEF RouterInductive, Matches, Slot, Busy, vars, bornVars, poolVars
  <2> QED BY <1>0, <2>1, <2>2, <2>3, StepInductive
          DEF RouterInductive, RouterTypeOK, ClientTypes, Matches
<1>11. CASE UNCHANGED allVars
  <2>1. \A i \in Calls : Slot(i)'
    BY <1>11 DEF RouterInductive, Matches, Slot, Busy, allVars, routerVars, vars, bornVars,
         poolVars
  <2> QED BY <1>0, <1>11, <2>1, StepInductive DEF RouterInductive, RouterTypeOK, allVars,
          routerVars, client, questions, Matches
<1> QED BY <1>1, <1>2, <1>3, <1>4, <1>5, <1>6, <1>7, <1>8, <1>9, <1>10, <1>11
        DEF RouterNext, Passthrough, AskList

LEMMA RouterInitInductive == RouterInit => RouterInductive
<1> SUFFICES ASSUME RouterInit PROVE RouterInductive
  OBVIOUS
<1>1. Inductive
  BY InitInductive DEF RouterInit
<1>2. RouterTypeOK
  BY NamesAssumption, RouterAssumption DEF RouterInit, RouterTypeOK, NoMsg
<1>3. Matches
  BY DEF RouterInit, Init, Free, Matches, Slot, NoMsg, Busy
<1> QED BY <1>1, <1>2, <1>3 DEF RouterInductive

\* The inductive invariant of the router over the pool: a message waits for the call of the
\* manager that was made for it, of the profile it was sent under (router.js:125-160).
THEOREM RouterInductiveHolds == RouterSpec => []RouterInductive
<1> QED BY RouterInitInductive, RouterStepKeeps, PTL DEF RouterSpec

\* No call reaches another account than the one active when the client sent it
\* (router.js:125, 361-363), however many profiles, calls and edits there are.
THEOREM RightAccountHolds == RouterSpec => []RightAccount
<1>1. RouterInductive => RightAccount
  BY DEF RouterInductive, RouterTypeOK, Matches, Slot, RightAccount, MsgType
<1> QED BY <1>1, RouterInductiveHolds, PTL

\* No message is forgotten: each waits for a call in progress or is in a backend that has
\* not exited (router.js:130, backend.js:231).
THEOREM NobodyForgottenHolds == RouterSpec => []NobodyForgotten
<1>1. RouterInductive => NobodyForgotten
  BY DEF RouterInductive, Matches, Slot, NobodyForgotten
<1> QED BY <1>1, RouterInductiveHolds, PTL

\* The answer of the client goes to a server of the profile that asked (router.js:88-89).
THEOREM AnswersKeepProfileHolds == RouterSpec => []AnswersKeepProfile
<1>1. RouterInit => AnswersKeepProfile
  BY DEF RouterInit, AnswersKeepProfile
<1>2. RouterInductive /\ AnswersKeepProfile /\ [RouterNext]_allVars => AnswersKeepProfile'
  <2> SUFFICES ASSUME RouterInductive, ~strayed, [RouterNext]_allVars PROVE ~strayed'
    BY DEF AnswersKeepProfile
  <2>1. ASSUME NEW q \in Asks, ClientAnswers(q) PROVE ~strayed'
    <3> DEFINE k == asks[q]
               b == pool[prof[k]]
    <3>1. strayed' = (strayed \/ (b # None /\ prof[b] # prof[k])) /\ k # None
      BY <2>1 DEF ClientAnswers, Asker
    <3>2. prof[k] \in Profiles
      BY <3>1 DEF RouterInductive, RouterTypeOK, Inductive, TypeOK
    <3>3. b # None => prof[b] = prof[k]
      BY <3>2 DEF RouterInductive, Inductive, PooledHasSocket, SocketsTracked, Pooled
    <3> QED BY <3>1, <3>3
  <2>2. ASSUME NEW M, React(M) PROVE ~strayed'
    BY <2>2 DEF React, questions
  <2>3. CASE UNCHANGED strayed
    BY <2>3
  <2> QED BY <2>1, <2>2, <2>3 DEF RouterNext, Passthrough, AskList, HandleAct, New, Turns,
          Happens, ServerAnswers, ListRead, Deadline, ListWithoutProfile,
          ForwardBackendRequest, allVars, routerVars, questions
<1> QED BY <1>1, <1>2, RouterInductiveHolds, PTL DEF RouterSpec

\* M is the table of messages a step of the manager finds: the router's, with at most
\* messages that have just come.
Found(M) ==
  \A j \in Calls : \/ M[j] = msg[j]
                   \/ /\ msg[j].kind = "none" /\ calls[j].pc = "free"
                      /\ M[j] \in MsgType /\ M[j].phase = "asked" /\ ~M[j].late

LEMMA PendingStays ==
  ASSUME NEW M, React(M), NEW j \in Calls, M[j] \in MsgType, M[j].kind = "list", ~M[j].late,
         M[j].phase \in {"asked", "sent"}
  PROVE  ListPending' \/ seen' = active'
<1> DEFINE m == M[j]
<1>1. msg'[j] = After(j, m) /\ m \in MsgType
  BY DEF React
<1>2. CASE msg'[j] = Done
  BY <1>2, DoneIs DEF React, Bare
<1>3. CASE msg'[j] = m
  BY <1>3 DEF ListPending
<1>4. CASE msg'[j] = [m EXCEPT !.phase = "sent", !.at = Obtained(j)]
  <2>1. msg'[j].kind = "list" /\ ~msg'[j].late /\ msg'[j].phase = "sent"
    BY <1>1, <1>4 DEF MsgType
  <2> QED BY <2>1 DEF ListPending
<1> QED BY <1>1, <1>2, <1>3, <1>4, AfterIs

LEMMA ReactFollows ==
  ASSUME RouterInductive, DescriptionFollows, NEW M, React(M), Found(M),
         \A j \in Calls : Busy(j) => calls'[j] = calls[j] \/ GoesOnOrEnds(j),
         UNCHANGED <<config, active>> \/ Reconciling' \/ due' \/ config'[active'] = Absent
  PROVE  DescriptionFollows'
<1>0. \A j \in Calls : msg[j] \in MsgType /\ M[j] \in MsgType
  BY DEF RouterInductive, RouterTypeOK, MsgType, Found
<1>1. \A j \in Calls : Slot(j)
  BY DEF RouterInductive, Matches
<1>2. CASE Reconciling' \/ due' \/ config'[active'] = Absent
  BY <1>2 DEF DescriptionFollows
<1>3. CASE UNCHANGED <<config, active>> /\ seen \in {Absent, active}
  BY <1>3 DEF React, Bare, DescriptionFollows
<1>4. ASSUME due PROVE due' \/ ListPending' \/ seen' = active'
  <2>1. CASE \A i \in Calls : M[i].kind # "list" \/ msg[i].kind = "list"
    BY <1>4, <2>1 DEF React
  <2>2. ASSUME NEW j \in Calls, M[j].kind = "list", msg[j].kind # "list"
        PROVE  ListPending' \/ seen' = active'
    <3>1. M[j].phase = "asked" /\ ~M[j].late
      BY <2>2 DEF Found
    <3> QED BY <1>0, <2>2, <3>1, PendingStays
  <2> QED BY <2>1, <2>2
<1>5. ASSUME ListPending PROVE ListPending' \/ seen' = active'
  <2>1. PICK j \in Calls : msg[j].kind = "list" /\ ~msg[j].late /\ msg[j].phase # "done"
    BY <1>5 DEF ListPending
  <2>2. M[j] = msg[j]
    BY <2>1 DEF Found
  <2>3. msg[j].phase \in {"asked", "sent"}
    BY <1>0, <1>1, <2>1 DEF Slot, MsgType
  <2> QED BY <1>0, <2>1, <2>2, <2>3, PendingStays
<1>6. ASSUME Reconciling PROVE Reconciling' \/ due'
  <2>1. PICK j \in Calls : Busy(j) /\ calls[j].op = "reconcile"
    BY <1>6 DEF Reconciling
  <2>2. msg[j].kind = "none" /\ M[j] = msg[j]
    BY <1>1, <2>1 DEF Slot, Asked, Found, Busy
  <2>3. CASE Busy(j)'
    BY <2>1, <2>3 DEF Reconciling, GoesOnOrEnds
  <2>4. CASE ~Busy(j)'
    <3>1. calls'[j] # calls[j]
      BY <2>1, <2>4 DEF Busy
    <3>2. calls'[j].pc = "ok" /\ calls'[j].op = "reconcile"
      BY <2>1, <2>4, <3>1 DEF GoesOnOrEnds, Busy
    <3>3. Got(j)
      BY <2>1, <3>2 DEF Got, Busy
    <3> QED BY <2>2, <3>2, <3>3 DEF React, Changed
  <2> QED BY <2>3, <2>4
<1>7. CASE UNCHANGED <<config, active>> /\ config[active] = Absent
  BY <1>7 DEF DescriptionFollows
<1> QED BY <1>2, <1>3, <1>4, <1>5, <1>6, <1>7 DEF DescriptionFollows

\* What moves the active profile or the file is a switch, told when it succeeds, or a reload.
LEMMA SwitchTells ==
  ASSUME RouterInductive, NEW i \in Calls, NEW p \in Profiles, Switch(i, p), New(i, "act")
  PROVE  UNCHANGED <<config, active>> \/ due'
<1> DEFINE M == [msg EXCEPT ![i] = [NoMsg EXCEPT !.kind = "act", !.phase = "asked",
                                                 !.from = active]]
<1>1. M[i].kind = "act" /\ React(M)
  BY DEF New, RouterInductive, RouterTypeOK, NoMsg
<1> HIDE DEF M
<1>2. CASE End(i, "ok")
  <2>1. Got(i) /\ calls[i].pc = "free"
    BY <1>2, EndIs DEF Switch, Starts, Got, RouterInductive, Inductive
  <2> QED BY <1>1, <2>1 DEF React, Changed, Succeeded
<1> QED BY <1>2 DEF Switch

LEMMA ResumeTells ==
  ASSUME RouterInductive, NEW i \in Calls, Resume(i), React(msg)
  PROVE  UNCHANGED <<config, active>> \/ due' \/ config'[active'] = Absent
<1>1. CASE active' = active
  BY <1>1 DEF Resume
<1>2. CASE calls[i].op = "switch" /\ Become(calls[i].prof, calls[i].prev) /\ End(i, "ok")
  <2>1. Busy(i) /\ calls[i].pc # "free" /\ calls[i].pc # "ok"
    BY <1>2 DEF Resume, Settled, Busy
  <2>2. msg[i].phase = "asked" /\ msg[i].kind = "act"
    BY <1>2, <2>1 DEF RouterInductive, Matches, Slot, Asked
  <2>3. Got(i)
    BY <1>2, <2>1, EndIs DEF Got, RouterInductive, Inductive
  <2>4. config' = config /\ active' = calls[i].prof
    BY <1>2 DEF Resume, Become
  <2>5. CASE config[calls[i].prof] # Absent
    BY <2>2, <2>3, <2>5 DEF React, Changed, Succeeded
  <2> QED BY <2>4, <2>5
<1> QED BY <1>1, <1>2 DEF Resume, Fail

LEMMA ReloadTells ==
  ASSUME RouterInductive, NEW i \in Calls, Reload(i), React(msg)
  PROVE  Reconciling' \/ due'
<1>1. calls[i].pc = "free" /\ msg[i].kind = "none"
  BY DEF Reload, RouterInductive, Matches, Slot
<1>2. calls'[i].pc \in {"acquiring", "ok"} /\ calls'[i].op = "reconcile"
  BY ReconcileIs DEF Reload, RouterInductive, Inductive
<1>3. CASE calls'[i].pc = "acquiring"
  BY <1>2, <1>3 DEF Reconciling, Busy
<1>4. CASE calls'[i].pc = "ok"
  BY <1>1, <1>2, <1>4 DEF React, Changed, Got
<1> QED BY <1>2, <1>3, <1>4

LEMMA StartFound ==
  ASSUME RouterInductive, NEW i \in Calls, NEW kind \in {"call", "list", "act"}, New(i, kind),
         calls[i].pc = "free"
  PROVE  \E M : React(M) /\ Found(M)
<1> DEFINE m == [NoMsg EXCEPT !.kind = kind, !.phase = "asked", !.from = active]
           M == [msg EXCEPT ![i] = m]
<1>1. m \in MsgType /\ m.phase = "asked" /\ ~m.late
  BY DEF MsgType, NoMsg, RouterInductive, Inductive, TypeOK
<1>2. msg[i].kind = "none"
  BY DEF RouterInductive, Matches, Slot
<1>3. React(M)
  BY DEF New
<1>4. \A j \in Calls : M[j] = IF j = i THEN m ELSE msg[j]
  BY DEF RouterInductive, RouterTypeOK
<1> HIDE DEF m, M
<1> QED BY <1>1, <1>2, <1>3, <1>4 DEF Found

LEMMA StartFollows ==
  ASSUME RouterInductive, DescriptionFollows,
         NEW i \in Calls, NEW kind \in {"call", "list", "act"}, New(i, kind),
         calls[i].pc = "free", \A j \in Calls : j # i => calls'[j] = calls[j],
         UNCHANGED <<config, active>> \/ due'
  PROVE  DescriptionFollows'
<1>1. PICK M : React(M) /\ Found(M)
  BY StartFound
<1>2. \A j \in Calls : Busy(j) => calls'[j] = calls[j] \/ GoesOnOrEnds(j)
  BY DEF Busy
<1> QED BY <1>1, <1>2, ReactFollows

\* The client's description of the active profile is right, or it has been told to ask
\* again, or is about to be (router.js:360-363).
THEOREM DescriptionHolds == RouterSpec => []DescriptionFollows
<1>1. RouterInit => DescriptionFollows
  BY DEF RouterInit, DescriptionFollows
<1>2. RouterInductive /\ DescriptionFollows /\ [RouterNext]_allVars => DescriptionFollows'
  <2> SUFFICES ASSUME RouterInductive, DescriptionFollows, [RouterNext]_allVars
               PROVE  DescriptionFollows'
    OBVIOUS
  <2>0. TypeOK /\ \A j \in Calls : msg[j] \in MsgType /\ Slot(j)
    BY DEF RouterInductive, RouterTypeOK, MsgType, Inductive, Matches
  <2>1. ASSUME NEW i \in Calls, Active(i), NEW kind \in {"call", "list"}, New(i, kind)
        PROVE  DescriptionFollows'
    <3>1. UNCHANGED <<config, active>>
      BY <2>1 DEF Active
    <3> QED BY <2>0, <2>1, <3>1, ActiveMoves, StartFollows
  <2>2. ASSUME NEW i \in Calls, NEW p \in Profiles, HandleAct(i, p) PROVE DescriptionFollows'
    <3>1. (Switch(i, p) \/ Restart(i, p)) /\ New(i, "act")
      BY <2>2 DEF HandleAct
    <3>2. UNCHANGED <<config, active>> \/ due'
      BY <3>1, SwitchTells DEF Restart
    <3> QED BY <2>0, <3>1, <3>2, ActMoves, StartFollows
  <2>3. ASSUME NEW i \in Calls, Turns(i) PROVE DescriptionFollows'
    <3>1. React(msg) /\ (Wait(i) \/ Resume(i) \/ Reload(i))
      BY <2>3 DEF Turns
    <3>2. \A j \in Calls : Busy(j) => calls'[j] = calls[j] \/ GoesOnOrEnds(j)
      BY <2>0, <3>1, TurnMoves, ReloadMoves DEF OfItself, Busy
    <3>3. Wait(i) => UNCHANGED <<config, active>>
      BY DEF Wait, Arrive, AcquireFails, Fail
    <3>4. UNCHANGED <<config, active>> \/ Reconciling' \/ due' \/ config'[active'] = Absent
      BY <3>1, <3>3, ResumeTells, ReloadTells
    <3> QED BY <3>1, <3>2, <3>4, ReactFollows DEF Found
  <2>4. ASSUME NEW k \in Ids, Happens(k) PROVE DescriptionFollows'
    <3>1. React(msg) /\ Event(k)
      BY <2>4 DEF Happens
    <3>2. \A j \in Calls : Busy(j) => calls'[j] = calls[j] \/ GoesOnOrEnds(j)
      BY <2>0, <3>1, EventMoves DEF OfItself, Busy
    <3>3. UNCHANGED <<config, active>>
      BY <3>1 DEF Event, InitOk, InitBreaks, Breaks, Closed, Freeze, Elsewhere
    <3> QED BY <3>1, <3>2, <3>3, ReactFollows DEF Found
  <2>5. ASSUME NEW i \in Calls, Deadline(i) PROVE DescriptionFollows'
    BY <2>5 DEF Deadline, Bare, DescriptionFollows, vars
  <2>6. CASE ListWithoutProfile
    BY <2>6 DEF ListWithoutProfile, Bare, DescriptionFollows, vars
  <2>7. ASSUME NEW i \in Calls, ListRead(i) PROVE DescriptionFollows'
    <3>1. UNCHANGED <<active, config>>
      BY <2>7 DEF ListRead, vars
    <3>2. due' \/ seen' = active
      BY <2>7 DEF ListRead
    <3> QED BY <3>1, <3>2 DEF DescriptionFollows
  <2>8. ASSUME NEW i \in Calls, ServerAnswers(i) PROVE DescriptionFollows'
    <3>1. UNCHANGED <<active, config, calls, seen, due>>
      BY <2>8 DEF ServerAnswers, client, vars
    <3>2. msg[i].kind = "call" /\ msg' = [msg EXCEPT ![i] = Done]
      BY <2>8 DEF ServerAnswers, Sent, Ends
    <3>3. \A j \in Calls : msg[j].kind = "list" => msg'[j] = msg[j]
      BY <3>2 DEF RouterInductive, RouterTypeOK
    <3>4. ListPending => ListPending'
      BY <3>3 DEF ListPending
    <3> QED BY <3>1, <3>4 DEF DescriptionFollows, Reconciling, Busy
  <2>9. CASE UNCHANGED <<config, active, calls, msg, seen, due>>
    BY <2>9 DEF DescriptionFollows, Reconciling, Busy, ListPending
  <2> QED BY <2>1, <2>2, <2>3, <2>4, <2>5, <2>6, <2>7, <2>8, <2>9 DEF RouterNext, Passthrough,
          AskList, ForwardBackendRequest, ClientAnswers, client, vars, allVars, routerVars
<1> QED BY <1>1, <1>2, RouterInductiveHolds, PTL DEF RouterSpec
=============================================================================
