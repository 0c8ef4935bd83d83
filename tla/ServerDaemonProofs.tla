------------------------ MODULE ServerDaemonProofs ------------------------
(***************************************************************************)
(* Proofs about ServerDaemon, for any set of clients, of identities and of *)
(* requests, any limit and any number of daemons.                          *)
(***************************************************************************)
EXTENDS ServerDaemon, TLAPS

SockStates == {"new", "open", "left", "cut"}

---------------------------------------------------------------------------
(* Type correctness.                                                       *)

\* The last statement of a handler keeps sockets, phases and daemon in their types.
LEMMA SortirTypes ==
  ASSUME NEW s \in [Clients -> SockStates], NEW p \in [Clients -> Phases],
         daemon = "up", SortirSiInutile(s, p)
  PROVE  /\ daemon' \in {"up", "exited"}
         /\ sock' \in [Clients -> SockStates]
         /\ phase' \in [Clients -> Phases]
  BY DEF SortirSiInutile, Cut, Lose, SockStates, Phases

\* Init sets every variable within its type.
LEMMA TypeInit == Init => TypeOK
  BY RequestsAssumption, BoundsAssumption DEF Init, TypeOK, Phases, Replies

\* What becomes of the phase of a client that leaves.
LEMMA LeavingIs ==
  ASSUME TypeOK, NEW c \in Clients, ClientLeaves(c)
  PROVE  \E q \in Phases :
           /\ SortirSiInutile([sock EXCEPT ![c] = "left"], [phase EXCEPT ![c] = q])
           /\ phase[c] # "live" => q = phase[c]
           /\ phase[c] = "live" /\ exited[c] => q = AfterExit(c)
           /\ phase[c] = "live" /\ ~exited[c] => q \in {"closing", "ended"}
<1>1. CASE phase[c] # "live"
  BY <1>1 DEF ClientLeaves, Closed, TypeOK
<1>2. CASE phase[c] = "live" /\ exited[c]
  BY <1>2 DEF ClientLeaves, Closed, AfterExit, Phases
<1>3. CASE phase[c] = "live" /\ ~exited[c]
  BY <1>3 DEF ClientLeaves, Closed, Phases
<1> QED
  BY <1>1, <1>2, <1>3

\* Every action of the daemon, of a client or of a process keeps the types.
LEMMA TypeStep ==
  ASSUME TypeOK, [Next]_vars
  PROVE  TypeOK'
<1> USE DEF TypeOK, daemonVars, clientVars, processVars, diskVars, seenVars
<1>1. CASE Boot
  BY <1>1 DEF Boot
<1>2. CASE Killed
  BY <1>2 DEF Killed, Die, Cut, Lose, Phases, Up
<1>3. CASE Terminated
  BY <1>3 DEF Terminated, Die, Cut, Lose, Phases, Up
<1>4. CASE ConciergeAsks \/ ConciergeSweeps
  BY <1>4 DEF ConciergeAsks, ConciergeSweeps
<1>5. ASSUME NEW c \in Clients, Client(c) PROVE TypeOK'
  <2>1. CASE Connect(c)
    BY <2>1 DEF Connect
  <2>2. CASE Invalid(c)
    BY <2>2 DEF Invalid, Reply, Phases, Replies
  <2>3. CASE OverLimit(c)
    BY <2>3 DEF OverLimit, Reply, Phases, Replies
  <2>4. CASE Acquire(c)
    <3> DEFINE n == counters[req[c].key] + 1
    <3>1. req[c].key \in Keys /\ n \in Nat
      BY RequestsAssumption
    <3>2. <<"shared", c>> \in {"shared", "locked", "oversize"} \X Clients
      OBVIOUS
    <3>3. dirs' \subseteq Keys \X Nat
      BY <2>4, <3>1 DEF Acquire, Materialise
    <3>4. phase' \in [Clients -> Phases] /\ reply' \in [Clients -> Replies]
      BY <2>4 DEF Acquire, Materialise, Reply, Phases, Replies
    <3>5. counters' \in [Keys -> Nat] /\ num' \in [Clients -> Nat]
      BY <2>4, <3>1 DEF Acquire
    <3>6. alerts' \subseteq {"shared", "locked", "oversize"} \X Clients
      BY <2>4, <3>2 DEF Acquire
    <3> QED
      BY <2>4, <3>3, <3>4, <3>5, <3>6 DEF Acquire
  <2>5. CASE ClientLeaves(c)
    <3>1. PICK q \in Phases :
            SortirSiInutile([sock EXCEPT ![c] = "left"], [phase EXCEPT ![c] = q])
      BY <2>5, LeavingIs
    <3>2. daemon = "up"
      BY <2>5 DEF ClientLeaves, Up
    <3>3. /\ daemon' \in {"up", "exited"}
          /\ sock' \in [Clients -> SockStates]
          /\ phase' \in [Clients -> Phases]
      <4> DEFINE s == [sock EXCEPT ![c] = "left"]
                 p == [phase EXCEPT ![c] = q]
      <4>1. s \in [Clients -> SockStates] /\ p \in [Clients -> Phases]
        BY DEF SockStates
      <4>2. SortirSiInutile(s, p)
        BY <3>1
      <4> HIDE DEF s, p
      <4> QED
        BY <4>1, <4>2, <3>2, SortirTypes
    <3>4. /\ server' \in [Clients -> {"none", "running", "spared", "dead"}]
          /\ tenants' \subseteq Clients /\ overlooked' \subseteq Clients
      BY <2>5 DEF ClientLeaves, Kill, List
    <3> QED
      BY <2>5, <3>3, <3>4 DEF ClientLeaves, SockStates
  <2> QED
    BY <1>5, <2>1, <2>2, <2>3, <2>4, <2>5 DEF Client, Acquiring
<1>6. ASSUME NEW c \in Clients, Daemon(c) PROVE TypeOK'
  <2> DEFINE ended == [phase EXCEPT ![c] = "ended"]
  <2>0. sock \in [Clients -> SockStates] /\ ended \in [Clients -> Phases]
    BY DEF SockStates, Phases
  <2>1. CASE Spawn(c)
    BY <2>1 DEF Spawn, Phases
  <2>2. CASE SpawnFails(c)
    BY <2>2 DEF SpawnFails, GiveUp, Removed, Reply, Phases, Replies
  <2>3. CASE Ready(c)
    BY <2>3 DEF Ready, Reply, Phases, Replies
  <2>4. CASE NotReady(c)
    BY <2>4 DEF NotReady, GiveUp, Kill, Removed, Reply, Phases, Replies
  <2>5. CASE ExitEvent(c)
    <3> DEFINE p == [phase EXCEPT ![c] = AfterExit(c)]
    <3>1. p \in [Clients -> Phases]
      BY DEF Phases, AfterExit
    <3>2. /\ daemon' \in {"up", "exited"}
          /\ sock' \in [Clients -> SockStates]
          /\ phase' \in [Clients -> Phases]
      <4>1. CASE phase[c] \in {"live", "closing"}
        <5>1. SortirSiInutile(sock, p) /\ daemon = "up"
          BY <2>5, <4>1 DEF ExitEvent, Up
        <5> QED
          BY <5>1, <2>0, <3>1, SortirTypes
      <4>2. CASE phase[c] \notin {"live", "closing"}
        BY <4>2, <2>5, <2>0 DEF ExitEvent, Up
      <4> QED
        BY <4>1, <4>2
    <3>3. tenants' \subseteq Clients /\ overlooked' \subseteq Clients
      BY <2>5 DEF ExitEvent, List
    <3> QED
      BY <2>5, <3>2, <3>3 DEF ExitEvent, SockStates
  <2>6. CASE Unlock(c)
    <3>1. Dir(c) \in Keys \X Nat
      BY RequestsAssumption DEF Dir
    <3> QED
      BY <2>6, <3>1 DEF Unlock, Phases
  <2>7. CASE UnlockTimeout(c)
    <3>1. SortirSiInutile(sock, ended) /\ daemon = "up"
      BY <2>7 DEF UnlockTimeout, Up
    <3>2. /\ daemon' \in {"up", "exited"}
          /\ sock' \in [Clients -> SockStates]
          /\ phase' \in [Clients -> Phases]
      BY <3>1, <2>0, SortirTypes
    <3>3. <<"locked", c>> \in {"shared", "locked", "oversize"} \X Clients
      OBVIOUS
    <3> QED
      BY <2>7, <3>2, <3>3 DEF UnlockTimeout, SockStates
  <2>8. CASE Store(c)
    <3>1. SortirSiInutile(sock, ended) /\ daemon = "up"
      BY <2>8 DEF Store, Up
    <3>2. /\ daemon' \in {"up", "exited"}
          /\ sock' \in [Clients -> SockStates]
          /\ phase' \in [Clients -> Phases]
      BY <3>1, <2>0, SortirTypes
    <3>3. /\ finis' \subseteq Keys \X Nat
          /\ saved' \subseteq Clients
          /\ alerts' \subseteq {"shared", "locked", "oversize"} \X Clients
      BY <2>8 DEF Store, Stored, Removed, Whole
    <3> QED
      BY <2>8, <3>2, <3>3 DEF Store, SockStates
  <2> QED
    BY <1>6, <2>1, <2>2, <2>3, <2>4, <2>5, <2>6, <2>7, <2>8 DEF Daemon, Probed
<1>7. ASSUME NEW c \in Clients, Process(c) PROVE TypeOK'
  <2>1. CASE ChromeWrites(c)
    <3>1. Dir(c) \in Keys \X Nat
      BY RequestsAssumption DEF Dir
    <3> QED
      BY <2>1, <3>1 DEF ChromeWrites
  <2> QED
    BY <1>7, <2>1 DEF Process, ChromeStarts, ChromeCloses, ServerDies, GuardianEof
<1>8. CASE UNCHANGED vars
  BY <1>8 DEF vars
<1> QED
  BY <1>1, <1>2, <1>3, <1>4, <1>5, <1>6, <1>7, <1>8 DEF Next

\* The state of the daemon, its clients, its processes and its disk is well formed.
THEOREM TypeCorrect == Spec => []TypeOK
  BY TypeInit, TypeStep, PTL DEF Spec
---------------------------------------------------------------------------
(* The inductive invariant.                                                *)

\* What the last statement of a handler may do to the phases it is given.
LEMMA SortirPhases ==
  ASSUME NEW s \in [Clients -> SockStates], NEW p \in [Clients -> Phases],
         daemon = "up", SortirSiInutile(s, p)
  PROVE  /\ \A d \in Clients : phase'[d] = p[d] \/ (phase'[d] = "lost" /\ p[d] \in InFlight)
         /\ daemon' = "up" \/ \A d \in Clients : phase'[d] \notin InFlight
  BY DEF SortirSiInutile, Cut, Lose, InFlight, Pending, Tidying

\* Nothing runs and nothing is on disk at first.
LEMMA InductiveInit == Init => Inductive
<1> SUFFICES ASSUME Init PROVE Inductive
  OBVIOUS
<1>1. TypeOK
  BY TypeInit
<1>2. ProcessesFollowPhases /\ OnlySnapshotsUnlock
  BY DEF Init, ProcessesFollowPhases, OnlySnapshotsUnlock, Tidying
<1>3. NothingInFlightWhenDown
  BY DEF Init, NothingInFlightWhenDown, InFlight, Pending, Tidying
<1>4. Holders = {} /\ Flying = {}
  BY DEF Init, Holders, Flying, InFlight, Pending, Tidying, Alive
<1>5. Rest
  BY DEF Init, Rest
<1> QED
  BY <1>1, <1>2, <1>3, <1>4, <1>5 DEF Inductive, HoldersOnDisk, HoldersApart, NumbersApart

\* A step of ClientLeaves, in the terms the next lemmas need.
LEMMA LeavingPhases ==
  ASSUME TypeOK, NEW c \in Clients, ClientLeaves(c)
  PROVE  /\ \A d \in Clients \ {c} : phase'[d] \in {phase[d], "lost"}
         /\ phase[c] # "live" => phase'[c] \in {phase[c], "lost"}
         /\ phase[c] = "live" /\ exited[c] => phase'[c] \in {AfterExit(c), "lost"}
         /\ phase[c] = "live" /\ ~exited[c] => phase'[c] \in {"closing", "ended", "lost"}
         /\ daemon' = "up" \/ \A d \in Clients : phase'[d] \notin InFlight
<1>0. PICK q \in Phases :
        /\ SortirSiInutile([sock EXCEPT ![c] = "left"], [phase EXCEPT ![c] = q])
        /\ phase[c] # "live" => q = phase[c]
        /\ phase[c] = "live" /\ exited[c] => q = AfterExit(c)
        /\ phase[c] = "live" /\ ~exited[c] => q \in {"closing", "ended"}
  BY LeavingIs
<1> DEFINE s == [sock EXCEPT ![c] = "left"]
           p == [phase EXCEPT ![c] = q]
<1>1. s \in [Clients -> SockStates] /\ p \in [Clients -> Phases]
  BY DEF SockStates, TypeOK
<1>2. SortirSiInutile(s, p) /\ daemon = "up"
  BY <1>0 DEF ClientLeaves, Up
<1>3. p[c] = q /\ \A d \in Clients \ {c} : p[d] = phase[d]
  BY DEF TypeOK
<1> HIDE DEF s, p
<1> QED
  BY <1>0, <1>1, <1>2, <1>3, SortirPhases

\* A step of ExitEvent in the same terms.
LEMMA ExitPhases ==
  ASSUME TypeOK, NEW c \in Clients, ExitEvent(c)
  PROVE  /\ \A d \in Clients \ {c} : phase'[d] \in {phase[d], "lost"}
         /\ phase[c] \notin {"live", "closing"} => phase'[c] \in {phase[c], "lost"}
         /\ phase[c] \in {"live", "closing"} => phase'[c] \in {AfterExit(c), "lost"}
         /\ daemon' = "up" \/ \A d \in Clients : phase'[d] \notin InFlight
<1>1. CASE phase[c] \notin {"live", "closing"}
  BY <1>1 DEF ExitEvent, Up
<1>2. CASE phase[c] \in {"live", "closing"}
  <2> DEFINE p == [phase EXCEPT ![c] = AfterExit(c)]
  <2>1. sock \in [Clients -> SockStates] /\ p \in [Clients -> Phases]
    BY DEF SockStates, Phases, AfterExit, TypeOK
  <2>2. SortirSiInutile(sock, p) /\ daemon = "up"
    BY <1>2 DEF ExitEvent, Up
  <2>3. p[c] = AfterExit(c) /\ \A d \in Clients \ {c} : p[d] = phase[d]
    BY DEF TypeOK
  <2> HIDE DEF p
  <2> QED
    BY <1>2, <2>1, <2>2, <2>3, SortirPhases
<1> QED
  BY <1>1, <1>2

\* A session whose tidying ends, by Store or by UnlockTimeout.
LEMMA EndingPhases ==
  ASSUME TypeOK, NEW c \in Clients, Up, SortirSiInutile(sock, [phase EXCEPT ![c] = "ended"])
  PROVE  /\ phase'[c] = "ended"
         /\ \A d \in Clients \ {c} : phase'[d] \in {phase[d], "lost"}
         /\ daemon' = "up" \/ \A d \in Clients : phase'[d] \notin InFlight
<1> DEFINE p == [phase EXCEPT ![c] = "ended"]
<1>1. sock \in [Clients -> SockStates] /\ p \in [Clients -> Phases]
  BY DEF SockStates, Phases, TypeOK
<1>2. p[c] = "ended" /\ \A d \in Clients \ {c} : p[d] = phase[d]
  BY DEF TypeOK
<1>3. "ended" \notin InFlight
  BY DEF InFlight, Pending, Tidying
<1>4. SortirSiInutile(sock, p) /\ daemon = "up"
  BY DEF Up
<1> HIDE DEF p
<1> QED
  BY <1>1, <1>2, <1>3, <1>4, SortirPhases

\* Processes follow the phases of their session.
LEMMA ProcessesStep ==
  ASSUME TypeOK, ProcessesFollowPhases, [Next]_vars
  PROVE  ProcessesFollowPhases'
<1> USE DEF TypeOK, ProcessesFollowPhases, daemonVars, clientVars, processVars, diskVars,
            seenVars
<1>1. CASE Boot
  BY <1>1 DEF Boot
<1>2. CASE Killed \/ Terminated
  BY <1>2 DEF Killed, Terminated, Die, Cut, Lose, InFlight, Pending, Tidying, Instances, Alive
<1>3. CASE ConciergeAsks \/ ConciergeSweeps
  BY <1>3 DEF ConciergeAsks, ConciergeSweeps, Alive
<1>4. ASSUME NEW c \in Clients, Client(c) PROVE ProcessesFollowPhases'
  <2>1. CASE Connect(c)
    BY <2>1 DEF Connect
  <2>2. CASE Invalid(c) \/ OverLimit(c)
    BY <2>2 DEF Invalid, OverLimit, Reply, Tidying
  <2>3. CASE Acquire(c)
    BY <2>3 DEF Acquire, Materialise, Reply, Tidying
  <2>4. CASE ClientLeaves(c)
    <3>1. /\ UNCHANGED <<reply, chrome, exited>>
          /\ \A d \in Clients \ {c} : server'[d] = server[d]
          /\ server'[c] = server[c] \/ (phase[c] = "live" /\ ~exited[c])
          /\ server[c] = "dead" => server'[c] = "dead"
      BY <2>4 DEF ClientLeaves, Kill
    <3>2. ASSUME NEW d \in Clients \ {c} PROVE phase'[d] \in {phase[d], "lost"}
      BY <2>4, LeavingPhases
    <3>3. \/ phase'[c] \in {phase[c], "lost"}
          \/ phase[c] = "live" /\ exited[c] /\ phase'[c] = AfterExit(c)
          \/ phase[c] = "live" /\ ~exited[c] /\ phase'[c] \in {"closing", "ended"}
      BY <2>4, LeavingPhases
    <3> QED
      BY <3>1, <3>2, <3>3 DEF Tidying, AfterExit
  <2> QED
    BY <1>4, <2>1, <2>2, <2>3, <2>4 DEF Client, Acquiring
<1>5. ASSUME NEW c \in Clients, Daemon(c) PROVE ProcessesFollowPhases'
  <2>1. CASE Spawn(c) \/ SpawnFails(c)
    BY <2>1 DEF Spawn, SpawnFails, GiveUp, Reply, Tidying
  <2>5. CASE Ready(c) \/ NotReady(c)
    BY <2>5 DEF Ready, NotReady, GiveUp, Kill, Reply, Tidying
  <2>2. CASE ExitEvent(c)
    <3>1. /\ UNCHANGED <<reply, chrome, server>>
          /\ server[c] = "dead" /\ exited' = [exited EXCEPT ![c] = TRUE]
      BY <2>2 DEF ExitEvent
    <3>2. ASSUME NEW d \in Clients \ {c} PROVE phase'[d] \in {phase[d], "lost"}
      BY <2>2, ExitPhases
    <3>3. \/ phase'[c] \in {phase[c], "lost"}
          \/ phase[c] \in {"live", "closing"} /\ phase'[c] = AfterExit(c)
      BY <2>2, ExitPhases
    <3> QED
      BY <3>1, <3>2, <3>3 DEF Tidying, AfterExit
  <2>3. CASE Unlock(c)
    BY <2>3 DEF Unlock, Tidying
  <2>4. CASE UnlockTimeout(c) \/ Store(c)
    <3>1. UNCHANGED <<reply, chrome, server, exited>> /\ phase[c] \in Tidying
      BY <2>4 DEF UnlockTimeout, Store, Tidying
    <3>2. phase'[c] = "ended" /\ \A d \in Clients \ {c} : phase'[d] \in {phase[d], "lost"}
      BY <2>4, EndingPhases DEF UnlockTimeout, Store
    <3> QED
      BY <3>1, <3>2 DEF Tidying
  <2> QED
    BY <1>5, <2>1, <2>2, <2>3, <2>4, <2>5 DEF Daemon, Probed
<1>6. ASSUME NEW c \in Clients, Process(c) PROVE ProcessesFollowPhases'
  <2>1. CASE ChromeStarts(c)
    BY <2>1 DEF ChromeStarts, Tidying
  <2>2. CASE ChromeCloses(c) \/ ChromeWrites(c)
    BY <2>2 DEF ChromeCloses, ChromeWrites
  <2>3. CASE ServerDies(c) \/ GuardianEof(c)
    <3>1. /\ UNCHANGED <<phase, reply, chrome, exited>>
          /\ Alive(c) /\ server' = [server EXCEPT ![c] = "dead"]
      BY <2>3 DEF ServerDies, GuardianEof
    <3> QED
      BY <3>1 DEF Alive
  <2> QED
    BY <1>6, <2>1, <2>2, <2>3 DEF Process
<1>7. CASE UNCHANGED vars
  BY <1>7 DEF vars
<1> QED
  BY <1>1, <1>2, <1>3, <1>4, <1>5, <1>6, <1>7 DEF Next

\* Only a session with a directory of its own is unlocked and stored.
LEMMA SnapshotsStep ==
  ASSUME TypeOK, OnlySnapshotsUnlock, [Next]_vars
  PROVE  OnlySnapshotsUnlock'
<1> USE DEF OnlySnapshotsUnlock, Snapshot, daemonVars, clientVars
<1>0. req' = req
  BY DEF Next, vars, Boot, Killed, Terminated, Die, ConciergeAsks, ConciergeSweeps, Client,
         Acquiring, Connect, Invalid, OverLimit, Acquire, ClientLeaves, Daemon, Probed,
         Spawn, SpawnFails, Ready, NotReady, ExitEvent, Unlock, UnlockTimeout, Store, Process,
         ChromeStarts, ChromeCloses, ChromeWrites, ServerDies, GuardianEof
<1>1. CASE Boot \/ ConciergeAsks \/ ConciergeSweeps \/ UNCHANGED vars
  BY <1>1 DEF Boot, ConciergeAsks, ConciergeSweeps, vars
<1>2. CASE Killed \/ Terminated
  BY <1>0, <1>2 DEF Killed, Terminated, Die, Lose, TypeOK
<1>3. ASSUME NEW c \in Clients, Client(c) PROVE OnlySnapshotsUnlock'
  <2>1. CASE ClientLeaves(c)
    BY <1>0, <2>1, LeavingPhases DEF AfterExit
  <2>2. CASE Connect(c) \/ Invalid(c) \/ OverLimit(c) \/ Acquire(c)
    BY <1>0, <2>2 DEF Connect, Invalid, OverLimit, Acquire, Materialise, TypeOK
  <2> QED
    BY <1>3, <2>1, <2>2 DEF Client, Acquiring
<1>4. ASSUME NEW c \in Clients, Daemon(c) PROVE OnlySnapshotsUnlock'
  <2>1. CASE ExitEvent(c)
    BY <1>0, <2>1, ExitPhases DEF AfterExit
  <2>2. CASE UnlockTimeout(c) \/ Store(c)
    BY <1>0, <2>2, EndingPhases DEF UnlockTimeout, Store
  <2>3. CASE Spawn(c) \/ SpawnFails(c) \/ Ready(c) \/ NotReady(c) \/ Unlock(c)
    BY <1>0, <2>3 DEF Spawn, SpawnFails, Ready, NotReady, GiveUp, Unlock, TypeOK
  <2> QED
    BY <1>4, <2>1, <2>2, <2>3 DEF Daemon, Probed
<1>5. ASSUME NEW c \in Clients, Process(c) PROVE OnlySnapshotsUnlock'
  BY <1>5 DEF Process, ChromeStarts, ChromeCloses, ChromeWrites, ServerDies, GuardianEof
<1> QED
  BY <1>1, <1>2, <1>3, <1>4, <1>5 DEF Next

\* A daemon that is not there has nothing in flight.
LEMMA DownStep ==
  ASSUME TypeOK, NothingInFlightWhenDown, [Next]_vars
  PROVE  NothingInFlightWhenDown'
<1> USE DEF NothingInFlightWhenDown, daemonVars, clientVars, Up
<1>1. CASE Boot
  BY <1>1 DEF Boot
<1>2. CASE Killed \/ Terminated
  BY <1>2 DEF Killed, Terminated, Die, Lose, InFlight, Pending, Tidying
<1>3. CASE ConciergeAsks \/ ConciergeSweeps
  BY <1>3 DEF ConciergeAsks, ConciergeSweeps
<1>4. ASSUME NEW c \in Clients, Client(c) PROVE NothingInFlightWhenDown'
  <2>1. CASE ClientLeaves(c)
    BY <2>1, LeavingPhases
  <2>2. CASE Connect(c) \/ Invalid(c) \/ OverLimit(c) \/ Acquire(c)
    BY <2>2 DEF Connect, Invalid, OverLimit, Acquire
  <2> QED
    BY <1>4, <2>1, <2>2 DEF Client, Acquiring
<1>5. ASSUME NEW c \in Clients, Daemon(c) PROVE NothingInFlightWhenDown'
  <2>1. CASE ExitEvent(c)
    BY <2>1, ExitPhases
  <2>2. CASE UnlockTimeout(c) \/ Store(c)
    BY <2>2, EndingPhases DEF UnlockTimeout, Store
  <2>3. CASE Spawn(c) \/ SpawnFails(c) \/ Ready(c) \/ NotReady(c) \/ Unlock(c)
    BY <2>3 DEF Spawn, SpawnFails, Ready, NotReady, Unlock
  <2> QED
    BY <1>5, <2>1, <2>2, <2>3 DEF Daemon, Probed
<1>6. ASSUME NEW c \in Clients, Process(c) PROVE NothingInFlightWhenDown'
  BY <1>6 DEF Process, ChromeStarts, ChromeCloses, ChromeWrites, ServerDies, GuardianEof
<1>7. CASE UNCHANGED vars
  BY <1>7 DEF vars
<1> QED
  BY <1>1, <1>2, <1>3, <1>4, <1>5, <1>6, <1>7 DEF Next

\* The common case of the next lemma.
LEMMA RestKept ==
  ASSUME Rest,
         \A d \in Clients : /\ phase'[d] = phase[d] \/ phase'[d] \notin {"unlocking", "storing"}
                            /\ phase'[d] \in {"unlocking", "storing"} /\ chrome'[d] => chrome[d],
         tenants \subseteq tenants', overlooked \subseteq overlooked'
  PROVE  Rest'
  BY DEF Rest

\* A session to be unlocked was listed, and is renamed only once its Chrome is gone, or
\* its Chrome was overlooked.
LEMMA RestStep ==
  ASSUME TypeOK, ProcessesFollowPhases, OnlySnapshotsUnlock, Rest, [Next]_vars
  PROVE  Rest'
<1> USE DEF TypeOK, daemonVars, clientVars, processVars, diskVars, seenVars
<1>1. CASE Boot \/ UNCHANGED vars
  BY <1>1, RestKept DEF Boot, vars
<1>2. CASE Killed \/ Terminated
  <2>1. /\ UNCHANGED <<chrome, tenants, overlooked>>
        /\ \A d \in Clients : phase'[d] \in {phase[d], "lost"}
    BY <1>2 DEF Killed, Terminated, Die, Lose
  <2> QED
    BY <2>1, RestKept
<1>3. CASE ConciergeAsks \/ ConciergeSweeps
  BY <1>3, RestKept DEF ConciergeAsks, ConciergeSweeps
<1>4. ASSUME NEW c \in Clients, Client(c) PROVE Rest'
  <2>1. CASE ClientLeaves(c)
    <3>1. /\ UNCHANGED <<req, chrome>> /\ tenants \subseteq tenants'
          /\ overlooked \subseteq overlooked'
      BY <2>1 DEF ClientLeaves, List
    <3>2. \A d \in Clients \ {c} : phase'[d] \in {phase[d], "lost"}
      BY <2>1, LeavingPhases
    <3>3. CASE phase[c] = "live" /\ exited[c] /\ Snapshot(c)
      <4>1. chrome[c] => c \in tenants' \/ c \in overlooked'
        BY <2>1, <3>3 DEF ClientLeaves, List
      <4>2. phase'[c] \in {"unlocking", "lost"}
        BY <2>1, <3>3, LeavingPhases DEF AfterExit
      <4> QED
        BY <3>1, <3>2, <4>1, <4>2 DEF Rest
    <3>4. CASE ~(phase[c] = "live" /\ exited[c] /\ Snapshot(c))
      <4>1. phase'[c] \in {phase[c], "ended", "closing", "lost"}
        BY <2>1, <3>4, LeavingPhases DEF AfterExit
      <4> QED
        BY <3>1, <3>2, <4>1, RestKept
    <3> QED
      BY <3>3, <3>4
  <2>2. CASE Connect(c) \/ Invalid(c) \/ OverLimit(c) \/ Acquire(c)
    <3>1. /\ UNCHANGED <<chrome, tenants, overlooked>>
          /\ \A d \in Clients : phase'[d] \in {phase[d], "refused", "starting"}
      BY <2>2 DEF Connect, Invalid, OverLimit, Acquire, Materialise
    <3> QED
      BY <3>1, RestKept
  <2> QED
    BY <1>4, <2>1, <2>2 DEF Client, Acquiring
<1>5. ASSUME NEW c \in Clients, Daemon(c) PROVE Rest'
  <2>1. CASE Spawn(c) \/ SpawnFails(c) \/ Ready(c) \/ NotReady(c)
    <3>1. /\ UNCHANGED <<chrome, tenants, overlooked>>
          /\ \A d \in Clients : phase'[d] \in {phase[d], "refused", "probing", "live"}
      BY <2>1 DEF Spawn, SpawnFails, Ready, NotReady, GiveUp
    <3> QED
      BY <3>1, RestKept
  <2>2. CASE ExitEvent(c)
    <3>1. /\ UNCHANGED <<req, chrome>> /\ tenants \subseteq tenants'
          /\ overlooked \subseteq overlooked'
      BY <2>2 DEF ExitEvent, List
    <3>2. \A d \in Clients \ {c} : phase'[d] \in {phase[d], "lost"}
      BY <2>2, ExitPhases
    <3>3. CASE phase[c] \in {"live", "closing"} /\ Snapshot(c)
      <4>1. chrome[c] => c \in tenants' \/ c \in overlooked'
        BY <2>2, <3>3 DEF ExitEvent, List
      <4>2. phase'[c] \in {"unlocking", "lost"}
        BY <2>2, <3>3, ExitPhases DEF AfterExit
      <4> QED
        BY <3>1, <3>2, <4>1, <4>2 DEF Rest
    <3>4. CASE ~(phase[c] \in {"live", "closing"} /\ Snapshot(c))
      <4>1. phase'[c] \in {phase[c], "ended", "lost"}
        BY <2>2, <3>4, ExitPhases DEF AfterExit
      <4> QED
        BY <3>1, <3>2, <4>1, RestKept
    <3> QED
      BY <3>3, <3>4
  <2>3. CASE Unlock(c)
    <3>1. /\ UNCHANGED <<chrome, overlooked>> /\ tenants' = tenants \ {c}
          /\ phase[c] = "unlocking" /\ phase' = [phase EXCEPT ![c] = "storing"]
          /\ chrome[c] => c \notin tenants
      BY <2>3 DEF Unlock, Free
    <3> QED
      BY <3>1 DEF Rest
  <2>4. CASE UnlockTimeout(c) \/ Store(c)
    <3>1. /\ UNCHANGED <<chrome, overlooked>> /\ tenants \ {c} \subseteq tenants'
      BY <2>4 DEF UnlockTimeout, Store
    <3>2. phase'[c] = "ended" /\ \A d \in Clients \ {c} : phase'[d] \in {phase[d], "lost"}
      BY <2>4, EndingPhases DEF UnlockTimeout, Store
    <3> QED
      BY <3>1, <3>2 DEF Rest
  <2> QED
    BY <1>5, <2>1, <2>2, <2>3, <2>4 DEF Daemon, Probed
<1>6. ASSUME NEW c \in Clients, Process(c) PROVE Rest'
  <2>1. UNCHANGED <<phase, tenants, overlooked>>
    BY <1>6 DEF Process, ChromeStarts, ChromeCloses, ChromeWrites, ServerDies, GuardianEof
  <2>2. \A d \in Clients : chrome'[d] => chrome[d] \/ Alive(d)
    BY <1>6 DEF Process, ChromeStarts, ChromeCloses, ChromeWrites, ServerDies, GuardianEof
  <2>3. \A d \in Clients : phase[d] \in {"unlocking", "storing"} => ~Alive(d)
    BY DEF ProcessesFollowPhases, Alive
  <2> QED
    BY <2>1, <2>2, <2>3, RestKept
<1> QED
  BY <1>1, <1>2, <1>3, <1>4, <1>5, <1>6 DEF Next

\* What keeps the holders apart when a session is neither acquired nor renumbered.
LEMMA NoNewHolder ==
  ASSUME HoldersApart, NumbersApart, UNCHANGED <<req, num>>,
         Holders' \subseteq Holders, \A d \in Holders' : Dir(d) \in dirs',
         Flying' \subseteq Flying, UNCHANGED counters \/ Flying' = {}
  PROVE  HoldersOnDisk' /\ HoldersApart' /\ NumbersApart'
<1>1. \A d \in Clients : Dir(d)' = Dir(d) /\ Snapshot(d)' = Snapshot(d)
  BY DEF Dir, Snapshot
<1>2. Holders \subseteq Clients /\ Flying \subseteq Clients
  BY DEF Holders, Flying
<1>3. HoldersOnDisk' /\ HoldersApart'
  BY <1>1, <1>2 DEF HoldersOnDisk, HoldersApart
<1>4. CASE Flying' = {}
  BY <1>3, <1>4 DEF NumbersApart
<1>5. CASE UNCHANGED counters
  <2>1. ASSUME NEW c \in Flying'
        PROVE  /\ num'[c] <= counters'[req'[c].key]
               /\ \A d \in Flying' : c # d => Dir(c)' # Dir(d)'
               /\ Snapshot(c)' => \A d \in Holders' : c # d => Dir(c)' # Dir(d)'
    BY <1>1, <1>2, <1>5 DEF NumbersApart
  <2> QED
    BY <1>3, <2>1 DEF NumbersApart
<1> QED
  BY <1>4, <1>5

\* A session that comes gets a number no other session of this daemon has, and a
\* directory that was not there.
LEMMA AcquireApart ==
  ASSUME Inductive, NEW c \in Clients, Acquire(c)
  PROVE  HoldersOnDisk' /\ HoldersApart' /\ NumbersApart'
<1> DEFINE n == counters[req[c].key] + 1
           new == <<req[c].key, n>>
<1>0. /\ TypeOK /\ ProcessesFollowPhases /\ HoldersOnDisk /\ HoldersApart /\ NumbersApart
  BY DEF Inductive
<1>1. c \notin Holders /\ ~Alive(c) /\ ~chrome[c]
  BY <1>0 DEF Acquire, Holders, ProcessesFollowPhases, Pending, Tidying, Alive
<1>2. /\ UNCHANGED <<req, server, chrome, overlooked>>
      /\ num'[c] = n /\ \A d \in Clients \ {c} : num'[d] = num[d]
  BY <1>0 DEF Acquire, TypeOK, processVars, seenVars
<1>3. /\ \A d \in Clients \ {c} : phase'[d] = phase[d] /\ reply'[d] = reply[d]
      /\ phase'[c] \in {"starting", "refused"}
      /\ dirs \subseteq dirs'
      /\ phase'[c] = "starting" /\ Snapshot(c) => new \notin dirs /\ new \in dirs'
  BY <1>0 DEF Acquire, Materialise, Reply, TypeOK
<1>4. Holders' \subseteq Holders \cup {c}
  BY <1>2, <1>3 DEF Holders, Snapshot, Alive
<1>5. c \in Holders' => phase'[c] = "starting" /\ new \notin dirs /\ new \in dirs'
  BY <1>1, <1>2, <1>3 DEF Holders, Snapshot, Pending, Alive
<1>6. \A d \in Holders : Dir(d) \in dirs /\ d \in Clients /\ d # c
  BY <1>0, <1>1 DEF HoldersOnDisk, Holders
<1>7. /\ Dir(c)' = new
      /\ \A d \in Clients \ {c} : Dir(d)' = Dir(d)
      /\ \A d \in Clients : Snapshot(d)' = Snapshot(d)
  BY <1>2 DEF Dir, Snapshot
<1>8. ASSUME NEW d \in Holders', d # c
      PROVE  d \in Holders /\ Dir(d)' = Dir(d) /\ Dir(d) \in dirs
  BY <1>4, <1>6, <1>7, <1>8
<1>9. HoldersOnDisk'
  BY <1>3, <1>5, <1>7, <1>8 DEF HoldersOnDisk
<1>10. HoldersApart'
  <2> SUFFICES ASSUME NEW d \in Holders', NEW e \in Holders', d # e
               PROVE  Dir(d)' # Dir(e)'
    BY DEF HoldersApart
  <2>1. CASE d # c /\ e # c
    BY <1>0, <2>1, <1>8 DEF HoldersApart
  <2>2. CASE d = c
    BY <2>2, <1>5, <1>7, <1>8
  <2>3. CASE e = c
    BY <2>3, <1>5, <1>7, <1>8
  <2> QED
    BY <2>1, <2>2, <2>3
<1>11. Flying' \subseteq Flying \cup {c} /\ Flying' \subseteq Clients
  BY <1>3 DEF Flying
<1>12. /\ req[c].key \in Keys /\ counters \in [Keys -> Nat]
       /\ counters' = [counters EXCEPT ![req[c].key] = n]
  BY <1>0, RequestsAssumption DEF TypeOK, Acquire
<1>13. \A d \in Clients : num[d] \in Nat /\ req[d].key \in Keys
  BY <1>0, RequestsAssumption DEF TypeOK
<1>14. ASSUME NEW d \in Flying', d # c
       PROVE  /\ d \in Flying /\ Dir(d)' = Dir(d) /\ Dir(d)' # new
              /\ num'[d] <= counters'[req'[d].key]
  <2>1. d \in Clients /\ d \in Flying /\ num[d] <= counters[req[d].key]
    BY <1>0, <1>11, <1>14 DEF NumbersApart
  <2>2. num'[d] = num[d] /\ req'[d] = req[d] /\ counters[req[d].key] \in Nat
    BY <1>2, <1>12, <1>13, <1>14, <2>1
  <2>3. CASE req[d].key = req[c].key
    <3>1. num[d] < n
      BY <1>12, <1>13, <2>1, <2>3
    <3>2. Dir(d) # new
      BY <1>13, <2>1, <3>1 DEF Dir
    <3>3. counters'[req'[d].key] = n /\ num[d] <= n
      BY <1>12, <1>13, <2>1, <2>2, <2>3, <3>1
    <3> QED
      BY <1>7, <1>14, <2>1, <2>2, <3>2, <3>3
  <2>4. CASE req[d].key # req[c].key
    <3>1. Dir(d) # new
      BY <2>4 DEF Dir
    <3>2. counters'[req'[d].key] = counters[req[d].key]
      BY <1>12, <1>13, <2>1, <2>2, <2>4
    <3> QED
      BY <1>7, <1>14, <2>1, <2>2, <3>1, <3>2
  <2> QED
    BY <2>3, <2>4
<1>15. NumbersApart'
  <2> SUFFICES ASSUME NEW d \in Flying'
               PROVE  /\ num'[d] <= counters'[req'[d].key]
                      /\ \A e \in Flying' : d # e => Dir(d)' # Dir(e)'
                      /\ Snapshot(d)' => \A e \in Holders' : d # e => Dir(d)' # Dir(e)'
    BY DEF NumbersApart
  <2>1. CASE d = c
    <3>1. num'[c] <= counters'[req'[c].key]
      BY <1>2, <1>12
    <3>2. \A e \in Flying' : c # e => Dir(c)' # Dir(e)'
      BY <1>7, <1>14
    <3>3. phase'[c] = "starting"
      BY <1>3, <2>1 DEF Flying, InFlight, Pending, Tidying
    <3>4. Snapshot(c)' => \A e \in Holders' : c # e => Dir(c)' # Dir(e)'
      BY <1>3, <1>7, <1>8, <3>3
    <3> QED
      BY <2>1, <3>1, <3>2, <3>4
  <2>2. CASE d # c
    <3>1. /\ d \in Flying /\ Dir(d)' = Dir(d) /\ Dir(d)' # new
          /\ num'[d] <= counters'[req'[d].key]
      BY <1>14, <2>2
    <3>2. ASSUME NEW e \in Flying', d # e PROVE Dir(d)' # Dir(e)'
      BY <1>0, <1>7, <1>14, <3>1, <3>2 DEF NumbersApart
    <3>3. ASSUME NEW e \in Holders', d # e, Snapshot(d)' PROVE Dir(d)' # Dir(e)'
      <4>1. Snapshot(d)
        BY <1>7, <1>11, <3>3
      <4> QED
        BY <1>0, <1>7, <1>8, <3>1, <3>3, <4>1 DEF NumbersApart
    <3> QED
      BY <3>1, <3>2, <3>3
  <2> QED
    BY <2>1, <2>2
<1> QED
  BY <1>9, <1>10, <1>15

\* Every other step makes no holder, and leaves those that remain their directories: a
\* session in flight takes no directory but its own, which no other holder has, and ends
\* its holding; a pass of the concierge overlooks all whom it does not end.
LEMMA HoldersOnlyLeave ==
  ASSUME Inductive, [Next]_vars, \A c \in Clients : ~Acquire(c)
  PROVE  /\ UNCHANGED <<req, num>>
         /\ Holders' \subseteq Holders /\ \A d \in Holders' : Dir(d) \in dirs'
         /\ Flying' \subseteq Flying /\ (UNCHANGED counters \/ Flying' = {})
<1> USE DEF daemonVars, clientVars, processVars, diskVars, seenVars, Alive
<1> DEFINE Leaves == /\ UNCHANGED <<req, num>>
                     /\ Holders' \subseteq Holders /\ \A d \in Holders' : Dir(d) \in dirs'
                     /\ Flying' \subseteq Flying /\ (UNCHANGED counters \/ Flying' = {})
<1>0. /\ TypeOK /\ ProcessesFollowPhases /\ OnlySnapshotsUnlock /\ NothingInFlightWhenDown
      /\ Rest /\ HoldersOnDisk /\ HoldersApart /\ NumbersApart
  BY DEF Inductive
<1>1. ASSUME UNCHANGED <<req, num>>, dirs \subseteq dirs', Holders' \subseteq Holders,
             Flying' \subseteq Flying, UNCHANGED counters \/ Flying' = {}
      PROVE  Leaves
  <2>1. \A d \in Holders' : Dir(d) \in dirs'
    BY <1>0, <1>1 DEF HoldersOnDisk
  <2> QED
    BY <1>1, <2>1
<1>2. CASE Boot
  <2>1. /\ UNCHANGED <<req, num, dirs, phase>> /\ Holders' = Holders
    BY <1>2 DEF Boot, Holders, Snapshot
  <2>2. Flying' = {}
    BY <1>0, <1>2, <2>1 DEF Boot, Flying, NothingInFlightWhenDown
  <2> QED
    BY <1>1, <2>1, <2>2
<1>3. CASE Killed \/ Terminated
  <2>1. UNCHANGED <<req, num, dirs, counters>>
    BY <1>3 DEF Killed, Terminated, Die
  <2>2. /\ UNCHANGED <<reply, chrome, overlooked>>
        /\ \A d \in Clients : /\ phase'[d] \in {phase[d], "lost"}
                              /\ server'[d] = server[d] \/ server'[d] = "dead"
    BY <1>3, <1>0 DEF Killed, Terminated, Die, Lose, TypeOK
  <2>3. Holders' \subseteq Holders /\ Flying' \subseteq Flying
    BY <2>1, <2>2 DEF Holders, Snapshot, Pending, Flying, InFlight, Tidying
  <2> QED
    BY <1>1, <2>1, <2>3
<1>4. CASE ConciergeAsks
  <2>1. /\ UNCHANGED <<req, num, dirs, counters>> /\ Holders' = Holders /\ Flying' = Flying
    BY <1>4 DEF ConciergeAsks, Holders, Snapshot, Flying
  <2> QED
    BY <1>1, <2>1
<1>5. CASE ConciergeSweeps
  <2>1. Holders' = {}
    <3>1. \A d \in Clients \ overlooked' :
            /\ phase'[d] \notin InFlight
            /\ ~(server'[d] \in {"running", "spared"}) /\ ~chrome'[d]
      BY <1>5 DEF ConciergeSweeps
    <3> QED
      BY <3>1 DEF Holders, InFlight, Pending, Tidying
  <2>2. UNCHANGED <<req, num, phase, counters>>
    BY <1>5 DEF ConciergeSweeps
  <2>3. Flying' = Flying
    BY <2>2 DEF Flying
  <2> QED
    BY <2>1, <2>2, <2>3
<1>6. ASSUME NEW c \in Clients, Client(c) PROVE Leaves
  <2>1. CASE Connect(c)
    <3>1. /\ UNCHANGED <<req, num, dirs, counters>> /\ Holders' = Holders /\ Flying' = Flying
      BY <2>1 DEF Connect, Holders, Snapshot, Flying
    <3> QED
      BY <1>1, <3>1
  <2>2. CASE Invalid(c) \/ OverLimit(c)
    <3>1. /\ UNCHANGED <<req, num, dirs, counters, server, chrome, overlooked>>
          /\ \A d \in Clients : /\ phase'[d] \in {phase[d], "refused"}
                                /\ reply'[d] \in {reply[d], "error"}
      BY <2>2, <1>0 DEF Invalid, OverLimit, Reply, TypeOK
    <3>2. Holders' \subseteq Holders /\ Flying' \subseteq Flying
      BY <3>1 DEF Holders, Snapshot, Pending, Flying, InFlight, Tidying
    <3> QED
      BY <1>1, <3>1, <3>2
  <2>3. CASE ClientLeaves(c)
    <3>1. /\ UNCHANGED <<req, num, dirs, counters, chrome, reply>>
          /\ overlooked \subseteq overlooked'
      BY <2>3 DEF ClientLeaves, List
    <3>2. \A d \in Clients : Alive(d)' => Alive(d)
      BY <1>0, <2>3 DEF ClientLeaves, Kill, TypeOK
    <3>3. \A d \in Clients \ {c} : phase'[d] \in {phase[d], "lost"}
      BY <1>0, <2>3, LeavingPhases
    <3>4. phase[c] = "live" \/ phase'[c] \in {phase[c], "lost"}
      BY <1>0, <2>3, LeavingPhases
    <3>5. Holders' \subseteq Holders
      BY <3>1, <3>2, <3>3, <3>4 DEF Holders, Snapshot, Pending
    <3>6. Flying' \subseteq Flying
      BY <3>3, <3>4 DEF Flying, InFlight, Pending, Tidying
    <3> QED
      BY <1>1, <3>1, <3>5, <3>6
  <2> QED
    BY <1>6, <2>1, <2>2, <2>3 DEF Client, Acquiring
<1>7. ASSUME NEW c \in Clients, Daemon(c) PROVE Leaves
  <2>1. CASE Spawn(c) \/ Ready(c)
    <3>1. /\ UNCHANGED <<req, num, dirs, counters, chrome, overlooked>>
          /\ c \in Flying /\ phase[c] \in Pending /\ phase'[c] \in Pending \cup {"live"}
          /\ \A d \in Clients \ {c} : /\ phase'[d] = phase[d] /\ server'[d] = server[d]
                                      /\ reply'[d] = reply[d]
      BY <2>1, <1>0 DEF Spawn, Ready, Reply, Pending, Flying, InFlight, TypeOK
    <3>2. Holders' \subseteq Holders /\ Flying' \subseteq Flying
      BY <3>1 DEF Holders, Snapshot, Flying
    <3> QED
      BY <1>1, <3>1, <3>2
  <2>2. CASE SpawnFails(c) \/ NotReady(c) \/ Unlock(c)
    <3>1. /\ UNCHANGED <<req, num, counters, chrome, overlooked>>
          /\ \A d \in Clients \ {c} : /\ phase'[d] = phase[d] /\ server'[d] = server[d]
                                      /\ reply'[d] = reply[d]
          /\ dirs \ {Dir(c)} \subseteq dirs'
      BY <1>0, <2>2 DEF SpawnFails, NotReady, Unlock, GiveUp, Kill, Reply, Removed, TypeOK
    <3>2. c \in Flying /\ (dirs \subseteq dirs' \/ Snapshot(c))
      BY <1>0, <2>2 DEF SpawnFails, NotReady, Unlock, GiveUp, Flying, InFlight, Pending,
                        Tidying, OnlySnapshotsUnlock
    <3>3. c \notin Holders'
      <4>1. CASE SpawnFails(c) \/ NotReady(c)
        <5>1. ~chrome[c] /\ reply'[c] = "error" /\ phase'[c] = "refused"
          BY <1>0, <4>1 DEF SpawnFails, NotReady, GiveUp, Reply, ProcessesFollowPhases,
                            Tidying, TypeOK
        <5> QED
          BY <3>1, <5>1 DEF Holders, Pending
      <4>2. CASE Unlock(c)
        <5>1. server'[c] = "dead" /\ phase'[c] = "storing"
          BY <1>0, <4>2 DEF Unlock, ProcessesFollowPhases, TypeOK
        <5>2. chrome[c] => c \in overlooked
          BY <1>0, <4>2 DEF Unlock, Rest, Free
        <5> QED
          BY <3>1, <5>1, <5>2 DEF Holders, Pending
      <4> QED
        BY <2>2, <4>1, <4>2
    <3>4. Holders' \subseteq Holders \ {c} /\ Flying' \subseteq Flying
      BY <3>1, <3>2, <3>3 DEF Holders, Snapshot, Flying
    <3>5. ASSUME NEW d \in Holders' PROVE Dir(d) \in dirs'
      <4>1. d \in Holders /\ d # c /\ Dir(d) \in dirs
        BY <1>0, <3>4, <3>5 DEF HoldersOnDisk
      <4>2. Snapshot(c) => Dir(c) # Dir(d)
        BY <1>0, <3>2, <4>1 DEF NumbersApart
      <4> QED
        BY <3>1, <3>2, <4>1, <4>2
    <3> QED
      BY <3>1, <3>4, <3>5
  <2>3. CASE ExitEvent(c)
    <3>1. /\ UNCHANGED <<req, num, dirs, counters, chrome, server, reply>>
          /\ overlooked \subseteq overlooked'
      BY <2>3 DEF ExitEvent, List
    <3>2. \A d \in Clients \ {c} : phase'[d] \in {phase[d], "lost"}
      BY <1>0, <2>3, ExitPhases
    <3>3. phase[c] \in {"live", "closing"} \/ phase'[c] \in {phase[c], "lost"}
      BY <1>0, <2>3, ExitPhases
    <3>4. Holders' \subseteq Holders
      BY <3>1, <3>2, <3>3 DEF Holders, Snapshot, Pending
    <3>5. Flying' \subseteq Flying
      BY <3>2, <3>3 DEF Flying, InFlight, Pending, Tidying
    <3> QED
      BY <1>1, <3>1, <3>4, <3>5
  <2>4. CASE UnlockTimeout(c) \/ Store(c)
    <3>1. UNCHANGED <<req, num, dirs, counters, chrome, server, reply, overlooked>>
      BY <2>4 DEF UnlockTimeout, Store
    <3>2. phase'[c] = "ended" /\ \A d \in Clients \ {c} : phase'[d] \in {phase[d], "lost"}
      BY <1>0, <2>4, EndingPhases DEF UnlockTimeout, Store
    <3>3. Holders' \subseteq Holders /\ Flying' \subseteq Flying
      BY <3>1, <3>2 DEF Holders, Snapshot, Pending, Flying, InFlight, Tidying
    <3> QED
      BY <1>1, <3>1, <3>3
  <2> QED
    BY <1>7, <2>1, <2>2, <2>3, <2>4 DEF Daemon, Probed
<1>8. ASSUME NEW c \in Clients, Process(c) PROVE Leaves
  <2>1. UNCHANGED <<req, num, phase, counters, reply, overlooked>> /\ dirs \subseteq dirs'
    BY <1>8 DEF Process, ChromeStarts, ChromeCloses, ChromeWrites, ServerDies, GuardianEof
  <2>2. \A d \in Clients : Alive(d)' => Alive(d)
    BY <1>0, <1>8 DEF Process, ChromeStarts, ChromeCloses, ChromeWrites, ServerDies,
                      GuardianEof, TypeOK
  <2>3. \A d \in Clients : chrome'[d] => chrome[d] \/ (Alive(d) /\ reply[d] = "ok")
    BY <1>0, <1>8 DEF Process, ChromeStarts, ChromeCloses, ChromeWrites, ServerDies,
                      GuardianEof, TypeOK
  <2>4. Holders' \subseteq Holders /\ Flying' = Flying
    BY <2>1, <2>2, <2>3 DEF Holders, Snapshot, Flying
  <2> QED
    BY <1>1, <2>1, <2>4
<1>9. CASE UNCHANGED vars
  <2>1. /\ UNCHANGED <<req, num, dirs, counters>> /\ Holders' = Holders /\ Flying' = Flying
    BY <1>9 DEF vars, Holders, Snapshot, Flying
  <2> QED
    BY <1>1, <2>1
<1> QED
  BY <1>2, <1>3, <1>4, <1>5, <1>6, <1>7, <1>8, <1>9 DEF Next

\* Two sessions that may be writing never share a directory, and each has its own on
\* disk.
LEMMA HoldersStep ==
  ASSUME Inductive, [Next]_vars
  PROVE  HoldersOnDisk' /\ HoldersApart' /\ NumbersApart'
<1>1. CASE \E c \in Clients : Acquire(c)
  BY <1>1, AcquireApart
<1>2. CASE \A c \in Clients : ~Acquire(c)
  <2>1. HoldersApart /\ NumbersApart
    BY DEF Inductive
  <2>2. /\ UNCHANGED <<req, num>>
        /\ Holders' \subseteq Holders /\ \A d \in Holders' : Dir(d) \in dirs'
        /\ Flying' \subseteq Flying /\ (UNCHANGED counters \/ Flying' = {})
    BY <1>2, HoldersOnlyLeave
  <2> QED
    BY <2>1, <2>2, NoNewHolder
<1> QED
  BY <1>1, <1>2

\* The invariant holds in every reachable state.
THEOREM InductiveCorrect == Spec => []Inductive
<1>1. Inductive /\ [Next]_vars => Inductive'
  BY TypeStep, ProcessesStep, SnapshotsStep, DownStep, RestStep, HoldersStep DEF Inductive
<1> QED
  BY <1>1, InductiveInit, PTL DEF Spec

\* Two browsers never run on one directory, whatever dies and restarts, unless one was
\* overlooked.
THEOREM OneChrome == Spec => []OneChromePerDirectory
<1>1. Inductive => OneChromePerDirectory
  BY DEF Inductive, HoldersApart, Holders, OneChromePerDirectory
<1> QED
  BY <1>1, InductiveCorrect, PTL

\* A running Chrome keeps its directory, unless it was overlooked.
THEOREM ChromeDirectory == Spec => []ChromeHasItsDirectory
<1>1. Inductive => ChromeHasItsDirectory
  BY DEF Inductive, HoldersOnDisk, Holders, ChromeHasItsDirectory
<1> QED
  BY <1>1, InductiveCorrect, PTL

\* What is copied to the vault is at rest, unless its Chrome was overlooked.
THEOREM CopiedAtRest == Spec => []StoredAtRest
<1>1. Inductive => StoredAtRest
  BY DEF Inductive, ProcessesFollowPhases, Rest, StoredAtRest
<1> QED
  BY <1>1, InductiveCorrect, PTL
---------------------------------------------------------------------------
(* What a step may never do.                                               *)

\* A browser in use leaves its client only for cause.
THEOREM LeaseCorrect == Spec => LeaseEndsForCause
<1> DEFINE A == \A c \in Clients :
       sock[c] = "open" /\ phase[c] = "live" /\ phase'[c] # "live"
         => sock'[c] = "left" \/ exited'[c] \/ daemon' = "killed"
<1>1. ASSUME TypeOK, [Next]_vars PROVE A
  <2> SUFFICES ASSUME NEW d \in Clients, sock[d] = "open", phase[d] = "live"
               PROVE  \/ phase'[d] = "live" \/ sock'[d] = "left"
                      \/ exited'[d] \/ daemon' = "killed"
    OBVIOUS
  <2> USE <1>1 DEF TypeOK, daemonVars, clientVars, processVars, diskVars, seenVars
  <2>0. ASSUME NEW s \in [Clients -> SockStates], NEW p \in [Clients -> Phases],
               SortirSiInutile(s, p), s[d] = "open"
        PROVE  phase' = p
    BY <2>0 DEF SortirSiInutile, Useful
  <2>1. ASSUME NEW c \in Clients, Client(c)
        PROVE  phase'[d] = "live" \/ sock'[d] = "left"
    <3>1. CASE ClientLeaves(c)
      <4>0. PICK q \in Phases :
              SortirSiInutile([sock EXCEPT ![c] = "left"], [phase EXCEPT ![c] = q])
        BY <3>1, LeavingIs
      <4> DEFINE s == [sock EXCEPT ![c] = "left"]
                 p == [phase EXCEPT ![c] = q]
      <4>1. s \in [Clients -> SockStates] /\ p \in [Clients -> Phases]
        BY DEF SockStates
      <4>2. SortirSiInutile(s, p)
        BY <4>0
      <4>3. CASE c = d
        <5>1. s[d] = "left"
          BY <4>3
        <5>2. sock' \in {s, Cut(s)}
          BY <4>2 DEF SortirSiInutile
        <5> QED
          BY <5>1, <5>2 DEF Cut
      <4>4. CASE c # d
        <5>1. s[d] = "open" /\ p[d] = "live"
          BY <4>4
        <5> HIDE DEF s, p
        <5> QED
          BY <4>1, <4>2, <5>1, <2>0
      <4> QED
        BY <4>3, <4>4
    <3>2. CASE Connect(c) \/ Invalid(c) \/ OverLimit(c) \/ Acquire(c)
      BY <3>2 DEF Connect, Invalid, OverLimit, Acquire, Materialise
    <3> QED
      BY <2>1, <3>1, <3>2 DEF Client, Acquiring
  <2>2. ASSUME NEW c \in Clients, Daemon(c)
        PROVE  phase'[d] = "live" \/ exited'[d]
    <3>0. sock \in [Clients -> SockStates]
      BY DEF SockStates
    <3>1. CASE ExitEvent(c)
      <4> DEFINE p == [phase EXCEPT ![c] = AfterExit(c)]
      <4>1. CASE c # d /\ phase[c] \in {"live", "closing"}
        <5>1. p \in [Clients -> Phases] /\ p[d] = "live"
          BY <4>1 DEF Phases, AfterExit
        <5>2. SortirSiInutile(sock, p)
          BY <3>1, <4>1 DEF ExitEvent
        <5> HIDE DEF p
        <5> QED
          BY <3>0, <5>1, <5>2, <2>0
      <4>2. CASE c = d \/ phase[c] \notin {"live", "closing"}
        BY <3>1, <4>2 DEF ExitEvent
      <4> QED
        BY <4>1, <4>2
    <3>2. CASE UnlockTimeout(c) \/ Store(c)
      <4> DEFINE p == [phase EXCEPT ![c] = "ended"]
      <4>1. p \in [Clients -> Phases] /\ p[d] = "live"
        BY <3>2 DEF UnlockTimeout, Store, Phases
      <4>2. SortirSiInutile(sock, p)
        BY <3>2 DEF UnlockTimeout, Store
      <4> HIDE DEF p
      <4> QED
        BY <3>0, <4>1, <4>2, <2>0
    <3>3. CASE Spawn(c) \/ SpawnFails(c) \/ Ready(c) \/ NotReady(c) \/ Unlock(c)
      BY <3>3 DEF Spawn, SpawnFails, Ready, NotReady, GiveUp, Unlock
    <3> QED
      BY <2>2, <3>1, <3>2, <3>3 DEF Daemon, Probed
  <2>3. ASSUME NEW c \in Clients, Process(c) PROVE phase'[d] = "live"
    BY <2>3 DEF Process, ChromeStarts, ChromeCloses, ChromeWrites, ServerDies, GuardianEof
  <2>4. CASE Boot \/ ConciergeAsks \/ ConciergeSweeps \/ UNCHANGED vars
    BY <2>4 DEF Boot, ConciergeAsks, ConciergeSweeps, vars
  <2>5. CASE Killed \/ Terminated
    BY <2>5 DEF Killed, Terminated, Die
  <2> QED
    BY <2>1, <2>2, <2>3, <2>4, <2>5 DEF Next
<1>2. TypeOK /\ [Next]_vars => [A]_vars
  BY <1>1
<1> QED
  BY <1>2, TypeCorrect, PTL DEF Spec, LeaseEndsForCause
---------------------------------------------------------------------------
(* The end of the daemon.                                                  *)

Served == Tidying \cup {"live"}

\* The handlers that ask whether the daemon is still useful, as they hand their sockets
\* and phases to the question: they cut nobody and lose no session themselves.
LEMMA LastStatement ==
  ASSUME TypeOK, NEW c \in Clients,
         ClientLeaves(c) \/ ExitEvent(c) \/ UnlockTimeout(c) \/ Store(c)
  PROVE  \/ UNCHANGED <<sock, phase, daemon>>
         \/ \E s \in [Clients -> SockStates], p \in [Clients -> Phases] :
              /\ SortirSiInutile(s, p)
              /\ \A d \in Clients : s[d] = "cut" => sock[d] = "cut"
              /\ \A d \in Clients : phase[d] \in Served => p[d] \in Served \cup {"ended"}
<1>0. sock \in [Clients -> SockStates] /\ phase \in [Clients -> Phases]
  BY DEF TypeOK, SockStates
<1>1. CASE ClientLeaves(c)
  <2>0. PICK q \in Phases :
          /\ SortirSiInutile([sock EXCEPT ![c] = "left"], [phase EXCEPT ![c] = q])
          /\ phase[c] # "live" => q = phase[c]
          /\ phase[c] = "live" /\ exited[c] => q = AfterExit(c)
          /\ phase[c] = "live" /\ ~exited[c] => q \in {"closing", "ended"}
    BY <1>1, LeavingIs
  <2> DEFINE s == [sock EXCEPT ![c] = "left"]
             p == [phase EXCEPT ![c] = q]
  <2>1. s \in [Clients -> SockStates] /\ p \in [Clients -> Phases]
    BY <1>0 DEF SockStates
  <2>2. \A d \in Clients : s[d] = "cut" => sock[d] = "cut"
    BY <1>0
  <2>3. \A d \in Clients : phase[d] \in Served => p[d] \in Served \cup {"ended"}
    BY <1>0, <2>0 DEF Served, Tidying, AfterExit
  <2>4. SortirSiInutile(s, p)
    BY <2>0
  <2> HIDE DEF s, p
  <2> QED
    BY <2>1, <2>2, <2>3, <2>4
<1>2. CASE ExitEvent(c)
  <2> DEFINE p == [phase EXCEPT ![c] = AfterExit(c)]
  <2>1. p \in [Clients -> Phases]
    BY <1>0 DEF Phases, AfterExit
  <2>2. \A d \in Clients : phase[d] \in Served => p[d] \in Served \cup {"ended"}
    BY <1>0 DEF Served, Tidying, AfterExit
  <2>3. UNCHANGED <<sock, phase, daemon>> \/ SortirSiInutile(sock, p)
    BY <1>2 DEF ExitEvent
  <2> HIDE DEF p
  <2> QED
    BY <1>0, <2>1, <2>2, <2>3
<1>3. CASE UnlockTimeout(c) \/ Store(c)
  <2> DEFINE p == [phase EXCEPT ![c] = "ended"]
  <2>1. p \in [Clients -> Phases]
    BY <1>0 DEF Phases
  <2>2. \A d \in Clients : phase[d] \in Served => p[d] \in Served \cup {"ended"}
    BY <1>0
  <2>3. SortirSiInutile(sock, p)
    BY <1>3 DEF UnlockTimeout, Store
  <2> HIDE DEF p
  <2> QED
    BY <1>0, <2>1, <2>2, <2>3
<1> QED
  BY <1>1, <1>2, <1>3

\* Every other step of a running daemon leaves it running, or kills it.
LEMMA OtherSteps ==
  ASSUME [Next]_vars, Up,
         \A c \in Clients :
           ~(ClientLeaves(c) \/ ExitEvent(c) \/ UnlockTimeout(c) \/ Store(c))
  PROVE  \/ daemon' = "killed"
         \/ UNCHANGED <<sock, phase, daemon>>
         \/ /\ UNCHANGED daemon
            /\ \E c \in Clients :
                 Connect(c) \/ Acquiring(c) \/ Spawn(c) \/ SpawnFails(c) \/ Probed(c) \/ Unlock(c)
<1> USE DEF daemonVars, clientVars
<1>1. CASE Boot \/ ConciergeAsks \/ ConciergeSweeps
  BY <1>1 DEF Boot, ConciergeAsks, ConciergeSweeps, Up
<1>2. CASE Killed \/ Terminated
  BY <1>2 DEF Killed, Terminated, Die
<1>3. ASSUME NEW c \in Clients, Process(c) PROVE UNCHANGED <<sock, phase, daemon>>
  BY <1>3 DEF Process, ChromeStarts, ChromeCloses, ChromeWrites, ServerDies, GuardianEof
<1>4. ASSUME NEW c \in Clients,
             Connect(c) \/ Acquiring(c) \/ Spawn(c) \/ SpawnFails(c) \/ Probed(c) \/ Unlock(c)
      PROVE  UNCHANGED daemon
  BY <1>4 DEF Connect, Acquiring, Invalid, OverLimit, Acquire, Spawn, SpawnFails, Probed,
              Ready, NotReady, Unlock
<1>5. CASE UNCHANGED vars
  BY <1>5 DEF vars
<1> QED
  BY <1>1, <1>2, <1>3, <1>4, <1>5 DEF Next, Client, Daemon

\* When the daemon exits of itself, it cuts no client and loses no session.
THEOREM ExitCorrect == Spec => ExitLosesNothing
<1> DEFINE A == Up /\ daemon' = "exited" =>
                  \A c \in Clients :
                    /\ sock'[c] = "cut" => sock[c] = "cut"
                    /\ phase[c] \in Tidying \cup {"live"} => phase'[c] = "ended"
<1>1. ASSUME TypeOK, [Next]_vars PROVE A
  <2> SUFFICES ASSUME Up, daemon' = "exited", NEW d \in Clients
               PROVE  /\ sock'[d] = "cut" => sock[d] = "cut"
                      /\ phase[d] \in Served => phase'[d] = "ended"
    BY DEF Served
  <2>1. PICK c \in Clients : ClientLeaves(c) \/ ExitEvent(c) \/ UnlockTimeout(c) \/ Store(c)
    BY <1>1, OtherSteps DEF Up
  <2>2. PICK s \in [Clients -> SockStates], p \in [Clients -> Phases] :
          /\ SortirSiInutile(s, p)
          /\ \A e \in Clients : s[e] = "cut" => sock[e] = "cut"
          /\ \A e \in Clients : phase[e] \in Served => p[e] \in Served \cup {"ended"}
    BY <1>1, <2>1, LastStatement DEF Up
  <2>3. ~Useful(s, p) /\ sock' = Cut(s) /\ phase' = Lose(p)
    BY <2>2 DEF SortirSiInutile, Up
  <2>4. s[d] # "open" /\ p[d] \notin Served
    BY <2>3 DEF Useful, Served
  <2>5. sock'[d] = s[d]
    BY <2>3, <2>4 DEF Cut
  <2>6. p[d] = "ended" => phase'[d] = "ended"
    BY <2>3 DEF Lose, InFlight, Pending, Tidying
  <2> QED
    BY <2>2, <2>4, <2>5, <2>6
<1>2. TypeOK /\ [Next]_vars => [A]_vars
  BY <1>1
<1> QED
  BY <1>2, TypeCorrect, PTL DEF Spec, ExitLosesNothing

\* A daemon that is up and useful is never left up and useless.
THEOREM IdleCorrect == Spec => NoIdleDaemon
<1> DEFINE A == Up /\ Useful(sock, phase) => Useful(sock', phase') \/ daemon' # "up"
<1>1. ASSUME TypeOK, [Next]_vars PROVE A
  <2> SUFFICES ASSUME Up, Useful(sock, phase), daemon' = "up"
               PROVE  Useful(sock', phase')
    OBVIOUS
  <2>0. PICK d \in Clients : sock[d] = "open" \/ phase[d] \in Tidying \cup {"live"}
    BY DEF Useful
  <2>1. ASSUME NEW c \in Clients,
               ClientLeaves(c) \/ ExitEvent(c) \/ UnlockTimeout(c) \/ Store(c)
        PROVE  Useful(sock', phase')
    <3>1. CASE UNCHANGED <<sock, phase, daemon>>
      BY <3>1
    <3>2. ASSUME NEW s \in [Clients -> SockStates], NEW p \in [Clients -> Phases],
                 SortirSiInutile(s, p)
          PROVE  Useful(sock', phase')
      BY <3>2 DEF SortirSiInutile
    <3> QED
      BY <1>1, <2>1, <3>1, <3>2, LastStatement
  <2>2. ASSUME NEW c \in Clients,
               Connect(c) \/ Acquiring(c) \/ Spawn(c) \/ SpawnFails(c) \/ Probed(c) \/ Unlock(c)
        PROVE  Useful(sock', phase')
    <3> USE <1>1 DEF TypeOK, clientVars
    <3>1. CASE Connect(c)
      BY <3>1, <2>0 DEF Connect, Useful
    <3>2. CASE Acquiring(c)
      BY <3>2 DEF Acquiring, Invalid, OverLimit, Acquire, Useful
    <3>3. CASE Spawn(c) \/ SpawnFails(c) \/ Probed(c)
      <4>1. /\ sock' = sock /\ phase[c] \in {"starting", "probing"}
            /\ \A e \in Clients \ {c} : phase'[e] = phase[e]
        BY <3>3 DEF Spawn, SpawnFails, Probed, Ready, NotReady, GiveUp
      <4> QED
        BY <2>0, <4>1 DEF Useful, Tidying
    <3>4. CASE Unlock(c)
      <4>1. phase'[c] = "storing"
        BY <3>4 DEF Unlock
      <4> QED
        BY <4>1 DEF Useful, Tidying
    <3> QED
      BY <2>2, <3>1, <3>2, <3>3, <3>4
  <2>3. CASE UNCHANGED <<sock, phase, daemon>>
    BY <2>3
  <2> QED
    BY <1>1, <2>1, <2>2, <2>3, OtherSteps DEF Up
<1>2. TypeOK /\ [Next]_vars => [A]_vars
  BY <1>1
<1> QED
  BY <1>2, TypeCorrect, PTL DEF Spec, NoIdleDaemon
---------------------------------------------------------------------------
(* No session is lost in silence.  What is being stored lies in a renamed   *)
(* directory of its own until its own storing removes it.                  *)

Storing == {c \in Clients : phase[c] = "storing"}
Kept == \A c \in Storing \ overlooked : Dir(c) \in finis

\* Which steps add a session to those being stored, or rename one of them: none but Unlock.
LEMMA StoringSteps ==
  ASSUME Inductive, [Next]_vars
  PROVE  \/ \E c \in Clients : Unlock(c)
         \/ \E c \in Clients : Store(c)
         \/ Storing' \subseteq overlooked'
         \/ /\ Storing' \subseteq Storing /\ overlooked \subseteq overlooked'
            /\ finis' = finis
            /\ \A d \in Storing : Dir(d)' = Dir(d)
<1> USE DEF Inductive, TypeOK, daemonVars, clientVars, processVars, diskVars, seenVars, Storing, Dir
<1>1. CASE Boot
  BY <1>1 DEF Boot
<1>2. CASE Killed \/ Terminated
  BY <1>2 DEF Killed, Terminated, Die, Lose
<1>3. CASE ConciergeAsks \/ ConciergeSweeps
  BY <1>3 DEF ConciergeAsks, ConciergeSweeps, InFlight, Tidying
<1>4. ASSUME NEW c \in Clients, Client(c)
      PROVE  /\ Storing' \subseteq Storing
             /\ finis' = finis /\ overlooked \subseteq overlooked'
             /\ \A d \in Storing : Dir(d)' = Dir(d)
  <2>1. CASE Connect(c) \/ Invalid(c) \/ OverLimit(c)
    BY <2>1 DEF Connect, Invalid, OverLimit, Reply
  <2>2. CASE Acquire(c)
    <3>1. /\ UNCHANGED <<finis, req, overlooked>>
          /\ phase[c] = "none" /\ \A d \in Clients \ {c} : num'[d] = num[d]
      BY <2>2 DEF Acquire
    <3>2. phase' \in {[phase EXCEPT ![c] = "starting"], [phase EXCEPT ![c] = "refused"]}
      BY <2>2 DEF Acquire, Materialise
    <3> QED
      BY <3>1, <3>2
  <2>3. CASE ClientLeaves(c)
    <3>1. UNCHANGED <<finis, req, num>> /\ overlooked \subseteq overlooked'
      BY <2>3 DEF ClientLeaves, List
    <3>2. \A d \in Clients \ {c} : phase'[d] \in {phase[d], "lost"}
      BY <2>3, LeavingPhases
    <3>3. phase'[c] \in {phase[c], "lost", "closing", "ended", AfterExit(c)}
      BY <2>3, LeavingPhases
    <3> QED
      BY <3>1, <3>2, <3>3 DEF AfterExit
  <2> QED
    BY <1>4, <2>1, <2>2, <2>3 DEF Client, Acquiring
<1>5. ASSUME NEW c \in Clients, Daemon(c), ~Unlock(c), ~Store(c)
      PROVE  /\ Storing' \subseteq Storing
             /\ finis' = finis /\ overlooked \subseteq overlooked'
             /\ \A d \in Storing : Dir(d)' = Dir(d)
  <2>1. CASE Spawn(c) \/ SpawnFails(c) \/ Probed(c)
    BY <2>1 DEF Spawn, SpawnFails, Probed, Ready, NotReady, GiveUp, Reply
  <2>2. CASE ExitEvent(c)
    <3>1. UNCHANGED <<finis, req, num>> /\ overlooked \subseteq overlooked'
      BY <2>2 DEF ExitEvent, List
    <3>2. \A d \in Clients \ {c} : phase'[d] \in {phase[d], "lost"}
      BY <2>2, ExitPhases
    <3>3. phase'[c] \in {phase[c], "lost", AfterExit(c)}
      BY <2>2, ExitPhases
    <3> QED
      BY <3>1, <3>2, <3>3 DEF AfterExit
  <2>3. CASE UnlockTimeout(c)
    <3>1. UNCHANGED <<finis, req, num, overlooked>>
      BY <2>3 DEF UnlockTimeout
    <3>2. phase'[c] = "ended" /\ \A d \in Clients \ {c} : phase'[d] \in {phase[d], "lost"}
      BY <2>3, EndingPhases DEF UnlockTimeout
    <3> QED
      BY <3>1, <3>2
  <2> QED
    BY <1>5, <2>1, <2>2, <2>3 DEF Daemon
<1>6. ASSUME NEW c \in Clients, Process(c) PROVE UNCHANGED <<phase, finis, req, num, overlooked>>
  BY <1>6 DEF Process, ChromeStarts, ChromeCloses, ChromeWrites, ServerDies, GuardianEof
<1>7. CASE UNCHANGED vars
  BY <1>7 DEF vars
<1> QED
  BY <1>1, <1>2, <1>3, <1>4, <1>5, <1>6, <1>7 DEF Next

\* What is being stored stays on disk, for its own storing alone removes it.
LEMMA KeptStep ==
  ASSUME Inductive, Kept, [Next]_vars
  PROVE  Kept'
<1> USE DEF Kept
<1>0. Storing \subseteq Clients
  BY DEF Storing
<1>1. ASSUME NEW c \in Clients, Unlock(c) PROVE Kept'
  <2>1. Storing' = Storing \cup {c} /\ finis' = finis \cup {Dir(c)}
    BY <1>1 DEF Inductive, TypeOK, Unlock, Storing
  <2>2. overlooked' = overlooked /\ \A d \in Clients : Dir(d)' = Dir(d)
    BY <1>1 DEF Unlock, Dir, clientVars
  <2> QED
    BY <1>0, <2>1, <2>2
<1>2. ASSUME NEW c \in Clients, Store(c) PROVE Kept'
  <2>1. phase'[c] = "ended" /\ \A d \in Clients \ {c} : phase'[d] \in {phase[d], "lost"}
    BY <1>2, EndingPhases DEF Store, Inductive
  <2>2. Storing' \subseteq Storing \ {c} /\ c \in Storing
    BY <1>2, <2>1 DEF Storing, Store
  <2>3. finis \ {Dir(c)} \subseteq finis' /\ overlooked' = overlooked
    BY <1>2 DEF Store, Stored, Removed, seenVars
  <2>4. \A d \in Clients : Dir(d)' = Dir(d)
    BY <1>2 DEF Store, Dir
  <2>5. Storing \subseteq Flying
    BY DEF Storing, Flying, InFlight, Tidying
  <2>6. \A d \in Storing \ {c} : Dir(d) # Dir(c)
    BY <2>2, <2>5 DEF Inductive, NumbersApart
  <2> QED
    BY <1>0, <2>2, <2>3, <2>4, <2>6
<1>3. CASE Storing' \subseteq overlooked'
  BY <1>3
<1>4. CASE /\ Storing' \subseteq Storing /\ overlooked \subseteq overlooked'
           /\ finis' = finis
           /\ \A d \in Storing : Dir(d)' = Dir(d)
  BY <1>4
<1> QED
  BY <1>1, <1>2, <1>3, <1>4, StoringSteps

\* The invariant holds in every reachable state.
THEOREM KeptHolds == Spec => []Kept
<1>1. Init => Kept
  BY DEF Init, Kept, Storing
<1>2. Inductive /\ Kept /\ [Next]_vars => Kept'
  BY KeptStep
<1> QED
  BY <1>1, <1>2, InductiveCorrect, PTL DEF Spec

\* A session to be kept ends in the vault, in an alert, or still on disk.
THEOREM LossCorrect == Spec => NoSilentLoss
<1> DEFINE A == \A c \in Clients \ overlooked :
       /\ phase[c] \in Tidying \cup {"live"} /\ phase'[c] = "ended"
       /\ Snapshot(c) /\ req[c].persist
       => \/ c \in saved' \/ Dir(c) \in finis' \/ Dir(c) \in dirs'
          \/ <<"locked", c>> \in alerts' \/ <<"oversize", c>> \in alerts'
<1>1. ASSUME Inductive, Kept, [Next]_vars PROVE A
  <2> SUFFICES ASSUME NEW d \in Clients \ overlooked, phase[d] \in Tidying \cup {"live"},
                      phase'[d] = "ended", Snapshot(d), req[d].persist
               PROVE  \/ d \in saved' \/ Dir(d) \in finis' \/ Dir(d) \in dirs'
                      \/ <<"locked", d>> \in alerts' \/ <<"oversize", d>> \in alerts'
    OBVIOUS
  <2>0. phase[d] \in {"live", "closing", "unlocking", "storing"} /\ d \in Clients
    BY DEF Tidying
  <2> USE <1>1 DEF Inductive, TypeOK, daemonVars, clientVars, processVars, diskVars, seenVars
  <2>1. ASSUME NEW c \in Clients, Client(c) PROVE Dir(d) \in dirs'
    <3>1. CASE ClientLeaves(c)
      <4>1. phase[d] = "live"
        BY <2>0, <3>1, LeavingPhases
      <4>2. d \in Holders
        BY <4>1 DEF Holders
      <4> QED
        BY <3>1, <4>2 DEF HoldersOnDisk, ClientLeaves
    <3>2. CASE Connect(c) \/ Invalid(c) \/ OverLimit(c) \/ Acquire(c)
      BY <2>0, <3>2 DEF Connect, Invalid, OverLimit, Acquire, Materialise
    <3> QED
      BY <2>1, <3>1, <3>2 DEF Client, Acquiring
  <2>2. ASSUME NEW c \in Clients, ExitEvent(c) PROVE FALSE
    <3>1. phase'[d] \in {phase[d], "lost", AfterExit(d)}
      BY <2>0, <2>2, ExitPhases
    <3> QED
      BY <2>0, <3>1 DEF AfterExit
  <2>3. ASSUME NEW c \in Clients,
               Spawn(c) \/ SpawnFails(c) \/ Probed(c) \/ Unlock(c)
        PROVE  FALSE
    BY <2>0, <2>3 DEF Spawn, SpawnFails, Probed, Ready, NotReady, GiveUp, Unlock
  <2>4. ASSUME NEW c \in Clients, UnlockTimeout(c) PROVE <<"locked", d>> \in alerts'
    <3>1. c = d
      <4>1. \A e \in Clients \ {c} : phase'[e] \in {phase[e], "lost"}
        BY <2>4, EndingPhases DEF UnlockTimeout
      <4> QED
        BY <2>0, <4>1
    <3> QED
      BY <2>4, <3>1 DEF UnlockTimeout
  <2>5. ASSUME NEW c \in Clients, Store(c)
        PROVE  d \in saved' \/ Dir(d) \in finis' \/ <<"oversize", d>> \in alerts'
    <3>1. c = d
      <4>1. \A e \in Clients \ {c} : phase'[e] \in {phase[e], "lost"}
        BY <2>5, EndingPhases DEF Store
      <4> QED
        BY <2>0, <4>1
    <3>2. Dir(d) \in finis
      BY <1>1, <2>5, <3>1 DEF Kept, Storing, Store
    <3> QED
      BY <2>5, <3>1, <3>2 DEF Store, Stored, Removed, Whole
  <2>6. ASSUME NEW c \in Clients, Process(c) PROVE FALSE
    BY <2>0, <2>6 DEF Process, ChromeStarts, ChromeCloses, ChromeWrites, ServerDies, GuardianEof
  <2>7. ASSUME Boot \/ ConciergeAsks \/ ConciergeSweeps \/ UNCHANGED vars PROVE FALSE
    BY <2>0, <2>7 DEF Boot, ConciergeAsks, ConciergeSweeps, vars
  <2>8. ASSUME Killed \/ Terminated PROVE FALSE
    BY <2>0, <2>8 DEF Killed, Terminated, Die, Lose, InFlight, Tidying
  <2> QED
    BY <1>1, <2>1, <2>2, <2>3, <2>4, <2>5, <2>6, <2>7, <2>8 DEF Next, Daemon
<1>2. Inductive /\ Kept /\ [Next]_vars => [A]_vars
  BY <1>1
<1> QED
  BY <1>2, InductiveCorrect, KeptHolds, PTL DEF Spec, NoSilentLoss
---------------------------------------------------------------------------
(* The daemon implements Lease.  Each step is a step of a lease, or of no  *)
(* concern to it; the stages of every client move as the phases do.        *)

Stages(p) == [c \in Clients |-> Stage(p[c])]
Broken == {c \in Clients : exited[c]}

\* The stages that count are those of the phases that count.
LEMMA StageOfPhase ==
  ASSUME NEW p \in Phases
  PROVE  /\ Stage(p) \in {"held", "returned"} <=> p \in Tidying \cup {"live"}
         /\ Stage(p) \in {"asked", "held", "returned"} <=> p \in InFlight
         /\ Stage(p) = "held" <=> p = "live"
         /\ Stage(p) = "asked" <=> p \in Pending
  BY DEF Stage, Phases, Tidying, Pending, InFlight

\* A death loses the leases in flight.
LEMMA LoseMaps ==
  ASSUME NEW s \in [Clients -> SockStates], NEW p \in [Clients -> Phases],
         sock' = Cut(s), phase' = Lose(p), ~Up'
  PROVE  L!Gone(s, Stages(p))
<1>1. Stages(phase') = [c \in Clients |-> IF Stages(p)[c] \in {"asked", "held", "returned"}
                                          THEN "lost" ELSE Stages(p)[c]]
  <2>1. ASSUME NEW c \in Clients
        PROVE  Stage(phase'[c]) = IF Stages(p)[c] \in {"asked", "held", "returned"}
                                  THEN "lost" ELSE Stages(p)[c]
    <3>1. p[c] \in Phases /\ phase'[c] = IF p[c] \in InFlight THEN "lost" ELSE p[c]
      BY DEF Lose
    <3>2. Stages(p)[c] = Stage(p[c]) /\ Stage("lost") = "lost"
      BY DEF Stages, Stage, Pending, Tidying
    <3> QED
      BY <3>1, <3>2, StageOfPhase
  <2> QED
    BY <2>1 DEF Stages
<1> QED
  BY <1>1 DEF L!Gone, Cut, Stages

\* The last statement of a handler decides as Lease does.
LEMMA SortirMaps ==
  ASSUME NEW s \in [Clients -> SockStates], NEW p \in [Clients -> Phases],
         daemon = "up", SortirSiInutile(s, p)
  PROVE  L!Then(s, Stages(p))
<1>1. Useful(s, p) <=> L!Needed(s, Stages(p))
  <2>1. ASSUME NEW c \in Clients
        PROVE  p[c] \in Tidying \cup {"live"} <=> Stages(p)[c] \in {"held", "returned"}
    <3>1. p[c] \in Phases /\ Stages(p)[c] = Stage(p[c])
      BY DEF Stages
    <3> QED
      BY <3>1, StageOfPhase
  <2> QED
    BY <2>1 DEF Useful, L!Needed
<1>2. CASE Useful(s, p)
  BY <1>1, <1>2 DEF L!Then, SortirSiInutile, Stages, Up
<1>3. CASE ~Useful(s, p)
  <2>1. sock' = Cut(s) /\ phase' = Lose(p) /\ ~Up'
    BY <1>3 DEF SortirSiInutile, Up
  <2> QED
    BY <1>1, <1>3, <2>1, LoseMaps DEF L!Then
<1> QED
  BY <1>2, <1>3

\* One phase moves: the stage of that client moves, and no other.
LEMMA OneStage ==
  ASSUME TypeOK, NEW c \in Clients, NEW p \in Phases
  PROVE  Stages([phase EXCEPT ![c] = p]) = [Stages(phase) EXCEPT ![c] = Stage(p)]
  BY DEF TypeOK, Stages

\* Coming, asking, and every way an acquisition ends.
LEMMA ClientMaps ==
  ASSUME TypeOK, NEW c \in Clients, Client(c)
  PROVE  [L!Next]_(L!vars)
<1> USE DEF TypeOK, daemonVars, clientVars, processVars, diskVars, seenVars
<1>1. CASE Connect(c)
  <2>1. L!Come(c)
    BY <1>1 DEF Connect, L!Come, Up
  <2> QED
    BY <2>1 DEF L!Next
<1>2. CASE Invalid(c) \/ OverLimit(c) \/ Acquire(c)
  <2>1. /\ Up /\ sock[c] = "open" /\ phase[c] = "none"
        /\ \/ phase' = [phase EXCEPT ![c] = "refused"]
           \/ phase' = [phase EXCEPT ![c] = "starting"]
        /\ UNCHANGED <<daemon, sock, exited, saved>>
    BY <1>2 DEF Invalid, OverLimit, Acquire, Materialise
  <2>2. /\ Stages(phase)[c] = "none"
        /\ \/ Stages(phase') = [Stages(phase) EXCEPT ![c] = "refused"]
           \/ Stages(phase') = [Stages(phase) EXCEPT ![c] = "asked"]
    <3>1. /\ Stage("none") = "none" /\ Stage("refused") = "refused"
          /\ Stage("starting") = "asked" /\ {"refused", "starting"} \subseteq Phases
      BY DEF Stage, Pending, Tidying, Phases
    <3>2. Stages(phase)[c] = "none"
      BY <2>1, <3>1 DEF Stages
    <3>3. Stages([phase EXCEPT ![c] = "refused"]) = [Stages(phase) EXCEPT ![c] = "refused"]
      BY <3>1, OneStage
    <3>4. Stages([phase EXCEPT ![c] = "starting"]) = [Stages(phase) EXCEPT ![c] = "asked"]
      BY <3>1, OneStage
    <3> QED
      BY <2>1, <3>2, <3>3, <3>4
  <2>3. L!Refuse(c) \/ L!Ask(c)
    BY <2>1, <2>2 DEF L!Refuse, L!Ask, L!Turn, Stages, Up
  <2> QED
    BY <2>3 DEF L!Next
<1>3. CASE ClientLeaves(c)
  <2>0. PICK q \in Phases :
          /\ SortirSiInutile([sock EXCEPT ![c] = "left"], [phase EXCEPT ![c] = q])
          /\ phase[c] # "live" => q = phase[c]
          /\ phase[c] = "live" /\ exited[c] => q = AfterExit(c)
          /\ phase[c] = "live" /\ ~exited[c] => q \in {"closing", "ended"}
    BY <1>3, LeavingIs
  <2> DEFINE s == [sock EXCEPT ![c] = "left"]
             p == [phase EXCEPT ![c] = q]
  <2>1. /\ s \in [Clients -> SockStates] /\ q \in Phases /\ p \in [Clients -> Phases]
        /\ SortirSiInutile(s, p) /\ daemon = "up"
    BY <1>3, <2>0 DEF SockStates, ClientLeaves, Up
  <2>2. Stages(p) = [Stages(phase) EXCEPT ![c] = Stage(q)]
    BY <2>1, OneStage
  <2>3. Stages(p) \in IF Stages(phase)[c] = "held" THEN L!GiveBack(c) ELSE {Stages(phase)}
    <3>1. CASE phase[c] = "live"
      <4>1. Stage(q) \in {"returned", "over"} /\ Stages(phase)[c] = "held"
        BY <2>0, <3>1 DEF Stage, AfterExit, Pending, Tidying, Stages
      <4> HIDE DEF p
      <4> QED
        BY <2>2, <4>1 DEF L!GiveBack, Stages
    <3>2. CASE phase[c] # "live"
      <4>1. Stages(phase)[c] # "held" /\ p = phase
        BY <2>0, <3>2, StageOfPhase DEF Stages
      <4> QED
        BY <4>1
    <3> QED
      BY <3>1, <3>2
  <2>4. L!Then(s, Stages(p))
    <3> HIDE DEF s, p
    <3> QED
      BY <2>1, SortirMaps
  <2>5. L!Leave(c)
    <3>1. Up /\ sock[c] = "open" /\ UNCHANGED <<exited, saved>>
      BY <1>3 DEF ClientLeaves
    <3> HIDE DEF p
    <3> QED
      BY <2>3, <2>4, <3>1 DEF L!Leave, Stages
  <2> QED
    BY <2>5 DEF L!Next
<1> QED
  BY <1>1, <1>2, <1>3 DEF Client, Acquiring

\* What the daemon does of itself.
LEMMA DaemonMaps ==
  ASSUME TypeOK, NEW c \in Clients, Daemon(c)
  PROVE  [L!Next]_(L!vars)
<1> USE DEF TypeOK, daemonVars, clientVars, processVars, diskVars, seenVars
<1> DEFINE ended == [phase EXCEPT ![c] = "ended"]
<1>0. /\ sock \in [Clients -> SockStates] /\ ended \in [Clients -> Phases]
      /\ Stages(ended) = [Stages(phase) EXCEPT ![c] = "over"]
  BY OneStage DEF SockStates, Phases, Stage, Pending, Tidying
<1>1. CASE Spawn(c) \/ Unlock(c)
  <2>1. /\ UNCHANGED <<daemon, sock, exited, saved>>
        /\ \E q \in Phases : phase' = [phase EXCEPT ![c] = q] /\ Stage(q) = Stage(phase[c])
    BY <1>1 DEF Spawn, Unlock, Phases, Stage, Pending, Tidying
  <2>2. Stages(phase') = Stages(phase)
    BY <2>1, OneStage DEF Stages
  <2> QED
    BY <2>1, <2>2 DEF L!vars, Stages, Up
<1>2. CASE SpawnFails(c) \/ NotReady(c) \/ Ready(c)
  <2>1. /\ Up /\ phase[c] \in Pending /\ UNCHANGED <<daemon, sock, exited, saved>>
        /\ \/ phase' = [phase EXCEPT ![c] = "refused"]
           \/ phase' = [phase EXCEPT ![c] = "live"]
    BY <1>2 DEF SpawnFails, NotReady, Ready, GiveUp, Pending
  <2>2. /\ Stages(phase)[c] = "asked"
        /\ \/ Stages(phase') = [Stages(phase) EXCEPT ![c] = "refused"]
           \/ Stages(phase') = [Stages(phase) EXCEPT ![c] = "held"]
    <3>1. /\ Stage("refused") = "refused" /\ Stage("live") = "held"
          /\ {"refused", "live"} \subseteq Phases
      BY DEF Stage, Pending, Tidying, Phases
    <3> QED
      BY <2>1, <3>1, OneStage, StageOfPhase DEF Stages
  <2>3. L!Refuse(c) \/ L!Grant(c)
    BY <2>1, <2>2 DEF L!Refuse, L!Grant, L!Turn, Stages, Up
  <2> QED
    BY <2>3 DEF L!Next
<1>3. CASE ExitEvent(c)
  <2>1. Up /\ c \notin Broken /\ Broken' = Broken \cup {c} /\ saved' = saved
    BY <1>3 DEF ExitEvent, Broken
  <2>2. CASE phase[c] \in {"live", "closing"}
    <3> DEFINE p == [phase EXCEPT ![c] = AfterExit(c)]
    <3>1. /\ p \in [Clients -> Phases] /\ AfterExit(c) \in Phases
          /\ SortirSiInutile(sock, p) /\ daemon = "up"
      BY <1>3, <2>2 DEF ExitEvent, Phases, AfterExit, Up
    <3>2. Stages(p) \in L!GiveBack(c) /\ Stages(phase)[c] \in {"held", "returned"}
      <4>1. Stage(AfterExit(c)) \in {"returned", "over"}
        BY DEF Stage, AfterExit, Pending, Tidying
      <4>2. Stages(p) = [Stages(phase) EXCEPT ![c] = Stage(AfterExit(c))]
        BY <3>1, OneStage
      <4>3. Stages(phase)[c] \in {"held", "returned"}
        BY <2>2 DEF Stage, Pending, Tidying, Stages
      <4> HIDE DEF p
      <4> QED
        BY <4>1, <4>2, <4>3 DEF L!GiveBack, Stages
    <3>3. L!Then(sock, Stages(p))
      <4> HIDE DEF p
      <4> QED
        BY <1>0, <3>1, SortirMaps
    <3>4. L!Break(c)
      <4> HIDE DEF p
      <4> QED
        BY <2>1, <3>2, <3>3 DEF L!Break, Stages, Broken
    <3> QED
      BY <3>4 DEF L!Next
  <2>3. CASE phase[c] \notin {"live", "closing"}
    <3>1. UNCHANGED <<sock, phase, daemon>>
      BY <1>3, <2>3 DEF ExitEvent
    <3>2. Stages(phase)[c] # "held"
      BY <2>3, StageOfPhase DEF Stages
    <3>3. L!Break(c)
      BY <2>1, <3>1, <3>2 DEF L!Break, Stages, Broken, Up
    <3> QED
      BY <3>3 DEF L!Next
  <2> QED
    BY <2>2, <2>3
<1>4. CASE UnlockTimeout(c) \/ Store(c)
  <2>1. /\ Up /\ phase[c] \in Tidying /\ exited' = exited
        /\ saved' \in {saved, saved \cup {c}}
        /\ SortirSiInutile(sock, ended) /\ daemon = "up"
    <3>1. saved' \in {saved, saved \cup Whole(c)}
      BY <1>4 DEF UnlockTimeout, Store, Stored
    <3>2. Whole(c) \in {{}, {c}}
      BY DEF Whole
    <3> QED
      BY <1>4, <3>1, <3>2 DEF UnlockTimeout, Store, Tidying, Up
  <2>2. Stages(phase)[c] = "returned"
    BY <2>1 DEF Stages, Stage, Tidying, Pending
  <2>3. L!Then(sock, Stages(ended))
    <3> HIDE DEF ended
    <3> QED
      BY <1>0, <2>1, SortirMaps
  <2>4. L!Finish(c)
    <3> HIDE DEF ended
    <3> QED
      BY <1>0, <2>1, <2>2, <2>3 DEF L!Finish, Stages
  <2> QED
    BY <2>4 DEF L!Next
<1> QED
  BY <1>1, <1>2, <1>3, <1>4 DEF Daemon, Probed

\* The daemon keeps the promise of Lease, for any clients, requests, limit and restarts.
THEOREM PromiseKept == Spec => Promise
<1>1. Init => L!Init
  BY DEF Init, L!Init, Up, Stage, Pending, Tidying
<1>2. ASSUME TypeOK, [Next]_vars PROVE [L!Next]_(L!vars)
  <2> USE <1>2 DEF TypeOK, daemonVars, clientVars, processVars, diskVars, seenVars
  <2>1. CASE Boot
    <3>1. L!Start
      BY <2>1 DEF Boot, L!Start, Up
    <3> QED
      BY <3>1 DEF L!Next
  <2>2. CASE Killed \/ Terminated
    <3>1. Up /\ sock' = Cut(sock) /\ phase' = Lose(phase) /\ ~Up' /\ UNCHANGED <<exited, saved>>
      BY <2>2 DEF Killed, Terminated, Die, Up
    <3>2. L!Gone(sock, Stages(phase))
      BY <3>1, LoseMaps DEF SockStates
    <3>3. L!Kill
      BY <3>1, <3>2 DEF L!Kill, Stages
    <3> QED
      BY <3>3 DEF L!Next
  <2>3. CASE ConciergeAsks \/ ConciergeSweeps \/ UNCHANGED vars \/ \E c \in Clients : Process(c)
    <3>1. UNCHANGED <<daemon, sock, phase, exited, saved>>
      BY <2>3 DEF ConciergeAsks, ConciergeSweeps, vars, Process, ChromeStarts,
                      ChromeCloses, ChromeWrites, ServerDies, GuardianEof
    <3> QED
      BY <3>1 DEF L!vars, Up
  <2>4. CASE \E c \in Clients : Client(c)
    BY <2>4, ClientMaps
  <2>5. CASE \E c \in Clients : Daemon(c)
    BY <2>5, DaemonMaps
  <2> QED
    BY <2>1, <2>2, <2>3, <2>4, <2>5 DEF Next
<1> QED
  BY <1>1, <1>2, TypeCorrect, PTL DEF Spec, Promise, L!Spec
===========================================================================
