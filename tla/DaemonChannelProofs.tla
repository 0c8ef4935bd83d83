------------------------ MODULE DaemonChannelProofs ------------------------
(* A daemon that no signal ended leaves no client it has heard and no file *)
(* behind it, for any number of proxies and of daemons.                    *)
EXTENDS DaemonChannel, TLAPS

(* What Inductive says beside the types, of the file and of the sockets.   *)
Owned == kills = 0 /\ path # None => Alive(path)
Sockets ==
  /\ \A c \in accepted : Kept(c)
  /\ \A c \in Clients :
       /\ kills = 0 /\ pc[c] = "served" => c \in accepted
       /\ pc[c] \in {"asking", "served"} => conn[c] # None
       /\ pc[c] \notin {"asking", "served", "gone"} => conn[c] = None

LEMMA Parts == Inductive <=> TypeOK /\ Owned /\ Sockets
  BY DEF Inductive, Owned, Sockets

LEMMA PartsNext == TypeOK' /\ Owned' /\ Sockets' => Inductive'
  BY DEF Inductive, Owned, Sockets

\* Daemons are numbers, None is not one of them.
LEMMA Numbers == None \notin Daemons /\ Daemons \subseteq Nat
  BY ChannelAssumption DEF None, Daemons

LEMMA InitInductive == Init => Inductive
  BY ChannelAssumption, Numbers DEF Init, Inductive, TypeOK, Alive, Kept

\* The loop's next turn keeps the types and the sockets of the others.
LEMMA AgainKept ==
  ASSUME NEW c \in Clients, TypeOK, Again(c)
  PROVE  /\ pc' \in [Clients -> {"idle", "connecting", "refused", "launch", "launching", "asking",
                                 "served", "failed", "gone"}]
         /\ tries' \in [Clients -> 0..MaxTries]
         /\ pc'[c] \in {"connecting", "failed"}
         /\ \A b \in Clients \ {c} : pc'[b] = pc[b]
<1>1. CASE tries[c] < MaxTries
  BY <1>1, ChannelAssumption DEF Again, Goto, TypeOK
<1>2. CASE ~(tries[c] < MaxTries)
  BY <1>2 DEF Again, Goto, TypeOK
<1> QED BY <1>1, <1>2

\* Every step of a client keeps the invariant.
LEMMA ClientKept ==
  ASSUME NEW c \in Clients, Inductive, Acquire(c) \/ ClientStep(c) \/ Die(c)
  PROVE  Inductive'
<1>t. TypeOK /\ Owned /\ Sockets
  BY Parts
<1> USE <1>t, Numbers, ChannelAssumption
<1>1. CASE Acquire(c)
  <2>1. TypeOK' BY <1>1 DEF TypeOK, Acquire, Goto
  <2>2. Owned' BY <1>1 DEF Owned, Acquire, Alive
  <2>3. Sockets' BY <1>1 DEF Sockets, Acquire, Goto, TypeOK, Kept
  <2> QED BY <2>1, <2>2, <2>3, PartsNext
<1>2. CASE Connect(c)
  <2>1. TypeOK' BY <1>2 DEF TypeOK, Connect, Goto
  <2>2. Owned' BY <1>2 DEF Owned, Connect, Alive
  <2>3. Sockets' BY <1>2 DEF Sockets, Connect, Goto, TypeOK, Kept
  <2> QED BY <2>1, <2>2, <2>3, PartsNext
<1>3. CASE Unlink(c)
  <2>1. TypeOK' BY <1>3 DEF TypeOK, Unlink, Goto
  <2>2. Owned' BY <1>3 DEF Owned, Unlink, Alive
  <2>3. Sockets' BY <1>3 DEF Sockets, Unlink, Goto, TypeOK, Kept
  <2> QED BY <2>1, <2>2, <2>3, PartsNext
<1>4. CASE Launch(c)
  <2> PICK d \in Daemons : daemon[d] = "unborn" /\ daemon' = [daemon EXCEPT ![d] = "starting"]
                           /\ mine' = [mine EXCEPT ![c] = d]
    BY <1>4 DEF Launch
  <2>1. TypeOK' BY <1>4 DEF TypeOK, Launch, Goto
  <2>2. Owned' BY <1>4 DEF Owned, Launch, Alive, TypeOK
  <2>3. Sockets' BY <1>4 DEF Sockets, Launch, Goto, TypeOK, Kept
  <2> QED BY <2>1, <2>2, <2>3, PartsNext
<1>5. CASE Signal(c)
  <2>0. /\ pc[c] = "launching" /\ pc'[c] \in {"connecting", "failed"}
        /\ \A b \in Clients \ {c} : pc'[b] = pc[b]
        /\ UNCHANGED <<path, daemon, said, conn, accepted, kills>>
    BY <1>5, AgainKept DEF Signal, Goto, TypeOK
  <2>1. TypeOK'
    <3>1. CASE Again(c) BY <1>5, <3>1, AgainKept DEF TypeOK, Signal
    <3>2. CASE Goto(c, "failed") /\ UNCHANGED tries BY <1>5, <3>2 DEF TypeOK, Signal, Goto
    <3> QED BY <1>5, <3>1, <3>2 DEF Signal
  <2>2. Owned' BY <2>0 DEF Owned, Alive
  <2>3. Sockets' BY <2>0 DEF Sockets, Kept
  <2> QED BY <2>1, <2>2, <2>3, PartsNext
<1>6. CASE Cut(c)
  <2>0. /\ pc[c] \in {"asking", "served"} /\ conn[c] \in Daemons /\ c \notin accepted
        /\ pc'[c] \in {"connecting", "failed", "gone"} /\ conn' = [conn EXCEPT ![c] = None]
        /\ \A b \in Clients \ {c} : pc'[b] = pc[b] /\ conn'[b] = conn[b]
        /\ UNCHANGED <<path, daemon, said, accepted, kills>>
    BY <1>6, AgainKept DEF Cut, Goto, TypeOK, Sockets, Kept
  <2>1. TypeOK'
    <3>1. CASE Again(c) BY <1>6, <3>1, AgainKept DEF TypeOK, Cut
    <3>2. CASE Goto(c, "gone") /\ UNCHANGED tries BY <1>6, <3>2 DEF TypeOK, Cut, Goto
    <3> QED BY <1>6, <3>1, <3>2 DEF Cut
  <2>2. Owned' BY <2>0 DEF Owned, Alive
  <2>3. Sockets' BY <2>0 DEF Sockets, Kept, TypeOK
  <2> QED BY <2>1, <2>2, <2>3, PartsNext
<1>7. CASE Die(c)
  <2>1. TypeOK' BY <1>7 DEF TypeOK, Die, Goto
  <2>2. Owned' BY <1>7 DEF Owned, Die, Alive
  <2>3. Sockets' BY <1>7 DEF Sockets, Die, Goto, TypeOK, Kept
  <2> QED BY <2>1, <2>2, <2>3, PartsNext
<1> QED BY <1>1, <1>2, <1>3, <1>4, <1>5, <1>6, <1>7 DEF ClientStep

\* What a daemon does about one client keeps the invariant.
LEMMA ServeKept ==
  ASSUME NEW c \in Clients, Inductive, Serve(c)
  PROVE  Inductive'
<1>t. TypeOK /\ Owned /\ Sockets
  BY Parts
<1> USE <1>t, Numbers
<1>1. CASE Accept(c)
  <2>1. TypeOK' BY <1>1 DEF TypeOK, Accept
  <2>2. Owned' BY <1>1 DEF Owned, Accept, Alive
  <2>3. Sockets' BY <1>1 DEF Sockets, Accept, TypeOK, Kept
  <2> QED BY <2>1, <2>2, <2>3, PartsNext
<1>2. CASE Answer(c)
  <2>1. TypeOK' BY <1>2 DEF TypeOK, Answer, Goto
  <2>2. Owned' BY <1>2 DEF Owned, Answer, Alive
  <2>3. Sockets' BY <1>2 DEF Sockets, Answer, Goto, TypeOK, Kept
  <2> QED BY <2>1, <2>2, <2>3, PartsNext
<1>3. CASE Departure(c)
  <2>0. conn[c] \in Daemons /\ daemon[conn[c]] = "listening"
    BY <1>3 DEF Departure, Sockets, Kept, TypeOK
  <2>1. TypeOK' BY <1>3 DEF TypeOK, Departure
  <2>2. Owned' BY <1>3 DEF Owned, Departure, Alive, TypeOK
  <2>3. \A b \in accepted \ {c} : conn[b] = conn[c] => UNCHANGED daemon
    BY <1>3 DEF Departure, Heard
  <2>4. \A b \in accepted \ {c} : daemon'[conn[b]] = daemon[conn[b]]
    BY <1>3, <2>0, <2>3 DEF Departure, Sockets, Kept, TypeOK
  <2>5. Sockets'
    BY <1>3, <2>4 DEF Departure, Sockets, Kept, TypeOK
  <2> QED BY <2>1, <2>2, <2>5, PartsNext
<1>4. CASE Forget(c)
  <2>1. TypeOK' BY <1>4 DEF TypeOK, Forget
  <2>2. Owned' BY <1>4 DEF Owned, Forget, Alive
  <2>3. Sockets' BY <1>4 DEF Sockets, Forget, TypeOK, Kept
  <2> QED BY <2>1, <2>2, <2>3, PartsNext
<1> QED BY <1>1, <1>2, <1>3, <1>4 DEF Serve

\* A daemon's own steps, and its death, keep the invariant.
LEMMA DaemonKept ==
  ASSUME NEW d \in Daemons, Inductive, DaemonStep(d) \/ Terminate(d) \/ Kill(d)
  PROVE  Inductive'
<1>t. TypeOK /\ Owned /\ Sockets
  BY Parts
<1> USE <1>t, Numbers, ChannelAssumption
<1>1. CASE Start(d)
  <2>1. TypeOK' BY <1>1 DEF TypeOK, Start
  <2>2. Owned' BY <1>1 DEF Owned, Start, Alive, TypeOK
  <2>3. Sockets' BY <1>1 DEF Sockets, Start, TypeOK, Kept
  <2> QED BY <2>1, <2>2, <2>3, PartsNext
<1>2. CASE Listen(d)
  <2>1. TypeOK' BY <1>2 DEF TypeOK, Listen
  <2>2. Owned' BY <1>2 DEF Owned, Listen, Alive, TypeOK
  <2>3. Sockets' BY <1>2 DEF Sockets, Listen, TypeOK, Kept
  <2> QED BY <2>1, <2>2, <2>3, PartsNext
<1>3. CASE Close(d)
  <2>1. TypeOK' BY <1>3 DEF TypeOK, Close, Heard
  <2>2. Owned' BY <1>3 DEF Owned, Close, Alive, TypeOK
  <2>3. Sockets' BY <1>3 DEF Sockets, Close, Heard, TypeOK, Kept
  <2> QED BY <2>1, <2>2, <2>3, PartsNext
<1>4. CASE Exit(d)
  <2>1. TypeOK' BY <1>4 DEF TypeOK, Exit
  <2>2. Owned' BY <1>4 DEF Owned, Exit
  <2>3. Sockets' BY <1>4 DEF Sockets, Exit, TypeOK, Kept
  <2> QED BY <2>1, <2>2, <2>3, PartsNext
<1>5. CASE Kill(d)
  <2>0. kills' \in 0..MaxKills /\ kills' # 0
    BY <1>5 DEF Kill, TypeOK
  <2>1. TypeOK' BY <1>5, <2>0 DEF TypeOK, Kill, Heard
  <2>2. Owned' BY <2>0 DEF Owned
  <2>3. Sockets' BY <1>5, <2>0 DEF Sockets, Kill, Heard, TypeOK, Kept
  <2> QED BY <2>1, <2>2, <2>3, PartsNext
<1>6. CASE Terminate(d)
  <2>0. kills' \in 0..MaxKills /\ kills' # 0 /\ daemon[d] = "listening"
    BY <1>6 DEF Terminate, TypeOK
  <2>1. TypeOK' BY <1>6, <2>0 DEF TypeOK, Terminate, Heard
  <2>2. Owned' BY <2>0 DEF Owned
  <2>3. Sockets' BY <1>6, <2>0 DEF Sockets, Terminate, Heard, TypeOK, Kept
  <2> QED BY <2>1, <2>2, <2>3, PartsNext
<1> QED BY <1>1, <1>2, <1>3, <1>4, <1>5, <1>6 DEF DaemonStep

\* Nothing changes when nothing changes.
LEMMA StutterKept == Inductive /\ UNCHANGED vars => Inductive'
  BY DEF Inductive, vars, TypeOK, Alive, Kept

\* Files, daemons and sockets agree in every reachable state.
THEOREM InductiveHolds == Spec => []Inductive
<1>1. Inductive /\ [Next]_vars => Inductive'
  BY ClientKept, ServeKept, DaemonKept, StutterKept DEF Next
<1> QED BY InitInductive, <1>1, PTL DEF Spec

\* A daemon leaves no client it has heard, as long as no signal ended one (_sortirSiInutile).
THEOREM HeardIsKeptHolds == Spec => []HeardIsKept
<1>1. Inductive => HeardIsKept
  BY DEF Inductive, HeardIsKept
<1> QED BY <1>1, InductiveHolds, PTL

\* Daemons that no signal ended leave no file (arreter).
THEOREM NoStaleFileHolds == Spec => []NoStaleFile
<1>1. Inductive => NoStaleFile
  BY DEF Inductive, NoStaleFile, Alive
<1> QED BY <1>1, InductiveHolds, PTL
=============================================================================
