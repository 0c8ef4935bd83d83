--------------------------- MODULE BackendProofs ---------------------------
(* A watchdog stopped and started at any moment neither hangs nor errs.     *)
EXTENDS Backend, TLAPS

\* The initial state: nothing in flight, nothing owed.
LEMMA InitInductive == Init => Inductive
<1> SUFFICES ASSUME Init PROVE Inductive
  OBVIOUS
<1>1. TypeOK
  <2>1. Off \in Timer(Interval) /\ Off \in Timer(Timeout)
    BY TimesAssumption DEF Timer, Off
  <2> QED BY <2>1 DEF Init, TypeOK
<1>2. OneReply /\ OnePing
  BY DEF Init, OneReply, OnePing
<1>3. InFlight = {}
  BY DEF Init, InFlight
<1> QED BY <1>1, <1>2, <1>3, TimesAssumption DEF Init, Inductive

\* _onExit leaves nothing in flight and one reply for each request.
LEMMA ExitKeeps ==
  ASSUME Inductive, NEW why \in {"transport", "unresponsive"}, exited = "no", Exit(why),
         UNCHANGED <<frozen, stopped>>, silence' \in Nat
  PROVE  Inductive'
<1>1. TypeOK'
  BY TimesAssumption DEF Inductive, TypeOK, Exit, Reply, Timer, Off
<1>2. OneReply'
  BY DEF Inductive, TypeOK, Exit, Reply, OneReply
<1>3. \A k \in Pings : pings'[k] = Off
  BY DEF Exit
<1>4. watchdog' = Off /\ missed' = 0 /\ forward' = {} /\ exited' = why
  BY DEF Exit
<1>5. OnePing'
  BY <1>3, <1>4 DEF OnePing
<1>6. InFlight' = {}
  BY <1>3 DEF InFlight
<1>7. missed' < MaxMissed /\ missed' <= silence'
  BY <1>4, TimesAssumption
<1> QED BY <1>1, <1>2, <1>4, <1>5, <1>6, <1>7 DEF Inductive

\* A ping that settles (k) without a verdict: the others, and the watchdog, stay.
LEMMA SettleKeeps ==
  ASSUME Inductive, NEW k \in Pings, pings[k] # Off,
         pings' = [pings EXCEPT ![k] = Off],
         UNCHANGED <<forward, replies, watchdog, frozen, exited, stopped>>,
         missed' \in Nat, silence' \in Nat, missed' < MaxMissed,
         missed' = 0 \/ missed' = missed + 1,
         missed' <= silence'
  PROVE  Inductive'
<1>1. TypeOK'
  BY TimesAssumption DEF Inductive, TypeOK, Timer, Off
<1>2. OneReply'
  BY DEF Inductive, OneReply
<1>3. \A j \in Pings : pings'[j] # Off => pings'[j] = pings[j] /\ j # k
  BY DEF Inductive, TypeOK
<1>4. OnePing'
  BY <1>3 DEF Inductive, OnePing
<1>5. InFlight' = {}
  BY <1>3 DEF Inductive, OnePing, InFlight
<1>6. exited = "no"
  BY DEF Inductive, InFlight
<1>7. watchdog' = Off => missed' = 0 \/ (missed' = 1 /\ InFlight' = {})
  BY <1>5 DEF Inductive, InFlight, TypeOK
<1> QED BY <1>1, <1>2, <1>4, <1>5, <1>6, <1>7 DEF Inductive

\* A failed ping, counted or fatal.
LEMMA LostKeeps ==
  ASSUME Inductive, NEW k \in Pings, pings[k] # Off, Lost(k),
         UNCHANGED <<frozen, stopped>>, silence' \in Nat,
         missed + 1 <= silence'
  PROVE  Inductive'
<1>0. exited = "no" /\ missed \in Nat
  BY DEF Inductive, InFlight, TypeOK
<1>1. CASE missed + 1 < MaxMissed
  <2>1. /\ missed' = missed + 1 /\ pings' = [pings EXCEPT ![k] = Off]
        /\ UNCHANGED <<forward, replies, watchdog, exited>>
    BY <1>0, <1>1, TimesAssumption DEF Lost
  <2>2. missed' \in Nat /\ missed' < MaxMissed /\ missed' <= silence'
    BY <1>0, <1>1, <2>1
  <2> QED BY <2>1, <2>2, SettleKeeps
<1>2. CASE missed + 1 >= MaxMissed
  <2>1. Exit("unresponsive")
    BY <1>0, <1>2, TimesAssumption DEF Lost
  <2> QED BY <1>0, <2>1, ExitKeeps
<1> QED BY <1>0, <1>1, <1>2, TimesAssumption

\* The history keeps up with the count of the watchdog.
LEMMA LongerKeeps ==
  ASSUME Inductive, LongerSilence
  PROVE  silence' \in Nat /\ missed + 1 <= silence'
BY TimesAssumption DEF Inductive, TypeOK, LongerSilence

LEMMA ForwardKeeps ==
  ASSUME Inductive, NEW r \in Requests, Forward(r)
  PROVE  Inductive'
<1>1. TypeOK'
  BY TimesAssumption DEF Inductive, TypeOK, Forward, Timer, Off
<1>2. OneReply'
  BY DEF Inductive, TypeOK, OneReply, Forward
<1>3. OnePing'
  <2>1. \A k \in Pings : pings[k] # Off => pings[k] < Interval
    BY TimesAssumption DEF Inductive, TypeOK, Timer, Off
  <2> QED BY <2>1 DEF Inductive, OnePing, Forward
<1>4. InFlight' = InFlight
  BY DEF Forward, InFlight
<1>5. watchdog' # Off
  BY TimesAssumption DEF Forward, Off
<1>6. missed' < MaxMissed /\ missed' <= silence'
  BY TimesAssumption DEF Inductive, TypeOK, Forward
<1> QED BY <1>1, <1>2, <1>3, <1>4, <1>5, <1>6 DEF Inductive, Forward

LEMMA RespondKeeps ==
  ASSUME Inductive, NEW r \in Requests, Respond(r)
  PROVE  Inductive'
<1>1. TypeOK'
  BY TimesAssumption DEF Inductive, TypeOK, Respond, Reply, Timer, Off
<1>2. OneReply'
  BY DEF Inductive, TypeOK, OneReply, Respond, Reply
<1>3. pings' = pings /\ InFlight' = InFlight
  BY DEF Respond, InFlight
<1>4. OnePing'
  BY <1>3 DEF Inductive, OnePing, Respond
<1>5. missed' = missed \/ missed' = 0
  BY DEF Respond
<1>6. missed' < MaxMissed /\ missed' <= silence'
  BY <1>5, TimesAssumption DEF Inductive, TypeOK, Respond
<1>7. exited = "no" /\ exited' = exited /\ stopped' = stopped
  BY DEF Inductive, Respond
<1>8. CASE forward' = {}
  <2>1. watchdog' = Off /\ missed' = 0
    BY <1>8 DEF Respond
  <2> QED BY <1>1, <1>2, <1>4, <1>6, <1>7, <1>8, <2>1 DEF Inductive
<1>9. CASE forward' # {}
  <2>1. watchdog' = watchdog /\ missed' = missed /\ forward # {}
    BY <1>9 DEF Respond
  <2> QED BY <1>1, <1>2, <1>3, <1>4, <1>6, <1>7, <1>9, <2>1 DEF Inductive
<1> QED BY <1>8, <1>9

LEMMA PingKeeps ==
  ASSUME Inductive, NEW k \in Pings, Ping(k)
  PROVE  Inductive'
<1>1. exited = "no" /\ forward # {} /\ watchdog = 0 /\ watchdog # Off /\ ~stopped
  BY DEF Inductive, Ping, Off
<1>2. /\ watchdog' = Interval /\ pings' = [pings EXCEPT ![k] = Timeout]
      /\ UNCHANGED <<missed, forward, replies, frozen, exited, stopped, silence>>
  BY <1>1 DEF Ping
<1>3. \A j \in Pings : pings[j] = Off
  BY <1>1 DEF Inductive, OnePing, TypeOK, Timer, Off
<1>4. TypeOK'
  BY <1>2, TimesAssumption DEF Inductive, TypeOK, Timer, Off
<1>5. OneReply'
  BY <1>2 DEF Inductive, OneReply
<1>6. \A j \in Pings : pings'[j] = IF j = k THEN Timeout ELSE Off
  BY <1>2, <1>3 DEF Inductive, TypeOK
<1>7. OnePing'
  BY <1>2, <1>6, TimesAssumption DEF OnePing
<1>8. watchdog' # Off
  BY <1>2, TimesAssumption DEF Off
<1> QED BY <1>1, <1>2, <1>4, <1>5, <1>7, <1>8 DEF Inductive

LEMMA StopKeeps ==
  ASSUME Inductive, Stop
  PROVE  Inductive'
<1>1. TypeOK'
  BY TimesAssumption DEF Inductive, TypeOK, Stop, Timer, Off
<1>2. OneReply' /\ OnePing' /\ InFlight' = InFlight
  BY DEF Inductive, OneReply, OnePing, Stop, InFlight
<1> QED BY <1>1, <1>2, TimesAssumption DEF Inductive, Stop, TypeOK

LEMMA TickKeeps ==
  ASSUME Inductive, Tick
  PROVE  Inductive'
<1>1. watchdog # 0 /\ \A k \in Pings : pings[k] # 0
  BY DEF Tick, Due
<1>2. \A k \in Pings : pings'[k] = IF pings[k] = Off THEN Off ELSE pings[k] - 1
  BY DEF Tick, Less
<1>3. watchdog' = IF watchdog = Off THEN Off ELSE watchdog - 1
  BY DEF Tick, Less
<1>4. TypeOK'
  BY <1>1, TimesAssumption DEF Inductive, TypeOK, Tick, Less, Timer, Off
<1>5. \A k \in Pings : pings'[k] # Off <=> pings[k] # Off
  BY <1>1, <1>2 DEF Inductive, TypeOK, Timer, Off
<1>6. watchdog' # Off <=> watchdog # Off
  BY <1>1, <1>3 DEF Inductive, TypeOK, Timer, Off
<1>7. OnePing'
  BY <1>2, <1>3, <1>5, <1>6, TimesAssumption DEF Inductive, OnePing, TypeOK, Timer, Off
<1>8. InFlight' = InFlight
  BY <1>5 DEF InFlight
<1>9. OneReply'
  BY DEF Inductive, OneReply, Tick
<1> QED BY <1>4, <1>6, <1>7, <1>8, <1>9 DEF Inductive, Tick

\* Every step keeps the invariant.
LEMMA StepInductive == Inductive /\ [Next]_vars => Inductive'
<1> SUFFICES ASSUME Inductive, [Next]_vars PROVE Inductive'
  OBVIOUS
<1>1. ASSUME NEW r \in Requests, Forward(r) PROVE Inductive'
  BY <1>1, ForwardKeeps
<1>2. ASSUME NEW r \in Requests, Respond(r) PROVE Inductive'
  BY <1>2, RespondKeeps
<1>3. ASSUME NEW k \in Pings, Ping(k) PROVE Inductive'
  BY <1>3, PingKeeps
<1>4. ASSUME NEW k \in Pings, Pong(k) PROVE Inductive'
  <2>1. /\ pings[k] # Off /\ pings' = [pings EXCEPT ![k] = Off]
        /\ UNCHANGED <<forward, replies, watchdog, frozen, exited, stopped>>
        /\ missed' = 0 /\ silence' = 0
    BY <1>4 DEF Pong
  <2>2. missed' \in Nat /\ silence' \in Nat /\ missed' < MaxMissed /\ missed' <= silence'
    BY <2>1, TimesAssumption
  <2> QED BY <2>1, <2>2, SettleKeeps
<1>5. ASSUME NEW k \in Pings, TimesOut(k) PROVE Inductive'
  <2>1. pings[k] # Off /\ Lost(k) /\ UNCHANGED <<frozen, stopped>>
    BY <1>5 DEF TimesOut, Off
  <2>2. LongerSilence
    BY <1>5 DEF TimesOut
  <2> QED BY <2>1, <2>2, LongerKeeps, LostKeeps
<1>6. ASSUME NEW k \in Pings, Refused(k) PROVE Inductive'
  <2>1. pings[k] # Off /\ Lost(k) /\ LongerSilence /\ UNCHANGED <<frozen, stopped>>
    BY <1>6 DEF Refused
  <2> QED BY <2>1, LongerKeeps, LostKeeps
<1>7. CASE Breaks
  BY <1>7, ExitKeeps DEF Breaks, Inductive, TypeOK
<1>8. CASE Stop
  BY <1>8, StopKeeps
<1>9. CASE Freeze
  BY <1>9 DEF Freeze, Inductive, TypeOK, OneReply, OnePing, InFlight
<1>10. CASE Tick
  BY <1>10, TickKeeps
<1>11. CASE UNCHANGED vars
  BY <1>11 DEF vars, Inductive, TypeOK, OneReply, OnePing, InFlight
<1> QED BY <1>1, <1>2, <1>3, <1>4, <1>5, <1>6, <1>7, <1>8, <1>9, <1>10, <1>11 DEF Next

\* Requests, replies, watchdog and pings agree in every reachable state (backend.js:
\* _startWatchdog, _stopWatchdog and _onExit keep them together).
THEOREM InductiveHolds == Spec => []Inductive
BY InitInductive, StepInductive, PTL DEF Spec

\* A ping is settled before the next one is sent, whatever restarts the watchdog.
THEOREM OnePingHolds == Spec => []OnePing
<1>1. Inductive => OnePing
  BY DEF Inductive
<1> QED BY <1>1, InductiveHolds, PTL

\* One reply per request: result or -32000, never both, never none once it left.
THEOREM OneReplyHolds == Spec => []OneReply
<1>1. Inductive => OneReply
  BY DEF Inductive
<1> QED BY <1>1, InductiveHolds, PTL

\* A server is declared frozen only after MaxMissed pings in a row that it did not serve.
THEOREM FrozenHolds == Spec => []FrozenIsSilent
<1>1. Init => FrozenIsSilent
  BY DEF Init, FrozenIsSilent
<1>2. Inductive /\ FrozenIsSilent /\ [Next]_vars => FrozenIsSilent'
  <2> SUFFICES ASSUME Inductive, FrozenIsSilent, [Next]_vars,
                      exited' = "unresponsive"
               PROVE  silence' >= MaxMissed
    BY DEF FrozenIsSilent
  <2>1. silence \in Nat /\ MaxMissed \in Nat /\ missed \in Nat
    BY TimesAssumption DEF Inductive, TypeOK
  <2>2. CASE exited = "unresponsive"
    <3>1. silence >= MaxMissed /\ forward = {} /\ \A k \in Pings : pings[k] = Off
      BY <2>2 DEF FrozenIsSilent, Inductive, InFlight
    <3>2. \A k \in Pings : ~Pong(k) /\ ~TimesOut(k) /\ ~Refused(k)
      BY <3>1 DEF Pong, TimesOut, Refused, Off
    <3>3. UNCHANGED silence
      BY <3>2 DEF Next, vars, Forward, Respond, Ping, Breaks, Stop, Freeze, Tick
    <3> QED BY <3>1, <3>3
  <2>3. CASE exited # "unresponsive"
    <3>1. PICK k \in Pings : Lost(k) /\ LongerSilence
      BY <2>3 DEF Next, vars, Forward, Respond, Ping, Pong, TimesOut, Refused, Breaks, Exit,
                  Stop, Freeze, Tick
    <3>2. missed + 1 >= MaxMissed
      BY <2>3, <3>1 DEF Lost
    <3>3. missed <= silence
      BY DEF Inductive
    <3> QED BY <2>1, <3>1, <3>2, <3>3 DEF LongerSilence
  <2> QED BY <2>2, <2>3
<1> QED BY <1>1, <1>2, InductiveHolds, PTL DEF Spec

\* The ping that outlives its watchdog never kills a backend nobody waits for.
THEOREM VerdictHolds == Spec => VerdictOnlyIfAwaited
<1>1. Inductive /\ [Next]_vars
        => (exited = "no" /\ exited' = "unresponsive" => forward # {} /\ ~stopped)
  <2> SUFFICES ASSUME Inductive, [Next]_vars, exited = "no", exited' = "unresponsive"
               PROVE  forward # {} /\ ~stopped
    OBVIOUS
  <2>1. PICK k \in Pings : Lost(k) /\ pings[k] # Off
    BY DEF Next, vars, Forward, Respond, Ping, Pong, TimesOut, Refused, Breaks, Exit, Stop,
           Freeze, Tick, Off
  <2>2. missed + 1 >= MaxMissed /\ missed \in Nat
    BY <2>1 DEF Lost, Inductive, TypeOK
  <2>3. watchdog = Off => missed = 0
    BY <2>1 DEF Inductive, InFlight
  <2>4. watchdog # Off
    BY <2>2, <2>3, TimesAssumption
  <2> QED BY <2>4 DEF Inductive
<1> QED BY <1>1, InductiveHolds, PTL DEF Spec, VerdictOnlyIfAwaited
=============================================================================
