---------------------------- MODULE SharedProofs ----------------------------
(* What processes that take no lock share: the machine the concierge       *)
(* cleans, the journal, the file of the handshakes.                        *)
EXTENDS Janitor, Journal, Handshake, FiniteSetTheorems, SequenceTheorems, TLAPS

---------------------------------------------------------------------------
(* The concierge (Janitor.tla).                                            *)

\* Numbers of daemons: those of what they launched, and of what the pass listed.
Dated ==
  /\ \A i \in Served : owner[i] <= boots
  /\ \A v \in victims : v[1] \in Served => v[2] <= listed

JanitorInductive == Consistent /\ Dated

LEMMA JanitorStarts == JanitorInit => JanitorInductive
<1> SUFFICES ASSUME JanitorInit PROVE JanitorInductive
  OBVIOUS
<1>1. JanitorTypeOK
  <2>1. 0 \in 0..MaxBoots /\ 0 \in 0..MaxReturns
    BY JanitorAssumption
  <2>2. owner \in [Instances -> 0..MaxBoots]
    BY <2>1 DEF JanitorInit, Nobody
  <2>3. proc \in [Instances -> BOOLEAN] /\ dir \in [Instances -> BOOLEAN]
    BY DEF JanitorInit
  <2> QED BY <2>1, <2>2, <2>3 DEF JanitorInit, JanitorTypeOK
<1>2. Consistent
  BY <1>1 DEF JanitorInit, Consistent
<1>3. Dated
  BY DEF JanitorInit, Dated, Nobody, Served
<1> QED BY <1>2, <1>3 DEF JanitorInductive

\* A daemon that starts joins the pass.
LEMMA DaemonsKeep ==
  ASSUME JanitorInductive, Boot \/ DaemonDies
  PROVE  JanitorInductive'
<1> USE DEF JanitorInductive, Consistent
<1>1. CASE Boot
  <2>1. JanitorTypeOK' /\ boots' = boots + 1 /\ ~Alone'
    BY <1>1, JanitorAssumption DEF Boot, JanitorTypeOK, Alone, system, pass
  <2>2. asked' <= listed' /\ listed' <= boots'
    BY <1>1, <2>1 DEF Boot, JanitorTypeOK, pass
  <2>3. Dated'
    BY <1>1, <2>1 DEF Boot, JanitorTypeOK, Dated, pass, Served
  <2> QED BY <2>1, <2>2, <2>3
<1>2. CASE DaemonDies
  <2>1. JanitorTypeOK'
    BY <1>2 DEF DaemonDies, JanitorTypeOK, system, pass
  <2> QED BY <1>2, <2>1 DEF DaemonDies, Dated, Alone, pass
<1> QED BY <1>1, <1>2

\* What is launched has a daemon, which joined the pass; what ends leaves nothing more.
LEMMA LaunchedKeep ==
  ASSUME JanitorInductive, NEW i \in Instances,
         Launch(i) \/ End(i) \/ ProxyDies(i) \/ Eof(i)
  PROVE  JanitorInductive'
<1> USE DEF JanitorInductive, Consistent
<1>1. CASE Launch(i)
  <2>1. JanitorTypeOK'
    <3>1. owner' \in [Instances -> 0..MaxBoots]
      BY <1>1, JanitorAssumption DEF Launch, JanitorTypeOK
    <3> QED BY <1>1, <3>1 DEF Launch, JanitorTypeOK, system, pass
  <2>2. UNCHANGED <<boots, up, at, victims, doomed, asked, listed, hindered>>
    BY <1>1 DEF Launch, pass
  <2>3. \A j \in Instances \ {i} : UNCHANGED <<owner[j], proc[j], dir[j]>>
    BY <1>1 DEF Launch, JanitorTypeOK
  <2>4. Dated'
    BY <1>1, <2>2, <2>3 DEF Launch, Dated, JanitorTypeOK, Served
  <2>5. i \in Served => up
    BY <1>1 DEF Launch, Served
  <2> QED BY <2>1, <2>2, <2>3, <2>4, <2>5 DEF Alone, Served
<1>2. CASE End(i) \/ Eof(i)
  <2>1. JanitorTypeOK'
    <3>1. owner' \in [Instances -> 0..MaxBoots]
      BY <1>2, JanitorAssumption DEF End, Eof, JanitorTypeOK, Nobody
    <3>2. proc' \in [Instances -> BOOLEAN] /\ dir' \in [Instances -> BOOLEAN]
      BY <1>2 DEF End, Eof, JanitorTypeOK
    <3> QED BY <1>2, <3>1, <3>2 DEF End, Eof, JanitorTypeOK, system, pass
  <2>2. UNCHANGED <<boots, up, at, victims, doomed, asked, listed, hindered>>
    BY <1>2 DEF End, Eof, pass
  <2>3. /\ \A j \in Instances : proc'[j] => proc[j] /\ owner'[j] = owner[j]
        /\ \A j \in Instances : dir'[j] => dir[j]
    BY <1>2 DEF End, Eof, JanitorTypeOK
  <2>4. Dated'
    BY <1>2, <2>2 DEF End, Eof, Dated, JanitorTypeOK, Served, Nobody
  <2> QED BY <2>1, <2>2, <2>3, <2>4 DEF Alone, Served
<1>3. CASE ProxyDies(i)
  <2>1. JanitorTypeOK'
    BY <1>3 DEF ProxyDies, JanitorTypeOK, system, pass
  <2> QED BY <1>3, <2>1 DEF ProxyDies, Dated, Alone, pass
<1> QED BY <1>1, <1>2, <1>3

\* The system: it starts nothing here, and when it restarts no process is left.
LEMMA SystemKeeps ==
  ASSUME JanitorInductive, Install \/ Wakes \/ Restarts
  PROVE  JanitorInductive'
<1> USE DEF JanitorInductive, Consistent
<1>1. CASE Install
  <2>1. JanitorTypeOK'
    BY <1>1 DEF Install, JanitorTypeOK, Plan, Events, world, pass
  <2> QED BY <1>1, <2>1 DEF Install, Dated, Alone, world, pass
<1>2. CASE Wakes
  <2>1. returns' \in 0..MaxReturns
    BY <1>2, JanitorAssumption DEF Wakes, Announced, JanitorTypeOK
  <2>2. due' \in BOOLEAN /\ owed' \in BOOLEAN /\ hindered' \in BOOLEAN
    BY <1>2, Zenon DEF Wakes, Announced, JanitorTypeOK
  <2>3. UNCHANGED <<world, platform, armed, at, victims, doomed, asked, listed>>
    BY <1>2 DEF Wakes
  <2>4. JanitorTypeOK'
    BY <2>1, <2>2, <2>3 DEF JanitorTypeOK, world
  <2>5. hindered => hindered' \/ at = "idle"
    BY <1>2 DEF Wakes
  <2> QED BY <2>3, <2>4, <2>5 DEF Dated, Alone, world
<1>3. CASE Restarts
  <2>1. JanitorTypeOK'
    <3>1. returns' \in 0..MaxReturns
      BY <1>3, JanitorAssumption DEF Restarts, Announced, JanitorTypeOK
    <3>2. due' \in BOOLEAN /\ owed' \in BOOLEAN
      BY <1>3, Zenon DEF Restarts, Announced, JanitorTypeOK
    <3> QED BY <1>3, <3>1, <3>2 DEF Restarts, JanitorTypeOK
  <2> QED BY <1>3, <2>1 DEF Restarts, Dated, Alone
<1> QED BY <1>1, <1>2, <1>3

\* The pass.
LEMMA PassKeeps ==
  ASSUME JanitorInductive,
         \/ Ask \/ LeftAlone \/ List \/ Killing \/ Purge \/ Removing \/ PassEnds \/ Interrupted
  PROVE  JanitorInductive'
<1> USE DEF JanitorInductive, Consistent
<1>1. CASE Ask \/ LeftAlone
  <2>1. JanitorTypeOK'
    BY <1>1 DEF Ask, LeftAlone, Starts, JanitorTypeOK, world
  <2>2. asked' = boots' /\ listed' = boots' /\ at' \in {"idle", "asked"} /\ boots' = boots
    BY <1>1 DEF Ask, LeftAlone, Starts, world
  <2>3. at' # "idle" => ~up'
    BY <1>1 DEF Ask, LeftAlone, Starts, world
  <2>4. Dated'
    BY <1>1, <2>2 DEF Ask, LeftAlone, Dated, world, JanitorTypeOK, Served
  <2> QED BY <2>1, <2>2, <2>3, <2>4 DEF JanitorTypeOK
<1>2. CASE List
  <2>1. UNCHANGED world /\ asked' = asked /\ listed' = boots /\ at' = "kill"
    BY <1>2 DEF List
  <2>2. victims' \subseteq {<<i, owner[i]>> : i \in Instances}
    BY <1>2 DEF List, Signed, Enumerated
  <2>3. JanitorTypeOK'
    BY <1>2, <2>2 DEF List, Hindered, JanitorTypeOK, world, system
  <2>4. Dated'
    BY <2>1, <2>2 DEF Dated, world, JanitorTypeOK, Served
  <2>5. ~hindered' => \A i \in Served : proc[i] => <<i, owner[i]>> \in victims'
    BY <1>2 DEF List, Hindered, Signed, Enumerated, Served
  <2> QED BY <1>2, <2>1, <2>3, <2>4, <2>5 DEF List, Alone, world, JanitorTypeOK
<1>3. CASE Killing
  <2>1. PICK v \in victims : Kill(v)
    BY <1>3 DEF Killing
  <2>2. JanitorTypeOK'
    BY <2>1 DEF Kill, Hindered, JanitorTypeOK, system
  <2>3. /\ at = "kill" /\ UNCHANGED <<boots, up, owner, at, asked, listed>>
        /\ victims' = victims \ {v}
    BY <2>1 DEF Kill
  <2>6. hindered => hindered'
    BY <2>1, Zenon DEF Kill, Hindered
  <2>4. ~hindered' => \A i \in Instances : proc'[i] => proc[i] /\ <<i, owner[i]>> # v
    <3> SUFFICES ASSUME ~hindered', NEW i \in Instances, proc'[i]
                 PROVE  proc[i] /\ <<i, owner[i]>> # v
      OBVIOUS
    <3>1. proc' = [proc EXCEPT ![v[1]] = @ /\ owner[v[1]] # v[2]]
      BY <2>1 DEF Kill, Hindered
    <3>2. CASE i = v[1]
      <4>1. proc'[i] = (proc[i] /\ owner[i] # v[2])
        BY <3>1, <3>2 DEF JanitorTypeOK
      <4>2. proc[i] /\ owner[i] # v[2]
        BY <4>1
      <4> QED BY <3>2, <4>2
    <3>3. CASE i # v[1]
      <4>1. proc'[i] = proc[i]
        BY <3>1, <3>3 DEF JanitorTypeOK
      <4> QED BY <3>3, <4>1
    <3> QED BY <3>2, <3>3
  <2>5. Dated'
    BY <2>3 DEF Dated
  <2> QED BY <2>2, <2>3, <2>4, <2>5, <2>6 DEF Alone, Served
<1>4. CASE Purge
  <2>1. JanitorTypeOK'
    BY <1>4 DEF Purge, Hindered, JanitorTypeOK, world, system
  <2>2. UNCHANGED world /\ asked' = asked /\ listed' = boots /\ at' = "purge" /\ victims' = {}
    BY <1>4 DEF Purge
  <2>3. ~hindered' => ~hindered /\ doomed' = {i \in Instances : dir[i]}
    BY <1>4 DEF Purge, Hindered
  <2>4. Alone' => Alone
    BY <2>2 DEF Alone, world
  <2>5. Alone /\ ~hindered => \A i \in Served : ~proc[i]
    BY <1>4 DEF Purge
  <2>6. Dated'
    BY <2>2 DEF Dated, world
  <2> QED BY <1>4, <2>1, <2>2, <2>3, <2>4, <2>5, <2>6 DEF Purge, world, Served, JanitorTypeOK
<1>5. CASE Removing
  <2>1. PICK i \in Instances : Remove(i)
    BY <1>5 DEF Removing
  <2>2. JanitorTypeOK'
    BY <2>1 DEF Remove, Hindered, JanitorTypeOK, system
  <2>3. /\ UNCHANGED <<boots, up, owner, proc, at, victims, asked, listed>> /\ at = "purge"
        /\ doomed' = doomed \ {i}
    BY <2>1 DEF Remove
  <2>5. hindered => hindered'
    BY <2>1, Zenon DEF Remove, Hindered
  <2>4. ~hindered' => \A j \in Instances : dir'[j] => dir[j] /\ j # i
    BY <2>1 DEF Remove, Hindered, JanitorTypeOK
  <2> QED BY <2>2, <2>3, <2>4, <2>5 DEF Dated, Alone, Served
<1>6. CASE PassEnds \/ Interrupted
  <2>1. JanitorTypeOK'
    BY <1>6 DEF PassEnds, Interrupted, Hindered, JanitorTypeOK, world, system
  <2>2. UNCHANGED <<world, asked, listed>> /\ at' = "idle" /\ victims' \subseteq victims
    BY <1>6 DEF PassEnds, Interrupted
  <2> QED BY <2>1, <2>2 DEF Dated, world
<1> QED BY <1>1, <1>2, <1>3, <1>4, <1>5, <1>6

LEMMA JanitorSteps == JanitorInductive /\ [JanitorNext]_janitorVars => JanitorInductive'
<1> SUFFICES ASSUME JanitorInductive, [JanitorNext]_janitorVars PROVE JanitorInductive'
  OBVIOUS
<1>1. CASE UNCHANGED janitorVars
  BY <1>1 DEF JanitorInductive, Consistent, JanitorTypeOK, Dated, Alone, Served,
              janitorVars, world, system, pass
<1> QED BY <1>1, DaemonsKeep, LaunchedKeep, SystemKeeps, PassKeeps DEF JanitorNext

\* Whatever joins, dies or fails during a pass, the types, and what the pass knows of those
\* whose daemon is dead: all their processes are on its list, then all their directories,
\* and no process is left by then (passeConcierge).
THEOREM ConsistentHolds == JanitorSpec => []Consistent
<1>1. JanitorInductive => Consistent
  BY DEF JanitorInductive
<1> QED BY <1>1, JanitorStarts, JanitorSteps, PTL DEF JanitorSpec

\* An instance whose daemon lived when the pass asked loses nothing by it, one whose daemon
\* started after its last enumeration loses no process.
THEOREM DaemonsKeepTheirsHolds == JanitorSpec => DaemonsKeepTheirs
<1> DEFINE A == \A i \in Served : Owned(i) /\ Owned(i)' =>
                  /\ owner[i] <= asked => proc'[i] = proc[i] /\ dir'[i] = dir[i]
                  /\ owner[i] > listed => proc'[i] = proc[i]
<1>1. ASSUME JanitorInductive, [JanitorNext]_janitorVars PROVE A
  <2> SUFFICES ASSUME NEW i \in Served, Owned(i), Owned(i)',
                      \/ owner[i] <= asked /\ (proc'[i] # proc[i] \/ dir'[i] # dir[i])
                      \/ owner[i] > listed /\ proc'[i] # proc[i]
               PROVE  FALSE
    OBVIOUS
  <2>1. JanitorTypeOK /\ Consistent /\ Dated /\ i \in Instances /\ i \notin Private
    BY <1>1 DEF JanitorInductive, Consistent, Served
  <2>2. up /\ owner[i] = boots /\ up' /\ owner'[i] # Nobody
    BY <2>1 DEF Owned
  <2>3. owner[i] <= asked => at = "idle"
    BY <2>1, <2>2 DEF Consistent, Alone, JanitorTypeOK
  <2>4. ASSUME NEW j \in Instances, Launch(j) \/ End(j) \/ Eof(j) \/ ProxyDies(j) PROVE FALSE
    BY <2>1, <2>2, <2>4 DEF Launch, End, Eof, ProxyDies, JanitorTypeOK, Owned
  <2>5. ASSUME NEW v \in victims, Kill(v) PROVE FALSE
    <3>1. at = "kill" /\ dir' = dir /\ (proc'[i] # proc[i] => v[1] = i /\ owner[i] = v[2])
      BY <2>1, <2>5 DEF Kill, JanitorTypeOK
    <3>2. owner[i] > listed /\ v[1] = i /\ owner[i] = v[2]
      BY <2>3, <3>1
    <3> QED BY <2>1, <3>2 DEF Dated, JanitorTypeOK
  <2>6. ASSUME NEW j \in Instances, Remove(j) PROVE FALSE
    BY <2>1, <2>3, <2>6 DEF Remove
  <2>7. CASE Restarts
    BY <2>2, <2>7 DEF Restarts
  <2>8. CASE \/ Boot \/ DaemonDies \/ Install \/ Wakes \/ Ask \/ LeftAlone \/ List \/ Purge
             \/ PassEnds \/ Interrupted \/ UNCHANGED janitorVars
    BY <2>8 DEF Boot, DaemonDies, Install, Wakes, Ask, LeftAlone, List, Purge, PassEnds,
                Interrupted, janitorVars, world
  <2> QED BY <1>1, <2>4, <2>5, <2>6, <2>7, <2>8 DEF JanitorNext, Killing, Removing
<1>2. JanitorInductive /\ [JanitorNext]_janitorVars => [A]_janitorVars
  BY <1>1
<1> QED BY <1>2, JanitorStarts, JanitorSteps, PTL DEF JanitorSpec, DaemonsKeepTheirs

---------------------------------------------------------------------------
(* The memory of the handshakes (Handshake.tla).                           *)

LEMMA AnswersAreAnswers ==
  ASSUME NEW a \in Answers
  PROVE  a \notin {None, Starting, Dead, Degraded}
<1>1. PICK k \in Keys : \E n \in 0..MaxUpdates[k] : a = <<k, n>>
  BY DEF Answers
<1>2. Len(a) = 2
  BY <1>1
<1>3. Len(None) = 0 /\ Len(Starting) = 1 /\ Len(Dead) = 1 /\ Len(Degraded) = 1
  BY DEF None, Starting, Dead, Degraded
<1> QED BY <1>2, <1>3

LEMMA States == None \notin {Degraded, Starting, Dead}
<1>1. Len(None) = 0 /\ Len(Starting) = 1 /\ Len(Dead) = 1 /\ Len(Degraded) = 1
  BY DEF None, Starting, Dead, Degraded
<1> QED BY <1>1

LEMMA InstalledAnswers ==
  ASSUME TypeOK, NEW k \in Keys
  PROVE  <<k, version[k]>> \in Answers
<1>1. version[k] \in 0..MaxUpdates[k]
  BY HandshakeAssumption DEF TypeOK
<1> QED BY <1>1 DEF Answers

LEMMA EntriesAreEntries ==
  ASSUME NEW doc \in Seq(EntryType), NEW k
  PROVE  Entries(doc, k) \subseteq EntryType
BY DEF Entries

LEMMA EntryIsEntry ==
  ASSUME NEW doc \in Seq(EntryType), NEW k \in Keys, NEW init \in BOOLEAN,
         NEW tools \in Answers \cup {None}
  PROVE  Entry(doc, k, init, tools) \in EntryType
<1> DEFINE said == init \/ \E e \in Entries(doc, k) : e.init
           list0 == IF tools = None /\ Entries(doc, k) # {}
                    THEN (CHOOSE e \in Entries(doc, k) : TRUE).tools ELSE tools
<1>1. said \in BOOLEAN
  OBVIOUS
<1>2. list0 \in Answers \cup {None}
  <2>1. Entries(doc, k) \subseteq EntryType
    BY EntriesAreEntries
  <2>2. \A e \in EntryType : e.tools \in Answers \cup {None}
    BY DEF EntryType
  <2> QED BY <2>1, <2>2
<1>3. Entry(doc, k, init, tools) = [key |-> k, init |-> said, tools |-> list0]
  BY DEF Entry
<1> HIDE DEF said, list0
<1> QED BY <1>1, <1>2, <1>3 DEF EntryType

\* What ecrireEntree writes is a document of entries.
LEMMA WrittenIsDocument ==
  ASSUME NEW doc \in Seq(EntryType), NEW k \in Keys, NEW init \in BOOLEAN,
         NEW tools \in Answers \cup {None}
  PROVE  Written(doc, k, init, tools) \in Seq(EntryType)
<1>1. Others(doc, k) \in Seq(EntryType)
  <2>1. CASE Entries(doc, k) = {}
    BY <2>1 DEF Others
  <2>2. CASE Entries(doc, k) # {}
    <3> DEFINE i == CHOOSE j \in DOMAIN doc : doc[j].key = k
    <3>1. i \in DOMAIN doc
      BY <2>2 DEF Entries
    <3>2. i \in 1..Len(doc)
      BY <3>1
    <3> HIDE DEF i
    <3>3. /\ SubSeq(doc, 1, i - 1) \in Seq(EntryType)
          /\ SubSeq(doc, i + 1, Len(doc)) \in Seq(EntryType)
      BY <3>2
    <3> QED BY <2>2, <3>3 DEF Others, i
  <2> QED BY <2>1, <2>2
<1>2. Entry(doc, k, init, tools) \in EntryType
  BY EntryIsEntry
<1> DEFINE all == Append(Others(doc, k), Entry(doc, k, init, tools))
<1>3. all \in Seq(EntryType)
  BY <1>1, <1>2
<1>4. Written(doc, k, init, tools) =
        IF Len(all) > MaxEntries THEN SubSeq(all, Len(all) - MaxEntries + 1, Len(all)) ELSE all
  BY DEF Written
<1> HIDE DEF all
<1>5. Len(all) > MaxEntries =>
        SubSeq(all, Len(all) - MaxEntries + 1, Len(all)) \in Seq(EntryType)
  BY <1>3, HandshakeAssumption
<1> QED BY <1>3, <1>4, <1>5

\* A backend that is confronted has answered, and is marked; its end is the end of both.
Debts == \A p \in Profiles : confront[p] # None => Ready(p) /\ p \in verifies

\* What the end of a backend leaves: its waiters answered, and told of nothing more.
LEMMA EndedKeeps ==
  ASSUME TypeOK, Debts, NEW p \in Profiles, NEW state \in {None, Dead}, Ended(p, state)
  PROVE  /\ backend' \in [Profiles -> Answers \cup {None, Starting, Dead}]
         /\ confront' \in [Profiles -> Answers \cup {None}]
         /\ verifies' \subseteq Profiles /\ late' \subseteq Profiles
         /\ call' \in Profiles \cup {None} /\ list' \in Profiles \cup {None}
         /\ greeting' \in {"due", "waiting", "over"}
         /\ seen' \in Answers \cup {None, Degraded}
         /\ Debts'
<1>1. /\ backend' \in [Profiles -> Answers \cup {None, Starting, Dead}]
      /\ confront' \in [Profiles -> Answers \cup {None}]
  BY DEF Ended, TypeOK
<1>2. /\ verifies' \subseteq Profiles /\ late' \subseteq Profiles
      /\ call' \in Profiles \cup {None} /\ list' \in Profiles \cup {None}
      /\ greeting' \in {"due", "waiting", "over"}
  BY DEF Ended, TypeOK
<1>3. seen' \in Answers \cup {None, Degraded}
  BY DEF Ended, TypeOK
<1>4. Debts'
  BY DEF Ended, TypeOK, Debts, Ready
<1> QED BY <1>1, <1>2, <1>3, <1>4

LEMMA HandshakeStarts == Init => TypeOK /\ Debts
<1> SUFFICES ASSUME Init PROVE TypeOK /\ Debts
  OBVIOUS
<1> USE HandshakeAssumption DEF Init
<1>1. file \in Seq(EntryType)
  <2>1. <<KeyOf[Default], 0>> \in Answers
    <3>1. KeyOf[Default] \in Keys /\ 0 \in 0..MaxUpdates[KeyOf[Default]]
      OBVIOUS
    <3> QED BY <3>1 DEF Answers
  <2> DEFINE e == [key |-> KeyOf[Default], init |-> TRUE, tools |-> <<KeyOf[Default], 0>>]
  <2>2. e \in EntryType
    BY <2>1 DEF EntryType
  <2>3. file \in {<<>>, <<e>>}
    OBVIOUS
  <2> HIDE DEF e, Init
  <2>4. <<e>> \in Seq(EntryType) /\ <<>> \in Seq(EntryType)
    BY <2>2
  <2> QED BY <2>3, <2>4
<1>2. /\ version \in [Keys -> Nat] /\ \A k \in Keys : version[k] <= MaxUpdates[k]
      /\ restarts \in 0..MaxRestarts
  BY HandshakeAssumption
<1>3. /\ backend \in [Profiles -> Answers \cup {None, Starting, Dead}]
      /\ confront \in [Profiles -> Answers \cup {None}]
  OBVIOUS
<1>4. doing \in [at : {"none", "switch", "restart"}, profile : Profiles]
  BY DEF Idle
<1>5. TypeOK
  BY <1>1, <1>2, <1>3, <1>4 DEF TypeOK
<1>6. Debts
  BY DEF Debts
<1> QED BY <1>5, <1>6

\* Backends come and go.
LEMMA BackendsTyped ==
  ASSUME TypeOK, Debts, restarts' \in 0..MaxRestarts, NEW p \in Profiles, NEW k \in Keys,
         Create(p) \/ Started(p) \/ Crash(p) \/ Update(k)
  PROVE  TypeOK' /\ Debts'
<1>1. CASE Create(p) \/ Started(p)
  <2>1. KeyOf[p] \in Keys
    BY HandshakeAssumption
  <2>2. <<KeyOf[p], version[KeyOf[p]]>> \in Answers
    BY <2>1, InstalledAnswers
  <2>3. backend' \in [Profiles -> Answers \cup {None, Starting, Dead}]
    BY <1>1, <2>2 DEF Create, Started, TypeOK
  <2>4. \A q \in Profiles : Ready(q) => Ready(q)'
    BY <1>1, AnswersAreAnswers DEF Create, Started, TypeOK, Ready
  <2>5. TypeOK'
    BY <1>1, <2>3 DEF Create, Started, TypeOK, store, memory, pending
  <2> QED BY <1>1, <2>4, <2>5 DEF Create, Started, Debts, memory
<1>2. CASE Crash(p)
  <2>1. PICK state \in {None, Dead} : Ended(p, state)
    BY <1>2 DEF Crash
  <2>2. doing' \in [at : {"none", "switch", "restart"}, profile : Profiles]
    BY <1>2, HandshakeAssumption DEF Crash, TypeOK, Idle
  <2>3. news' \in {"none", "told", "lost"}
    BY <1>2 DEF Crash, TypeOK
  <2>4. UNCHANGED <<version, active, file, other, servis>>
    BY <1>2 DEF Crash, store
  <2> QED BY <2>1, <2>2, <2>3, <2>4, EndedKeeps DEF TypeOK
<1>3. CASE Update(k)
  <2>1. version' = [version EXCEPT ![k] = version[k] + 1] /\ version[k] < MaxUpdates[k]
    BY <1>3 DEF Update
  <2>2. version \in [Keys -> Nat] /\ \A j \in Keys : version[j] <= MaxUpdates[j]
    BY DEF TypeOK
  <2>3. version' \in [Keys -> Nat]
    BY <2>1, <2>2
  <2>4. \A j \in Keys : version'[j] <= MaxUpdates[j]
    <3> SUFFICES ASSUME NEW j \in Keys PROVE version'[j] <= MaxUpdates[j]
      OBVIOUS
    <3>1. version[k] \in Nat /\ MaxUpdates[k] \in Nat
      BY <2>2, HandshakeAssumption
    <3>2. version'[j] = IF j = k THEN version[k] + 1 ELSE version[j]
      BY <2>1, <2>2
    <3> QED BY <2>1, <2>2, <3>1, <3>2
  <2> QED BY <1>3, <2>3, <2>4 DEF Update, TypeOK, Debts, Ready, store, memory, pending
<1> QED BY <1>1, <1>2, <1>3

\* Answers, and what is written of them.
LEMMA AnswersTyped ==
  ASSUME TypeOK, Debts, restarts' \in 0..MaxRestarts, NEW p \in Profiles,
         \/ GreetMemory \/ GreetLive \/ Greeted \/ GreetDeadline
         \/ ListMemory \/ ListLive \/ Listed \/ Deadline \/ CaughtUp(p) \/ Confronted(p)
  PROVE  TypeOK' /\ Debts'
<1>1. KeyOf[active] \in Keys
  BY HandshakeAssumption DEF TypeOK
<1>2. ASSUME NEW init \in BOOLEAN, NEW tools \in Answers \cup {None}, Memorise(init, tools)
      PROVE  file' \in Seq(EntryType)
  BY <1>1, <1>2, WrittenIsDocument DEF Memorise, TypeOK
<1>3. CASE GreetMemory \/ GreetLive \/ GreetDeadline
  BY <1>3, HandshakeAssumption
     DEF GreetMemory, GreetLive, GreetDeadline, TypeOK, Debts, Ready, store, memory
<1>4. CASE Greeted
  <2>1. file' \in Seq(EntryType)
    BY <1>2, <1>4 DEF Greeted
  <2> QED BY <1>4, <2>1 DEF Greeted, TypeOK, Debts, Ready, memory
<1>5. CASE ListMemory
  <2>1. PICK tools \in Memory(KeyOf[active]) :
          /\ seen' = tools /\ servis' = tools
          /\ news' = IF tools[1] = KeyOf[active] THEN "none" ELSE "lost"
    BY <1>5 DEF ListMemory
  <2>2. tools \in Answers
    <3>1. PICK e \in Entries(file, KeyOf[active]) : tools = e.tools /\ tools # None
      BY <2>1 DEF Memory
    <3>2. e \in EntryType
      BY <3>1, EntriesAreEntries DEF TypeOK
    <3> QED BY <3>1, <3>2 DEF EntryType
  <2>3. news' \in {"none", "lost"}
    BY <2>1
  <2> QED BY <1>5, <2>1, <2>2, <2>3 DEF ListMemory, TypeOK, Debts, Ready, store, pending
<1>6. CASE ListLive
  BY <1>6 DEF ListLive, TypeOK, Debts, Ready, store, memory
<1>7. CASE Listed
  <2>1. backend[list] \in Answers
    BY <1>7 DEF Listed, Ready
  <2>2. file' \in Seq(EntryType)
    BY <1>2, <1>7, <2>1 DEF Listed
  <2> QED BY <1>7, <2>1, <2>2 DEF Listed, TypeOK, Debts, Ready, memory
<1>8. CASE Deadline \/ CaughtUp(p)
  BY <1>8 DEF Deadline, CaughtUp, TypeOK, Debts, Ready, store, memory
<1>9. CASE Confronted(p)
  <2>1. backend[p] \in Answers
    BY <1>9 DEF Confronted, Debts, Ready
  <2>2. file' \in Seq(EntryType)
    BY <1>2, <1>9, <2>1 DEF Confronted
  <2>3. confront' \in [Profiles -> Answers \cup {None}] /\ news' \in {"none", "told", "lost"}
    BY <1>9 DEF Confronted, TypeOK
  <2>4. Debts'
    BY <1>9 DEF Confronted, TypeOK, Debts, Ready
  <2> QED BY <1>9, <2>2, <2>3, <2>4 DEF Confronted, TypeOK, pending
<1> QED BY <1>3, <1>4, <1>5, <1>6, <1>7, <1>8, <1>9

\* Calls, and the switches and restarts that stop what they leave.
LEMMA CallsTyped ==
  ASSUME TypeOK, Debts, restarts' \in 0..MaxRestarts, NEW p \in Profiles, NEW k \in Keys,
         \/ Calls \/ Relayed \/ Switch(p) \/ Restart(p) \/ Done
         \/ (k \in OtherKeys /\ OtherReads(k)) \/ OtherWrites
  PROVE  TypeOK' /\ Debts'
<1>1. CASE Calls \/ Switch(p)
  BY <1>1 DEF Calls, Switch, At, TypeOK, Debts, Ready, store, memory
<1>2. CASE Relayed
  <2>1. UNCHANGED <<version, active, backend, file, other, greeting, list, doing, late, seen, news>>
        /\ call' = None /\ call \in Profiles /\ Ready(call)
    BY <1>2 DEF Relayed, TypeOK, store
  <2>2. CASE servis # None /\ call \notin verifies
    <3>1. /\ verifies' = verifies \cup {call} /\ servis' = None
          /\ confront' = [confront EXCEPT ![call] = servis]
      BY <1>2, <2>2 DEF Relayed
    <3>2. Debts'
      BY <2>1, <3>1 DEF Debts, TypeOK, Ready
    <3> QED BY <2>1, <3>1, <3>2 DEF TypeOK
  <2>3. CASE ~(servis # None /\ call \notin verifies)
    <3>1. UNCHANGED memory
      BY <1>2, <2>3 DEF Relayed
    <3> QED BY <2>1, <3>1 DEF TypeOK, Debts, Ready, memory
  <2> QED BY <2>2, <2>3
<1>3. CASE Restart(p)
  <2>1. UNCHANGED <<version, active, file, other, servis, news>>
        /\ doing' \in [at : {"none", "switch", "restart"}, profile : Profiles]
    BY <1>3 DEF Restart, At, store
  <2>2. CASE backend[p] # None
    <3>1. Ended(p, None)
      BY <1>3, <2>2 DEF Restart
    <3> QED BY <2>1, <3>1, EndedKeeps DEF TypeOK
  <2>3. CASE backend[p] = None
    <3>1. UNCHANGED <<backend, confront, verifies, greeting, list, call, late, seen>>
      BY <1>3, <2>3 DEF Restart
    <3> QED BY <2>1, <3>1 DEF TypeOK, Debts, Ready
  <2> QED BY <2>2, <2>3
<1>4. CASE Done
  <2>1. /\ UNCHANGED <<version, file, other, servis>> /\ news' = "told"
        /\ active' \in Profiles /\ active \in Profiles
    BY <1>4 DEF Done, store, TypeOK
  <2>2. doing' \in [at : {"none", "switch", "restart"}, profile : Profiles]
    BY <1>4, HandshakeAssumption DEF Done, Idle
  <2>3. CASE active' # active /\ backend[active] # None
    <3>1. Ended(active, None)
      BY <1>4, <2>3 DEF Done
    <3> QED BY <2>1, <2>2, <3>1, EndedKeeps DEF TypeOK
  <2>4. CASE ~(active' # active /\ backend[active] # None)
    <3>1. UNCHANGED <<backend, confront, verifies, greeting, list, call, late, seen>>
      BY <1>4, <2>4 DEF Done
    <3> QED BY <2>1, <2>2, <3>1 DEF TypeOK, Debts, Ready
  <2> QED BY <2>3, <2>4
<1>5. CASE k \in OtherKeys /\ OtherReads(k)
  <2>1. other' \in OtherKeys \X Seq(EntryType)
    BY <1>5 DEF OtherReads, TypeOK
  <2> QED BY <1>5, <2>1 DEF OtherReads, TypeOK, Debts, Ready, memory, pending
<1>6. CASE OtherWrites
  <2>1. other \in OtherKeys \X Seq(EntryType)
    BY <1>6 DEF OtherWrites, TypeOK
  <2>2. other[1] \in Keys /\ other[2] \in Seq(EntryType)
    BY <2>1, HandshakeAssumption
  <2>3. <<other[1], version[other[1]]>> \in Answers
    BY <2>2, InstalledAnswers
  <2>4. file' \in Seq(EntryType)
    BY <1>6, <2>2, <2>3, WrittenIsDocument DEF OtherWrites
  <2> QED BY <1>6, <2>4 DEF OtherWrites, TypeOK, Debts, Ready, memory, pending
<1> QED BY <1>1, <1>2, <1>3, <1>4, <1>5, <1>6

\* What a tools/list waits for is the active profile, unless the client was told since.
Asked == list # None /\ news = "none" => list = active

\* The list the client holds is the one of the active backend, or is to be confronted, even
\* before there is a backend to confront it with.
Truth ==
  seen \in Answers /\ ~Coming =>
    \/ servis = seen \/ backend[active] = seen
    \/ \E p \in Profiles : confront[p] = seen

HandshakeInductive == TypeOK /\ Debts /\ Asked /\ Truth /\ DegradedIsCaughtUp

\* Whatever leaves news on the way owes nothing more.
LEMMA OnTheWay ==
  ASSUME Coming', Asked'
  PROVE  Asked' /\ Truth' /\ DegradedIsCaughtUp'
BY DEF Truth, DegradedIsCaughtUp

LEMMA AnswersTell ==
  ASSUME HandshakeInductive, NEW p \in Profiles,
         \/ GreetMemory \/ GreetLive \/ Greeted \/ GreetDeadline
         \/ ListMemory \/ ListLive \/ Listed \/ Deadline \/ CaughtUp(p) \/ Confronted(p)
  PROVE  Asked' /\ Truth' /\ DegradedIsCaughtUp'
<1> USE DEF HandshakeInductive
<1>1. CASE GreetMemory \/ GreetLive \/ Greeted
  <2>1. UNCHANGED <<active, backend, servis, confront, list, doing, late, seen, news>>
    BY <1>1 DEF GreetMemory, GreetLive, Greeted, memory
  <2> QED BY <2>1 DEF Asked, Truth, DegradedIsCaughtUp, Coming
<1>2. CASE GreetDeadline
  <2>1. late' # {} /\ UNCHANGED <<active, list, news>>
    BY <1>2 DEF GreetDeadline
  <2> QED BY <2>1, OnTheWay DEF Asked, Coming
<1>3. CASE ListMemory
  <2>1. list = None /\ list' = list /\ servis' = seen'
    BY <1>3 DEF ListMemory, pending
  <2>2. seen' # Degraded
    <3>1. PICK e \in Entries(file, KeyOf[active]) : seen' = e.tools /\ seen' # None
      BY <1>3 DEF ListMemory, Memory
    <3>2. e \in EntryType
      BY <3>1, EntriesAreEntries DEF TypeOK
    <3>3. seen' \in Answers
      BY <3>1, <3>2 DEF EntryType
    <3> QED BY <3>3, AnswersAreAnswers
  <2> QED BY <2>1, <2>2 DEF Asked, Truth, DegradedIsCaughtUp
<1>4. CASE ListLive
  <2>1. list' = active /\ active' = active /\ active # None
    BY <1>4, HandshakeAssumption DEF ListLive, TypeOK, None
  <2> QED BY <2>1, OnTheWay DEF Asked, Coming
<1>5. CASE Listed
  <2>1. /\ list # None /\ list' = None /\ seen' = backend[list] /\ seen' \in Answers
        /\ UNCHANGED <<active, backend, news>>
    BY <1>5 DEF Listed, Ready
  <2>2. news = "none" => backend'[active'] = seen'
    BY <2>1 DEF Asked
  <2> QED BY <2>1, <2>2, AnswersAreAnswers DEF Asked, Truth, DegradedIsCaughtUp, Coming
<1>6. CASE Deadline
  <2>1. late' # {} /\ list' = None
    BY <1>6 DEF Deadline
  <2> QED BY <2>1, OnTheWay DEF Asked, Coming
<1>7. CASE CaughtUp(p)
  <2>1. news' = "told"
    BY <1>7 DEF CaughtUp
  <2> QED BY <2>1, OnTheWay DEF Asked, Coming
<1>8. CASE Confronted(p)
  <2>1. /\ confront[p] # None /\ confront' = [confront EXCEPT ![p] = None]
        /\ UNCHANGED <<active, backend, servis, list, doing, late, seen>>
        /\ news' = IF backend[p] # confront[p] THEN "told"
                   ELSE IF p # active /\ news = "none" THEN "lost" ELSE news
    BY <1>8 DEF Confronted, pending
  <2>2. news # "none" => news' # "none"
    BY <2>1
  <2>3. Asked'
    BY <2>1, <2>2 DEF Asked
  <2>4. CASE Coming'
    BY <2>3, <2>4, OnTheWay
  <2>5. CASE ~Coming'
    <3>1. ~Coming
      BY <2>1, <2>2, <2>5 DEF Coming
    <3>2. p = active /\ backend[active] = confront[p]
      BY <2>1, <2>5, <3>1 DEF Coming
    <3>3. \A q \in Profiles \ {p} : confront'[q] = confront[q]
      BY <2>1 DEF TypeOK
    <3> QED BY <2>1, <2>3, <3>1, <3>2, <3>3 DEF Truth, DegradedIsCaughtUp
  <2> QED BY <2>4, <2>5
<1> QED BY <1>1, <1>2, <1>3, <1>4, <1>5, <1>6, <1>7, <1>8

LEMMA BackendsTell ==
  ASSUME HandshakeInductive, NEW p \in Profiles, NEW k \in Keys,
         Create(p) \/ Started(p) \/ Crash(p) \/ Update(k)
  PROVE  Asked' /\ Truth' /\ DegradedIsCaughtUp'
<1> USE DEF HandshakeInductive
<1>1. CASE Create(p) \/ Started(p) \/ Update(k)
  <2>1. UNCHANGED <<active, servis, confront, list, doing, late, seen, news>>
    BY <1>1 DEF Create, Started, Update, memory, pending
  <2>2. \A q \in Profiles : backend[q] \in Answers => backend'[q] = backend[q]
    BY <1>1, AnswersAreAnswers DEF Create, Started, Update, TypeOK
  <2>3. active \in Profiles
    BY DEF TypeOK
  <2> QED BY <2>1, <2>2, <2>3 DEF Asked, Truth, DegradedIsCaughtUp, Coming
<1>2. CASE Crash(p)
  <2>1. PICK state \in {None, Dead} : Ended(p, state)
    BY <1>2 DEF Crash
  <2>2. /\ UNCHANGED <<active, servis>> /\ doing' = IF doing.profile = p THEN Idle ELSE doing
        /\ news' = IF news = "none" /\ (Owes(p) \/ servis # seen) THEN "lost" ELSE news
    BY <1>2 DEF Crash
  <2>3. /\ backend' = [backend EXCEPT ![p] = state]
        /\ confront' = [confront EXCEPT ![p] = None] /\ late' = late \ {p}
        /\ list' = IF list = p THEN None ELSE list
        /\ greeting' = IF greeting = "waiting" /\ p = Default THEN "over" ELSE greeting
        /\ seen' = IF list' # list \/ greeting' # greeting THEN Degraded ELSE seen
    BY <2>1 DEF Ended
  <2>4. Asked'
    BY <2>2, <2>3 DEF Asked
  <2>5. CASE Coming'
    BY <2>4, <2>5, OnTheWay
  <2>6. CASE ~Coming'
    <3>1. news = "none" /\ ~Owes(p) /\ servis = seen
      BY <2>2, <2>6 DEF Coming
    <3>2. ~Waited(p)
      BY <3>1 DEF Owes
    <3>3. seen' = seen
      BY <2>3, <3>2 DEF Waited
    <3>4. ~Coming
      BY <2>2, <2>3, <2>6, <3>1, <3>2 DEF Coming, Waited
    <3> QED BY <2>2, <2>4, <3>1, <3>3, <3>4 DEF Truth, DegradedIsCaughtUp
  <2> QED BY <2>5, <2>6
<1> QED BY <1>1, <1>2

LEMMA CallsTell ==
  ASSUME HandshakeInductive, NEW p \in Profiles, NEW k \in Keys,
         \/ Calls \/ Relayed \/ Switch(p) \/ Restart(p) \/ Done
         \/ (k \in OtherKeys /\ OtherReads(k)) \/ OtherWrites
  PROVE  Asked' /\ Truth' /\ DegradedIsCaughtUp'
<1> USE DEF HandshakeInductive
<1>1. CASE Calls \/ (k \in OtherKeys /\ OtherReads(k)) \/ OtherWrites
  <2>1. UNCHANGED <<active, backend, servis, confront, list, doing, late, seen, news>>
    BY <1>1 DEF Calls, OtherReads, OtherWrites, memory, pending
  <2> QED BY <2>1 DEF Asked, Truth, DegradedIsCaughtUp, Coming
<1>2. CASE Relayed
  <2>1. UNCHANGED <<active, backend, list, doing, late, seen, news>>
    BY <1>2 DEF Relayed
  <2>2. \/ UNCHANGED <<servis, confront>>
        \/ /\ call \in Profiles /\ confront[call] = None
           /\ confront' = [confront EXCEPT ![call] = servis]
    BY <1>2 DEF Relayed, memory, TypeOK, Debts
  <2>3. \A q \in Profiles : confront[q] = seen /\ seen \in Answers => confront'[q] = seen
    BY <2>2, AnswersAreAnswers DEF TypeOK
  <2>4. servis = seen /\ seen \in Answers =>
          servis' = seen \/ \E q \in Profiles : confront'[q] = seen
    BY <2>2 DEF TypeOK
  <2> QED BY <2>1, <2>3, <2>4 DEF Asked, Truth, DegradedIsCaughtUp, Coming
<1>3. CASE Switch(p) \/ Restart(p)
  <2>1. doing'.at # "none" /\ UNCHANGED <<active, news>>
    BY <1>3 DEF Switch, Restart, At
  <2>2. list' \in {None, list}
    BY <1>3 DEF Switch, Restart, Ended
  <2>3. Coming'
    BY <2>1 DEF Coming, Idle
  <2> QED BY <2>1, <2>2, <2>3, OnTheWay DEF Asked
<1>4. CASE Done
  <2>1. news' = "told"
    BY <1>4 DEF Done
  <2> QED BY <2>1, OnTheWay DEF Asked, Coming
<1> QED BY <1>1, <1>2, <1>3, <1>4

LEMMA HandshakeInductiveHolds == Spec => []HandshakeInductive
<1>1. Init => HandshakeInductive
  <2> SUFFICES ASSUME Init PROVE HandshakeInductive
    OBVIOUS
  <2>1. seen = None /\ list = None
    BY DEF Init
  <2>2. seen \notin Answers /\ seen # Degraded
    BY <2>1, AnswersAreAnswers, States
  <2> QED BY <2>1, <2>2, HandshakeStarts
          DEF HandshakeInductive, Asked, Truth, DegradedIsCaughtUp
<1>2. HandshakeInductive /\ [Next]_vars => HandshakeInductive'
  <2> SUFFICES ASSUME HandshakeInductive, [Next]_vars PROVE HandshakeInductive'
    OBVIOUS
  <2>1. Default \in Profiles /\ KeyOf[Default] \in Keys /\ OtherKeys \subseteq Keys
    BY HandshakeAssumption
  <2>2. TypeOK' /\ Debts'
    <3>1. TypeOK /\ Debts
      BY DEF HandshakeInductive
    <3>2. CASE UNCHANGED vars
      BY <3>1, <3>2 DEF vars, store, memory, pending, TypeOK, Debts, Ready
    <3>3. CASE Next
      <4>1. restarts' \in 0..MaxRestarts
        <5>1. \/ restarts' = restarts
              \/ restarts < MaxRestarts /\ restarts' = restarts + 1
          BY <3>3 DEF Next
        <5>2. restarts \in 0..MaxRestarts /\ MaxRestarts \in Nat
          BY <3>1, HandshakeAssumption DEF TypeOK
        <5> QED BY <5>1, <5>2
      <4> QED BY <2>1, <3>1, <3>3, <4>1, BackendsTyped, AnswersTyped, CallsTyped DEF Next, Moves
    <3> QED BY <3>2, <3>3
  <2>3. Asked' /\ Truth' /\ DegradedIsCaughtUp'
    <3>1. CASE UNCHANGED vars
      BY <3>1 DEF HandshakeInductive, vars, store, memory, pending, Asked, Truth,
                  DegradedIsCaughtUp, Coming
    <3> QED BY <2>1, <3>1, BackendsTell, AnswersTell, CallsTell DEF Next, Moves
  <2> QED BY <2>2, <2>3 DEF HandshakeInductive
<1> QED BY <1>1, <1>2, PTL DEF Spec

\* A client never goes on with a list the backend does not have, unless that list is about
\* to be confronted or the client to be told, whatever profiles share a command, switches,
\* deaths or other proxies do to the memory.
THEOREM StaleIsConfrontedHolds == Spec => []StaleIsConfronted
<1>1. HandshakeInductive => StaleIsConfronted
  BY DEF HandshakeInductive, Truth, StaleIsConfronted
<1> QED BY <1>1, HandshakeInductiveHolds, PTL

\* A degraded answer is never the last word, but for a start that failed.
THEOREM DegradedIsCaughtUpHolds == Spec => []DegradedIsCaughtUp
<1>1. HandshakeInductive => DegradedIsCaughtUp
  BY DEF HandshakeInductive
<1> QED BY <1>1, HandshakeInductiveHolds, PTL

\* What is written has one entry for a key, and no more entries than the ceiling.
Keeps(doc) == \A i, j \in DOMAIN doc : doc[i].key = doc[j].key => i = j

\* A document without its entry i.
LEMMA WithoutOne ==
  ASSUME NEW doc \in Seq(EntryType), NEW i \in 1..Len(doc), NEW rest,
         rest = SubSeq(doc, 1, i - 1) \o SubSeq(doc, i + 1, Len(doc))
  PROVE  /\ rest \in Seq(EntryType) /\ Len(rest) = Len(doc) - 1
         /\ \A j \in 1..Len(rest) : rest[j] = IF j < i THEN doc[j] ELSE doc[j + 1]
<1> DEFINE first == SubSeq(doc, 1, i - 1)
           last  == SubSeq(doc, i + 1, Len(doc))
<1>0. Len(doc) \in Nat /\ i \in Nat /\ 1 <= i /\ i <= Len(doc)
  OBVIOUS
<1>1. /\ first \in Seq(EntryType) /\ Len(first) = i - 1
      /\ \A j \in 1..(i - 1) : first[j] = doc[j]
  OBVIOUS
<1>2. /\ last \in Seq(EntryType) /\ Len(last) = Len(doc) - i
      /\ \A j \in 1..(Len(doc) - i) : last[j] = doc[j + i]
  OBVIOUS
<1> HIDE DEF first, last
<1>3. rest = first \o last
  BY DEF first, last
<1>4. /\ rest \in Seq(EntryType) /\ Len(rest) = Len(first) + Len(last)
      /\ \A j \in 1..(Len(first) + Len(last)) :
           rest[j] = IF j <= Len(first) THEN first[j] ELSE last[j - Len(first)]
  <2>1. first \in Seq(EntryType) /\ last \in Seq(EntryType)
    BY <1>1, <1>2
  <2> QED BY <1>3, <2>1, ConcatProperties, Zenon
<1>5. Len(rest) = Len(doc) - 1
  <2>1. Len(rest) = Len(first) + Len(last)
    BY <1>4
  <2>2. Len(first) = i - 1 /\ Len(last) = Len(doc) - i
    BY <1>1, <1>2
  <2>3. (i - 1) + (Len(doc) - i) = Len(doc) - 1
    BY <1>0
  <2> QED BY <2>1, <2>2, <2>3, Zenon
<1>6. ASSUME NEW j \in 1..(Len(doc) - 1), j < i PROVE rest[j] = doc[j]
  <2>1. j \in 1..(Len(first) + Len(last)) /\ j <= Len(first) /\ j \in 1..(i - 1)
    BY <1>0, <1>1, <1>2, <1>6
  <2>2. rest[j] = first[j]
    BY <1>4, <2>1
  <2> QED BY <1>1, <2>1, <2>2
<1>7. ASSUME NEW j \in 1..(Len(doc) - 1), ~(j < i) PROVE rest[j] = doc[j + 1]
  <2>1. /\ j \in 1..(Len(first) + Len(last)) /\ ~(j <= Len(first))
        /\ j - Len(first) \in 1..(Len(doc) - i) /\ (j - Len(first)) + i = j + 1
    BY <1>0, <1>1, <1>2, <1>7
  <2>2. rest[j] = last[j - Len(first)]
    BY <1>4, <2>1
  <2>3. last[j - Len(first)] = doc[(j - Len(first)) + i]
    BY <1>2, <2>1
  <2> QED BY <2>1, <2>2, <2>3
<1> QED BY <1>4, <1>5, <1>6, <1>7

LEMMA WrittenIsKept ==
  ASSUME NEW doc \in Seq(EntryType), NEW k \in Keys, NEW init \in BOOLEAN,
         NEW tools \in Answers \cup {None}, Keeps(doc)
  PROVE  Keeps(Written(doc, k, init, tools)) /\ Len(Written(doc, k, init, tools)) <= MaxEntries
<1> DEFINE rest == Others(doc, k)
           new  == Entry(doc, k, init, tools)
           all  == Append(rest, new)
           cut  == Len(all) - MaxEntries
<1>1. rest \in Seq(EntryType) /\ \A j \in DOMAIN rest : rest[j].key # k
  <2>1. CASE Entries(doc, k) = {}
    BY <2>1 DEF Others, Entries
  <2>2. CASE Entries(doc, k) # {}
    <3> DEFINE i == CHOOSE j \in DOMAIN doc : doc[j].key = k
    <3>1. i \in 1..Len(doc) /\ doc[i].key = k
      BY <2>2 DEF Entries
    <3>2. rest = SubSeq(doc, 1, i - 1) \o SubSeq(doc, i + 1, Len(doc))
      BY <2>2 DEF Others
    <3> HIDE DEF i, rest
    <3>3. /\ rest \in Seq(EntryType) /\ Len(rest) = Len(doc) - 1
          /\ \A j \in 1..Len(rest) : rest[j] = IF j < i THEN doc[j] ELSE doc[j + 1]
      BY <3>1, <3>2, WithoutOne
    <3>4. ASSUME NEW j \in 1..Len(rest) PROVE rest[j].key # k
      <4>1. j \in DOMAIN doc /\ j + 1 \in DOMAIN doc
        BY <3>3
      <4> QED BY <3>1, <3>3, <4>1 DEF Keeps
    <3> QED BY <3>3, <3>4
  <2> QED BY <2>1, <2>2
<1>2. Keeps(rest)
  <2>1. CASE Entries(doc, k) = {}
    BY <2>1 DEF Others
  <2>2. CASE Entries(doc, k) # {}
    <3> DEFINE i == CHOOSE j \in DOMAIN doc : doc[j].key = k
    <3>1. i \in 1..Len(doc)
      BY <2>2 DEF Entries
    <3>2. rest = SubSeq(doc, 1, i - 1) \o SubSeq(doc, i + 1, Len(doc))
      BY <2>2 DEF Others
    <3> HIDE DEF i, rest
    <3>3. /\ rest \in Seq(EntryType) /\ Len(rest) = Len(doc) - 1
          /\ \A j \in 1..Len(rest) : rest[j] = IF j < i THEN doc[j] ELSE doc[j + 1]
      BY <3>1, <3>2, WithoutOne
    <3> DEFINE past(j) == IF j < i THEN j ELSE j + 1
    <3>4. DOMAIN rest = 1..Len(rest) /\ \A j \in 1..Len(rest) : past(j) \in DOMAIN doc
      BY <3>1, <3>3
    <3>5. \A j \in 1..Len(rest) : rest[j] = doc[past(j)]
      BY <3>3
    <3>6. \A j, l \in 1..Len(rest) : past(j) = past(l) => j = l
      BY <3>1
    <3> HIDE DEF past
    <3> QED BY <3>4, <3>5, <3>6 DEF Keeps
  <2> QED BY <2>1, <2>2
<1>3. new.key = k
  BY DEF Entry
<1>4. new \in EntryType
  BY EntryIsEntry
<1> HIDE DEF rest, new
<1>5. /\ all \in Seq(EntryType) /\ Len(all) = Len(rest) + 1 /\ Len(rest) \in Nat
      /\ all[Len(all)] = new /\ \A j \in 1..Len(rest) : all[j] = rest[j]
  BY <1>1, <1>4
<1>6. Keeps(all)
  <2> SUFFICES ASSUME NEW i \in 1..Len(all), NEW j \in 1..Len(all), all[i].key = all[j].key
               PROVE  i = j
    BY <1>5 DEF Keeps
  <2>1. CASE i = Len(all) \/ j = Len(all)
    BY <1>1, <1>3, <1>5, <2>1
  <2>2. CASE i # Len(all) /\ j # Len(all)
    BY <1>2, <1>1, <1>5, <2>2 DEF Keeps
  <2> QED BY <2>1, <2>2
<1>7. Written(doc, k, init, tools) =
        IF Len(all) > MaxEntries THEN SubSeq(all, Len(all) - MaxEntries + 1, Len(all)) ELSE all
  BY DEF Written, rest, new
<1>8. CASE ~(Len(all) > MaxEntries)
  BY <1>5, <1>6, <1>7, <1>8, HandshakeAssumption
<1>9. CASE Len(all) > MaxEntries
  <2> DEFINE last == SubSeq(all, Len(all) - MaxEntries + 1, Len(all))
  <2>1. cut \in Nat /\ cut = Len(all) - MaxEntries /\ MaxEntries \in Nat /\ Len(all) \in Nat
    BY <1>5, <1>9, HandshakeAssumption
  <2>2. Len(last) = MaxEntries /\ DOMAIN last = 1..MaxEntries
        /\ \A j \in 1..MaxEntries : last[j] = all[j + cut]
    BY <1>5, <2>1
  <2> HIDE DEF last, all, cut
  <2>3. \A j \in 1..MaxEntries : j + cut \in DOMAIN all
    BY <1>5, <2>1
  <2>4. Keeps(last)
    <3> SUFFICES ASSUME NEW i \in 1..MaxEntries, NEW j \in 1..MaxEntries,
                        all[i + cut].key = all[j + cut].key
                 PROVE  i = j
      BY <2>2 DEF Keeps
    <3>1. i + cut = j + cut
      BY <1>6, <2>3 DEF Keeps
    <3> QED BY <2>1, <3>1
  <2>5. Written(doc, k, init, tools) = last
    BY <1>7, <1>9 DEF last
  <2> QED BY <2>1, <2>2, <2>4, <2>5
<1> QED BY <1>8, <1>9

FileIsKept ==
  /\ Keeps(file) /\ Len(file) <= MaxEntries
  /\ other \notin {None, Over} => Keeps(other[2])

\* Two proxies that read and write the file with no lock lose entries, but never leave two
\* answers under one key, nor more entries than the ceiling.
THEOREM OneEntryHolds == Spec => [](Keeps(file) /\ Len(file) <= MaxEntries)
<1>1. Init => FileIsKept
  <2> SUFFICES ASSUME Init PROVE FileIsKept
    OBVIOUS
  <2>1. file \in Seq(EntryType) /\ (Len(file) = 0 \/ Len(file) = 1) /\ other = None
    BY HandshakeStarts DEF Init, TypeOK
  <2>2. Keeps(file)
    <3>1. DOMAIN file = 1..Len(file)
      BY <2>1
    <3> QED BY <2>1, <3>1 DEF Keeps
  <2>3. MaxEntries \in Nat /\ MaxEntries >= 1
    BY HandshakeAssumption
  <2>4. Len(file) <= MaxEntries
    BY <2>1, <2>3
  <2> QED BY <2>1, <2>2, <2>4 DEF FileIsKept
<1>2. TypeOK /\ Debts /\ FileIsKept /\ [Next]_vars => FileIsKept'
  <2> SUFFICES ASSUME TypeOK, Debts, FileIsKept, [Next]_vars PROVE FileIsKept'
    OBVIOUS
  <2>1. CASE UNCHANGED store
    BY <2>1 DEF FileIsKept, store, Keeps
  <2>2. ASSUME NEW init \in BOOLEAN, NEW tools \in Answers \cup {None}, Memorise(init, tools),
               UNCHANGED other
        PROVE  FileIsKept'
    <3>1. file \in Seq(EntryType) /\ KeyOf[active] \in Keys
      BY HandshakeAssumption DEF TypeOK
    <3> QED BY <2>2, <3>1, WrittenIsKept DEF FileIsKept, Memorise
  <2>3. ASSUME NEW k \in OtherKeys, OtherReads(k) PROVE FileIsKept'
    <3>1. file' = file /\ other'[2] = file
      BY <2>3 DEF OtherReads
    <3> QED BY <3>1 DEF FileIsKept, Keeps
  <2>4. CASE OtherWrites
    <3>1. PICK k \in OtherKeys, doc \in Seq(EntryType) : other = <<k, doc>>
      BY <2>4 DEF OtherWrites, TypeOK
    <3>2. k \in Keys /\ <<k, version[k]>> \in Answers \cup {None}
      BY HandshakeAssumption, InstalledAnswers
    <3>3. Keeps(doc) /\ file' = Written(doc, k, FALSE, <<k, version[k]>>) /\ other' = Over
      BY <2>4, <3>1 DEF OtherWrites, FileIsKept
    <3> QED BY <3>1, <3>2, <3>3, WrittenIsKept DEF FileIsKept
  <2>5. Greeted \/ Listed \/ (\E p \in Profiles : Confronted(p)) => FileIsKept'
    <3>1. \A p \in Profiles : Ready(p) => backend[p] \in Answers
      BY DEF Ready
    <3>2. \A p \in Profiles : Confronted(p) => Ready(p)
      BY DEF Confronted, Debts
    <3>3. list # None => list \in Profiles
      BY DEF TypeOK
    <3> QED BY <2>2, <3>1, <3>2, <3>3 DEF Greeted, Listed, Confronted
  <2>6. CASE UNCHANGED vars
    BY <2>1, <2>6 DEF vars
  <2>7. CASE \/ GreetMemory \/ GreetLive \/ GreetDeadline \/ ListMemory \/ ListLive
             \/ Deadline \/ Calls \/ Relayed \/ Done
    BY <2>1, <2>7 DEF GreetMemory, GreetLive, GreetDeadline, ListMemory, ListLive, Deadline,
                      Calls, Relayed, Done
  <2>8. ASSUME NEW p \in Profiles,
               Create(p) \/ Started(p) \/ Crash(p) \/ CaughtUp(p) \/ Switch(p) \/ Restart(p)
        PROVE  FileIsKept'
    BY <2>1, <2>8 DEF Create, Started, Crash, CaughtUp, Switch, Restart
  <2>9. ASSUME NEW k \in Keys, Update(k) PROVE FileIsKept'
    BY <2>1, <2>9 DEF Update
  <2> QED BY <2>3, <2>4, <2>5, <2>6, <2>7, <2>8, <2>9 DEF Next, Moves
<1> QED BY <1>1, <1>2, HandshakeInductiveHolds, PTL DEF Spec, HandshakeInductive, FileIsKept

---------------------------------------------------------------------------
(* The journal (Journal.tla).                                              *)

\* A rotation in progress has a pair to apply.
Planned ==
  \A w \in Writers : place[w] \in {"unlink", "rename"} => index[w] \in 1..(MaxFiles - 1)

LEMMA NatFacts ==
  /\ MaxBytes \in Nat /\ MaxBytes > 0 /\ MaxFiles \in Nat /\ MaxFiles > 0
  /\ MaxLines \in Nat /\ MaxFailures \in Nat /\ 0 \in Generations
  /\ \A k \in 1..(MaxFiles - 1) : k \in Generations /\ k - 1 \in Generations
BY JournalAssumption DEF Generations

LEMMA JournalStarts == JournalInit => JournalTypeOK /\ Planned
<1> SUFFICES ASSUME JournalInit PROVE JournalTypeOK /\ Planned
  OBVIOUS
<1>1. /\ gen \in [Generations -> SUBSET (1..MaxLines)]
      /\ place \in [Writers -> Places] /\ index \in [Writers -> 0..MaxFiles]
      /\ saying \in [Writers -> {"line", "echo", "end"}]
  BY NatFacts DEF JournalInit, Places
<1>2. /\ pertes \in [Writers -> Nat] /\ total \in [Writers -> Nat]
      /\ admitted \in [Writers -> Nat]
  BY DEF JournalInit
<1>3. /\ criEmis \in [Writers -> BOOLEAN] /\ enCri \in [Writers -> BOOLEAN]
      /\ heard \in [Writers -> BOOLEAN] /\ muted \in [Writers -> BOOLEAN]
  BY DEF JournalInit
<1>4. slipped \in Nat /\ written \in 0..MaxLines /\ failures \in 0..MaxFailures
  BY NatFacts DEF JournalInit
<1>5. disturbed \in BOOLEAN
  BY DEF JournalInit
<1>6. Planned
  BY DEF JournalInit, Planned
<1> QED BY <1>1, <1>2, <1>3, <1>4, <1>5, <1>6 DEF JournalTypeOK

\* The steps of a rotation.
LEMMA RotationTyped ==
  ASSUME JournalTypeOK, Planned, NEW w \in Writers,
         \/ Say(w) \/ Weigh(w) \/ UnlinkTo(w) \/ Rename(w) \/ Refused(w) \/ Recheck(w)
         \/ Truncate(w)
  PROVE  JournalTypeOK' /\ Planned'
<1>1. ASSUME NEW k \in 0..(MaxFiles - 1), Pair(w, k)
      PROVE  /\ place' \in [Writers -> Places] /\ index' \in [Writers -> 0..MaxFiles]
             /\ Planned'
  <2>1. /\ index' = [index EXCEPT ![w] = k]
        /\ place' = [place EXCEPT ![w] = IF k = 0 THEN "recheck" ELSE "unlink"]
    BY <1>1 DEF Pair, Goto
  <2>2. k \in 0..MaxFiles /\ (k # 0 => k \in 1..(MaxFiles - 1))
    BY NatFacts
  <2>3. place' \in [Writers -> Places] /\ index' \in [Writers -> 0..MaxFiles]
    BY <2>1, <2>2 DEF JournalTypeOK, Places
  <2> QED BY <2>1, <2>2, <2>3 DEF JournalTypeOK, Planned
<1>2. ASSUME NEW there \in Places, Goto(w, there), index' = index,
             there \in {"unlink", "rename"} => place[w] = "unlink"
      PROVE  place' \in [Writers -> Places] /\ Planned'
  BY <1>2 DEF Goto, JournalTypeOK, Planned
<1>3. CASE Say(w)
  <2>1. place' \in [Writers -> Places] /\ Planned'
    BY <1>2, <1>3 DEF Say, Places
  <2>2. saying' \in [Writers -> {"line", "echo", "end"}]
    BY <1>3 DEF Say, JournalTypeOK
  <2> QED BY <1>3, <2>1, <2>2 DEF Say, JournalTypeOK, told
<1>4. CASE Weigh(w)
  <2>1. /\ place' \in [Writers -> Places] /\ index' \in [Writers -> 0..MaxFiles]
        /\ disturbed' \in BOOLEAN /\ Planned'
    <3>1. CASE Pair(w, MaxFiles - 1) /\ disturbed' = (disturbed \/ Rotating # {})
      BY <1>1, <3>1, NatFacts
    <3>2. CASE Goto(w, "append") /\ UNCHANGED <<index, disturbed>>
      BY <1>2, <3>2 DEF Places, JournalTypeOK
    <3> QED BY <1>4, <3>1, <3>2 DEF Weigh
  <2> QED BY <1>4, <2>1 DEF Weigh, JournalTypeOK, told
<1>5. CASE UnlinkTo(w)
  <2>1. place' \in [Writers -> Places] /\ Planned'
    BY <1>2, <1>5 DEF UnlinkTo, Places
  <2>2. gen' \in [Generations -> SUBSET (1..MaxLines)]
    BY <1>5 DEF UnlinkTo, JournalTypeOK
  <2> QED BY <1>5, <2>1, <2>2 DEF UnlinkTo, JournalTypeOK, told
<1>6. CASE Rename(w)
  <2>1. index[w] \in 1..(MaxFiles - 1)
    BY <1>6 DEF Rename, Planned
  <2>2. index[w] - 1 \in 0..(MaxFiles - 1) /\ index[w] - 1 \in Generations
    BY <2>1, NatFacts
  <2>3. /\ place' \in [Writers -> Places] /\ index' \in [Writers -> 0..MaxFiles]
        /\ Planned'
    BY <1>1, <1>6, <2>2 DEF Rename
  <2>4. gen' \in [Generations -> SUBSET (1..MaxLines)]
    BY <1>6, <2>2 DEF Rename, JournalTypeOK, From, To
  <2> QED BY <1>6, <2>3, <2>4 DEF Rename, JournalTypeOK, told
<1>7. CASE Refused(w)
  <2>1. failures' \in 0..MaxFailures /\ disturbed' \in BOOLEAN
    BY <1>7, NatFacts DEF Refused, MayFail, JournalTypeOK
  <2>2. /\ place' \in [Writers -> Places] /\ index' \in [Writers -> 0..MaxFiles]
        /\ slipped' \in Nat /\ Planned'
    <3>1. CASE place[w] = "unlink" /\ Goto(w, "rename") /\ UNCHANGED <<index, slipped>>
      BY <1>2, <3>1 DEF Places, JournalTypeOK
    <3>2. CASE place[w] = "rename" /\ Pair(w, index[w] - 1) /\ UNCHANGED slipped
      <4>1. index[w] - 1 \in 0..(MaxFiles - 1)
        BY <3>2, NatFacts DEF Planned
      <4> QED BY <1>1, <3>2, <4>1 DEF JournalTypeOK
    <3>3. CASE Goto(w, "append") /\ slipped' = slipped + 1 /\ UNCHANGED index
      BY <1>2, <3>3 DEF Places, JournalTypeOK
    <3> QED BY <1>7, <3>1, <3>2, <3>3 DEF Refused
  <2> QED BY <1>7, <2>1, <2>2 DEF Refused, JournalTypeOK, told
<1>8. CASE Recheck(w)
  <2>1. place' \in [Writers -> Places] /\ Planned'
    BY <1>2, <1>8 DEF Recheck, Places
  <2> QED BY <1>8, <2>1 DEF Recheck, JournalTypeOK, told
<1>9. CASE Truncate(w)
  <2>1. place' \in [Writers -> Places] /\ Planned'
    BY <1>2, <1>9 DEF Truncate, Places
  <2>2. gen' \in [Generations -> SUBSET (1..MaxLines)]
    BY <1>9 DEF Truncate, JournalTypeOK
  <2> QED BY <1>9, <2>1, <2>2 DEF Truncate, JournalTypeOK, told
<1> QED BY <1>3, <1>4, <1>5, <1>6, <1>7, <1>8, <1>9

\* The appending, or its failure.
LEMMA AppendingTyped ==
  ASSUME JournalTypeOK, Planned, NEW w \in Writers, AppendLine(w) \/ AppendFails(w)
  PROVE  JournalTypeOK' /\ Planned'
<1>1. \/ Unwind(w) \/ Then(w, "end") \/ Then(w, "echo")
  BY DEF AppendLine, AppendFails
<1>2. /\ place' \in [Writers -> Places] /\ index' = index
      /\ saying' \in [Writers -> {"line", "echo", "end"}]
      /\ \A v \in Writers : place'[v] \in {"unlink", "rename"} => place'[v] = place[v]
  BY <1>1 DEF Unwind, Then, Goto, JournalTypeOK, Places, AppendLine, AppendFails
<1>3. Planned'
  BY <1>2 DEF Planned
<1>4. /\ enCri' \in [Writers -> BOOLEAN] /\ criEmis' \in [Writers -> BOOLEAN]
      /\ heard' \in [Writers -> BOOLEAN] /\ muted' \in [Writers -> BOOLEAN]
  BY DEF AppendLine, AppendFails, Unwind, Recovered, JournalTypeOK
<1>5. /\ pertes' \in [Writers -> Nat] /\ total' \in [Writers -> Nat]
      /\ admitted' \in [Writers -> Nat]
  BY DEF AppendLine, AppendFails, JournalTypeOK
<1>6. /\ written' \in 0..MaxLines /\ failures' \in 0..MaxFailures
      /\ gen' \in [Generations -> SUBSET (1..MaxLines)]
  BY NatFacts DEF AppendLine, AppendFails, MayFail, JournalTypeOK
<1>7. UNCHANGED <<disturbed, slipped>>
  BY DEF AppendLine, AppendFails
<1> QED BY <1>2, <1>3, <1>4, <1>5, <1>6, <1>7 DEF JournalTypeOK

LEMMA JournalTyped == JournalSpec => [](JournalTypeOK /\ Planned)
<1>1. JournalTypeOK /\ Planned /\ [JournalNext]_journalVars => (JournalTypeOK /\ Planned)'
  <2>1. JournalTypeOK /\ Planned /\ UNCHANGED journalVars => (JournalTypeOK /\ Planned)'
    BY DEF journalVars, told, JournalTypeOK, Planned
  <2> QED BY <2>1, RotationTyped, AppendingTyped DEF JournalNext
<1> QED BY <1>1, JournalStarts, PTL DEF JournalSpec

\* Processes about to append.
Appending == {w \in Writers : place[w] = "append"}

\* The file has room, under the ceiling, for the line of each of them.
Room == Size(0) + Cardinality(Appending) <= MaxBytes + Cardinality(Writers) + slipped

Counted == JournalTypeOK /\ Planned /\ Bounded /\ Room

LEMMA LinesAreFinite ==
  ASSUME NEW S \in SUBSET (1..MaxLines)
  PROVE  IsFiniteSet(S) /\ Cardinality(S) \in Nat
<1>1. IsFiniteSet(1..MaxLines)
  BY NatFacts, FS_Interval
<1>2. IsFiniteSet(S)
  BY <1>1, FS_Subset
<1> QED BY <1>2, FS_CardinalityType

LEMMA WritersAreFinite ==
  ASSUME NEW S \in SUBSET Writers
  PROVE  IsFiniteSet(S) /\ Cardinality(S) \in Nat /\ Cardinality(S) <= Cardinality(Writers)
<1>1. IsFiniteSet(S) /\ Cardinality(S) <= Cardinality(Writers)
  BY JournalAssumption, FS_Subset
<1> QED BY <1>1, FS_CardinalityType

\* A process that comes to append is one more; one that has appended, or failed to, one less.
LEMMA ComesAndGoes ==
  ASSUME JournalTypeOK, JournalTypeOK', NEW w \in Writers,
         \A v \in Writers \ {w} : place'[v] = place[v]
  PROVE  /\ Cardinality(Appending') <= Cardinality(Appending) + 1
         /\ place'[w] # "append" => Cardinality(Appending') <= Cardinality(Appending)
         /\ place[w] = "append" /\ place'[w] # "append" =>
              Cardinality(Appending') = Cardinality(Appending) - 1
<1>1. IsFiniteSet(Appending) /\ Cardinality(Appending) \in Nat
  BY WritersAreFinite DEF Appending
<1>2. CASE place'[w] = "append"
  <2>1. Appending' = Appending \cup {w}
    BY <1>2 DEF Appending
  <2> QED BY <1>1, <1>2, <2>1, FS_AddElement
<1>3. CASE place'[w] # "append"
  <2>1. Appending' = Appending \ {w} /\ (w \in Appending <=> place[w] = "append")
    BY <1>3 DEF Appending
  <2>2. Cardinality(Appending') =
          IF w \in Appending THEN Cardinality(Appending) - 1 ELSE Cardinality(Appending)
    BY <1>1, <2>1, FS_RemoveElement
  <2> QED BY <1>1, <1>3, <2>1, <2>2
<1> QED BY <1>2, <1>3

\* Only what appends adds to a generation, and to the file only.
LEMMA RotationCounts ==
  ASSUME Counted, JournalTypeOK', NEW w \in Writers,
         \/ Say(w) \/ Weigh(w) \/ UnlinkTo(w) \/ Rename(w) \/ Refused(w) \/ Recheck(w)
         \/ Truncate(w)
  PROVE  Bounded' /\ Room'
<1>1. JournalTypeOK /\ Planned /\ Bounded /\ Room /\ slipped \in Nat /\ 0 \in Generations
  BY NatFacts DEF Counted, JournalTypeOK
<1> DEFINE Ceiling == MaxBytes + Cardinality(Writers) + slipped
<1>2. /\ Cardinality(Writers) \in Nat /\ Ceiling \in Nat
      /\ Cardinality(Appending) \in Nat /\ Cardinality(Appending') \in Nat
      /\ Cardinality(Appending') <= Cardinality(Writers)
      /\ \A g \in Generations : Size(g) \in Nat /\ Size(g)' \in Nat
  <2>1. /\ Cardinality(Writers) \in Nat /\ Cardinality(Appending) \in Nat
        /\ Cardinality(Appending') \in Nat /\ Cardinality(Appending') <= Cardinality(Writers)
    BY WritersAreFinite DEF Appending
  <2>2. \A g \in Generations : Size(g) \in Nat /\ Size(g)' \in Nat
    BY <1>1, LinesAreFinite DEF JournalTypeOK, Size
  <2> QED BY <1>1, <2>1, <2>2, NatFacts
<1>3. \A v \in Writers \ {w} : place'[v] = place[v]
  BY <1>1 DEF Say, Weigh, UnlinkTo, Rename, Refused, Recheck, Truncate, Pair, Goto,
              JournalTypeOK
<1>4. CASE UNCHANGED <<gen, slipped>> /\ place'[w] # "append"
  BY <1>1, <1>2, <1>3, <1>4, ComesAndGoes DEF Bounded, Room, Size
<1>5. CASE UNCHANGED <<gen, slipped>> /\ Size(0) <= MaxBytes
  BY <1>1, <1>2, <1>5, NatFacts DEF Bounded, Room, Size
<1>6. CASE UNCHANGED gen /\ slipped' = slipped + 1
  BY <1>1, <1>2, <1>3, <1>6, NatFacts, ComesAndGoes DEF Bounded, Room, Size
<1>7. CASE Say(w) \/ Recheck(w) \/ Weigh(w)
  <2>1. UNCHANGED <<gen, slipped>>
    BY <1>7 DEF Say, Recheck, Weigh
  <2>2. place'[w] # "append" \/ Size(0) <= MaxBytes
    BY <1>1, <1>2, <1>7, NatFacts
       DEF Say, Recheck, Weigh, Pair, Goto, JournalTypeOK
  <2> QED BY <1>4, <1>5, <2>1, <2>2
<1>8. CASE Refused(w)
  <2>1. UNCHANGED gen
    BY <1>8 DEF Refused
  <2>2. (slipped' = slipped /\ place'[w] # "append") \/ slipped' = slipped + 1
    BY <1>1, <1>8 DEF Refused, Pair, Goto, JournalTypeOK
  <2> QED BY <1>4, <1>6, <2>1, <2>2
<1>9. CASE UnlinkTo(w) \/ Rename(w) \/ Truncate(w)
  <2>1. slipped' = slipped
    BY <1>9 DEF UnlinkTo, Rename, Truncate
  <2>2. \A g \in Generations : Size(g)' <= Ceiling
    <3>1. \A g \in Generations : gen'[g] = {} \/ \E h \in Generations : gen'[g] = gen[h]
      BY <1>1, <1>9, NatFacts
         DEF UnlinkTo, Rename, Truncate, JournalTypeOK, Planned, From, To
    <3>2. Cardinality({}) = 0
      BY FS_EmptySet
    <3> SUFFICES ASSUME NEW g \in Generations PROVE Size(g)' <= Ceiling
      OBVIOUS
    <3>3. CASE gen'[g] = {}
      BY <1>2, <3>2, <3>3 DEF Size
    <3>4. ASSUME NEW h \in Generations, gen'[g] = gen[h] PROVE Size(g)' <= Ceiling
      BY <1>1, <3>4 DEF Bounded, Size
    <3> QED BY <3>1, <3>3, <3>4
  <2>3. Size(0)' = 0 \/ (gen'[0] = gen[0] /\ place'[w] # "append")
    <3>1. gen'[0] = {} \/ (gen'[0] = gen[0] /\ place'[w] # "append")
      BY <1>1, <1>9, NatFacts
         DEF UnlinkTo, Rename, Truncate, JournalTypeOK, Planned, From, To, Pair, Goto
    <3> QED BY <3>1, FS_EmptySet DEF Size
  <2>4. Room'
    BY <1>1, <1>2, <1>3, <2>1, <2>3, NatFacts, ComesAndGoes DEF Room, Size
  <2> QED BY <2>1, <2>2, <2>4 DEF Bounded
<1> QED BY <1>7, <1>8, <1>9

LEMMA AppendingCounts ==
  ASSUME Counted, JournalTypeOK', NEW w \in Writers, AppendLine(w) \/ AppendFails(w)
  PROVE  Bounded' /\ Room'
<1>1. JournalTypeOK /\ Bounded /\ Room /\ slipped \in Nat /\ 0 \in Generations
  BY NatFacts DEF Counted, JournalTypeOK
<1>2. /\ Cardinality(Writers) \in Nat /\ Cardinality(Appending) \in Nat
      /\ \A g \in Generations : IsFiniteSet(gen[g]) /\ Size(g) \in Nat
  <2>1. Cardinality(Writers) \in Nat /\ Cardinality(Appending) \in Nat
    BY WritersAreFinite DEF Appending
  <2> QED BY <1>1, <2>1, LinesAreFinite DEF JournalTypeOK, Size
<1>3. /\ place[w] = "append" /\ place'[w] # "append" /\ slipped' = slipped
      /\ \A v \in Writers \ {w} : place'[v] = place[v]
  BY <1>1 DEF AppendLine, AppendFails, Unwind, Then, Goto, JournalTypeOK
<1>4. Cardinality(Appending') = Cardinality(Appending) - 1
  BY <1>1, <1>3, ComesAndGoes
<1>5. Cardinality(Appending') \in Nat
  BY WritersAreFinite DEF Appending
<1>6. /\ Size(0)' \in Nat /\ Size(0)' <= Size(0) + 1
      /\ \A g \in Generations \ {0} : Size(g)' = Size(g)
  <2>1. CASE AppendLine(w)
    <3>1. gen'[0] = gen[0] \cup {written + 1} /\ \A g \in Generations \ {0} : gen'[g] = gen[g]
      BY <1>1, <2>1 DEF AppendLine, JournalTypeOK
    <3>2. IsFiniteSet(gen[0]) /\ Cardinality(gen[0]) \in Nat
      BY <1>1, <1>2 DEF Size
    <3>3. Cardinality(gen[0] \cup {written + 1}) \in {Size(0), Size(0) + 1}
      BY <3>2, FS_AddElement DEF Size
    <3> QED BY <1>1, <1>2, <3>1, <3>2, <3>3 DEF Size
  <2>2. CASE AppendFails(w)
    <3>1. gen' = gen
      BY <2>2 DEF AppendFails
    <3> QED BY <1>1, <1>2, <3>1 DEF Size
  <2> QED BY <2>1, <2>2
<1> QED BY <1>1, <1>2, <1>3, <1>4, <1>5, <1>6, NatFacts DEF Bounded, Room

LEMMA CountedHolds == JournalSpec => []Counted
<1>1. JournalInit => Bounded /\ Room
  <2> SUFFICES ASSUME JournalInit PROVE Bounded /\ Room
    OBVIOUS
  <2>1. Appending = {} /\ \A g \in Generations : gen[g] = {}
    BY DEF JournalInit, Appending
  <2>2. Cardinality({}) = 0 /\ Cardinality(Writers) \in Nat
    BY JournalAssumption, FS_EmptySet, FS_CardinalityType
  <2> QED BY <2>1, <2>2, NatFacts DEF JournalInit, Bounded, Room, Size
<1>2. Counted /\ JournalTypeOK' /\ [JournalNext]_journalVars => Bounded' /\ Room'
  <2>1. Counted /\ UNCHANGED journalVars => Bounded' /\ Room'
    BY DEF Counted, journalVars, Bounded, Room, Appending, Size
  <2> QED BY <2>1, RotationCounts, AppendingCounts DEF JournalNext
<1>3. Counted <=> (JournalTypeOK /\ Planned) /\ (Bounded /\ Room)
  BY DEF Counted
<1> QED BY <1>1, <1>2, <1>3, JournalTyped, PTL DEF JournalSpec

\* Whatever rotations overlap and whatever calls are refused, no file of the journal grows
\* beyond its ceiling by more than a line per process and per slip of the net.
THEOREM BoundedHolds == JournalSpec => []Bounded
<1>1. Counted => Bounded
  BY DEF Counted
<1> QED BY <1>1, CountedHolds, PTL

\* What a process knows of its losses at each place of log().
Knows(w) ==
  /\ pertes[w] > 0 <=> criEmis[w]
  /\ pertes[w] > 0 => heard[w]
  /\ enCri[w] => place[w] # "idle" /\ saying[w] # "line"
  /\ place[w] # "idle" /\ saying[w] = "echo" => enCri[w] /\ pertes[w] > 0
  /\ place[w] # "idle" /\ saying[w] = "end" => pertes[w] = 0
  /\ pertes[w] = 0 /\ (place[w] = "idle" \/ saying[w] # "end") => admitted[w] = total[w]

Known == \A w \in Writers : ~muted[w] => Knows(w)

\* A process on its way says on what it says, and knows what it knew.
LEMMA OnItsWay ==
  ASSUME Known, NEW w \in Writers, NEW v \in Writers,
         UNCHANGED told, UNCHANGED saying,
         place'[v] = place[v] \/ (place[v] # "idle" /\ place'[v] # "idle")
  PROVE  ~muted'[v] => Knows(v)'
<1>1. ~muted[v] => Knows(v)
  BY DEF Known
<1>2. /\ muted' = muted /\ pertes' = pertes /\ criEmis' = criEmis /\ heard' = heard
      /\ enCri' = enCri /\ saying' = saying /\ admitted' = admitted /\ total' = total
  BY DEF told
<1> QED BY <1>1, <1>2 DEF Knows

LEMMA RotationKnows ==
  ASSUME JournalTypeOK, Known, NEW w \in Writers,
         \/ Weigh(w) \/ UnlinkTo(w) \/ Rename(w) \/ Refused(w) \/ Recheck(w) \/ Truncate(w)
  PROVE  Known'
<1>1. UNCHANGED <<told, saying>>
  BY DEF Weigh, UnlinkTo, Rename, Refused, Recheck, Truncate
<1>2. /\ place[w] # "idle" /\ place'[w] # "idle"
      /\ \A v \in Writers \ {w} : place'[v] = place[v]
  BY DEF Weigh, UnlinkTo, Rename, Refused, Recheck, Truncate, Pair, Goto, JournalTypeOK
<1>3. ASSUME NEW v \in Writers PROVE ~muted'[v] => Knows(v)'
  <2>1. UNCHANGED told /\ UNCHANGED saying
    BY <1>1
  <2>2. place'[v] = place[v] \/ (place[v] # "idle" /\ place'[v] # "idle")
    BY <1>2
  <2> QED BY <2>1, <2>2, OnItsWay
<1> QED BY <1>3 DEF Known

LEMMA AppendingKnows ==
  ASSUME JournalTypeOK, Known, NEW w \in Writers, Say(w) \/ AppendLine(w) \/ AppendFails(w)
  PROVE  Known'
<1>1. ASSUME NEW v \in Writers, v # w PROVE ~muted'[v] => Knows(v)'
  <2>1. /\ muted'[v] = muted[v] /\ pertes'[v] = pertes[v] /\ criEmis'[v] = criEmis[v]
        /\ heard'[v] = heard[v] /\ enCri'[v] = enCri[v] /\ saying'[v] = saying[v]
        /\ admitted'[v] = admitted[v] /\ total'[v] = total[v] /\ place'[v] = place[v]
    BY <1>1 DEF Say, AppendLine, AppendFails, Unwind, Then, Recovered, Goto, told, JournalTypeOK
  <2> QED BY <2>1 DEF Known, Knows
<1>2. pertes[w] \in Nat /\ (~muted[w] => Knows(w))
  BY DEF JournalTypeOK, Known
<1>3. CASE Say(w)
  <2>1. /\ place[w] = "idle" /\ place'[w] = "stat" /\ saying'[w] = "line" /\ UNCHANGED told
    BY <1>3 DEF Say, Goto, JournalTypeOK
  <2> QED BY <1>1, <1>2, <2>1 DEF Known, Knows, told
<1>4. CASE AppendLine(w)
  <2>1. /\ place[w] = "append" /\ heard'[w] = FALSE /\ muted' = muted /\ total' = total
        /\ admitted'[w] = IF saying[w] = "end" THEN total[w] ELSE admitted[w]
    BY <1>4 DEF AppendLine, JournalTypeOK
  <2>2. CASE pertes[w] > 0
    <3>1. /\ pertes'[w] = 0 /\ criEmis'[w] = FALSE /\ enCri' = enCri
          /\ place'[w] = "stat" /\ saying'[w] = "end"
      BY <1>4, <2>2 DEF AppendLine, Recovered, Then, Goto, JournalTypeOK
    <3>2. ~muted'[w] => Knows(w)'
      BY <1>2, <2>1, <2>2, <3>1 DEF Knows
    <3> QED BY <1>1, <3>2 DEF Known
  <2>3. CASE ~(pertes[w] > 0)
    <3>1. /\ pertes' = pertes /\ criEmis' = criEmis /\ enCri'[w] = FALSE
          /\ place'[w] = "idle" /\ saying' = saying
      BY <1>4, <2>3 DEF AppendLine, Unwind, Goto, JournalTypeOK
    <3>2. ~muted'[w] => Knows(w)'
      BY <1>2, <2>1, <2>3, <3>1 DEF Knows
    <3> QED BY <1>1, <3>2 DEF Known
  <2> QED BY <2>2, <2>3
<1>5. CASE AppendFails(w)
  <2>1. /\ place[w] = "append" /\ admitted' = admitted
        /\ ~muted'[w] => ~muted[w] /\ ~(saying[w] = "end" /\ enCri[w])
    BY <1>5 DEF AppendFails, JournalTypeOK
  <2>2. pertes'[w] = IF enCri[w] THEN pertes[w] ELSE pertes[w] + 1
    BY <1>5 DEF AppendFails, JournalTypeOK
  <2>3. ~muted'[w] => pertes'[w] > 0 /\ pertes'[w] \in Nat
    BY <1>2, <2>1, <2>2 DEF Knows, JournalTypeOK
  <2>4. CASE criEmis[w]
    <3>1. /\ place'[w] = "idle" /\ enCri'[w] = FALSE /\ criEmis' = criEmis /\ heard' = heard
      BY <1>5, <2>4 DEF AppendFails, Unwind, Goto, JournalTypeOK
    <3>2. ~muted'[w] => Knows(w)'
      BY <1>2, <2>1, <2>3, <2>4, <3>1 DEF Knows
    <3> QED BY <1>1, <3>2 DEF Known
  <2>5. CASE ~criEmis[w]
    <3>1. /\ criEmis'[w] = TRUE /\ enCri'[w] = TRUE /\ heard'[w] = TRUE
          /\ place'[w] = "stat" /\ saying'[w] = "echo"
      BY <1>5, <2>5 DEF AppendFails, Then, Goto, JournalTypeOK
    <3>2. ~muted'[w] => Knows(w)'
      BY <2>3, <3>1 DEF Knows
    <3> QED BY <1>1, <3>2 DEF Known
  <2> QED BY <2>4, <2>5
<1> QED BY <1>3, <1>4, <1>5

\* A process that lost lines has cried, and one that writes again owns to all it lost, unless
\* the end of an episode was itself lost during a cry.
THEOREM LossIsToldHolds == JournalSpec => []LossIsTold
<1>1. JournalInit => Known
  BY DEF JournalInit, Known, Knows
<1>2. JournalTypeOK /\ Known /\ [JournalNext]_journalVars => Known'
  <2>1. Known /\ UNCHANGED journalVars => Known'
    BY DEF journalVars, told, Known, Knows
  <2> QED BY <2>1, RotationKnows, AppendingKnows DEF JournalNext
<1>3. JournalTypeOK /\ Known => LossIsTold
  <2> SUFFICES ASSUME JournalTypeOK, Known, NEW w \in Writers, place[w] = "idle", ~muted[w]
               PROVE  IF pertes[w] > 0 THEN heard[w] ELSE admitted[w] = total[w]
    BY DEF LossIsTold
  <2>1. Knows(w) /\ pertes[w] \in Nat
    BY DEF Known, JournalTypeOK
  <2> QED BY <2>1 DEF Knows
<1> QED BY <1>1, <1>2, <1>3, JournalTyped, PTL DEF JournalSpec

\* The number of the last line that has left the file.
Moved == written - Size(0)

\* The archives but the one of slot k hold the lines that left the file, m the last of them:
\* the first g archives, MaxBytes * g lines at least.
Slot(k, h) == IF h < k THEN h ELSE h + 1

Holds(files, m, k, g) ==
  \A n \in 1..m : n > m - MaxBytes * g => \E h \in 1..g : n \in files[Slot(k, h)]

Shifting(w) == place[w] \in {"unlink", "rename"}

FileIsNewest == Size(0) <= written /\ gen[0] = (Moved + 1)..written
OneRotates == \A v, w \in Rotating : v = w
ArchivesHold ==
  (\A w \in Writers : ~Shifting(w)) =>
    \A g \in 0..(MaxFiles - 1) : Holds(gen, Moved, MaxFiles, g)
ShiftHolds ==
  \A w \in Writers : Shifting(w) =>
    Size(0) >= MaxBytes /\ \A g \in 0..(MaxFiles - 2) : Holds(gen, Moved, index[w], g)

\* Undisturbed, the file is the newest lines, one process at most rotates, and the archives
\* hold the lines before them, those of a rotation but for the slot it is about to fill.
Orderly == FileIsNewest /\ OneRotates /\ ArchivesHold /\ ShiftHolds

LEMMA MovedIsNat ==
  ASSUME JournalTypeOK, FileIsNewest
  PROVE  Moved \in Nat /\ Size(0) \in Nat /\ written \in Nat
<1>1. Size(0) \in Nat /\ written \in Nat
  BY NatFacts, LinesAreFinite DEF JournalTypeOK, Size
<1> QED BY <1>1 DEF FileIsNewest, Moved

\* A step that moves no line.
LEMMA StillOrderly ==
  ASSUME JournalTypeOK, Orderly, NEW w \in Writers,
         UNCHANGED gen, UNCHANGED written,
         \A v \in Writers \ {w} : place'[v] = place[v] /\ index'[v] = index[v],
         Shifting(w)' /\ ~Shifting(w) =>
           Rotating = {} /\ Size(0) >= MaxBytes /\ index'[w] = MaxFiles - 1,
         ~Shifting(w)' => ~Shifting(w),
         Shifting(w) /\ Shifting(w)' => index'[w] = index[w],
         w \in Rotating' => w \in Rotating \/ Rotating = {}
  PROVE  Orderly'
<1> USE DEF Orderly
<1>1. Size(0)' = Size(0) /\ Moved' = Moved
  BY DEF Size, Moved
<1>3. FileIsNewest'
  BY <1>1 DEF FileIsNewest
<1>4. OneRotates'
  <2>1. Rotating' \subseteq Rotating \/ Rotating' \subseteq {w}
    BY DEF Rotating
  <2> QED BY <2>1 DEF OneRotates
<1>5. ArchivesHold'
  <2> SUFFICES ASSUME \A v \in Writers : ~Shifting(v)', NEW g \in 0..(MaxFiles - 1)
               PROVE  Holds(gen', Moved', MaxFiles, g)
    BY DEF ArchivesHold
  <2>1. \A v \in Writers : ~Shifting(v)
    BY DEF Shifting
  <2> QED BY <1>1, <2>1 DEF ArchivesHold
<1>6. ShiftHolds'
  <2> SUFFICES ASSUME NEW v \in Writers, Shifting(v)'
               PROVE  /\ Size(0)' >= MaxBytes
                      /\ \A g \in 0..(MaxFiles - 2) : Holds(gen', Moved', index'[v], g)
    BY DEF ShiftHolds
  <2>1. CASE Shifting(v)
    <3>1. index'[v] = index[v]
      BY <2>1 DEF Shifting
    <3>2. /\ Size(0) >= MaxBytes
          /\ \A g \in 0..(MaxFiles - 2) : Holds(gen, Moved, index[v], g)
      BY <2>1 DEF ShiftHolds
    <3> QED BY <1>1, <3>1, <3>2
  <2>2. CASE ~Shifting(v)
    <3>1. v = w /\ Rotating = {} /\ Size(0) >= MaxBytes /\ index'[v] = MaxFiles - 1
      BY <2>2 DEF Shifting
    <3>2. ASSUME NEW g \in 0..(MaxFiles - 2) PROVE Holds(gen, Moved, MaxFiles - 1, g)
      <4>1. \A u \in Writers : ~Shifting(u)
        BY <3>1 DEF Shifting, Rotating
      <4>2. g \in 0..(MaxFiles - 1) /\ \A h \in 1..g : h < MaxFiles - 1 /\ h < MaxFiles
        BY NatFacts
      <4>3. Holds(gen, Moved, MaxFiles, g)
        BY <4>1, <4>2 DEF ArchivesHold
      <4>4. \A h \in 1..g : Slot(MaxFiles, h) = Slot(MaxFiles - 1, h)
        BY <4>2 DEF Slot
      <4> QED BY <4>3, <4>4 DEF Holds
    <3> QED BY <1>1, <3>1, <3>2
  <2> QED BY <2>1, <2>2
<1> QED BY <1>3, <1>4, <1>5, <1>6

\* The slot is emptied before it is filled.
LEMMA UnlinkOrderly ==
  ASSUME JournalTypeOK, Planned, Orderly, NEW w \in Writers, UnlinkTo(w)
  PROVE  Orderly'
<1> USE DEF Orderly
<1>1. /\ index[w] \in 1..(MaxFiles - 1) /\ place[w] = "unlink" /\ index' = index
      /\ written' = written /\ gen' = [gen EXCEPT ![index[w]] = {}]
      /\ place' = [place EXCEPT ![w] = "rename"]
  BY DEF UnlinkTo, Planned, Goto, To
<1>2. gen'[0] = gen[0] /\ \A g \in Generations \ {index[w]} : gen'[g] = gen[g]
  BY <1>1, NatFacts DEF JournalTypeOK
<1>3. Size(0)' = Size(0) /\ Moved' = Moved
  BY <1>1, <1>2 DEF Size, Moved
<1>4. FileIsNewest'
  BY <1>1, <1>2, <1>3 DEF FileIsNewest
<1>5. \A v \in Writers : (Shifting(v)' <=> Shifting(v)) /\ (v \in Rotating' <=> v \in Rotating)
  BY <1>1 DEF JournalTypeOK, Shifting, Rotating
<1>6. OneRotates'
  BY <1>5 DEF OneRotates, Rotating
<1>7. ASSUME NEW v \in Writers, Shifting(v) PROVE v = w
  BY <1>1, <1>7 DEF OneRotates, Rotating, Shifting
<1>8. ASSUME NEW g \in 0..(MaxFiles - 2) PROVE Holds(gen', Moved', index[w], g)
  <2>1. Holds(gen, Moved, index[w], g)
    BY <1>1, <1>8 DEF ShiftHolds, Shifting
  <2>2. \A h \in 1..g : gen'[Slot(index[w], h)] = gen[Slot(index[w], h)]
    BY <1>1, <1>2, NatFacts DEF Slot, Generations
  <2> QED BY <1>3, <2>1, <2>2, <1>1 DEF Holds
<1>9. ShiftHolds'
  BY <1>1, <1>3, <1>5, <1>7, <1>8 DEF ShiftHolds
<1>10. ArchivesHold'
  BY <1>1, <1>5 DEF ArchivesHold, Shifting
<1> QED BY <1>4, <1>6, <1>9, <1>10

\* The archive before it moves into it; the last to move is the file, which weighs at least
\* as much as an archive must.
LEMMA RenameOrderly ==
  ASSUME JournalTypeOK, Planned, Orderly, NEW w \in Writers, Rename(w)
  PROVE  Orderly'
<1> USE DEF Orderly
<1>0. PICK k \in 1..(MaxFiles - 1) : k = index[w]
  BY DEF Rename, Planned
<1>1. /\ place[w] = "rename" /\ written' = written
      /\ index' = [index EXCEPT ![w] = k - 1]
      /\ place' = [place EXCEPT ![w] = IF k - 1 = 0 THEN "recheck" ELSE "unlink"]
      /\ gen' = IF gen[k - 1] = {} THEN gen
                ELSE [gen EXCEPT ![k] = gen[k - 1], ![k - 1] = {}]
  BY <1>0 DEF Rename, Pair, Goto, From, To
<1>2. Moved \in Nat /\ Size(0) \in Nat /\ written \in Nat
  BY MovedIsNat
<1>3. Shifting(w) /\ \A v \in Writers : Shifting(v) => v = w
  BY <1>1 DEF OneRotates, Rotating, Shifting
<1>4. Size(0) >= MaxBytes /\ \A g \in 0..(MaxFiles - 2) : Holds(gen, Moved, k, g)
  BY <1>0, <1>3 DEF ShiftHolds
<1>5. OneRotates'
  <2>1. Rotating' \subseteq Rotating
    BY <1>1 DEF JournalTypeOK, Rotating
  <2> QED BY <2>1 DEF OneRotates
<1>6. \A g \in Generations : g \notin {k, k - 1} => gen'[g] = gen[g]
  BY <1>1 DEF JournalTypeOK
<1>7. gen[k - 1] \subseteq gen'[k]
  BY <1>1, NatFacts DEF JournalTypeOK
<1>8. \A v \in Writers \ {w} : ~Shifting(v)'
  BY <1>1, <1>3 DEF JournalTypeOK, Shifting
<1>9. CASE k > 1
  <2>1. gen'[0] = gen[0]
    BY <1>0, <1>6, <1>9, NatFacts
  <2>2. Size(0)' = Size(0) /\ Moved' = Moved
    BY <1>1, <2>1 DEF Size, Moved
  <2>3. FileIsNewest'
    BY <1>1, <2>1, <2>2 DEF FileIsNewest
  <2>4. Shifting(w)' /\ index'[w] = k - 1
    BY <1>1, <1>9 DEF Shifting, JournalTypeOK
  <2>5. ASSUME NEW g \in 0..(MaxFiles - 2) PROVE Holds(gen', Moved', k - 1, g)
    <3>1. ASSUME NEW h \in 1..g PROVE gen[Slot(k, h)] \subseteq gen'[Slot(k - 1, h)]
      <4>1. CASE h = k - 1
        BY <1>0, <1>7, <4>1 DEF Slot
      <4>2. CASE h # k - 1
        <5>1. Slot(k, h) = Slot(k - 1, h) /\ Slot(k, h) \in Generations
              /\ Slot(k, h) \notin {k, k - 1}
          BY <1>1, <4>2, <2>5, NatFacts DEF Slot, Generations
        <5> QED BY <1>6, <5>1
      <4> QED BY <4>1, <4>2
    <3> QED BY <1>1, <1>4, <2>2, <3>1 DEF Holds
  <2>6. ShiftHolds'
    BY <1>4, <1>8, <2>2, <2>4, <2>5 DEF ShiftHolds
  <2>7. ArchivesHold'
    BY <2>4 DEF ArchivesHold
  <2> QED BY <1>5, <2>3, <2>6, <2>7
<1>10. CASE k = 1
  <2>1. gen[0] # {}
    <3>1. written \in (Moved + 1)..written
      BY <1>2, <1>4, NatFacts DEF Moved
    <3> QED BY <3>1 DEF FileIsNewest
  <2>2. gen'[0] = {} /\ gen'[1] = gen[0]
    BY <1>1, <1>10, <2>1, NatFacts DEF JournalTypeOK
  <2>3. Size(0)' = 0 /\ Moved' = written
    <3>1. Size(0)' = 0
      BY <2>2, FS_EmptySet DEF Size
    <3> QED BY <1>1, <1>2, <3>1 DEF Moved
  <2>4. FileIsNewest'
    <3>1. gen'[0] = (Moved' + 1)..written'
      <4>1. \A m \in Nat : (m + 1)..m = {}
        OBVIOUS
      <4> QED BY <1>1, <1>2, <2>2, <2>3, <4>1
    <3>2. Size(0)' <= written'
      BY <1>1, <1>2, <2>3
    <3> QED BY <3>1, <3>2 DEF FileIsNewest
  <2>5. \A v \in Writers : ~Shifting(v)'
    BY <1>1, <1>8, <1>10 DEF Shifting, JournalTypeOK
  <2>6. ASSUME NEW g \in 0..(MaxFiles - 1), NEW n \in 1..written, n > written - MaxBytes * g
        PROVE  \E h \in 1..g : n \in gen'[Slot(MaxFiles, h)]
    <3>0. /\ g \in Nat /\ g > 0 /\ g - 1 \in 0..(MaxFiles - 2)
          /\ \A h \in 1..g : Slot(MaxFiles, h) = h
      BY <1>2, <2>6, NatFacts DEF Slot
    <3>1. CASE n > Moved
      BY <1>2, <2>2, <3>0, <3>1 DEF FileIsNewest
    <3>2. CASE n <= Moved
      <4>1. MaxBytes * (g - 1) = MaxBytes * g - MaxBytes
        BY <3>0, NatFacts
      <4>2. MaxBytes * g \in Nat /\ MaxBytes * (g - 1) \in Nat
        BY <3>0, NatFacts
      <4>3. n > Moved - MaxBytes * (g - 1)
        BY <1>2, <1>4, <2>6, <4>1, <4>2, NatFacts DEF Moved
      <4>4. PICK h \in 1..(g - 1) : n \in gen[Slot(1, h)]
        BY <1>2, <1>4, <1>10, <3>0, <3>2, <4>3 DEF Holds
      <4>5. gen[h + 1] = gen'[h + 1] /\ Slot(1, h) = h + 1 /\ h + 1 \in 1..g
        BY <1>6, <1>10, <3>0, NatFacts DEF Slot, Generations
      <4> QED BY <3>0, <4>4, <4>5
    <3> QED BY <1>2, <3>1, <3>2
  <2>7. ArchivesHold'
    BY <2>3, <2>6, <1>1 DEF ArchivesHold, Holds
  <2>8. ShiftHolds'
    BY <2>5 DEF ShiftHolds
  <2> QED BY <1>5, <2>4, <2>7, <2>8
<1> QED BY <1>1, <1>9, <1>10

\* A line longer, the file still ends in the newest.
LEMMA AppendOrderly ==
  ASSUME JournalTypeOK, Planned, Orderly, NEW w \in Writers, AppendLine(w)
  PROVE  Orderly'
<1> USE DEF Orderly
<1>1. /\ place[w] = "append" /\ written' = written + 1 /\ index' = index
      /\ gen' = [gen EXCEPT ![0] = @ \cup {written + 1}]
  BY DEF AppendLine
<1>2. /\ place'[w] \notin {"unlink", "rename", "recheck", "truncate"}
      /\ \A v \in Writers \ {w} : place'[v] = place[v]
  BY DEF AppendLine, Then, Unwind, Goto, JournalTypeOK
<1>3. Moved \in Nat /\ Size(0) \in Nat /\ written \in Nat
  BY MovedIsNat
<1>4. gen'[0] = gen[0] \cup {written + 1} /\ \A g \in Generations \ {0} : gen'[g] = gen[g]
  BY <1>1, NatFacts DEF JournalTypeOK
<1>5. Size(0)' = Size(0) + 1
  <2>1. IsFiniteSet(gen[0])
    BY NatFacts, LinesAreFinite DEF JournalTypeOK
  <2>2. written + 1 \notin gen[0]
    BY <1>3 DEF FileIsNewest
  <2> QED BY <1>4, <2>1, <2>2, FS_AddElement DEF Size
<1>6. Moved' = Moved
  BY <1>1, <1>3, <1>5 DEF Moved
<1>7. FileIsNewest'
  <2>1. gen'[0] = (Moved' + 1)..written'
    <3>1. Moved <= written
      BY <1>3 DEF Moved
    <3>2. \A m, n \in Nat : m <= n => (m + 1)..(n + 1) = ((m + 1)..n) \cup {n + 1}
      OBVIOUS
    <3>3. ((Moved + 1)..written) \cup {written + 1} = (Moved + 1)..(written + 1)
      BY <1>3, <3>1, <3>2
    <3> QED BY <1>1, <1>4, <1>6, <3>3 DEF FileIsNewest
  <2>2. Size(0)' <= written'
    BY <1>1, <1>3, <1>5 DEF FileIsNewest
  <2> QED BY <2>1, <2>2 DEF FileIsNewest
<1>8. \A v \in Writers : (Shifting(v)' <=> Shifting(v)) /\ (v \in Rotating' <=> v \in Rotating)
  BY <1>1, <1>2 DEF Shifting, Rotating
<1>9. OneRotates'
  BY <1>8 DEF OneRotates, Rotating
<1>10. ASSUME NEW k \in 1..MaxFiles, NEW g \in 0..(MaxFiles - 1), k = MaxFiles \/ g < MaxFiles - 1,
              Holds(gen, Moved, k, g)
       PROVE  Holds(gen', Moved', k, g)
  <2>1. \A h \in 1..g : Slot(k, h) \in Generations \ {0}
    BY <1>10, NatFacts DEF Slot, Generations
  <2> QED BY <1>4, <1>6, <1>10, <2>1 DEF Holds
<1>11. ArchivesHold'
  <2> SUFFICES ASSUME \A v \in Writers : ~Shifting(v)', NEW g \in 0..(MaxFiles - 1)
               PROVE  Holds(gen', Moved', MaxFiles, g)
    BY DEF ArchivesHold
  <2>1. Holds(gen, Moved, MaxFiles, g)
    BY <1>8 DEF ArchivesHold
  <2> QED BY <1>10, <2>1, NatFacts
<1>12. ShiftHolds'
  <2> SUFFICES ASSUME NEW v \in Writers, Shifting(v)'
               PROVE  /\ Size(0)' >= MaxBytes
                      /\ \A g \in 0..(MaxFiles - 2) : Holds(gen', Moved', index'[v], g)
    BY DEF ShiftHolds
  <2>1. Shifting(v) /\ index'[v] = index[v] /\ index[v] \in 1..(MaxFiles - 1)
    BY <1>1, <1>8 DEF Shifting, Planned
  <2>2. /\ Size(0) >= MaxBytes
        /\ \A g \in 0..(MaxFiles - 2) : Holds(gen, Moved, index[v], g)
    BY <2>1 DEF ShiftHolds
  <2>3. ASSUME NEW g \in 0..(MaxFiles - 2) PROVE Holds(gen', Moved', index[v], g)
    <3>1. /\ index[v] \in 1..MaxFiles /\ g \in 0..(MaxFiles - 1) /\ g < MaxFiles - 1
      BY <2>1, NatFacts
    <3> QED BY <1>10, <2>2, <3>1
  <2>4. Size(0)' >= MaxBytes
    BY <1>3, <1>5, <2>2, NatFacts
  <2> QED BY <2>1, <2>3, <2>4
<1> QED BY <1>7, <1>9, <1>11, <1>12

Undisturbed == ~disturbed => Orderly

LEMMA StepIsOrderly ==
  ASSUME JournalTypeOK, Planned, Undisturbed, NEW w \in Writers,
         \/ Say(w) \/ Weigh(w) \/ UnlinkTo(w) \/ Rename(w) \/ Refused(w) \/ Recheck(w)
         \/ Truncate(w) \/ AppendLine(w) \/ AppendFails(w)
  PROVE  Undisturbed'
<1> SUFFICES ASSUME ~disturbed' PROVE Orderly'
  BY DEF Undisturbed
<1>1. Orderly
  BY DEF Undisturbed, Say, Weigh, UnlinkTo, Rename, Refused, Recheck, Truncate, AppendLine,
         AppendFails
<1>2. CASE UnlinkTo(w)
  BY <1>1, <1>2, UnlinkOrderly
<1>3. CASE Rename(w)
  BY <1>1, <1>3, RenameOrderly
<1>4. CASE AppendLine(w)
  BY <1>1, <1>4, AppendOrderly
<1>5. CASE Say(w) \/ AppendFails(w)
  <2>1. /\ UNCHANGED gen /\ UNCHANGED written /\ index' = index
        /\ place[w] \in {"idle", "append"} /\ place'[w] \in {"idle", "stat"}
        /\ \A v \in Writers \ {w} : place'[v] = place[v]
    BY <1>5 DEF Say, AppendFails, Then, Unwind, Goto, JournalTypeOK
  <2>2. ~Shifting(w) /\ ~Shifting(w)' /\ w \notin Rotating'
    BY <2>1 DEF Shifting, Rotating
  <2> QED BY <1>1, <2>1, <2>2, StillOrderly
<1>6. CASE Recheck(w)
  <2>1. /\ UNCHANGED gen /\ UNCHANGED written /\ index' = index
        /\ place[w] = "recheck" /\ place'[w] \in {"truncate", "append"}
        /\ \A v \in Writers \ {w} : place'[v] = place[v]
    BY <1>6 DEF Recheck, Goto, JournalTypeOK
  <2>2. ~Shifting(w) /\ ~Shifting(w)' /\ w \in Rotating
    BY <2>1 DEF Shifting, Rotating
  <2> QED BY <1>1, <2>1, <2>2, StillOrderly
<1>7. CASE Weigh(w)
  <2>1. /\ UNCHANGED gen /\ UNCHANGED written /\ place[w] = "stat"
    BY <1>7 DEF Weigh
  <2>2. CASE Size(0) + 1 > MaxBytes
    <3>1. /\ index'[w] = MaxFiles - 1 /\ Rotating = {}
          /\ \A v \in Writers \ {w} : place'[v] = place[v] /\ index'[v] = index[v]
      BY <1>7, <2>2 DEF Weigh, Pair, Goto, JournalTypeOK
    <3>2. Size(0) >= MaxBytes
      BY <1>1, <2>2, MovedIsNat, NatFacts DEF Orderly
    <3>3. ~Shifting(w)
      BY <2>1 DEF Shifting
    <3> QED BY <1>1, <2>1, <3>1, <3>2, <3>3, StillOrderly
  <2>3. CASE ~(Size(0) + 1 > MaxBytes)
    <3>1. /\ index' = index /\ place'[w] = "append"
          /\ \A v \in Writers \ {w} : place'[v] = place[v]
      BY <1>7, <2>3 DEF Weigh, Goto, JournalTypeOK
    <3>2. ~Shifting(w) /\ ~Shifting(w)' /\ w \notin Rotating'
      BY <2>1, <3>1 DEF Shifting, Rotating
    <3> QED BY <1>1, <2>1, <3>1, <3>2, StillOrderly
  <2> QED BY <2>2, <2>3
<1>8. CASE Refused(w) \/ Truncate(w)
  BY <1>8 DEF Refused, Truncate
<1> QED BY <1>2, <1>3, <1>4, <1>5, <1>6, <1>7, <1>8

LEMMA StartsOrderly == JournalInit => Undisturbed
<1> SUFFICES ASSUME JournalInit PROVE Orderly
  BY DEF Undisturbed
<1>1. gen[0] = {} /\ written = 0 /\ \A w \in Writers : place[w] = "idle"
  BY NatFacts DEF JournalInit
<1>2. Size(0) = 0 /\ Moved = 0
  <2>1. Size(0) = 0
    BY <1>1, FS_EmptySet DEF Size
  <2> QED BY <1>1, <2>1 DEF Moved
<1>3. FileIsNewest
  BY <1>1, <1>2 DEF FileIsNewest
<1>4. OneRotates /\ ShiftHolds
  BY <1>1 DEF OneRotates, Rotating, ShiftHolds, Shifting
<1>5. ArchivesHold
  BY <1>2 DEF ArchivesHold, Holds
<1> QED BY <1>3, <1>4, <1>5 DEF Orderly

\* What the archives hold and what the file holds leave no gap.
LEMMA OrderlyKeeps ==
  ASSUME JournalTypeOK, Planned, Orderly, NEW n \in 1..written,
         n > written - MaxBytes * (MaxFiles - 1)
  PROVE  \E g \in Generations : n \in gen[g]
<1> USE DEF Orderly
<1>1. Moved \in Nat /\ Size(0) \in Nat /\ written \in Nat
  BY MovedIsNat
<1>2. CASE n > Moved
  BY <1>1, <1>2, NatFacts DEF FileIsNewest
<1>3. CASE n <= Moved /\ \A w \in Writers : ~Shifting(w)
  <2>1. Holds(gen, Moved, MaxFiles, MaxFiles - 1)
    BY <1>3, NatFacts DEF ArchivesHold
  <2>2. MaxBytes * (MaxFiles - 1) \in Nat
    BY NatFacts
  <2>3. n \in 1..Moved /\ n > Moved - MaxBytes * (MaxFiles - 1)
    BY <1>1, <1>3, <2>2 DEF Moved
  <2>4. PICK h \in 1..(MaxFiles - 1) : n \in gen[Slot(MaxFiles, h)]
    BY <2>1, <2>3 DEF Holds
  <2>5. Slot(MaxFiles, h) \in Generations
    BY NatFacts DEF Slot, Generations
  <2> QED BY <2>4, <2>5
<1>4. CASE n <= Moved /\ \E w \in Writers : Shifting(w)
  <2>1. PICK w \in Writers : Shifting(w)
    BY <1>4
  <2>2. PICK k \in 1..(MaxFiles - 1) : k = index[w]
    BY <2>1 DEF Planned, Shifting
  <2>3. MaxFiles - 2 \in 0..(MaxFiles - 2)
    BY <2>2, NatFacts
  <2>4. Size(0) >= MaxBytes /\ Holds(gen, Moved, k, MaxFiles - 2)
    BY <2>1, <2>2, <2>3 DEF ShiftHolds
  <2>5. MaxBytes * (MaxFiles - 1) = MaxBytes * (MaxFiles - 2) + MaxBytes
        /\ MaxBytes * (MaxFiles - 2) \in Nat
    BY <2>3, NatFacts
  <2>6. n \in 1..Moved /\ n > Moved - MaxBytes * (MaxFiles - 2)
    BY <1>1, <1>4, <2>4, <2>5, NatFacts DEF Moved
  <2>7. PICK h \in 1..(MaxFiles - 2) : n \in gen[Slot(k, h)]
    BY <2>4, <2>6 DEF Holds
  <2>8. Slot(k, h) \in Generations
    BY <2>2, NatFacts DEF Slot, Generations
  <2> QED BY <2>7, <2>8
<1> QED BY <1>1, <1>2, <1>3, <1>4

\* A rotation that nobody disturbs costs only the oldest lines: all the archives but one,
\* and the file, are kept, even in the middle of it.
THEOREM NewestKeptHolds == JournalSpec => []NewestKept
<1>1. JournalTypeOK /\ Planned /\ Undisturbed /\ [JournalNext]_journalVars => Undisturbed'
  <2>1. Undisturbed /\ UNCHANGED journalVars => Undisturbed'
    BY DEF journalVars, Undisturbed, Orderly, FileIsNewest, OneRotates, ArchivesHold,
           ShiftHolds, Holds, Slot, Moved, Size, Shifting, Rotating
  <2> QED BY <2>1, StepIsOrderly DEF JournalNext
<1>2. JournalTypeOK /\ Planned /\ Undisturbed => NewestKept
  BY OrderlyKeeps DEF Undisturbed, NewestKept
<1> QED BY <1>1, <1>2, StartsOrderly, JournalTyped, PTL DEF JournalSpec

=============================================================================
