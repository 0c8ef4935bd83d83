------------------------ MODULE IdentityStoreProofs ------------------------
(* The vault: whatever operation of snapshotRetour is cut, the last        *)
(* acknowledged snapshot of every identity is whole on disk.               *)
EXTENDS IdentityStore, TLAPS

(* What Inductive says, part by part.                                      *)
Ahead == \A i \in Identities : identity[i] # Absent => identity[i] >= acked[i]
Bound == \A i \in Identities : acked[i] <= last /\ identity[i] <= last
Program ==
  /\ at \in {"verdict", "purge", "away", "enter"} => tmp[I][pid] = last
  /\ at \in {"purge", "away", "enter"} => Ok
  /\ at \in {"purge", "away"} => identity[I] # Absent
  /\ at = "clean" => identity[I] = last
  /\ at # "idle" => last > 0

\* The parts are all of Inductive.
LEMMA Parts ==
  Inductive <=> /\ TypeOK /\ VaultWhole /\ CeilingKept /\ Ahead /\ Bound /\ Recoverable /\ Program
  BY DEF Inductive, Ahead, Bound, Program

\* The same of the next state.
LEMMA PartsNext ==
  TypeOK' /\ VaultWhole' /\ CeilingKept' /\ Ahead' /\ Bound' /\ Recoverable' /\ Program'
    => Inductive'
  BY DEF Inductive, Ahead, Bound, Program

\* The values a version number can have, and the sentinels around them.
LEMMA Numbers ==
  /\ Versions \subseteq Nat /\ Pids \subseteq Nat
  /\ \A v \in Versions : v > 0 /\ v # Absent /\ v # Partial
  /\ \A n \in 0..MaxVersions : n > 0 => n \in Versions
  BY StoreAssumption DEF Versions, Pids, Absent, Partial

\* An empty vault satisfies the invariant.
LEMMA InitInductive == Init => Inductive
<1> SUFFICES ASSUME Init PROVE Inductive
  OBVIOUS
<1> USE Numbers, StoreAssumption DEF Init
<1>1. TypeOK
  <2>1. Absent \in Contents /\ 1 \in Pids /\ 0 \in 0..MaxVersions
    BY DEF Contents, Pids
  <2>2. [i \in Identities |-> [p \in Pids |-> Absent]] \in [Identities -> [Pids -> Contents]]
    BY <2>1
  <2> QED BY <2>1, <2>2 DEF TypeOK
<1>2. VaultWhole /\ CeilingKept
  BY DEF VaultWhole, CeilingKept, Absent, Partial, Whole, Versions
<1>3. Ahead /\ Bound /\ Recoverable /\ Program
  BY DEF Ahead, Bound, Recoverable, Program, Absent
<1> QED BY <1>1, <1>2, <1>3, Parts

\* Types are kept by every step.
LEMMA TypeKept == TypeOK /\ [Next]_vars => TypeOK'
<1> SUFFICES ASSUME TypeOK, [Next]_vars PROVE TypeOK'
  OBVIOUS
<1> USE StoreAssumption DEF TypeOK, disk
<1>a. I \in Identities
  BY DEF I
<1>b. \A c \in Contents : Put(tmp, c) \in [Identities -> [Pids -> Contents]]
                       /\ Put(old, c) \in [Identities -> [Pids -> Contents]]
  BY <1>a DEF Put
<1>c. Absent \in Contents /\ Partial \in Contents /\ (at # "idle" /\ last > 0 => last \in Contents)
  BY DEF Contents, Versions
<1>1. ASSUME NEW s \in Sessions, NEW i \in Identities, Materialise(s, i) PROVE TypeOK'
  BY <1>1 DEF Materialise
<1>2. ASSUME NEW s \in Sessions, Begin(s) PROVE TypeOK'
  BY <1>2, <1>c DEF Begin
<1>3. CASE Mkdir BY <1>3, <1>b, <1>c DEF Mkdir, Goto
<1>4. CASE Copy
  <2>1. last \in Contents
    BY DEF Contents, Versions, Absent
  <2> QED BY <1>4, <1>b, <2>1 DEF Copy, Goto
<1>5. CASE Refuse BY <1>5, <1>b, <1>c DEF Refuse
<1>6. CASE Accept BY <1>6 DEF Accept, Goto
<1>7. CASE Purge BY <1>7, <1>b, <1>c DEF Purge, Goto
<1>8. CASE Away BY <1>8, <1>a, <1>b, <1>c DEF Away, Goto
<1>9. CASE Enter BY <1>9, <1>a, <1>b, <1>c DEF Enter, Goto
<1>10. CASE Clean BY <1>10, <1>a, <1>b, <1>c DEF Clean
<1>11. CASE Throws BY <1>11, <1>b, <1>c DEF Throws, Half
<1>12. CASE Crash
  <2>1. pid' \in Pids
    BY <1>12 DEF Crash, Pids
  <2>2. [s \in Sessions |-> NoSession] \in [Sessions -> Contents \cup {NoSession}]
    OBVIOUS
  <2> QED BY <1>12, <1>b, <1>c, <2>1, <2>2 DEF Crash, Half
<1>13. CASE UNCHANGED vars BY <1>13 DEF vars
<1> QED BY <1>1, <1>2, <1>3, <1>4, <1>5, <1>6, <1>7, <1>8, <1>9, <1>10, <1>11, <1>12, <1>13
        DEF Next, Store

\* What is under an identity's name, or beside it, before any step.
Copies(i) == {identity[i]} \cup {old[i][p] : p \in Pids}

\* A step that leaves the identities, their .old and the program's own facts alone.
LEMMA QuietKept ==
  ASSUME Inductive, TypeOK', UNCHANGED <<identity, old, size, acked>>, last' >= last, Program'
  PROVE  Inductive'
<1>1. VaultWhole' /\ CeilingKept' /\ Recoverable'
  BY Parts DEF VaultWhole, CeilingKept, Recoverable
<1>2. Ahead'
  BY Parts DEF Ahead
<1>3. Bound'
  <2>1. last \in Int /\ last' \in Int
    BY Parts, StoreAssumption DEF TypeOK
  <2>2. \A i \in Identities : acked[i] \in Int /\ identity[i] \in Int
    BY Parts, StoreAssumption DEF TypeOK, Contents, Versions, Absent, Partial
  <2> QED BY <2>1, <2>2, Parts DEF Bound
<1> QED BY <1>1, <1>2, <1>3, PartsNext

\* Every operation of snapshotRetour, whole, keeps the invariant.
LEMMA StoreKept == Inductive /\ TypeOK' /\ Store => Inductive'
<1> SUFFICES ASSUME Inductive, TypeOK', Store PROVE Inductive'
  OBVIOUS
<1> USE StoreAssumption
<1>t. TypeOK /\ Program /\ I \in Identities /\ pid \in Pids /\ last \in Nat
  BY Parts DEF TypeOK, I
<1>n. \A i \in Identities : acked[i] \in Nat /\ identity[i] \in Int
  BY <1>t DEF TypeOK, Contents, Versions, Absent, Partial
<1>1. CASE Mkdir
  BY <1>1, <1>t, QuietKept DEF Mkdir, Goto, Program, I, Ok
<1>2. CASE Copy
  <2>1. tmp'[I][pid] = last
    BY <1>2, <1>t DEF Copy, Put, TypeOK
  <2> QED BY <1>2, <2>1, <1>t, QuietKept DEF Copy, Goto, Program, I, Ok
<1>3. CASE Refuse
  BY <1>3, <1>t, QuietKept DEF Refuse, Program, I, Ok
<1>4. CASE Accept
  BY <1>4, <1>t, QuietKept DEF Accept, Goto, Program, I, Ok, disk
<1>5. CASE Purge
  <2>1. I' = I /\ UNCHANGED <<identity, size, acked, last, tmp, pid>>
    BY <1>5 DEF Purge, Goto, I
  <2>2. \A i \in Identities, p \in Pids : old'[i][p] \in {old[i][p], Absent}
    BY <1>5, <1>t DEF Purge, Put, TypeOK
  <2>3. \A i \in Identities \ {I}, p \in Pids : old'[i][p] = old[i][p]
    BY <1>5, <1>t DEF Purge, Put, TypeOK
  <2>4. Whole(identity[I]) /\ identity[I] >= acked[I]
    BY <1>5, <1>t, Parts DEF Purge, Program, VaultWhole, Ahead, Whole, TypeOK, Contents
  <2>5. VaultWhole' /\ Ahead' /\ Bound'
    BY <2>1, Parts DEF VaultWhole, Ahead, Bound
  <2>6. CeilingKept'
    BY <2>1, <2>2, Parts, Numbers DEF CeilingKept, Whole
  <2>7. Recoverable'
    <3> SUFFICES ASSUME NEW i \in Identities, acked[i] > 0
                 PROVE \E c \in Copies(i)' : Whole(c) /\ c >= acked[i]
      BY <2>1 DEF Recoverable, Copies
    <3>1. CASE i = I BY <3>1, <2>1, <2>4 DEF Copies
    <3>2. CASE i # I
      <4>1. Copies(i)' = Copies(i)
        BY <3>2, <2>1, <2>3 DEF Copies
      <4> QED BY <4>1, Parts DEF Recoverable, Copies
    <3> QED BY <3>1, <3>2
  <2>8. Program'
    BY <1>5, <1>t, <2>1 DEF Purge, Goto, Program, Ok, I
  <2> QED BY <2>5, <2>6, <2>7, <2>8, PartsNext
<1>6. CASE Away
  <2>1. I' = I /\ UNCHANGED <<size, acked, last, tmp, pid>>
    BY <1>6 DEF Away, Goto, I
  <2>2. /\ identity'[I] = Absent /\ old'[I][pid] = identity[I]
        /\ \A i \in Identities \ {I} : identity'[i] = identity[i] /\ old'[i] = old[i]
        /\ \A p \in Pids \ {pid} : old'[I][p] = old[I][p]
    BY <1>6, <1>t DEF Away, Put, TypeOK
  <2>3. Whole(identity[I]) /\ identity[I] >= acked[I]
    BY <1>6, <1>t, Parts DEF Away, Program, VaultWhole, Ahead, Whole, TypeOK, Contents
  <2>4. VaultWhole' /\ Ahead'
    BY <2>1, <2>2, Parts DEF VaultWhole, Ahead, Absent, Partial
  <2>5. Bound'
    BY <2>1, <2>2, <1>t, Parts DEF Bound, Absent
  <2>6. CeilingKept'
    <3> SUFFICES ASSUME NEW i \in Identities, NEW c \in Copies(i)', Whole(c)
                 PROVE size[c] <= MaxPerIdentity
      BY <2>1 DEF CeilingKept, Copies
    <3>1. c \in Copies(i) \/ c = Absent
      BY <2>2 DEF Copies
    <3> QED BY <3>1, Parts, Numbers DEF CeilingKept, Copies, Whole
  <2>7. Recoverable'
    <3> SUFFICES ASSUME NEW i \in Identities, acked[i] > 0
                 PROVE \E c \in Copies(i)' : Whole(c) /\ c >= acked[i]
      BY <2>1 DEF Recoverable, Copies
    <3>1. CASE i = I
      <4>1. old'[i][pid] \in Copies(i)'
        BY <1>t DEF Copies
      <4> QED BY <3>1, <4>1, <2>2, <2>3
    <3>2. CASE i # I
      <4>1. Copies(i)' = Copies(i)
        BY <3>2, <2>2 DEF Copies
      <4> QED BY <4>1, Parts DEF Recoverable, Copies
    <3> QED BY <3>1, <3>2
  <2>8. Program'
    BY <1>6, <1>t, <2>1 DEF Away, Goto, Program, Ok, I
  <2> QED BY <2>4, <2>5, <2>6, <2>7, <2>8, PartsNext
<1>7. CASE Enter
  <2>1. I' = I /\ UNCHANGED <<size, acked, last, old, pid>>
    BY <1>7 DEF Enter, Goto, I
  <2>2. /\ identity'[I] = last /\ last > 0 /\ size[last] <= MaxPerIdentity
        /\ \A i \in Identities \ {I} : identity'[i] = identity[i]
    BY <1>7, <1>t DEF Enter, Program, TypeOK, Ok
  <2>3. Whole(last) /\ last >= acked[I]
    BY <2>2, <1>t, Parts DEF Bound, Whole, Versions, TypeOK
  <2>4. VaultWhole' /\ Ahead'
    BY <2>1, <2>2, <2>3, Parts, Numbers DEF VaultWhole, Ahead, Whole
  <2>5. Bound'
    BY <2>1, <2>2, <1>t, Parts DEF Bound, Enter, Goto
  <2>6. CeilingKept'
    BY <2>1, <2>2, Parts DEF CeilingKept
  <2>7. Recoverable'
    <3> SUFFICES ASSUME NEW i \in Identities, acked[i] > 0
                 PROVE \E c \in Copies(i)' : Whole(c) /\ c >= acked[i]
      BY <2>1 DEF Recoverable, Copies
    <3>1. CASE i = I BY <3>1, <2>2, <2>3 DEF Copies
    <3>2. CASE i # I
      <4>1. Copies(i)' = Copies(i)
        BY <3>2, <2>1, <2>2 DEF Copies
      <4> QED BY <4>1, Parts DEF Recoverable, Copies
    <3> QED BY <3>1, <3>2
  <2>8. Program'
    BY <1>7, <1>t, <2>1, <2>2 DEF Enter, Goto, Program, Ok, I
  <2> QED BY <2>4, <2>5, <2>6, <2>7, <2>8, PartsNext
<1>8. CASE Clean
  <2>1. UNCHANGED <<identity, size, last>>
    BY <1>8 DEF Clean
  <2>2. /\ identity[I] = last /\ last > 0 /\ acked'[I] = last
        /\ \A i \in Identities \ {I} : acked'[i] = acked[i] /\ old'[i] = old[i]
        /\ \A p \in Pids : old'[I][p] \in {old[I][p], Absent}
    BY <1>8, <1>t DEF Clean, Program, Put, TypeOK
  <2>3. Whole(last)
    BY <2>2, <1>t DEF Whole, Versions, TypeOK
  <2>4. VaultWhole' /\ Ahead' /\ Bound'
    BY <2>1, <2>2, <1>t, Parts DEF VaultWhole, Ahead, Bound
  <2>6. CeilingKept'
    <3> SUFFICES ASSUME NEW i \in Identities, NEW c \in Copies(i)', Whole(c)
                 PROVE size[c] <= MaxPerIdentity
      BY <2>1 DEF CeilingKept, Copies
    <3>1. c \in Copies(i) \/ c = Absent
      BY <2>1, <2>2 DEF Copies
    <3> QED BY <3>1, Parts, Numbers DEF CeilingKept, Copies, Whole
  <2>7. Recoverable'
    <3> SUFFICES ASSUME NEW i \in Identities, acked'[i] > 0
                 PROVE \E c \in Copies(i)' : Whole(c) /\ c >= acked'[i]
      BY DEF Recoverable, Copies
    <3>1. CASE i = I BY <3>1, <2>1, <2>2, <2>3, <1>t DEF Copies
    <3>2. CASE i # I
      <4>1. Copies(i)' = Copies(i) /\ acked'[i] = acked[i]
        BY <3>2, <2>1, <2>2 DEF Copies
      <4> QED BY <4>1, Parts DEF Recoverable, Copies
    <3> QED BY <3>1, <3>2
  <2>8. Program'
    BY <1>8 DEF Clean, Program
  <2> QED BY <2>4, <2>6, <2>7, <2>8, PartsNext
<1> QED BY <1>1, <1>2, <1>3, <1>4, <1>5, <1>6, <1>7, <1>8 DEF Store

\* A cut, by an error or by a crash, keeps it.
LEMMA CutKept == Inductive /\ TypeOK' /\ (Throws \/ Crash) => Inductive'
<1> SUFFICES ASSUME Inductive, TypeOK', Throws \/ Crash PROVE Inductive'
  OBVIOUS
<1>1. Half /\ at' = "idle" /\ UNCHANGED <<size, acked, last>>
  BY DEF Throws, Crash
<1>2. Program'
  BY <1>1 DEF Program
<1>t. TypeOK /\ Program /\ I \in Identities /\ pid \in Pids /\ last \in Nat
  BY Parts, StoreAssumption DEF TypeOK, I
<1>3. CASE UNCHANGED old
  BY <1>1, <1>2, <1>3, <1>t, QuietKept DEF Half
<1>4. CASE ~UNCHANGED old
  <2>1. at \in {"purge", "clean"} /\ old' = Put(old, Partial) /\ UNCHANGED identity
    BY <1>1, <1>4 DEF Half
  <2>2. /\ \A i \in Identities \ {I} : old'[i] = old[i]
        /\ \A p \in Pids : old'[I][p] \in {old[I][p], Partial}
    BY <2>1, <1>t DEF Put, TypeOK
  <2>3. identity[I] \in Versions /\ identity[I] >= acked[I]
    <3>1. CASE at = "purge"
      BY <3>1, <1>t, Parts DEF Program, VaultWhole, Ahead, TypeOK, Contents
    <3>2. CASE at = "clean"
      BY <3>2, <1>t, Parts, StoreAssumption DEF Program, Bound, Versions, TypeOK
    <3> QED BY <3>1, <3>2, <2>1
  <2>4. VaultWhole' /\ Ahead' /\ Bound'
    BY <1>1, <2>1, Parts DEF VaultWhole, Ahead, Bound
  <2>5. CeilingKept'
    <3> SUFFICES ASSUME NEW i \in Identities, NEW c \in Copies(i)', Whole(c)
                 PROVE size[c] <= MaxPerIdentity
      BY <1>1 DEF CeilingKept, Copies
    <3>1. c \in Copies(i) \/ c = Partial
      BY <2>1, <2>2 DEF Copies
    <3> QED BY <3>1, Parts, Numbers DEF CeilingKept, Copies, Whole
  <2>6. Recoverable'
    <3> SUFFICES ASSUME NEW i \in Identities, acked[i] > 0
                 PROVE \E c \in Copies(i)' : Whole(c) /\ c >= acked[i]
      BY <1>1 DEF Recoverable, Copies
    <3>1. CASE i = I BY <3>1, <2>1, <2>3 DEF Copies, Whole
    <3>2. CASE i # I
      <4>1. Copies(i)' = Copies(i)
        BY <3>2, <2>1, <2>2 DEF Copies
      <4> QED BY <4>1, Parts DEF Recoverable, Copies
    <3> QED BY <3>1, <3>2
  <2> QED BY <1>2, <2>4, <2>5, <2>6, PartsNext
<1> QED BY <1>3, <1>4

\* Every step keeps the invariant.
LEMMA StepInductive == Inductive /\ [Next]_vars => Inductive'
<1> SUFFICES ASSUME Inductive, [Next]_vars PROVE Inductive'
  OBVIOUS
<1>t. TypeOK' /\ TypeOK /\ Program
  BY Parts, TypeKept
<1>1. ASSUME NEW s \in Sessions, NEW i \in Identities, Materialise(s, i) PROVE Inductive'
  BY <1>1, <1>t, QuietKept, StoreAssumption DEF Materialise, Program, disk, TypeOK
<1>2. ASSUME NEW s \in Sessions, Begin(s) PROVE Inductive'
  BY <1>2, <1>t, QuietKept, StoreAssumption DEF Begin, Program, TypeOK
<1>3. CASE Store BY <1>3, <1>t, StoreKept
<1>4. CASE Throws \/ Crash BY <1>4, <1>t, CutKept
<1>5. CASE UNCHANGED vars
  BY <1>5, <1>t, QuietKept, StoreAssumption DEF vars, disk, Program, I, Ok, TypeOK
<1> QED BY <1>1, <1>2, <1>3, <1>4, <1>5 DEF Next

\* The disk states snapshotRetour may leave are those of the inductive invariant.
THEOREM InductiveHolds == Spec => []Inductive
<1> QED BY InitInductive, StepInductive, PTL DEF Spec

\* A half written directory never has the name of an identity (snapshotRetour).
THEOREM VaultWholeHolds == Spec => []VaultWhole
<1>1. Inductive => VaultWhole
  BY Parts
<1> QED BY <1>1, InductiveHolds, PTL

\* No cut loses what snapshotRetour acknowledged from the disk.
THEOREM RecoverableHolds == Spec => []Recoverable
<1>1. Inductive => Recoverable
  BY Parts
<1> QED BY <1>1, InductiveHolds, PTL

\* Nothing over the ceiling of one identity ever enters the vault (verdictSnapshot).
THEOREM CeilingHolds == Spec => []CeilingKept
<1>1. Inductive => CeilingKept
  BY Parts
<1> QED BY <1>1, InductiveHolds, PTL

(* What is beside the vault while nothing was cut.                         *)
Bare(i) == identity[i] = acked[i] /\ \A p \in Pids : tmp[i][p] = Absent /\ old[i][p] = Absent
Tidy ==
  ~cut => /\ at = "idle" => \A i \in Identities : Bare(i)
          /\ \A i \in Identities : i # I => Bare(i)
          /\ \A p \in Pids : p # pid => tmp[I][p] = Absent /\ old[I][p] = Absent
          /\ at \in {"mkdir", "clean"} => tmp[I][pid] = Absent
          /\ at \in {"mkdir", "copy", "verdict", "purge", "away"} =>
               old[I][pid] = Absent /\ identity[I] = acked[I]

\* Every step of snapshotRetour leaves the rest of the vault tidy.
LEMMA TidyKept == Inductive /\ Tidy /\ [Next]_vars => Tidy'
<1> SUFFICES ASSUME Inductive, Tidy, [Next]_vars PROVE Tidy'
  OBVIOUS
<1>0. TypeOK /\ Program /\ I \in Identities
  BY Parts DEF TypeOK, I
<1>1. ASSUME NEW s \in Sessions, Begin(s) PROVE Tidy'
  <2>1. at = "idle" /\ at' = "mkdir" /\ I' = of[s] /\ of[s] \in Identities
    BY <1>0, <1>1 DEF Begin, I, TypeOK
  <2>2. tmp' = [tmp EXCEPT ![of[s]][pid] = Absent]
        /\ UNCHANGED <<identity, old, acked, pid, cut>>
    BY <1>1 DEF Begin
  <2>3. \A i \in Identities, p \in Pids : tmp'[i][p] = Absent \/ tmp'[i][p] = tmp[i][p]
    BY <1>0, <2>2 DEF TypeOK
  <2>4. ~cut => \A i \in Identities : Bare(i)'
    BY <2>1, <2>2, <2>3 DEF Tidy, Bare
  <2> QED BY <1>0, <2>1, <2>2, <2>4 DEF Tidy, Bare, TypeOK
<1>2. ASSUME NEW s \in Sessions, NEW i \in Identities, Materialise(s, i) PROVE Tidy'
  <2>1. at = "idle" /\ at' = "idle" /\ UNCHANGED <<identity, tmp, old, acked, pid, cut>>
    BY <1>2 DEF Materialise, disk
  <2>2. I' \in Identities /\ pid \in Pids
    BY <1>0, <1>2 DEF Materialise, I, TypeOK
  <2> QED BY <2>1, <2>2 DEF Tidy, Bare
<1>3. ASSUME Mkdir \/ Copy PROVE Tidy'
  <2>1. /\ UNCHANGED <<identity, old, acked, pid, cut>> /\ I' = I
        /\ at \in {"mkdir", "copy"} /\ at' \in {"copy", "verdict"}
        /\ \E c : tmp' = [tmp EXCEPT ![I][pid] = c]
    BY <1>3 DEF Mkdir, Copy, Goto, Put, I
  <2>2. \A i \in Identities, p \in Pids : i # I \/ p # pid => tmp'[i][p] = tmp[i][p]
    BY <1>0, <2>1 DEF TypeOK
  <2> QED BY <1>0, <2>1, <2>2 DEF Tidy, Bare
<1>4. ASSUME Refuse PROVE Tidy'
  <2>1. /\ UNCHANGED <<identity, old, acked, pid, cut>> /\ I' = I
        /\ at = "verdict" /\ at' = "idle" /\ tmp' = [tmp EXCEPT ![I][pid] = Absent]
    BY <1>4 DEF Refuse, Put, I
  <2>2. \A i \in Identities, p \in Pids :
          tmp'[i][p] = IF i = I /\ p = pid THEN Absent ELSE tmp[i][p]
    BY <1>0, <2>1 DEF TypeOK
  <2>3. ~cut => \A i \in Identities : Bare(i)'
    BY <1>0, <2>1, <2>2 DEF Tidy, Bare
  <2> QED BY <1>0, <2>1, <2>3 DEF Tidy, Bare, TypeOK
<1>5. ASSUME Accept PROVE Tidy'
  <2>1. /\ UNCHANGED <<identity, tmp, old, acked, pid, cut>> /\ I' = I
        /\ at = "verdict" /\ at' \in {"purge", "enter"}
    BY <1>5 DEF Accept, Goto, I, disk
  <2> QED BY <2>1 DEF Tidy, Bare
<1>6. ASSUME Purge PROVE Tidy'
  <2>1. /\ UNCHANGED <<identity, tmp, acked, pid, cut>> /\ I' = I
        /\ at = "purge" /\ at' = "away" /\ old' = [old EXCEPT ![I][pid] = Absent]
    BY <1>6 DEF Purge, Goto, Put, I
  <2>2. \A i \in Identities, p \in Pids :
          old'[i][p] = IF i = I /\ p = pid THEN Absent ELSE old[i][p]
    BY <1>0, <2>1 DEF TypeOK
  <2> QED BY <1>0, <2>1, <2>2 DEF Tidy, Bare, TypeOK
<1>7. ASSUME Away PROVE Tidy'
  <2>1. /\ UNCHANGED <<tmp, acked, pid, cut>> /\ I' = I /\ at = "away" /\ at' = "enter"
        /\ old' = [old EXCEPT ![I][pid] = identity[I]]
        /\ identity' = [identity EXCEPT ![I] = Absent]
    BY <1>7 DEF Away, Goto, Put, I
  <2>2. \A i \in Identities : i # I => identity'[i] = identity[i]
    BY <1>0, <2>1 DEF TypeOK
  <2>3. \A i \in Identities, p \in Pids : i # I \/ p # pid => old'[i][p] = old[i][p]
    BY <1>0, <2>1 DEF TypeOK
  <2> QED BY <1>0, <2>1, <2>2, <2>3 DEF Tidy, Bare
<1>8. ASSUME Enter PROVE Tidy'
  <2>1. /\ UNCHANGED <<old, acked, pid, cut>> /\ I' = I /\ at = "enter" /\ at' = "clean"
        /\ tmp' = [tmp EXCEPT ![I][pid] = Absent]
        /\ identity' = [identity EXCEPT ![I] = tmp[I][pid]]
    BY <1>8 DEF Enter, Goto, Put, I
  <2>2. \A i \in Identities : i # I => identity'[i] = identity[i]
    BY <1>0, <2>1 DEF TypeOK
  <2>3. \A i \in Identities, p \in Pids :
          tmp'[i][p] = IF i = I /\ p = pid THEN Absent ELSE tmp[i][p]
    BY <1>0, <2>1 DEF TypeOK
  <2> QED BY <1>0, <2>1, <2>2, <2>3 DEF Tidy, Bare, TypeOK
<1>9. ASSUME Clean PROVE Tidy'
  <2>1. /\ UNCHANGED <<identity, tmp, pid, cut>> /\ I' = I /\ at = "clean" /\ at' = "idle"
        /\ old' = [old EXCEPT ![I][pid] = Absent] /\ acked' = [acked EXCEPT ![I] = last]
    BY <1>9 DEF Clean, Put, I
  <2>2. identity[I] = last
    BY <1>0, <2>1 DEF Program
  <2>3. \A i \in Identities : acked'[i] = IF i = I THEN last ELSE acked[i]
    BY <1>0, <2>1 DEF TypeOK
  <2>4. \A i \in Identities, p \in Pids :
          old'[i][p] = IF i = I /\ p = pid THEN Absent ELSE old[i][p]
    BY <1>0, <2>1 DEF TypeOK
  <2>5. ~cut => \A i \in Identities : Bare(i)'
    BY <1>0, <2>1, <2>2, <2>3, <2>4 DEF Tidy, Bare
  <2> QED BY <1>0, <2>1, <2>5 DEF Tidy, Bare, TypeOK
<1>10. ASSUME Throws PROVE Tidy'
  BY <1>10 DEF Throws, Tidy
<1>11. ASSUME Crash PROVE Tidy'
  <2>1. at # "idle" => cut'
    BY <1>11 DEF Crash
  <2>2. CASE at = "idle"
    <3>1. UNCHANGED <<identity, tmp, old, acked, cut>> /\ I' = I /\ at' = "idle"
      BY <1>0, <1>11, <2>2 DEF Crash, Half, I, TypeOK
    <3> QED BY <1>0, <2>2, <3>1 DEF Tidy, Bare
  <2> QED BY <2>1, <2>2 DEF Tidy
<1>12. CASE UNCHANGED vars
  BY <1>12 DEF vars, disk, Tidy, Bare, I
<1> QED BY <1>1, <1>2, <1>3, <1>4, <1>5, <1>6, <1>7, <1>8, <1>9, <1>10, <1>11, <1>12
        DEF Next, Store

\* Unless an operation was cut, the vault at rest is exactly what was acknowledged, with
\* nothing beside it (snapshotRetour, identity-store.js:149-190).
THEOREM CleanHolds == Spec => []CleanAtRest
<1>1. Init => Tidy
  BY DEF Init, Tidy, Bare, Absent, I
<1>2. Tidy => CleanAtRest
  BY DEF Tidy, Bare, CleanAtRest
<1> QED BY <1>1, <1>2, TidyKept, InductiveHolds, PTL DEF Spec

(* What is beside the vault is never newer than what is in it.             *)
Newest ==
  \A i \in Identities : \A p \in Pids :
    old[i][p] <= last /\ (identity[i] # Absent => old[i][p] <= identity[i])

(* For each whole copy of an identity there is, after a step, one as new.  *)
NoneOlder ==
  \A i \in Identities : \A c \in Copies(i) :
    Whole(c) => \E d \in Copies(i)' : Whole(d) /\ d >= c

NeverForgets == [][NoneOlder]_vars

\* A step that keeps each name, or empties an .old that something newer replaces.
LEMMA DropsOld ==
  ASSUME Inductive, Newest, identity' = identity, last' >= last, last' \in Int,
         \A i \in Identities, p \in Pids :
           \/ old'[i][p] = old[i][p]
           \/ identity[i] # Absent /\ old'[i][p] \in {Absent, Partial}
  PROVE  Newest' /\ NoneOlder
<1>1. \A i \in Identities : identity[i] \in Int /\ \A p \in Pids : old[i][p] \in Int
  BY Parts, StoreAssumption DEF TypeOK, Contents, Versions, Absent, Partial
<1>2. last \in Int
  BY Parts, StoreAssumption DEF TypeOK
<1>3. \A i \in Identities : identity[i] # Absent => Whole(identity[i]) /\ identity[i] > 0
  BY Parts, Numbers DEF TypeOK, VaultWhole, Contents, Whole
<1>4. Newest'
  <2> SUFFICES ASSUME NEW i \in Identities, NEW p \in Pids
               PROVE  old'[i][p] <= last' /\ (identity[i] # Absent => old'[i][p] <= identity[i])
    BY DEF Newest
  <2>1. CASE old'[i][p] = old[i][p]
    BY <1>1, <1>2, <2>1 DEF Newest
  <2>2. CASE identity[i] # Absent /\ old'[i][p] \in {Absent, Partial}
    <3>1. identity[i] > 0 /\ identity[i] <= last
      BY <1>3, <2>2, Parts DEF Bound
    <3> QED BY <1>1, <1>2, <2>2, <3>1 DEF Absent, Partial
  <2> QED BY <2>1, <2>2
<1>5. NoneOlder
  <2> SUFFICES ASSUME NEW i \in Identities, NEW c \in Copies(i), Whole(c)
               PROVE  \E d \in Copies(i)' : Whole(d) /\ d >= c
    BY DEF NoneOlder
  <2>1. c \in Int
    BY <1>1 DEF Copies
  <2>2. CASE c = identity[i]
    BY <2>1, <2>2 DEF Copies
  <2>3. ASSUME NEW p \in Pids, c = old[i][p] PROVE \E d \in Copies(i)' : Whole(d) /\ d >= c
    <3>1. CASE old'[i][p] = old[i][p]
      BY <2>1, <2>3, <3>1 DEF Copies
    <3>2. CASE identity[i] # Absent
      <4>1. identity[i] \in Copies(i)' /\ Whole(identity[i])
        BY <1>3, <3>2 DEF Copies
      <4>2. identity[i] >= c
        BY <1>1, <2>3, <3>2 DEF Newest
      <4> QED BY <4>1, <4>2
    <3> QED BY <3>1, <3>2
  <2> QED BY <2>2, <2>3 DEF Copies
<1> QED BY <1>4, <1>5

\* Each rename puts something at least as new where the next session will find it, or leaves
\* it beside.
LEMMA RenamesKeep ==
  ASSUME Inductive, Newest, Away \/ Enter
  PROVE  Newest' /\ NoneOlder
<1>0. /\ TypeOK /\ Program /\ I \in Identities /\ pid \in Pids /\ last \in Nat /\ last > 0
      /\ last' = last
  BY Parts, StoreAssumption DEF TypeOK, I, Program, Away, Enter, Goto
<1>1. \A i \in Identities : identity[i] \in Int /\ \A p \in Pids : old[i][p] \in Int
  BY <1>0, StoreAssumption DEF TypeOK, Contents, Versions, Absent, Partial
<1>2. Whole(last)
  BY <1>0, Numbers DEF TypeOK, Whole
<1>3. CASE Away
  <2>1. /\ at = "away" /\ old' = [old EXCEPT ![I][pid] = identity[I]]
        /\ identity' = [identity EXCEPT ![I] = Absent]
    BY <1>3 DEF Away, Goto, Put
  <2>2. /\ \A i \in Identities : identity'[i] = IF i = I THEN Absent ELSE identity[i]
        /\ \A i \in Identities, p \in Pids :
             old'[i][p] = IF i = I /\ p = pid THEN identity[I] ELSE old[i][p]
    BY <1>0, <2>1 DEF TypeOK
  <2>3. identity[I] # Absent /\ identity[I] <= last
    BY <1>0, <2>1, Parts DEF Program, Bound
  <2>4. Newest'
    BY <1>0, <2>2, <2>3 DEF Newest
  <2>5. ASSUME NEW i \in Identities, NEW c \in Copies(i), Whole(c)
        PROVE  \E d \in Copies(i)' : Whole(d) /\ d >= c
    <3>1. c \in Int
      BY <1>1 DEF Copies
    <3>2. CASE i # I \/ (\E p \in Pids \ {pid} : c = old[i][p])
      <4>1. c \in Copies(i)'
        BY <2>2, <2>5, <3>2 DEF Copies
      <4> QED BY <2>5, <3>1, <4>1
    <3>3. CASE i = I /\ c \in {identity[I], old[I][pid]}
      <4>1. identity[I] \in Copies(i)' /\ identity[I] >= c
        BY <1>0, <1>1, <2>2, <2>3, <3>3 DEF Copies, Newest
      <4>2. Whole(identity[I])
        BY <1>0, <2>3, Parts DEF TypeOK, VaultWhole, Contents, Whole
      <4> QED BY <4>1, <4>2
    <3> QED BY <3>2, <3>3 DEF Copies
  <2> QED BY <2>4, <2>5 DEF NoneOlder
<1>4. CASE Enter
  <2>1. at = "enter" /\ UNCHANGED old /\ identity' = [identity EXCEPT ![I] = tmp[I][pid]]
    BY <1>4 DEF Enter, Goto
  <2>2. \A i \in Identities : identity'[i] = IF i = I THEN last ELSE identity[i]
    BY <1>0, <2>1 DEF TypeOK, Program
  <2>3. Newest'
    BY <1>0, <2>1, <2>2 DEF Newest
  <2>4. ASSUME NEW i \in Identities, NEW c \in Copies(i), Whole(c)
        PROVE  \E d \in Copies(i)' : Whole(d) /\ d >= c
    <3>1. c \in Int
      BY <1>1 DEF Copies
    <3>2. CASE c = identity[i] /\ i = I
      <4>1. last \in Copies(i)' /\ last >= c
        BY <1>0, <2>2, <3>2, Parts DEF Copies, Bound
      <4> QED BY <1>2, <4>1
    <3>3. CASE ~(c = identity[i] /\ i = I)
      <4>1. c \in Copies(i)'
        BY <2>1, <2>2, <2>4, <3>3 DEF Copies
      <4> QED BY <2>4, <3>1, <4>1
    <3> QED BY <3>2, <3>3
  <2> QED BY <2>3, <2>4 DEF NoneOlder
<1> QED BY <1>3, <1>4

\* Whatever is cut and wherever, the newest whole copy of an identity on disk never becomes
\* an older one (snapshotRetour, identity-store.js:141-144): also of what entered the vault
\* and was never acknowledged.
THEOREM NeverForgetsHolds == Spec => NeverForgets
<1>1. Init => Newest
  <2> SUFFICES ASSUME Init PROVE Newest
    OBVIOUS
  <2>1. last = 0 /\ \A i \in Identities : identity[i] = Absent /\ \A p \in Pids : old[i][p] = Absent
    BY DEF Init
  <2> QED BY <2>1 DEF Newest, Absent
<1>2. Inductive /\ Newest /\ [Next]_vars => Newest' /\ NoneOlder
  <2> SUFFICES ASSUME Inductive, Newest, [Next]_vars PROVE Newest' /\ NoneOlder
    OBVIOUS
  <2>0. TypeOK /\ Program /\ I \in Identities /\ pid \in Pids /\ last \in Int /\ last + 1 >= last
    BY Parts, StoreAssumption DEF TypeOK, I
  <2>1. CASE Away \/ Enter
    BY <2>1, RenamesKeep
  <2>2. CASE UNCHANGED <<identity, old>> /\ last' \in {last, last + 1}
    BY <2>0, <2>2, DropsOld
  <2>3. CASE Purge \/ Clean \/ Throws \/ Crash
    <3>1. identity' = identity /\ last' = last
      BY <2>3 DEF Purge, Clean, Throws, Crash, Half, Goto
    <3>2. \/ UNCHANGED old
          \/ at \in {"purge", "clean"} /\ \E c \in {Absent, Partial} : old' = Put(old, c)
      BY <2>3 DEF Purge, Clean, Throws, Crash, Half, Goto
    <3>3. at \in {"purge", "clean"} => identity[I] # Absent
      BY <2>0 DEF Program, Absent
    <3>4. \A i \in Identities, p \in Pids :
            \/ old'[i][p] = old[i][p]
            \/ identity[i] # Absent /\ old'[i][p] \in {Absent, Partial}
      BY <2>0, <3>2, <3>3 DEF Put, TypeOK
    <3> QED BY <2>0, <3>1, <3>4, DropsOld
  <2>4. CASE Mkdir \/ Copy \/ Refuse \/ Accept \/ UNCHANGED vars
    BY <2>2, <2>4 DEF Mkdir, Copy, Refuse, Accept, Goto, vars, disk
  <2>5. ASSUME NEW s \in Sessions, Begin(s) \/ \E i \in Identities : Materialise(s, i)
        PROVE  Newest' /\ NoneOlder
    BY <2>2, <2>5 DEF Begin, Materialise, disk
  <2> QED BY <2>1, <2>3, <2>4, <2>5 DEF Next, Store
<1>3. Inductive /\ Newest /\ [Next]_vars => [NoneOlder]_vars
  BY <1>2
<1> QED BY <1>1, <1>2, <1>3, InductiveHolds, PTL DEF Spec, NeverForgets
=============================================================================
