--------------------------- MODULE IdentityStore ---------------------------
(***************************************************************************)
(* The vault of identities (src/identity-store.js): how a session starts   *)
(* from the snapshot of its identity, and how it is stored back by         *)
(* snapshotRetour, whose disk operations a kill -9 or an error may cut     *)
(* anywhere.  snapshotRetour is synchronous: a daemon runs one at a time.  *)
(*                                                                         *)
(* A directory is Absent, Partial, or holds the version that was copied    *)
(* into it.  Sessions of other strategies never come here.                 *)
(***************************************************************************)
EXTENDS Integers

CONSTANTS
  Identities,
  Sessions,       \* ids of sessions, reused
  Sizes,          \* what a version may weigh
  MaxPerIdentity, \* maxParIdentiteMo
  MaxVersions,    \* bound: attempts to store a session
  MaxPids         \* bound: daemons, one after the other

Absent == 0
Partial == -1
NoSession == -2

ASSUME StoreAssumption ==
  /\ MaxVersions \in Nat /\ MaxPids \in Nat \ {0}
  /\ Sizes \subseteq Nat /\ MaxPerIdentity \in Nat

VARIABLES
  identity, \* storeDir/<identity>
  tmp,      \* <identity>.tmp-<pid>
  old,      \* <identity>.old-<pid>
  size,     \* what each version weighs
  base,     \* the version each session started from (Absent: a new profile), or NoSession
  of,       \* the identity of each session
  at,       \* the next operation of snapshotRetour
  saved,    \* the session it stores
  last,     \* its version: the last one
  acked,    \* history: the last version snapshotRetour said ok of
  pid,      \* the daemon
  cut       \* history: an operation was cut by a crash or an error

disk == <<identity, tmp, old>>
vars == <<disk, size, base, of, at, saved, last, acked, pid, cut>>

Versions == 1..MaxVersions
Pids == 1..MaxPids
Contents == Versions \cup {Absent, Partial}
Whole(c) == c \in Versions

TypeOK ==
  /\ identity \in [Identities -> Contents]
  /\ tmp \in [Identities -> [Pids -> Contents]]
  /\ old \in [Identities -> [Pids -> Contents]]
  /\ size \in [Versions -> Sizes]
  /\ base \in [Sessions -> Contents \cup {NoSession}]
  /\ of \in [Sessions -> Identities]
  /\ at \in {"idle", "mkdir", "copy", "verdict", "purge", "away", "enter", "clean"}
  /\ saved \in Sessions /\ last \in 0..MaxVersions /\ pid \in Pids
  /\ acked \in [Identities -> 0..MaxVersions]
  /\ cut \in BOOLEAN

I == of[saved]   \* the identity being stored

Init ==
  /\ identity = [i \in Identities |-> Absent]
  /\ tmp = [i \in Identities |-> [p \in Pids |-> Absent]]
  /\ old = [i \in Identities |-> [p \in Pids |-> Absent]]
  /\ size \in [Versions -> Sizes]
  /\ base = [s \in Sessions |-> NoSession]
  /\ of \in [Sessions -> Identities]
  /\ at = "idle" /\ saved \in Sessions /\ last = 0 /\ pid = 1
  /\ acked = [i \in Identities |-> 0]
  /\ cut = FALSE

\* materialiser, strategy snapshot: an identity not in the vault is born blank
Materialise(s, i) ==
  /\ at = "idle" /\ base[s] = NoSession
  /\ base' = [base EXCEPT ![s] = identity[i]]
  /\ of' = [of EXCEPT ![s] = i]
  /\ UNCHANGED <<disk, size, at, saved, last, acked, pid, cut>>

---------------------------------------------------------------------------
(* snapshotRetour.                                                         *)

Put(dir, c) == [dir EXCEPT ![I][pid] = c]
Goto(there) == at' = there /\ UNCHANGED <<size, base, of, saved, last, acked, pid, cut>>

\* the .tmp of this pid is removed
Begin(s) ==
  /\ at = "idle" /\ base[s] # NoSession /\ last < MaxVersions
  /\ saved' = s /\ last' = last + 1 /\ at' = "mkdir"
  /\ tmp' = [tmp EXCEPT ![of[s]][pid] = Absent]
  /\ UNCHANGED <<identity, old, size, base, of, acked, pid, cut>>

Mkdir ==
  /\ at = "mkdir" /\ Goto("copy")
  /\ tmp' = Put(tmp, Partial)
  /\ UNCHANGED <<identity, old>>

\* mutant: the copy is made in place
Copy_InPlace ==
  /\ at = "copy" /\ Goto("verdict")
  /\ identity' = [identity EXCEPT ![I] = Partial]
  /\ tmp' = Put(tmp, last)
  /\ UNCHANGED old

\* copierFiltre
Copy ==
  /\ at = "copy" /\ Goto("verdict")
  /\ tmp' = Put(tmp, last)
  /\ UNCHANGED <<identity, old>>

Ok == size[last] <= MaxPerIdentity   \* verdictSnapshot

\* too big: the session is lost, the previous snapshot stays
Refuse ==
  /\ at = "verdict" /\ ~Ok
  /\ tmp' = Put(tmp, Absent)
  /\ at' = "idle" /\ base' = [base EXCEPT ![saved] = NoSession]
  /\ UNCHANGED <<identity, old, size, of, saved, last, acked, pid, cut>>

Accept ==
  /\ at = "verdict" /\ Ok
  /\ Goto(IF identity[I] # Absent THEN "purge" ELSE "enter")
  /\ UNCHANGED disk

\* the .old of an earlier crash is removed
Purge ==
  /\ at = "purge" /\ Goto("away")
  /\ old' = Put(old, Absent)
  /\ UNCHANGED <<identity, tmp>>

\* mutant: the previous snapshot is removed, not renamed
Away_Deletes ==
  /\ at = "away" /\ Goto("enter")
  /\ identity' = [identity EXCEPT ![I] = Absent]
  /\ UNCHANGED <<tmp, old>>

Away ==
  /\ at = "away" /\ Goto("enter")
  /\ old' = Put(old, identity[I])
  /\ identity' = [identity EXCEPT ![I] = Absent]
  /\ UNCHANGED tmp

Enter ==
  /\ at = "enter" /\ Goto("clean")
  /\ identity' = [identity EXCEPT ![I] = tmp[I][pid]]
  /\ tmp' = Put(tmp, Absent)
  /\ UNCHANGED old

\* the .old is removed; the metadata file may fail, the answer is ok anyway
Clean ==
  /\ at = "clean"
  /\ old' = Put(old, Absent)
  /\ acked' = [acked EXCEPT ![I] = last]
  /\ at' = "idle" /\ base' = [base EXCEPT ![saved] = NoSession]
  /\ UNCHANGED <<identity, tmp, size, of, saved, last, pid, cut>>

---------------------------------------------------------------------------
(* What may cut it.                                                        *)

Store == Mkdir \/ Copy \/ Refuse \/ Accept \/ Purge \/ Away \/ Enter \/ Clean

\* a rename is done or not; a removal may stop half way
Half ==
  /\ UNCHANGED identity
  /\ \/ UNCHANGED <<tmp, old>>
     \/ at = "verdict" /\ ~Ok /\ tmp' = Put(tmp, Partial) /\ UNCHANGED old
     \/ at \in {"purge", "clean"} /\ old[I][pid] # Absent
        /\ old' = Put(old, Partial) /\ UNCHANGED tmp

\* an operation throws: the session is lost, its directory left where it is
Throws ==
  /\ at # "idle" /\ Half
  /\ at' = "idle" /\ base' = [base EXCEPT ![saved] = NoSession] /\ cut' = TRUE
  /\ UNCHANGED <<size, of, saved, last, acked, pid>>

\* kill -9, and another daemon: the instances of the first one are gone
Crash ==
  /\ pid < MaxPids /\ Half
  /\ pid' = pid + 1
  /\ at' = "idle" /\ base' = [s \in Sessions |-> NoSession]
  /\ cut' = (cut \/ at # "idle")
  /\ UNCHANGED <<size, of, saved, last, acked>>

Next ==
  \/ \E s \in Sessions : Begin(s) \/ \E i \in Identities : Materialise(s, i)
  \/ Store \/ Throws \/ Crash

Spec == Init /\ [][Next]_vars

---------------------------------------------------------------------------
(* Properties.                                                             *)

\* No crash and no error ever leaves a half written directory under the name of
\* an identity: a session never starts from one (materialiser, snapshotRetour).
VaultWhole == \A i \in Identities : identity[i] # Partial

\* Whatever was cut, what snapshotRetour last acknowledged, or something stored
\* after it, is whole on disk, under the identity's name or as an .old directory.
Recoverable ==
  \A i \in Identities : acked[i] > 0 =>
    \E c \in {identity[i]} \cup {old[i][p] : p \in Pids} : Whole(c) /\ c >= acked[i]

\* What is in the vault passed verdictSnapshot, and an .old with it.
CeilingKept ==
  \A i \in Identities : \A c \in {identity[i]} \cup {old[i][p] : p \in Pids} :
    Whole(c) => size[c] <= MaxPerIdentity

\* Unless something was cut, a daemon at rest has in its vault what it last
\* acknowledged, a refused session included, and neither .tmp nor .old beside it.
CleanAtRest ==
  at = "idle" /\ ~cut => \A i \in Identities :
    /\ identity[i] = acked[i]
    /\ \A p \in Pids : tmp[i][p] = Absent /\ old[i][p] = Absent

\* The inductive invariant of IdentityStoreProofs.
Inductive ==
  /\ TypeOK
  /\ VaultWhole /\ CeilingKept
  /\ \A i \in Identities : identity[i] # Absent => identity[i] >= acked[i]
  /\ \A i \in Identities : acked[i] <= last /\ identity[i] <= last
  /\ Recoverable
  /\ at \in {"verdict", "purge", "away", "enter"} => tmp[I][pid] = last
  /\ at \in {"purge", "away", "enter"} => Ok
  /\ at \in {"purge", "away"} => identity[I] # Absent
  /\ at = "clean" => identity[I] = last
  /\ at # "idle" => last > 0
=============================================================================
