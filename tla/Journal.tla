------------------------------ MODULE Journal ------------------------------
(***************************************************************************)
(* The journal (src/logger.js, log-rotate.js): proxies, daemon and         *)
(* guardians append to one file by its name and rotate it when it is full, *)
(* with no lock between them.  A step is one system call of one process;   *)
(* inside a process, log() is synchronous.                                 *)
(*                                                                         *)
(* All lines weigh the same, and a line is its number.  A file of no line  *)
(* and no file are one: only the truncated one is empty.                   *)
(***************************************************************************)
EXTENDS Naturals, FiniteSets

CONSTANTS
  Writers,     \* processes that log
  MaxBytes,    \* maxBytes, in lines
  MaxFiles,    \* generations kept: file, file.1, ...
  MaxLines,    \* bound: lines written
  MaxFailures  \* bound: system calls that fail, the lines lost by them included

ASSUME JournalAssumption ==
  /\ IsFiniteSet(Writers)
  /\ MaxBytes \in Nat \ {0} /\ MaxFiles \in Nat \ {0}
  /\ MaxLines \in Nat /\ MaxFailures \in Nat

VARIABLES
  gen,       \* the lines of each generation, 0 the file itself
  place,        \* each process's place in log()
  index,     \* the pairs of the rotation plan still to apply
  saying,     \* what it logs: a line, the echo of its cry, the end of an episode
  pertes,    \* lines lost since the last return to normal
  total,     \* pertesTotales
  criEmis,   \* the cry of this episode is out
  enCri,     \* a cry is being uttered
  admitted,  \* history: the total the journal itself has owned to
  heard,     \* history: a cry left the process since its last line was written
  muted,     \* history: the end of an episode was lost while it cried
  disturbed, \* history: two rotated at once, a rotation was refused, or the net truncated
  slipped,   \* history: times the file could be neither weighed nor emptied
  written,   \* lines written so far
  failures   \* failures so far

told == <<pertes, total, criEmis, enCri, admitted, heard, muted>>
journalVars == <<gen, place, index, saying, told, disturbed, slipped, written, failures>>

Generations == 0..(MaxFiles - 1)
Places == {"idle", "stat", "unlink", "rename", "recheck", "truncate", "append"}

JournalTypeOK ==
  /\ gen \in [Generations -> SUBSET (1..MaxLines)]
  /\ place \in [Writers -> Places]
  /\ index \in [Writers -> 0..MaxFiles]
  /\ saying \in [Writers -> {"line", "echo", "end"}]
  /\ pertes \in [Writers -> Nat] /\ total \in [Writers -> Nat]
  /\ criEmis \in [Writers -> BOOLEAN] /\ enCri \in [Writers -> BOOLEAN]
  /\ admitted \in [Writers -> Nat]
  /\ heard \in [Writers -> BOOLEAN] /\ muted \in [Writers -> BOOLEAN]
  /\ disturbed \in BOOLEAN /\ slipped \in Nat
  /\ written \in 0..MaxLines /\ failures \in 0..MaxFailures

\* bootLogger, initLogger, of every process
JournalInit ==
  /\ gen = [g \in Generations |-> {}]
  /\ place = [w \in Writers |-> "idle"]
  /\ index = [w \in Writers |-> 0]
  /\ saying = [w \in Writers |-> "line"]
  /\ pertes = [w \in Writers |-> 0] /\ total = [w \in Writers |-> 0]
  /\ criEmis = [w \in Writers |-> FALSE] /\ enCri = [w \in Writers |-> FALSE]
  /\ admitted = [w \in Writers |-> 0]
  /\ heard = [w \in Writers |-> FALSE] /\ muted = [w \in Writers |-> FALSE]
  /\ disturbed = FALSE /\ slipped = 0
  /\ written = 0 /\ failures = 0

Size(g) == Cardinality(gen[g])     \* _realSize
Goto(w, there) == place' = [place EXCEPT ![w] = there]
Rotating == {w \in Writers : place[w] \in {"unlink", "rename", "recheck", "truncate"}}
MayFail == failures < MaxFailures /\ failures' = failures + 1

---------------------------------------------------------------------------
(* One call of log(), and the rotation in it.                              *)

\* somebody has something to say: the process itself, or the server a guardian relays
Say(w) ==
  /\ place[w] = "idle" /\ Goto(w, "stat") /\ saying' = [saying EXCEPT ![w] = "line"]
  /\ UNCHANGED <<gen, index, told, disturbed, slipped, written, failures>>

\* mutant: the plan goes from the newest generation to the oldest
To_Ascending(k) == MaxFiles - k

\* rotationPlan, k pairs from its end: the oldest generation moves first, and there is no
\* pair when one file is kept
To(k) == k
From(k) == To(k) - 1

\* k pairs to go; after the last, the file is weighed again
Pair(w, k) ==
  /\ index' = [index EXCEPT ![w] = k]
  /\ Goto(w, IF k = 0 THEN "recheck" ELSE "unlink")

\* _realSize, shouldRotate: this line would pass the ceiling
Weigh(w) ==
  /\ place[w] = "stat"
  /\ IF Size(0) + 1 > MaxBytes
     THEN Pair(w, MaxFiles - 1) /\ disturbed' = (disturbed \/ Rotating # {})
     ELSE Goto(w, "append") /\ UNCHANGED <<index, disturbed>>
  /\ UNCHANGED <<gen, saying, told, slipped, written, failures>>

\* room for the rename: Windows refuses one over a file that exists
UnlinkTo(w) ==
  /\ place[w] = "unlink" /\ Goto(w, "rename")
  /\ gen' = [gen EXCEPT ![To(index[w])] = {}]
  /\ UNCHANGED <<index, saying, told, disturbed, slipped, written, failures>>

Rename(w) ==
  LET k == index[w]
  IN /\ place[w] = "rename" /\ Pair(w, k - 1)
     /\ gen' = IF gen[From(k)] = {} THEN gen
               ELSE [gen EXCEPT ![To(k)] = gen[From(k)], ![From(k)] = {}]
     /\ UNCHANGED <<saying, told, disturbed, slipped, written, failures>>

\* another process holds the file: the error is swallowed, the plan goes on; a file that
\* cannot be weighed weighs nothing
Refused(w) ==
  /\ MayFail /\ disturbed' = TRUE
  /\ \/ place[w] = "unlink" /\ Goto(w, "rename") /\ UNCHANGED <<index, slipped>>
     \/ place[w] = "rename" /\ Pair(w, index[w] - 1) /\ UNCHANGED slipped
     \/ /\ place[w] \in {"stat", "recheck", "truncate"} /\ Goto(w, "append")
        /\ slipped' = slipped + 1 /\ UNCHANGED index
  /\ UNCHANGED <<gen, saying, told, written>>

\* mutant: the file that survived its rotation is not weighed again
Recheck_Trusts(w) ==
  /\ place[w] = "recheck" /\ Goto(w, "append")
  /\ UNCHANGED <<gen, index, saying, told, disturbed, slipped, written, failures>>

\* the net: what survived the plan and is too big is emptied
Recheck(w) ==
  /\ place[w] = "recheck"
  /\ Goto(w, IF Size(0) > MaxBytes THEN "truncate" ELSE "append")
  /\ UNCHANGED <<gen, index, saying, told, disturbed, slipped, written, failures>>

Truncate(w) ==
  /\ place[w] = "truncate" /\ Goto(w, "append")
  /\ gen' = [gen EXCEPT ![0] = {}]
  /\ disturbed' = TRUE
  /\ UNCHANGED <<index, saying, told, slipped, written, failures>>

\* what is being said is said, in the journal or not: the chain of log() unwinds
Unwind(w) ==
  /\ Goto(w, "idle") /\ enCri' = [enCri EXCEPT ![w] = FALSE]
  /\ UNCHANGED saying

\* one more log() before this one returns
Then(w, what) == Goto(w, "stat") /\ saying' = [saying EXCEPT ![w] = what]

\* mutant: the cry is not armed again
Recovered_Once(w) == UNCHANGED criEmis

\* the episode is over: the next one is cried again
Recovered(w) == criEmis' = [criEmis EXCEPT ![w] = FALSE]

\* appendFileSync, and the return to normal
AppendLine(w) ==
  /\ place[w] = "append" /\ written < MaxLines
  /\ written' = written + 1
  /\ gen' = [gen EXCEPT ![0] = @ \cup {written + 1}]
  /\ heard' = [heard EXCEPT ![w] = FALSE]
  /\ admitted' = IF saying[w] = "end" THEN [admitted EXCEPT ![w] = total[w]] ELSE admitted
  /\ IF pertes[w] > 0
     THEN /\ pertes' = [pertes EXCEPT ![w] = 0] /\ Recovered(w)
          /\ Then(w, "end") /\ UNCHANGED enCri
     ELSE Unwind(w) /\ UNCHANGED <<pertes, criEmis>>
  /\ UNCHANGED <<index, total, muted, disturbed, slipped, failures>>

\* a full disk, a path that is gone: the line is lost, counted unless it is the echo of
\* the cry, and cried once
AppendFails(w) ==
  /\ place[w] = "append" /\ MayFail
  /\ IF enCri[w] THEN UNCHANGED <<pertes, total>>
     ELSE /\ pertes' = [pertes EXCEPT ![w] = @ + 1]
          /\ total' = [total EXCEPT ![w] = @ + 1]
  /\ IF criEmis[w] THEN Unwind(w) /\ UNCHANGED <<criEmis, heard>>
     ELSE /\ criEmis' = [criEmis EXCEPT ![w] = TRUE]
          /\ enCri' = [enCri EXCEPT ![w] = TRUE]
          /\ heard' = [heard EXCEPT ![w] = TRUE]        \* onPerte, then alert
          /\ Then(w, "echo")                            \* alert() begins with log()
  /\ muted' = [muted EXCEPT ![w] = @ \/ (saying[w] = "end" /\ enCri[w])]
  /\ UNCHANGED <<gen, index, admitted, disturbed, slipped, written>>

JournalNext ==
  \E w \in Writers :
    \/ Say(w) \/ Weigh(w) \/ UnlinkTo(w) \/ Rename(w) \/ Refused(w) \/ Recheck(w)
    \/ Truncate(w) \/ AppendLine(w) \/ AppendFails(w)

JournalSpec == JournalInit /\ [][JournalNext]_journalVars

---------------------------------------------------------------------------
(* Properties.                                                             *)

\* No generation passes its ceiling by more than a line for each process, and one each time
\* the net itself slipped, whatever rotations overlap and renames are refused: the disk is
\* bounded "quel que soit le nombre de proxys concurrents" (logger.js:86).
Bounded == \A g \in Generations : Size(g) <= MaxBytes + Cardinality(Writers) + slipped

\* A rotation that nobody disturbs costs only the oldest lines: those of all the archives
\* but one, and the file's, are kept (log-rotate.js:14-15).  Two rotations at once remove
\* an archive that has just been made, and the net removes what it truncates.
NewestKept ==
  ~disturbed => \A n \in 1..written :
    n > written - MaxBytes * (MaxFiles - 1) => \E g \in Generations : n \in gen[g]

\* What is lost is told: while lines are lost somebody heard a cry, and once lines are
\* written again the journal owns to every loss (logger.js:15-21, 108-110).  A flicker
\* escapes: the end of an episode lost while the process still cries (muted).
LossIsTold ==
  \A w \in Writers : place[w] = "idle" /\ ~muted[w] =>
    IF pertes[w] > 0 THEN heard[w] ELSE admitted[w] = total[w]
=============================================================================
