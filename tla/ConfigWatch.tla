---------------------------- MODULE ConfigWatch ----------------------------
(***************************************************************************)
(* The hot reload of profiles.json (src/config-watch.js), as the manager   *)
(* uses it: the system wakes, the content decides.  One verification reads *)
(* the file, again if another process holds it, and puts in force a content*)
(* that differs from the one in force and that _loadConfig accepts.        *)
(*                                                                         *)
(* Equal contents have equal hashes, so a hash is its content.             *)
(***************************************************************************)
EXTENDS Naturals

CONSTANTS
  Good,      \* contents _loadConfig accepts
  Bad,       \* contents it refuses, or that do not parse (half written)
  Retries,   \* Len(CONFIG_READ_RETRY_SCHEDULE_MS)
  Slots,     \* verifications that may be under way (the code holds one)
  MaxEdits   \* bound: saves of the file

ASSUME WatchAssumption ==
  /\ Good \cap Bad = {} /\ Good # {}
  /\ Retries \in Nat /\ MaxEdits \in Nat

VARIABLES
  file,    \* what profiles.json holds
  edits,   \* saves so far
  mode,    \* how the file is watched: "none" yet, "event", "polling"
  stat,    \* polling: saves seen by the last stat, or None before the first
  event,   \* the callback of the watch is due
  force,   \* the content in force, which hashCharge is the hash of
  since,   \* the save it came from
  check,   \* verifier in progress, by slot
  relance,
  closed,  \* ferme
  told,    \* the last save the operator was told may be lost (alerter)
  logged,  \* the last save that could not be read, of which only the log tells
  unheard  \* history: the last save that no wake followed

vars == <<file, edits, mode, stat, event, force, since, check, relance, closed, told, logged,
          unheard>>

Saves == 0..MaxEdits
None == MaxEdits + 1
Contents == Good \cup Bad
Checks == [at : {"off", "open", "pause", "read"}, try : 0..Retries, text : Contents,
           save : Saves]
Off == [at |-> "off", try |-> 0, text |-> force, save |-> since]
Running == {s \in Slots : check[s].at # "off"}   \* enCours

TypeOK ==
  /\ file \in Contents /\ edits \in Saves
  /\ mode \in {"none", "event", "polling"} /\ stat \in Saves \cup {None}
  /\ event \in BOOLEAN
  /\ force \in Good /\ since \in Saves
  /\ check \in [Slots -> Checks]
  /\ relance \in BOOLEAN /\ closed \in BOOLEAN
  /\ told \in Saves \cup {None} /\ logged \in Saves \cup {None}
  /\ unheard \in Saves \cup {None}

\* the manager has read the file, and does not watch it yet
Init ==
  /\ file \in Good /\ edits = 0
  /\ mode = "none" /\ stat = None /\ event = FALSE
  /\ force = file /\ since = 0
  /\ check = [s \in Slots |-> Off]
  /\ relance = FALSE /\ closed = FALSE
  /\ told = None /\ logged = None /\ unheard = None

---------------------------------------------------------------------------
(* Outside.                                                                *)

\* a save, a part of one, or another process that touches the file
Edit(text) ==
  /\ edits < MaxEdits /\ file' = text /\ edits' = edits + 1
  /\ event' = (event \/ (mode = "event" /\ ~closed))
  /\ unheard' = IF mode = "none" \/ (mode = "polling" /\ stat = None) THEN edits' ELSE unheard
  /\ UNCHANGED <<mode, stat, force, since, check, relance, closed, told, logged>>

\* fs.watchFile: the first stat is what the next ones are compared with
Poll ==
  /\ mode = "polling" /\ ~closed /\ stat # edits
  /\ stat' = edits /\ event' = (event \/ stat # None)
  /\ UNCHANGED <<file, edits, mode, force, since, check, relance, closed, told, logged, unheard>>

---------------------------------------------------------------------------
(* surveillerConfig.                                                       *)

Watch ==
  /\ mode = "none" /\ mode' = "event"
  /\ UNCHANGED <<file, edits, stat, event, force, since, check, relance, closed, told, logged, unheard>>

\* basculerSondage: fs.watch throws, or emits an error later; what it had to say goes with it
Fall ==
  /\ ~closed /\ mode # "polling" /\ mode' = "polling" /\ event' = FALSE
  /\ unheard' = IF event THEN edits ELSE unheard
  /\ UNCHANGED <<file, edits, stat, force, since, check, relance, closed, told, logged>>

Close ==
  /\ ~closed /\ mode # "none" /\ closed' = TRUE
  /\ UNCHANGED <<file, edits, mode, stat, event, force, since, check, relance, told, logged, unheard>>

Reading(s, n) == check' = [check EXCEPT ![s] = [Off EXCEPT !.at = "open", !.try = n]]

\* mutant: a wake during a verification starts another
Wake_Parallel(s) ==
  /\ event /\ event' = FALSE /\ ~closed /\ check[s].at = "off" /\ Reading(s, 0)
  /\ UNCHANGED <<file, edits, mode, stat, force, since, relance, closed, told, logged, unheard>>

\* mutant: a wake during a verification is forgotten
Wake_Deaf(s) ==
  /\ event /\ event' = FALSE
  /\ IF ~closed /\ Running = {} THEN Reading(s, 0) ELSE UNCHANGED check
  /\ UNCHANGED <<file, edits, mode, stat, force, since, relance, closed, told, logged, unheard>>

\* verifier: nothing once closed; N wakes during a verification make one more
Wake(s) ==
  /\ event /\ event' = FALSE
  /\ \/ closed /\ UNCHANGED <<check, relance>>
     \/ ~closed /\ Running = {} /\ Reading(s, 0) /\ UNCHANGED relance
     \/ ~closed /\ Running # {} /\ relance' = TRUE /\ UNCHANGED check
  /\ UNCHANGED <<file, edits, mode, stat, force, since, closed, told, logged, unheard>>

\* lireAvecRejeu: the file is read, in one piece
Read(s) ==
  /\ check[s].at = "open"
  /\ check' = [check EXCEPT ![s].at = "read", ![s].text = file, ![s].save = edits]
  /\ UNCHANGED <<file, edits, mode, stat, event, force, since, relance, closed, told, logged, unheard>>

\* the end of a turn of the loop
Again(s) ==
  /\ relance' = FALSE
  /\ IF relance /\ ~closed THEN Reading(s, 0) ELSE check' = [check EXCEPT ![s].at = "off"]

\* mutant: gives up without a word
Held_Silent(s) ==
  /\ check[s].at = "open"
  /\ IF check[s].try < Retries
       THEN check' = [check EXCEPT ![s].at = "pause"] /\ UNCHANGED relance
       ELSE Again(s)
  /\ UNCHANGED <<file, edits, mode, stat, event, force, since, closed, told, logged, unheard>>

\* another process holds the file: again, or give up and say so
Held(s) ==
  /\ check[s].at = "open"
  /\ IF check[s].try < Retries
       THEN check' = [check EXCEPT ![s].at = "pause"] /\ UNCHANGED <<relance, told>>
       ELSE Again(s) /\ told' = edits
  /\ UNCHANGED <<file, edits, mode, stat, event, force, since, closed, logged, unheard>>

\* any other error is not tried again, and only the log tells of it
Fatal(s) ==
  /\ check[s].at = "open" /\ Again(s) /\ logged' = edits
  /\ UNCHANGED <<file, edits, mode, stat, event, force, since, closed, told, unheard>>

Resume(s) ==
  /\ check[s].at = "pause" /\ Reading(s, check[s].try + 1)
  /\ UNCHANGED <<file, edits, mode, stat, event, force, since, relance, closed, told, logged, unheard>>

\* verdictLecture: another content, which parses; then onContenu must accept it
ToLoad(text) == text # force /\ text \in Good

\* verifier, after the reading
Decide(s) ==
  /\ check[s].at = "read" /\ Again(s)
  /\ IF ~closed /\ ToLoad(check[s].text)
       THEN force' = check[s].text /\ since' = check[s].save
       ELSE UNCHANGED <<force, since>>
  /\ UNCHANGED <<file, edits, mode, stat, event, closed, told, logged, unheard>>

---------------------------------------------------------------------------
Next ==
  \/ \E text \in Contents : Edit(text)
  \/ Poll \/ Watch \/ Fall \/ Close
  \/ \E s \in Slots : Wake(s) \/ Read(s) \/ Held(s) \/ Fatal(s) \/ Resume(s) \/ Decide(s)

Spec == Init /\ [][Next]_vars

\* the event loop runs what is due, reads end, timers fire; nobody has to save or to close
Fairness ==
  /\ WF_vars(Poll) /\ WF_vars(Watch)
  /\ \A s \in Slots : /\ WF_vars(Wake(s)) /\ WF_vars(Resume(s)) /\ WF_vars(Decide(s))
                      /\ WF_vars(Read(s) \/ Held(s) \/ Fatal(s))

LiveSpec == Spec /\ Fairness

---------------------------------------------------------------------------
(* Properties.                                                             *)

Quiet == ~closed /\ ~event /\ Running = {} /\ (mode = "polling" => stat = edits)

\* Once every wake was dealt with, a valid file is in force, unless the operator was told, or
\* an error that is not tried again left a line in the log, or its save woke nobody: it came
\* before the watch, with a watch that died, or before the first stat of the polling
\* (config-watch-pure.js: missing a change is not free).
InForce == Quiet /\ file \in Good => file = force \/ edits \in {told, logged, unheard}

\* Why InForce and NeverOlder hold: verifications come one at a time, what one has read is
\* not older than what is in force, and a reading that a save overtook is followed by
\* another; so a valid file that is not in force has a verification coming.
OneCheck == \A s, t \in Running : s = t
PausesEnd == \A s \in Slots : check[s].at = "pause" => check[s].try < Retries
ReadsAreRecent ==
  /\ since <= edits /\ (stat <= edits \/ stat = None)
  /\ \A s \in Slots : check[s].at = "read" =>
       /\ since <= check[s].save /\ check[s].save <= edits
       /\ check[s].save = edits => check[s].text = file
Due == event \/ relance \/ (mode = "polling" /\ stat # None /\ stat # edits)
Pending == Due \/ \E s \in Slots :
             check[s].at \in {"open", "pause"} \/ (check[s].at = "read" /\ check[s].save = edits)
Overtaken == \A s \in Slots :
  check[s].at = "read" /\ check[s].save # edits => Due \/ closed \/ unheard = edits
NothingMissed == ~closed /\ file \in Good /\ file # force => Pending \/ edits \in {told, logged, unheard}
AtBoot == mode = "none" => ~event /\ Running = {} /\ ~closed
Kept == Overtaken /\ NothingMissed

Inductive == /\ TypeOK
             /\ OneCheck
             /\ PausesEnd
             /\ ReadsAreRecent
             /\ AtBoot
             /\ relance => Running # {}
             /\ Kept

\* What is in force never goes back to an older save: verifications do not run in
\* parallel (config-watch.js: "une config PLUS ANCIENNE apres la plus recente").
NeverOlder == [][since' >= since]_vars

\* Nothing is loaded once the watch is closed, not even by a reading in flight (fermer).
NothingAfterClose == [][closed => force' = force]_vars

\* Every verification ends, retries included, and the wakes it coalesced are not lost: a valid
\* file that stays is in force in the end, unless the operator was told, an error that is not
\* tried again was logged, or no wake came.
Followed == <>[](file \in Good /\ ~closed => file = force \/ edits \in {told, logged, unheard})
=============================================================================
