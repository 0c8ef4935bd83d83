------------------------- MODULE ConfigWatchProofs -------------------------
(* What is in force follows the file and never goes back, for any number   *)
(* of saves, retries and slots.                                            *)
EXTENDS ConfigWatch, TLAPS

USE DEF Saves, None, Contents

(* What Inductive says beside the types.                                   *)
Reads == OneCheck /\ PausesEnd /\ ReadsAreRecent /\ AtBoot /\ (relance => Running # {})

LEMMA Parts == Inductive <=> TypeOK /\ Reads /\ Kept
  BY DEF Inductive, Reads

LEMMA PartsNext == TypeOK' /\ Reads' /\ Kept' => Inductive'
  BY DEF Inductive, Reads

LEMMA InitInductive == Init => Inductive
<1> SUFFICES ASSUME Init PROVE Inductive
  OBVIOUS
<1> USE WatchAssumption
<1>1. TypeOK
  <2>1. Off \in Checks
    BY DEF Init, Off, Checks
  <2>2. check \in [Slots -> Checks]
    BY <2>1 DEF Init
  <2>3. file \in Contents /\ force \in Good /\ edits \in Saves /\ since \in Saves
    BY DEF Init
  <2>4. event \in BOOLEAN /\ relance \in BOOLEAN /\ closed \in BOOLEAN
    BY DEF Init
  <2>5. /\ mode \in {"none", "event", "polling"} /\ stat = None
        /\ told = None /\ logged = None /\ unheard = None
    BY DEF Init
  <2> QED BY <2>2, <2>3, <2>4, <2>5 DEF TypeOK
<1>2. \A s \in Slots : check[s].at = "off"
  BY DEF Init, Off
<1>3. Reads
  BY <1>2 DEF Init, Reads, OneCheck, PausesEnd, ReadsAreRecent, AtBoot, Running
<1>4. Kept
  BY <1>2 DEF Init, Kept, Overtaken, NothingMissed
<1> QED BY <1>1, <1>3, <1>4, Parts

\* One slot moves; a reading that begins has read nothing.
LEMMA MoveIs ==
  ASSUME NEW s \in Slots, TypeOK, NEW c \in Checks, check' = [check EXCEPT ![s] = c]
  PROVE  /\ check' \in [Slots -> Checks] /\ check'[s] = c
         /\ \A t \in Slots \ {s} : check'[t] = check[t]
  BY DEF TypeOK

LEMMA ReadingIs ==
  ASSUME NEW s \in Slots, TypeOK, NEW n \in 0..Retries, Reading(s, n)
  PROVE  /\ check' \in [Slots -> Checks] /\ check'[s].at = "open"
         /\ \A t \in Slots \ {s} : check'[t] = check[t]
<1> DEFINE c == [Off EXCEPT !.at = "open", !.try = n]
<1>1. c \in Checks /\ c.at = "open"
  BY WatchAssumption DEF Off, Checks, TypeOK
<1>2. check' = [check EXCEPT ![s] = c]
  BY DEF Reading
<1> HIDE DEF c
<1> QED BY <1>1, <1>2, MoveIs

\* Saves, the polling, the watch and its end keep the invariant.
LEMMA OutsideKept ==
  ASSUME Inductive, (\E text \in Contents : Edit(text)) \/ Poll \/ Watch \/ Fall \/ Close
  PROVE Inductive'
<1>t. TypeOK /\ Reads /\ Kept
  BY Parts
<1> USE <1>t, WatchAssumption DEF Running
<1>1. CASE \E text \in Contents : Edit(text)
  <2>p. PICK text \in Contents : Edit(text)
    BY <1>1
  <2>0. event' \in BOOLEAN
    BY <2>p DEF Edit
  <2>1. TypeOK'
    <3>1. file' \in Contents /\ edits' \in Saves
      BY <2>p DEF Edit, TypeOK
    <3>2. UNCHANGED <<mode, stat, force, since, check, relance, closed, told, logged>>
      BY <2>p DEF Edit
    <3>3. unheard' \in Saves \cup {None}
      BY <2>p DEF Edit, TypeOK
    <3> QED BY <2>0, <3>1, <3>2, <3>3 DEF TypeOK
  <2>2. Reads'
    <3>1. OneCheck' /\ PausesEnd' BY <2>p DEF Reads, OneCheck, PausesEnd, Edit
    <3>2. ReadsAreRecent' BY <2>p DEF Reads, ReadsAreRecent, Edit, TypeOK, Checks
    <3>3. AtBoot' BY <2>p DEF Reads, AtBoot, Edit
    <3>4. relance' => Running' # {} BY <2>p DEF Reads, Edit
    <3> QED BY <3>1, <3>2, <3>3, <3>4 DEF Reads
  <2>d. Due' \/ closed' \/ unheard' = edits'
    <3>1. CASE mode = "event"
      BY <2>p, <3>1 DEF Edit, Due
    <3>2. CASE mode = "none" \/ (mode = "polling" /\ stat = None)
      BY <2>p, <3>2 DEF Edit
    <3>3. CASE mode = "polling" /\ stat # None
      <4>1. stat <= edits /\ edits' = edits + 1 /\ stat' = stat /\ mode' = mode
        BY <2>p, <3>3 DEF Edit, Reads, ReadsAreRecent
      <4>2. stat \in Nat /\ edits \in Nat
        BY DEF TypeOK
      <4> QED BY <3>3, <4>1, <4>2 DEF Due
    <3> QED BY <3>1, <3>2, <3>3 DEF TypeOK
  <2>3. Kept' BY <2>d DEF Kept, Overtaken, NothingMissed, Pending
  <2> QED BY <2>1, <2>2, <2>3, PartsNext
<1>2. CASE Poll \/ Watch \/ Fall \/ Close
  <2>1. TypeOK' BY <1>2 DEF TypeOK, Poll, Watch, Fall, Close
  <2>2. Reads'
    BY <1>2 DEF Reads, OneCheck, PausesEnd, ReadsAreRecent, AtBoot, TypeOK, Poll, Watch, Fall,
       Close
  <2>3. Kept'
    BY <1>2 DEF Kept, Overtaken, NothingMissed, Pending, Due, TypeOK, Poll, Watch, Fall, Close
  <2> QED BY <2>1, <2>2, <2>3, PartsNext
<1> QED BY <1>1, <1>2

\* The steps that begin or repeat a reading, and those that only move it.
LEMMA ReadingKept ==
  ASSUME NEW s \in Slots, Inductive, Wake(s) \/ Read(s) \/ Resume(s)
  PROVE Inductive'
<1>t. TypeOK /\ Reads /\ Kept
  BY Parts
<1> USE <1>t, WatchAssumption DEF Running
<1>1. CASE Wake(s)
  <2>1. CASE ~closed /\ Running = {}
    <3>0. /\ event /\ event' = FALSE /\ Reading(s, 0)
          /\ UNCHANGED <<file, edits, mode, stat, force, since, relance, closed, told, logged, unheard>>
      BY <1>1, <2>1 DEF Wake
    <3>1. /\ check' \in [Slots -> Checks] /\ check'[s].at = "open"
          /\ \A t \in Slots \ {s} : check'[t] = check[t]
      BY <3>0, ReadingIs
    <3>2. TypeOK' BY <3>0, <3>1 DEF TypeOK
    <3>3. Reads'
      BY <2>1, <3>0, <3>1 DEF Reads, OneCheck, PausesEnd, ReadsAreRecent, AtBoot, TypeOK
    <3>4. Kept' BY <2>1, <3>0, <3>1 DEF Kept, Overtaken, NothingMissed, Pending, Due, TypeOK
    <3> QED BY <3>2, <3>3, <3>4, PartsNext
  <2>2. CASE ~closed /\ Running # {}
    <3>0. /\ event' = FALSE /\ relance' = TRUE
          /\ UNCHANGED <<file, edits, mode, stat, check, force, since, closed, told, logged, unheard>>
      BY <1>1, <2>2 DEF Wake
    <3>2. TypeOK' BY <3>0 DEF TypeOK
    <3>3. Reads' BY <2>2, <3>0 DEF Reads, OneCheck, PausesEnd, ReadsAreRecent, AtBoot, TypeOK
    <3>4. Kept' BY <2>2, <3>0 DEF Kept, Overtaken, NothingMissed, Pending, Due, TypeOK
    <3> QED BY <3>2, <3>3, <3>4, PartsNext
  <2>3. CASE closed
    <3>0. /\ event' = FALSE
          /\ UNCHANGED <<file, edits, mode, stat, check, force, since>>
          /\ UNCHANGED <<relance, closed, told, logged, unheard>>
      BY <1>1, <2>3 DEF Wake
    <3>2. TypeOK' BY <3>0 DEF TypeOK
    <3>3. Reads' BY <3>0 DEF Reads, OneCheck, PausesEnd, ReadsAreRecent, AtBoot
    <3>4. Kept' BY <2>3, <3>0 DEF Kept, Overtaken, NothingMissed
    <3> QED BY <3>2, <3>3, <3>4, PartsNext
  <2> QED BY <2>1, <2>2, <2>3
<1>2. CASE Read(s)
  <2> DEFINE c == [check[s] EXCEPT !.at = "read", !.text = file, !.save = edits]
  <2>a. c \in Checks
    BY DEF TypeOK, Checks
  <2>b. check' = [check EXCEPT ![s] = c]
    BY <1>2 DEF Read, TypeOK, Checks
  <2>c. check' \in [Slots -> Checks]
    <3> HIDE DEF c
    <3> QED BY <2>a, <2>b, MoveIs
  <2>d. UNCHANGED <<file, edits, mode, stat, event, force, since, relance, closed, told, logged, unheard>>
    BY <1>2 DEF Read
  <2>1. TypeOK' BY <2>c, <2>d DEF TypeOK
  <2>2. Reads'
    BY <1>2 DEF Reads, OneCheck, PausesEnd, ReadsAreRecent, AtBoot, TypeOK, Checks, Read
  <2>3. Kept' BY <1>2 DEF Kept, Overtaken, NothingMissed, Pending, Due, TypeOK, Checks, Read
  <2> QED BY <2>1, <2>2, <2>3, PartsNext
<1>3. CASE Resume(s)
  <2>0. /\ check[s].at = "pause" /\ Reading(s, check[s].try + 1)
        /\ UNCHANGED <<file, edits, mode, stat, event, force, since>>
        /\ UNCHANGED <<relance, closed, told, logged, unheard>>
    BY <1>3 DEF Resume
  <2>a. check[s].try + 1 \in 0..Retries
    BY <2>0 DEF Reads, PausesEnd, TypeOK, Checks
  <2>b. /\ check' \in [Slots -> Checks] /\ check'[s].at = "open"
        /\ \A t \in Slots \ {s} : check'[t] = check[t]
    BY <2>0, <2>a, ReadingIs
  <2>1. TypeOK' BY <2>0, <2>b DEF TypeOK
  <2>2. Reads' BY <2>0, <2>b DEF Reads, OneCheck, PausesEnd, ReadsAreRecent, AtBoot, TypeOK
  <2>3. Kept' BY <2>0, <2>b DEF Kept, Overtaken, NothingMissed, Pending, Due, TypeOK
  <2> QED BY <2>1, <2>2, <2>3, PartsNext
<1> QED BY <1>1, <1>2, <1>3

\* The end of a turn: the slot is off, or reads again because of a wake.
LEMMA AgainIs ==
  ASSUME NEW s \in Slots, TypeOK, Again(s)
  PROVE  /\ check' \in [Slots -> Checks]
         /\ \A t \in Slots \ {s} : check'[t] = check[t]
         /\ check'[s].at = IF relance /\ ~closed THEN "open" ELSE "off"
         /\ relance' = FALSE
<1>1. CASE relance /\ ~closed
  <2>1. 0 \in 0..Retries
    BY WatchAssumption
  <2> QED BY <1>1, <2>1, ReadingIs DEF Again
<1>2. CASE ~(relance /\ ~closed)
  BY <1>2 DEF Again, TypeOK, Checks
<1> QED BY <1>1, <1>2

LEMMA TurnKept ==
  ASSUME NEW s \in Slots, Inductive, Held(s) \/ Fatal(s) \/ Decide(s)
  PROVE Inductive'
<1>t. TypeOK /\ Reads /\ Kept
  BY Parts
<1> USE <1>t, WatchAssumption DEF Running
<1>1. CASE Held(s) /\ check[s].try < Retries
  <2> DEFINE c == [check[s] EXCEPT !.at = "pause"]
  <2>a. c \in Checks
    BY DEF TypeOK, Checks
  <2>b. check' = [check EXCEPT ![s] = c]
    BY <1>1 DEF Held, TypeOK, Checks
  <2>c. check' \in [Slots -> Checks]
    <3> HIDE DEF c
    <3> QED BY <2>a, <2>b, MoveIs
  <2>d. UNCHANGED <<file, edits, mode, stat, event, force, since, relance, closed, told, logged, unheard>>
    BY <1>1 DEF Held
  <2>1. TypeOK' BY <2>c, <2>d DEF TypeOK
  <2>2. Reads'
    BY <1>1 DEF Reads, OneCheck, PausesEnd, ReadsAreRecent, AtBoot, TypeOK, Checks, Held
  <2>3. Kept' BY <1>1 DEF Kept, Overtaken, NothingMissed, Pending, Due, TypeOK, Checks, Held
  <2> QED BY <2>1, <2>2, <2>3, PartsNext
<1>2. CASE (Held(s) /\ ~(check[s].try < Retries)) \/ Fatal(s)
  <2>0. /\ check[s].at = "open" /\ Again(s)
        /\ (told' = edits /\ logged' = logged) \/ (told' = told /\ logged' = edits)
        /\ UNCHANGED <<file, edits, mode, stat, event, force, since, closed, unheard>>
    BY <1>2 DEF Held, Fatal
  <2>b. /\ check' \in [Slots -> Checks] /\ relance' = FALSE
        /\ \A t \in Slots \ {s} : check'[t] = check[t]
        /\ check'[s].at = IF relance /\ ~closed THEN "open" ELSE "off"
    BY <2>0, AgainIs
  <2>1. TypeOK' BY <2>0, <2>b DEF TypeOK
  <2>2. Reads'
    <3>1. OneCheck' /\ PausesEnd' BY <2>0, <2>b DEF Reads, OneCheck, PausesEnd
    <3>2. ReadsAreRecent' BY <2>0, <2>b DEF Reads, OneCheck, ReadsAreRecent, TypeOK, Checks
    <3>3. AtBoot' BY <2>0, <2>b DEF Reads, AtBoot
    <3> QED BY <2>b, <3>1, <3>2, <3>3 DEF Reads
  <2>3. Kept'
    BY <2>0, <2>b DEF Kept, Reads, OneCheck, Overtaken, NothingMissed, Pending, Due, TypeOK
  <2> QED BY <2>1, <2>2, <2>3, PartsNext
<1>3. CASE Decide(s)
  <2>0. /\ check[s].at = "read" /\ Again(s)
        /\ UNCHANGED <<file, edits, mode, stat, event, closed, told, logged, unheard>>
        /\ \/ /\ ~closed /\ ToLoad(check[s].text)
              /\ force' = check[s].text /\ since' = check[s].save
           \/ (closed \/ ~ToLoad(check[s].text)) /\ UNCHANGED <<force, since>>
    BY <1>3 DEF Decide
  <2>b. /\ check' \in [Slots -> Checks] /\ relance' = FALSE
        /\ \A t \in Slots \ {s} : check'[t] = check[t]
        /\ check'[s].at = IF relance /\ ~closed THEN "open" ELSE "off"
    BY <2>0, AgainIs
  <2>1. TypeOK' BY <2>0, <2>b DEF TypeOK, Checks, ToLoad
  <2>2. Reads'
    <3>1. OneCheck' /\ PausesEnd' BY <2>0, <2>b DEF Reads, OneCheck, PausesEnd
    <3>2. ReadsAreRecent' BY <2>0, <2>b DEF Reads, OneCheck, ReadsAreRecent, TypeOK, Checks
    <3>3. AtBoot' BY <2>0, <2>b DEF Reads, AtBoot
    <3> QED BY <2>b, <3>1, <3>2, <3>3 DEF Reads
  <2>3. Kept'
    BY <2>0, <2>b
    DEF Kept, Reads, OneCheck, PausesEnd, ReadsAreRecent, AtBoot, Overtaken, NothingMissed,
        Pending, Due, TypeOK, ToLoad
  <2> QED BY <2>1, <2>2, <2>3, PartsNext
<1> QED BY <1>1, <1>2, <1>3

LEMMA StutterKept == Inductive /\ UNCHANGED vars => Inductive'
<1> SUFFICES ASSUME Inductive, UNCHANGED vars PROVE Inductive'
  OBVIOUS
<1>1. TypeOK /\ Reads /\ Kept
  BY Parts
<1>2. TypeOK' BY <1>1 DEF TypeOK, vars
<1>3. Reads' BY <1>1 DEF Reads, OneCheck, PausesEnd, ReadsAreRecent, AtBoot, Running, vars
<1>4. Kept' BY <1>1 DEF Kept, Overtaken, NothingMissed, Pending, Due, vars
<1> QED BY <1>2, <1>3, <1>4, PartsNext

\* Inductive holds of every reachable state: one verification at a time, none older than
\* what is in force, and none overtaken by a save without another to come.
THEOREM InductiveHolds == Spec => []Inductive
<1>1. Inductive /\ [Next]_vars => Inductive'
  BY OutsideKept, ReadingKept, TurnKept, StutterKept DEF Next
<1> QED BY <1>1, InitInductive, PTL DEF Spec

\* A valid file is in force once the wakes were dealt with, unless the operator was told, an
\* error that is not tried again was logged, or its save woke nobody.
THEOREM InForceHolds == Spec => []InForce
<1>1. Inductive => InForce
  BY DEF Inductive, Kept, NothingMissed, Pending, Due, InForce, Quiet, Running
<1> QED BY <1>1, InductiveHolds, PTL

\* What is in force never goes back to an older save.
THEOREM NeverOlderHolds == Spec => NeverOlder
<1>1. Inductive /\ [Next]_vars => [since' >= since]_vars
  <2> SUFFICES ASSUME Inductive, Next PROVE since' >= since
    BY DEF Inductive, TypeOK, vars
  <2>1. since \in Nat
    BY WatchAssumption DEF Inductive, TypeOK
  <2>2. CASE \E s \in Slots : Decide(s)
    <3> PICK s \in Slots : Decide(s)
      BY <2>2
    <3>1. since <= check[s].save /\ check[s].save \in Nat
      BY WatchAssumption DEF Decide, Inductive, ReadsAreRecent, TypeOK, Checks
    <3>2. since' = check[s].save \/ since' = since
      BY DEF Decide
    <3> QED BY <2>1, <3>1, <3>2
  <2>3. CASE ~\E s \in Slots : Decide(s)
    <3>1. UNCHANGED since
      BY <2>3 DEF Next, Edit, Poll, Watch, Fall, Close, Wake, Read, Held, Fatal, Resume
    <3> QED BY <2>1, <3>1
  <2> QED BY <2>2, <2>3
<1> QED BY <1>1, InductiveHolds, PTL DEF Spec, NeverOlder

\* Nothing is loaded once the watch is closed.
THEOREM NothingAfterCloseHolds == Spec => NothingAfterClose
<1>1. [Next]_vars => [closed => force' = force]_vars
  BY DEF Next, Edit, Poll, Watch, Fall, Close, Wake, Read, Held, Fatal, Resume, Decide, vars
<1> QED BY <1>1, PTL DEF Spec, NothingAfterClose
=============================================================================
