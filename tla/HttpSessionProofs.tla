------------------------- MODULE HttpSessionProofs -------------------------
(* The safety of the HTTP transport, for any number of requests, sessions   *)
(* and ends of sessions: what was refused was not executed, so that sending *)
(* it again executes it once; nobody waits without a reopening; and nothing *)
(* starts once the transport is closed.                                     *)
EXTENDS HttpSession, TLAPS

\* Where a message is before any server executes it.
Refusable == {"idle", "posted", "400", "404", "waiting"}

\* What was not accepted has not run.
RefusedNeverRan == \A r \in Requests : out[r] \in Refusable => runs[r] = 0

Inductive ==
  /\ TypeOK
  /\ RefusedNeverRan /\ AtMostOnce
  /\ WaitersAreServed
  /\ NothingAfterClose

LEMMA InitInductive == Init => Inductive
<1> SUFFICES ASSUME Init PROVE Inductive OBVIOUS
<1>1. TypeOK
  <2>1. 1 \in Sessions /\ 0 \in 0..MaxEnds BY BoundsAssumption DEF Sessions
  <2> QED BY <2>1 DEF Init, TypeOK, Ids, NoSession
<1>2. RefusedNeverRan /\ AtMostOnce
  BY DEF Init, RefusedNeverRan, AtMostOnce, Messages
<1>3. WaitersAreServed /\ NothingAfterClose
  BY DEF Init, WaitersAreServed, NothingAfterClose, Waiting
<1> QED BY <1>1, <1>2, <1>3 DEF Inductive

LEMMA StepInductive == Inductive /\ [Next]_vars => Inductive'
<1> SUFFICES ASSUME Inductive, [Next]_vars PROVE Inductive' OBVIOUS
<1> USE DEF Inductive
<1>1. ASSUME NEW r \in Requests, Send(r) PROVE Inductive'
  BY <1>1 DEF Send, Alive, Post, server, TypeOK, RefusedNeverRan, Refusable, AtMostOnce, Ids,
    WaitersAreServed, Waiting, NothingAfterClose, Messages
<1>2. ASSUME SendPing PROVE Inductive'
  BY <1>2, BoundsAssumption DEF SendPing, Alive, Post, server, TypeOK, RefusedNeverRan,
    Refusable, AtMostOnce, Ids, WaitersAreServed, Waiting, NothingAfterClose, Messages
<1>3. ASSUME NEW m \in Messages, Serve(m) PROVE Inductive'
  <2>1. TypeOK' BY <1>3 DEF Serve, TypeOK, Messages
  <2>2. RefusedNeverRan' /\ AtMostOnce'
    BY <1>3 DEF Serve, TypeOK, RefusedNeverRan, Refusable, AtMostOnce, Messages
  <2>3. WaitersAreServed' BY <1>3 DEF Serve, TypeOK, WaitersAreServed, Waiting, Messages
  <2>4. NothingAfterClose' BY <1>3 DEF Serve, TypeOK, NothingAfterClose, Messages
  <2> QED BY <2>1, <2>2, <2>3, <2>4
<1>4. ASSUME NEW m \in Messages, Headers(m) PROVE Inductive'
  <2>1. TypeOK' BY <1>4 DEF Headers, server, TypeOK, Ids, Messages
  <2>2. RefusedNeverRan' /\ AtMostOnce'
    BY <1>4 DEF Headers, server, TypeOK, RefusedNeverRan, Refusable, AtMostOnce, Messages
  <2>3. WaitersAreServed' /\ NothingAfterClose'
    BY <1>4 DEF Headers, TypeOK, WaitersAreServed, Waiting, NothingAfterClose, Messages
  <2> QED BY <2>1, <2>2, <2>3
<1>5. ASSUME NEW m \in Messages, Answer(m) PROVE Inductive'
  <2>1. TypeOK' BY <1>5 DEF Answer, Done, server, TypeOK, Messages
  <2>2. RefusedNeverRan' /\ AtMostOnce'
    BY <1>5 DEF Answer, Done, server, TypeOK, RefusedNeverRan, Refusable, AtMostOnce, Messages
  <2>3. WaitersAreServed' /\ NothingAfterClose'
    BY <1>5 DEF Answer, Done, TypeOK, WaitersAreServed, Waiting, NothingAfterClose, Messages
  <2> QED BY <2>1, <2>2, <2>3
<1>6. ASSUME NEW m \in Messages, BreakPost(m) PROVE Inductive'
  <2>1. TypeOK'
    <3>1. out' \in [Messages -> {"idle", "posted", "running", "reading", "cut", "400", "404",
                                "waiting", "done"}]
      BY <1>6 DEF BreakPost, Done, TypeOK
    <3>2. reply' \in [Requests -> {"none", "result", "error"}] /\ failed' \in BOOLEAN
      BY <1>6 DEF BreakPost, Fail, Exits, TypeOK
    <3> QED BY <1>6, <3>1, <3>2 DEF BreakPost, Done, server, TypeOK
  <2>2. RefusedNeverRan' /\ AtMostOnce'
    BY <1>6 DEF BreakPost, Done, Fail, Exits, server, TypeOK, RefusedNeverRan, Refusable, AtMostOnce, Messages
  <2>3. WaitersAreServed' BY <1>6 DEF BreakPost, Done, Fail, Exits, server, TypeOK, WaitersAreServed, Waiting, Messages
  <2>4. NothingAfterClose' BY <1>6 DEF BreakPost, Done, Fail, Exits, server, TypeOK, NothingAfterClose, Messages
  <2> QED BY <2>1, <2>2, <2>3, <2>4
<1>7. ASSUME NEW m \in Messages, Read400(m) PROVE Inductive'
  <2>1. TypeOK' BY <1>7 DEF Read400, Done, Fail, Exits, server, TypeOK, Ids, Messages
  <2>2. RefusedNeverRan' /\ AtMostOnce'
    BY <1>7 DEF Read400, Done, Fail, Exits, server, TypeOK, RefusedNeverRan, Refusable, AtMostOnce, Messages
  <2>3. WaitersAreServed' BY <1>7 DEF Read400, Done, Fail, Exits, server, TypeOK, WaitersAreServed, Waiting, Messages
  <2>4. NothingAfterClose' BY <1>7 DEF Read400, Done, Fail, Exits, server, TypeOK, NothingAfterClose, Messages
  <2> QED BY <2>1, <2>2, <2>3, <2>4
<1>8. ASSUME NEW m \in Messages, Read404(m) PROVE Inductive'
  <2>1. TypeOK' BY <1>8 DEF Read404, Rouvrir, Done, Fail, Exits, NoSession, server, TypeOK, Ids, Messages
  <2>2. RefusedNeverRan' /\ AtMostOnce'
    BY <1>8 DEF Read404, Rouvrir, Done, Fail, Exits, NoSession, server, TypeOK, RefusedNeverRan, Refusable, AtMostOnce, Messages
  <2>3. WaitersAreServed' BY <1>8 DEF Read404, Rouvrir, Done, Fail, Exits, NoSession, server, TypeOK, WaitersAreServed, Waiting, Messages
  <2>4. NothingAfterClose' BY <1>8 DEF Read404, Rouvrir, Done, Fail, Exits, NoSession, server, TypeOK, NothingAfterClose, Messages
  <2> QED BY <2>1, <2>2, <2>3, <2>4
<1>9. ASSUME NEW s \in Sessions, EndSession(s) PROVE Inductive'
  <2>1. TypeOK'
    <3>1. ends' \in 0..MaxEnds BY <1>9, BoundsAssumption DEF EndSession, TypeOK
    <3>2. out' \in [Messages -> {"idle", "posted", "running", "reading", "cut", "400", "404",
                                "waiting", "done"}]
      BY <1>9 DEF EndSession, TypeOK
    <3>3. get' \in {"posted", "streaming", "404", "waiting", "delay", "failing", "off"}
      BY <1>9 DEF EndSession, TypeOK
    <3> QED BY <1>9, <3>1, <3>2, <3>3 DEF EndSession, TypeOK
  <2>2. RefusedNeverRan' /\ AtMostOnce'
    BY <1>9 DEF EndSession, TypeOK, RefusedNeverRan, Refusable, AtMostOnce, Messages
  <2>3. WaitersAreServed' BY <1>9 DEF EndSession, TypeOK, WaitersAreServed, Waiting, Messages
  <2>4. NothingAfterClose' BY <1>9 DEF EndSession, TypeOK, NothingAfterClose, Messages
  <2> QED BY <2>1, <2>2, <2>3, <2>4
<1>10. ASSUME Initialized PROVE Inductive'
  <2>1. TypeOK' BY <1>10 DEF Initialized, Held, TypeOK, Ids, Messages
  <2>2. RefusedNeverRan' /\ AtMostOnce'
    BY <1>10 DEF Initialized, Held, TypeOK, RefusedNeverRan, Refusable, AtMostOnce, Messages
  <2>3. WaitersAreServed' BY <1>10 DEF Initialized, Held, TypeOK, WaitersAreServed, Waiting, Messages
  <2>4. NothingAfterClose' BY <1>10 DEF Initialized, Held, TypeOK, NothingAfterClose, Messages
  <2> QED BY <2>1, <2>2, <2>3, <2>4
<1>11. ASSUME ReopenBreaks PROVE Inductive'
  <2>1. TypeOK' BY <1>11 DEF ReopenBreaks, server, TypeOK, Ids, Messages
  <2>2. RefusedNeverRan' /\ AtMostOnce'
    BY <1>11 DEF ReopenBreaks, server, TypeOK, RefusedNeverRan, Refusable, AtMostOnce, Messages
  <2>3. WaitersAreServed' BY <1>11 DEF ReopenBreaks, server, TypeOK, WaitersAreServed, Waiting, Messages
  <2>4. NothingAfterClose' BY <1>11 DEF ReopenBreaks, server, TypeOK, NothingAfterClose, Messages
  <2> QED BY <2>1, <2>2, <2>3, <2>4
<1>12. ASSUME Adopt PROVE Inductive'
  <2>1. TypeOK' BY <1>12 DEF Adopt, NoSession, server, TypeOK, Ids, Messages
  <2>2. RefusedNeverRan' /\ AtMostOnce'
    BY <1>12 DEF Adopt, NoSession, server, TypeOK, RefusedNeverRan, Refusable, AtMostOnce, Messages
  <2>3. WaitersAreServed' BY <1>12 DEF Adopt, NoSession, server, TypeOK, WaitersAreServed, Waiting, Messages
  <2>4. NothingAfterClose' BY <1>12 DEF Adopt, NoSession, server, TypeOK, NothingAfterClose, Messages
  <2> QED BY <2>1, <2>2, <2>3, <2>4
<1>13. ASSUME Reopened PROVE Inductive'
  <2>1. TypeOK' BY <1>13 DEF Reopened, Post, server, TypeOK, Ids, Messages
  <2>2. RefusedNeverRan' /\ AtMostOnce'
    <3>1. \A r \in Requests : out'[r] \in Refusable => out[r] \in Refusable
      BY <1>13 DEF Reopened, Post, TypeOK, Waiting, Refusable, Messages
    <3>2. runs' = runs BY <1>13 DEF Reopened, server
    <3> QED BY <3>1, <3>2 DEF RefusedNeverRan, AtMostOnce
  <2>3. WaitersAreServed' BY <1>13 DEF Reopened, Post, server, TypeOK, WaitersAreServed, Waiting, Messages
  <2>4. NothingAfterClose' BY <1>13 DEF Reopened, Post, server, TypeOK, NothingAfterClose, Messages
  <2> QED BY <2>1, <2>2, <2>3, <2>4
<1>14. ASSUME NotReopened PROVE Inductive'
  <2>1. TypeOK' BY <1>14 DEF NotReopened, Fail, Exits, server, TypeOK, Ids, Messages
  <2>2. RefusedNeverRan' /\ AtMostOnce'
    BY <1>14 DEF NotReopened, Fail, Exits, server, TypeOK, RefusedNeverRan, Refusable, AtMostOnce, Messages
  <2>3. WaitersAreServed' BY <1>14 DEF NotReopened, Fail, Exits, server, TypeOK, WaitersAreServed, Waiting, Messages
  <2>4. NothingAfterClose' BY <1>14 DEF NotReopened, Fail, Exits, server, TypeOK, NothingAfterClose, Messages
  <2> QED BY <2>1, <2>2, <2>3, <2>4
<1>15. ASSUME GetServed PROVE Inductive'
  <2>1. TypeOK' BY <1>15 DEF GetServed, server, TypeOK, Ids, Messages
  <2>2. RefusedNeverRan' /\ AtMostOnce'
    BY <1>15 DEF GetServed, server, TypeOK, RefusedNeverRan, Refusable, AtMostOnce, Messages
  <2>3. WaitersAreServed' BY <1>15 DEF GetServed, server, TypeOK, WaitersAreServed, Waiting, Messages
  <2>4. NothingAfterClose' BY <1>15 DEF GetServed, server, TypeOK, NothingAfterClose, Messages
  <2> QED BY <2>1, <2>2, <2>3, <2>4
<1>16. ASSUME GetRead404 PROVE Inductive'
  <2>1. TypeOK' BY <1>16 DEF GetRead404, Rouvrir, NoSession, server, TypeOK, Ids, Messages
  <2>2. RefusedNeverRan' /\ AtMostOnce'
    BY <1>16 DEF GetRead404, Rouvrir, NoSession, server, TypeOK, RefusedNeverRan, Refusable, AtMostOnce, Messages
  <2>3. WaitersAreServed' BY <1>16 DEF GetRead404, Rouvrir, NoSession, server, TypeOK, WaitersAreServed, Waiting, Messages
  <2>4. NothingAfterClose' BY <1>16 DEF GetRead404, Rouvrir, NoSession, server, TypeOK, NothingAfterClose, Messages
  <2> QED BY <2>1, <2>2, <2>3, <2>4
<1>17. ASSUME GetAgain PROVE Inductive'
  <2>1. TypeOK' BY <1>17 DEF GetAgain, server, TypeOK, Ids, Messages
  <2>2. RefusedNeverRan' /\ AtMostOnce'
    BY <1>17 DEF GetAgain, server, TypeOK, RefusedNeverRan, Refusable, AtMostOnce, Messages
  <2>3. WaitersAreServed' BY <1>17 DEF GetAgain, server, TypeOK, WaitersAreServed, Waiting, Messages
  <2>4. NothingAfterClose' BY <1>17 DEF GetAgain, server, TypeOK, NothingAfterClose, Messages
  <2> QED BY <2>1, <2>2, <2>3, <2>4
<1>18. ASSUME Close PROVE Inductive'
  <2>1. TypeOK' BY <1>18 DEF Close, Exits, NoSession, TypeOK, Ids, Messages
  <2>2. RefusedNeverRan' /\ AtMostOnce'
    BY <1>18 DEF Close, Exits, NoSession, TypeOK, RefusedNeverRan, Refusable, AtMostOnce, Messages
  <2>3. WaitersAreServed' BY <1>18 DEF Close, Exits, NoSession, TypeOK, WaitersAreServed, Waiting, Messages
  <2>4. NothingAfterClose' BY <1>18 DEF Close, Exits, NoSession, TypeOK, NothingAfterClose, Messages
  <2> QED BY <2>1, <2>2, <2>3, <2>4
<1>19. ASSUME GetBreaks PROVE Inductive'
  <2>1. TypeOK' BY <1>19 DEF GetBreaks, server, TypeOK, Ids, Messages
  <2>2. RefusedNeverRan' /\ AtMostOnce'
    BY <1>19 DEF GetBreaks, server, TypeOK, RefusedNeverRan, Refusable, AtMostOnce, Messages
  <2>3. WaitersAreServed' BY <1>19 DEF GetBreaks, server, WaitersAreServed, Waiting
  <2>4. NothingAfterClose' BY <1>19 DEF GetBreaks, server, NothingAfterClose
  <2> QED BY <2>1, <2>2, <2>3, <2>4
<1>20. ASSUME GetFails PROVE Inductive'
  <2>1. TypeOK' BY <1>20 DEF GetFails, Fail, Exits, server, TypeOK
  <2>2. RefusedNeverRan' /\ AtMostOnce'
    BY <1>20 DEF GetFails, server, RefusedNeverRan, Refusable, AtMostOnce
  <2>3. WaitersAreServed' BY <1>20 DEF GetFails, server, WaitersAreServed, Waiting
  <2>4. NothingAfterClose' BY <1>20 DEF GetFails, server, NothingAfterClose
  <2> QED BY <2>1, <2>2, <2>3, <2>4
<1>21. ASSUME UNCHANGED vars PROVE Inductive'
  BY <1>21 DEF vars, client, server, TypeOK, RefusedNeverRan, AtMostOnce, WaitersAreServed,
    Waiting, NothingAfterClose
<1> QED
  BY <1>1, <1>2, <1>3, <1>4, <1>5, <1>6, <1>7, <1>8, <1>9, <1>10, <1>11, <1>12, <1>13, <1>14,
    <1>15, <1>16, <1>17, <1>18, <1>19, <1>20, <1>21 DEF Next

\* The inductive invariant of the transport (http-transport.js): its parts are the properties
\* below, and that what was refused was not executed.
THEOREM InductiveHolds == Spec => []Inductive
BY InitInductive, StepInductive, PTL DEF Spec

\* No request is executed twice, however many 404 it meets (send, _post).
THEOREM AtMostOnceHolds == Spec => []AtMostOnce
<1>1. Inductive => AtMostOnce BY DEF Inductive
<1> QED BY <1>1, InductiveHolds, PTL

\* Whoever waits for a session has a reopening to wait for (_rouvrirSession).
THEOREM WaitersAreServedHolds == Spec => []WaitersAreServed
<1>1. Inductive => WaitersAreServed BY DEF Inductive
<1> QED BY <1>1, InductiveHolds, PTL

\* A closed transport starts nothing (close, and the tests of _closed).
THEOREM NothingAfterCloseHolds == Spec => []NothingAfterClose
<1>1. Inductive => NothingAfterClose BY DEF Inductive
<1> QED BY <1>1, InductiveHolds, PTL
=============================================================================
