--------------------------- MODULE MCHttpSession ---------------------------
(* The transport for TLC: a request, the watchdog's ping and the GET stream*)
(* meet two ends of a session; sessions enough for every reopening.        *)
(* HttpSession takes messages whole: that they come whole, whatever the    *)
(* chunks, is compared here on every text of at most MaxLines lines.       *)
EXTENDS HttpSession

CONSTANTS r1, MaxLines

OneRequest == {r1}

LOCAL F == INSTANCE Framing

Line(field, value) == <<[field |-> field, value |-> value]>>
Lines == {<<>>, Line("data", 1), Line("data", 2), Line("event", 3), Line("none", 4)}
LineEnds == {<<F!LF>>, <<F!CR, F!LF>>}

Texts == UNION {[1..n -> Lines] \X [1..n -> LineEnds] : n \in 0..MaxLines}

\* The chunks of a stream never change the events read from it, with LF or CRLF ends, mixed
\* (sse-parse.js:8: "le DECOUPAGE du flux en chunks arbitraires ne change JAMAIS la suite
\* d'events extraits").
ASSUME SseIsChunkBlind ==
  \A t \in Texts : \A chunks \in F!Cuttings(F!Text(t[1], t[2])) :
    F!SseRead(chunks).events = F!Dispatched(t[1])

\* Nor do they change the messages of a pipe or of the daemon's channel (jsonrpc.js).
ASSUME LinesAreChunkBlind ==
  \A t \in Texts : \A chunks \in F!Cuttings(F!Text(t[1], t[2])) :
    F!LineRead(chunks).events = F!Messages(t[1])
=============================================================================
