------------------------------ MODULE Framing ------------------------------
(***************************************************************************)
(* How a text that comes in chunks is cut into messages: the blocks of an  *)
(* SSE stream (src/sse-parse.js), read by the transport of HttpSession,    *)
(* and the JSON lines (src/jsonrpc.js) of the client, of a private child   *)
(* and of the daemon's channel.  Pure functions: MCHttpSession compares    *)
(* them with the reference definitions below on every short text.          *)
(*                                                                         *)
(* A text is a sequence of tokens: CR, LF, and what stands on a line, here *)
(* never cut in two.  [field |-> "none"] is a comment or an unknown field. *)
(***************************************************************************)
EXTENDS Naturals, SequencesExt

CR == [field |-> "cr", value |-> 0]
LF == [field |-> "lf", value |-> 0]
Ends == {CR, LF}

\* the places of two consecutive tokens
Places(text, first, second) ==
  {i \in 1..(Len(text) - 1) : text[i] = first /\ text[i + 1] = second}

Without(text, places) ==
  FoldLeftDomain(LAMBDA kept, i : IF i \in places THEN kept ELSE Append(kept, text[i]), <<>>, text)

---------------------------------------------------------------------------
(* sse-parse.js                                                            *)

Values(lines, field) ==
  LET of == SelectSeq(lines, LAMBDA l : l.field = field)
  IN  [i \in DOMAIN of |-> of[i].value]

\* every value of data, the last one of each other field; no field, no event
ParseSseBlock(block) ==
  LET data == Values(block, "data")
      other == Values(block, "event")
  IN  IF data = <<>> /\ other = <<>> THEN <<>>
      ELSE <<[data |-> data, event |-> IF other = <<>> THEN 0 ELSE Last(other)]>>

RECURSIVE SseBlocks(_)
SseBlocks(buf) ==
  LET gaps == Places(buf, LF, LF)
  IN  IF gaps = {} THEN [pending |-> buf, events |-> <<>>]
      ELSE LET cut == Min(gaps)
               rest == SseBlocks(SubSeq(buf, cut + 2, Len(buf)))
           IN  [rest EXCEPT !.events = ParseSseBlock(SubSeq(buf, 1, cut - 1)) \o @]

SseFeed(pending, chunk) ==
  LET buf == pending \o chunk
  IN  SseBlocks(Without(buf, Places(buf, CR, LF)))

\* the reader of the transport: chunk after chunk
SseRead(chunks) ==
  FoldLeft(LAMBDA r, chunk :
             LET fed == SseFeed(r.pending, chunk)
             IN  [fed EXCEPT !.events = r.events \o @],
           [pending |-> <<>>, events |-> <<>>], chunks)

---------------------------------------------------------------------------
(* jsonrpc.js                                                              *)

\* trim, then JSON.parse: a blank line is skipped, a line that is no JSON is only told
ParseLine(line) == SelectSeq(line, LAMBDA l : l.field = "data")

RECURSIVE OnData(_)
OnData(buf) ==
  IF ~Contains(buf, LF) THEN [pending |-> buf, events |-> <<>>]
  ELSE LET end == SelectInSeq(buf, LAMBDA t : t = LF)
           rest == OnData(SubSeq(buf, end + 1, Len(buf)))
       IN  [rest EXCEPT !.events = ParseLine(SubSeq(buf, 1, end - 1)) \o @]

LineRead(chunks) ==
  FoldLeft(LAMBDA r, chunk :
             LET fed == OnData(r.pending \o chunk)
             IN  [fed EXCEPT !.events = r.events \o @],
           [pending |-> <<>>, events |-> <<>>], chunks)

---------------------------------------------------------------------------
(* What they should give, whatever the chunks.                             *)

\* the text of lines, each with its end
Text(lines, ends) ==
  FoldLeftDomain(LAMBDA text, i : text \o lines[i] \o ends[i], <<>>, lines)

\* the standard's own way: line after line, an empty one dispatches the event if it has a field
Dispatched(lines) ==
  LET OnLine(r, line) ==
        IF line = <<>>
        THEN [fields |-> <<>>, events |-> r.events \o ParseSseBlock(r.fields)]
        ELSE [r EXCEPT !.fields = Append(@, line[1])]
  IN  FoldLeft(OnLine, [fields |-> <<>>, events |-> <<>>], lines).events

\* each line that is JSON, in order
Messages(lines) == SelectSeq(FlattenSeq(lines), LAMBDA l : l.field = "data")

\* a text in two chunks, cut anywhere, and token by token
Cuttings(text) ==
  {<<SubSeq(text, 1, i), SubSeq(text, i + 1, Len(text))>> : i \in 0..Len(text)}
    \cup {[i \in DOMAIN text |-> <<text[i]>>]}
=============================================================================
