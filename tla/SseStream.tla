----------------------------- MODULE SseStream -----------------------------
(***************************************************************************)
(* The framing of internal/server/sse.go:132-158 and what the browser's    *)
(* EventSource makes of it.                                                *)
(*                                                                         *)
(* A rendered partial is the sequence of its lines: NoText is an empty     *)
(* one, any other stands for one or more lines of HTML, none of which      *)
(* begins like a field of the protocol.  A partial that could not be       *)
(* rendered is the empty text, one empty line.                             *)
(***************************************************************************)
EXTENDS Naturals, Sequences

\* The events of a payload, in the order of buildSSEPayload.
EventNames == <<"metrics", "docker", "systemd", "charts">>

NoText == ""
NotRendered == <<NoText>>

\* A line of the stream: a field with its value, or a line that is none.
Field(f, v) == [field |-> f, value |-> v]
Line(text) == Field(IF text = NoText THEN "blank" ELSE "none", text)

-----------------------------------------------------------------------------
(* The server                                                              *)

\* Variant for the mutation runs: one line feed after the data.
WriteEventUnclosed(name, html) ==
  <<Field("event", name), Field("data", Head(html))>>
    \o [i \in 1..(Len(html) - 1) |-> Line(html[i + 1])]

\* writeSSEEvent: the whole text after one "data: ", then an empty line.
WriteEvent(name, html) ==
  <<Field("event", name), Field("data", Head(html))>>
    \o [i \in 1..(Len(html) - 1) |-> Line(html[i + 1])]
    \o <<Line(NoText)>>

\* buildSSEPayload, from the texts of the partials.
BuildPayload(partials) ==
  WriteEvent("metrics", partials["metrics"])
    \o WriteEvent("docker", partials["docker"])
    \o WriteEvent("systemd", partials["systemd"])
    \o WriteEvent("charts", partials["charts"])

-----------------------------------------------------------------------------
(* The browser                                                             *)

\* The state between two events: no type, no data.
Clean(events) == [type |-> NoText, data |-> <<>>, events |-> events]

\* One line: a field is kept, an empty line dispatches what there is, and only if
\* there was a data field.  The rest is ignored.
ParseLine(p, line) ==
  CASE line.field = "event" -> [p EXCEPT !.type = line.value]
    [] line.field = "data"  -> [p EXCEPT !.data = Append(@, line.value)]
    [] line.field = "blank" -> Clean(IF p.data = <<>> THEN p.events
                                     ELSE Append(p.events, [name |-> p.type, data |-> p.data]))
    [] OTHER -> p

Parse(payload) ==
  LET after[n \in 0..Len(payload)] ==
        IF n = 0 THEN Clean(<<>>) ELSE ParseLine(after[n - 1], payload[n])
  IN after[Len(payload)]
=============================================================================
