------------------------------ MODULE Telemetry ------------------------------
(***************************************************************************)
(* From the machine's counters to the page: SystemReader.Read with the     *)
(* counters it remembers (internal/metrics/reader.go), the collector's     *)
(* ring, and the partials that internal/server/sse.go renders from it.     *)
(*                                                                         *)
(* The network card shows the first interface, and each interface has an   *)
(* entry of its own: one interface is modelled, in one direction.  A       *)
(* snapshot is the CPU load and that interface's rate.  Go's zero Snapshot *)
(* stays apart from every snapshot, by its time.                           *)
(***************************************************************************)
EXTENDS RingBuffer, SseStream

CONSTANTS
  Width,         \* the counters wrap here: 2^64
  Unit,          \* the 1024 of sse.go:215
  UnitNames,     \* names of units past the byte: the 4 of sse.go:224
  Speed,         \* bytes the link carries in a tick, at most
  Loads,         \* CPU loads that are read
  HistoryPoints, \* the 720 of sse.go:168
  ChartPoints,   \* the 120 of sse.go:283
  ChartWidth,    \* the 300 of sse.go:282
  MaxAge         \* bound: ticks between two readings of the counter

NoNetwork == -1
Rates == 0..(Width - 1)

\* formatBytes: how much its div is after k rounds.
UnitSize[k \in 0..(UnitNames + 1)] == IF k = 0 THEN 1 ELSE Unit * UnitSize[k - 1]

ASSUME TelemetryAssumption ==
  /\ Snapshots = [cpu : {0} \cup Loads, net : {NoNetwork} \cup Rates]
  /\ Loads \subseteq Nat \ {0}
  /\ Unit \in Nat \ {0, 1} /\ Width \in Nat \ {0}
  /\ {Speed, MaxAge, HistoryPoints, ChartWidth, UnitNames} \subseteq Nat
  /\ ChartPoints \in 2..HistoryPoints
  \* A link's true rate has a unit, and a counter does not go round between two readings.
  /\ Speed < UnitSize[UnitNames + 1] /\ Speed * MaxAge < Width

VARIABLES
  listed,  \* the interface is there
  total,   \* its counter
  prev,    \* prevNet's entry: [bytes, age], or Unread
  \* history, read by the properties only
  sent,    \* bytes the link carried since the last reading of the counter
  back     \* the counter went back since then

netVars == <<listed, total, prev, sent, back>>
telVars == <<ringVars, netVars>>

Unread == [bytes |-> 0, age |-> -1]
Seen == prev # Unread

-----------------------------------------------------------------------------
(* The machine                                                             *)

\* Time passes, and the link carries traffic.
Tick ==
  /\ prev.age < MaxAge
  /\ \E bytes \in IF listed THEN 0..Speed ELSE {0} :
       /\ total' = (total + bytes) % Width
       /\ sent' = IF Seen /\ ~back THEN sent + bytes ELSE 0
  /\ prev' = IF Seen THEN [prev EXCEPT !.age = @ + 1] ELSE prev
  /\ UNCHANGED <<ringVars, listed, back>>

\* The interface is reset, or removed and added again: it counts from zero.
Reset ==
  /\ listed' \in BOOLEAN
  /\ total' = 0
  /\ sent' = 0
  /\ back' = Seen
  /\ UNCHANGED <<ringVars, prev>>

Return ==
  /\ ~listed
  /\ listed' = TRUE
  /\ UNCHANGED <<ringVars, total, prev, sent, back>>

-----------------------------------------------------------------------------
(* Read, and the collector                                                 *)

\* Variant for the mutation runs: the bytes of an interval, not of a second.
RatePerReading == IF Seen /\ prev.age > 0 THEN (total - prev.bytes) % Width ELSE 0

\* readNetwork: the difference of two unsigned counters, over the seconds between.
Rate == IF Seen /\ prev.age > 0 THEN ((total - prev.bytes) % Width) \div prev.age ELSE 0

\* Variant for the mutation runs: the entry keeps the highest count.
RememberHighest ==
  [bytes |-> IF Seen /\ prev.bytes > total THEN prev.bytes ELSE total, age |-> 0]

\* The entry is replaced, whatever it said.
Remember == [bytes |-> total, age |-> 0]

\* readNetwork of an interface that is in the listing.
ReadCounter(cpu) ==
  /\ listed
  /\ Add([cpu |-> cpu, net |-> Rate])
  /\ prev' = Remember
  /\ sent' = 0 /\ back' = FALSE
  /\ UNCHANGED <<listed, total>>

\* The listing fails or lacks the interface: the entry stays, without an end.
ReadNoCounter(cpu) ==
  /\ Add([cpu |-> cpu, net |-> NoNetwork])
  /\ UNCHANGED netVars

\* A load that cannot be read is left at zero.
Collect == \E cpu \in {0} \cup Loads : ReadCounter(cpu) \/ ReadNoCounter(cpu)

-----------------------------------------------------------------------------
(* The partials                                                            *)

\* formatBytes: the rounds of its loop.
Rounds[n \in 0..Width] == IF n < Unit THEN 0 ELSE 1 + Rounds[n \div Unit]

\* It indexes the names of the units with them: past the last, it panics.
Formats(b) == b < Unit \/ Rounds[b \div Unit] < UnitNames

\* renderPartial of the cards: an error in the template leaves the empty text.  Of what
\* they format the rate alone is modelled: memory and disk are taken to have a unit.
CardsRender ==
  \/ Latest = Zero
  \/ Latest.net = NoNetwork
  \/ Formats(Latest.net)

\* Variant for the mutation runs: the first points.
LastPointsFirst(h) == SubSeq(h, 1, IF Len(h) > ChartPoints THEN ChartPoints ELSE Len(h))

\* sparklineSVG: the last points of a history ...
LastPoints(h) == IF Len(h) > ChartPoints THEN SubSeq(h, Len(h) - ChartPoints + 1, Len(h)) ELSE h

\* ... each with its place: 0/0, NaN, for one that is alone.
NaN == -1
Chart ==
  LET h == LastPoints(History(HistoryPoints))
  IN [i \in DOMAIN h |->
        [x |-> IF Len(h) = 1 THEN NaN ELSE ((i - 1) * ChartWidth) \div (Len(h) - 1),
         y |-> h[i].cpu]]

\* The texts of the four partials, each with the empty lines its template leaves.
Rendered ==
  [name \in {"metrics", "docker", "systemd", "charts"} |->
     CASE name = "metrics" -> IF CardsRender THEN <<NoText, "cards", NoText>> ELSE NotRendered
       [] name = "charts"  -> <<NoText, "charts", NoText>>
       [] OTHER            -> <<NoText, "table", NoText, NoText>>]

-----------------------------------------------------------------------------
(* Specification                                                           *)

TelInit ==
  /\ Init
  /\ listed \in BOOLEAN
  /\ total \in IF listed THEN Rates ELSE {0}
  /\ prev = Unread
  /\ sent = 0 /\ back = FALSE

TelNext == Tick \/ Reset \/ Return \/ Collect

TelSpec == TelInit /\ [][TelNext]_telVars

\* The collector's ticker fires.
FairTelSpec == TelSpec /\ WF_telVars(Collect)

-----------------------------------------------------------------------------
(* Properties                                                              *)

\* reader.go:124-142: a rate is the bytes the link carried over the time they took,
\* across readings that failed, listings that lacked the interface and the wrap of the
\* counter, unless the counter went back; and such a rate has a unit.
RatesAreTrue ==
  [][ReadCounter(0) \/ (\E cpu \in Loads : ReadCounter(cpu)) =>
       \/ back
       \/ ~Seen
       \/ /\ Latest'.net = IF prev.age = 0 THEN 0 ELSE sent \div prev.age
          /\ CardsRender']_telVars

\* reader.go:132, 138-142 with sse.go:224: a counter that goes back wraps the rate past the
\* last unit and empties all the cards, but not for good: cards that are
\* empty time and again need a counter that goes back time and again.
CardsComeBack == []<>~CardsRender => []<>back

\* sse.go:168, 283-289, 306: the chart holds the newest loads, in order and with none
\* left out, and ends with the load the gauge shows; from two samples on its line runs
\* from the left edge to the right one.
ChartShowsTheNewest ==
  count > 0 =>
    /\ Chart # <<>> /\ Len(Chart) <= count
    /\ \A i \in DOMAIN Chart : Chart[i].y = All[count - Len(Chart) + i].cpu
    /\ Chart[Len(Chart)].y = Latest.cpu
    /\ count > 1 => Chart[1].x = 0 /\ Chart[Len(Chart)].x = ChartWidth

\* sse.go:132-158: every payload, with a partial that failed or not, is taken apart into
\* its four events and leaves nothing behind, so that a payload that is
\* dropped for a slow client takes nothing of the next with it.
EventsKeepStep ==
  LET p == Parse(BuildPayload(Rendered))
  IN /\ p = Clean(p.events)
     /\ [n \in DOMAIN p.events |-> p.events[n].name] = EventNames

\* US0007-dashboard-view.md:53, "the dashboard updates automatically via SSE
\* without page reload": the data of an event is the text of its partial.  Only the first
\* line of the text follows a "data:", and that line is empty.
EventsCarryThePartials ==
  LET events == Parse(BuildPayload(Rendered)).events
  IN \A n \in DOMAIN events : events[n].data = Rendered[events[n].name]
=============================================================================
