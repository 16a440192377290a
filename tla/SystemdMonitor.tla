--------------------------- MODULE SystemdMonitor ---------------------------
(***************************************************************************)
(* The systemd monitor (internal/systemd): the goroutine that runs         *)
(* systemctl and parses what it prints, and Stop, against a systemctl that *)
(* works, fails or hangs.                                                  *)
(*                                                                         *)
(* The units go through the states 0, 1, ... in order.                     *)
(***************************************************************************)
EXTENDS Naturals

CONSTANTS
  Truth,   \* state of the units -> what there is to list
  Parsed   \* state of the units -> what the monitor makes of systemctl's output

VARIABLES
  tool,       \* systemctl: "works", "fails" or "hangs"
  world,      \* number of the units' state
  available, services,   \* fields of the Monitor
  pc,         \* where its goroutine is
  output,     \* what systemctl printed: of which state of the units
  stop        \* Stop: "uncalled", "waiting" for the goroutine, "returned"

vars == <<tool, world, available, services, pc, output, stop>>

Version == DOMAIN Truth
Cancelled == stop # "uncalled"

-----------------------------------------------------------------------------
(* systemctl                                                               *)

ToolChanges ==
  /\ tool' \in {"works", "fails", "hangs"} \ {tool}
  /\ UNCHANGED <<world, available, services, pc, output, stop>>

UnitsChange ==
  /\ world + 1 \in Version
  /\ world' = world + 1
  /\ UNCHANGED <<tool, available, services, pc, output, stop>>

-----------------------------------------------------------------------------
(* run and refresh                                                         *)

\* The ticker fires.  When the context is done too, select takes either.
Refresh ==
  /\ pc = "idle"
  /\ pc' = "list"
  /\ UNCHANGED <<tool, world, available, services, output, stop>>

\* Variant for the mutation runs: an error ends the loop.
RunGivesUp ==
  /\ pc = "list"
  /\ \/ /\ tool = "works"
        /\ output' = world /\ pc' = "publish"
        /\ UNCHANGED available
     \/ /\ tool = "fails" \/ Cancelled
        /\ available' = FALSE /\ pc' = "done"
        /\ UNCHANGED output
  /\ UNCHANGED <<tool, world, services, stop>>

\* The command has no timeout of its own: the context kills it.  After an error
\* the flag falls and the services stay.
Run ==
  /\ pc = "list"
  /\ \/ /\ tool = "works"
        /\ output' = world /\ pc' = "publish"
        /\ UNCHANGED available
     \/ /\ tool = "fails" \/ Cancelled
        /\ available' = FALSE /\ pc' = "idle"
        /\ UNCHANGED output
  /\ UNCHANGED <<tool, world, services, stop>>

Publish ==
  /\ pc = "publish"
  /\ services' = Parsed[output] /\ available' = TRUE
  /\ pc' = "idle"
  /\ UNCHANGED <<tool, world, output, stop>>

\* The loop ends.
Leave ==
  /\ pc = "idle"
  /\ Cancelled
  /\ pc' = "done"
  /\ UNCHANGED <<tool, world, available, services, output, stop>>

-----------------------------------------------------------------------------
(* Stop                                                                    *)

CallStop ==
  /\ stop = "uncalled"
  /\ stop' = "waiting"
  /\ UNCHANGED <<tool, world, available, services, pc, output>>

StopReturns ==
  /\ stop = "waiting"
  /\ pc = "done"
  /\ stop' = "returned"
  /\ UNCHANGED <<tool, world, available, services, pc, output>>

-----------------------------------------------------------------------------
(* Specification                                                           *)

\* NewMonitor has run systemctl --version, for three seconds at most, and Start
\* has begun run, which refreshes at once.
Init ==
  /\ tool \in {"works", "fails", "hangs"}
  /\ world = 0
  /\ available = (tool = "works")
  /\ services = <<>>
  /\ pc = "list"
  /\ output = 0
  /\ stop = "uncalled"

Work == Refresh \/ Run \/ Publish

Next ==
  \/ ToolChanges \/ UnitsChange
  \/ Work \/ Leave
  \/ CallStop \/ StopReturns

\* The goroutines are scheduled, and the one that has its context done leaves at last.
Fairness == WF_vars(Work \/ StopReturns) /\ SF_vars(Leave)

-----------------------------------------------------------------------------
(* Properties                                                              *)

\* The state that the services are: 0 before the first listing, and one that has
\* not been yet for what no state is.
ListedVersion ==
  IF services = <<>> THEN 0
  ELSE IF \E v \in Version : Truth[v] = services
       THEN 1 + CHOOSE v \in Version : Truth[v] = services
       ELSE world + 2

Feed == INSTANCE MonitorFeed WITH world <- world + 1, flag <- available,
                                  listing <- ListedVersion

\* parser.go:10-60, monitor.go:117-137: what is served is, unit by unit, a
\* state the units were in, never an older one than before, through every failure.
ServicesAreAFeed == Feed!FeedSpec

\* monitor.go:101-137: once systemctl works for good, the units come to be listed as
\* they are, and the flag to stay up, for as long as the monitor is not stopped.
ServicesCatchUp ==
  <>[](tool = "works" /\ ~Cancelled) => <>[](available /\ services = Truth[world])

\* monitor.go:64-70: Stop returns, even from a systemctl that hangs.
StopEnds == stop = "waiting" ~> stop = "returned"
=============================================================================
