---------------------------- MODULE DockerMonitor ----------------------------
(***************************************************************************)
(* The Docker monitor (internal/docker/monitor.go): the goroutine that     *)
(* refreshes the listing and reconnects, Stop, and the detail requests     *)
(* that read its client without the mutex, against a daemon that comes,    *)
(* goes and hangs.                                                         *)
(*                                                                         *)
(* The field client is a Go interface, two words.  It is stored under the  *)
(* mutex and read by ContainerDetail without it, so that a request may see *)
(* a store half done ("torn").  A listing is known by its version.         *)
(***************************************************************************)
EXTENDS Naturals

CONSTANTS Requests,    \* bound: detail requests in flight at once
          MaxVersion   \* bound: changes of the daemon's containers

ASSUME BoundAssumption == MaxVersion \in Nat

VARIABLES
  daemon,      \* "up"; "down": calls fail; "hung": calls do not return
  world,       \* version of the daemon's containers
  client,      \* the field: "nil", "torn" or "set"
  available, containers,   \* the other two fields; containers is a version
  pc,          \* where the monitor's goroutine is
  fetched,     \* the version its list call returned
  stop,        \* Stop: "uncalled", "waiting" for the goroutine, "returned"
  asked,       \* request -> "free", "checked" (client was not nil), "panicked"
  raced        \* history: requests during which the field client was stored

vars == <<daemon, world, client, available, containers, pc, fetched, stop, asked, raced>>
worldVars == <<daemon, world>>
fieldVars == <<client, available, containers>>
detailVars == <<asked, raced>>

Version == 0..MaxVersion
\* The context of the refreshes is done.
Cancelled == stop # "uncalled"
InFlight == {r \in Requests : asked[r] = "checked"}

-----------------------------------------------------------------------------
(* The daemon                                                              *)

DaemonChanges ==
  /\ daemon' \in {"up", "down", "hung"} \ {daemon}
  /\ UNCHANGED <<world, fieldVars, pc, fetched, stop, detailVars>>

ContainersChange ==
  /\ world < MaxVersion
  /\ world' = world + 1
  /\ UNCHANGED <<daemon, fieldVars, pc, fetched, stop, detailVars>>

-----------------------------------------------------------------------------
(* run and refresh                                                         *)

\* Variant for the mutation runs: without a client there is nothing to refresh.
FirstCallNoReconnect == IF client = "nil" THEN "idle" ELSE "list"

\* What a refresh begins with.
FirstCall == IF client = "nil" THEN "ping" ELSE "list"

\* The ticker fires.  When the context is done too, select takes either.
Refresh ==
  /\ pc = "idle"
  /\ pc' = FirstCall
  /\ UNCHANGED <<worldVars, fieldVars, fetched, stop, detailVars>>

\* The loop ends.
Leave ==
  /\ pc = "idle"
  /\ Cancelled
  /\ pc' = "done"
  /\ UNCHANGED <<worldVars, fieldVars, fetched, stop, detailVars>>

\* A new client pings, for at most three seconds.  Its options, from the
\* environment, are taken as valid.
Ping ==
  /\ pc = "ping"
  /\ \/ daemon = "up" /\ pc' = "connect"
     \/ (daemon # "up" \/ Cancelled) /\ pc' = "idle"
  /\ UNCHANGED <<worldVars, fieldVars, fetched, stop, detailVars>>

\* The critical sections store the client first: half of it, then the rest with
\* the flag.
StoreHalf ==
  /\ pc \in {"connect", "drop"}
  /\ client # "torn"
  /\ client' = "torn"
  /\ raced' = raced \cup InFlight
  /\ UNCHANGED <<worldVars, available, containers, pc, fetched, stop, asked>>

Connect ==
  /\ pc = "connect"
  /\ client = "torn"
  /\ client' = "set" /\ available' = TRUE
  /\ pc' = "list"
  /\ UNCHANGED <<worldVars, containers, fetched, stop, detailVars>>

\* Variant for the mutation runs: the calls are made without the context.
ListUncancelled ==
  /\ pc = "list"
  /\ \/ daemon = "up" /\ fetched' = world /\ pc' \in {"stats", "publish"}
     \/ daemon = "down" /\ UNCHANGED fetched /\ pc' = "drop"
  /\ UNCHANGED <<worldVars, fieldVars, stop, detailVars>>

\* ContainerList has no timeout: only the daemon or Stop can end it.  Running
\* containers are then asked for their statistics.
List ==
  /\ pc = "list"
  /\ \/ daemon = "up" /\ fetched' = world /\ pc' \in {"stats", "publish"}
     \/ (daemon = "down" \/ Cancelled) /\ UNCHANGED fetched /\ pc' = "drop"
  /\ UNCHANGED <<worldVars, fieldVars, stop, detailVars>>

\* Variant for the mutation runs: the client is kept, the flag alone falls.
DropFlag ==
  /\ pc = "drop"
  /\ client = "torn"
  /\ client' = "set" /\ available' = FALSE
  /\ pc' = "idle"
  /\ UNCHANGED <<worldVars, containers, fetched, stop, detailVars>>

Drop ==
  /\ pc = "drop"
  /\ client = "torn"
  /\ client' = "nil" /\ available' = FALSE
  /\ pc' = "idle"
  /\ UNCHANGED <<worldVars, containers, fetched, stop, detailVars>>

\* The statistics have no timeout either; those that fail are skipped.
Stats ==
  /\ pc = "stats"
  /\ daemon # "hung" \/ Cancelled
  /\ pc' = "publish"
  /\ UNCHANGED <<worldVars, fieldVars, fetched, stop, detailVars>>

\* Variant for the mutation runs: what was fetched is appended to what there was.
PublishAppended ==
  /\ pc = "publish"
  /\ containers' = containers + fetched /\ available' = TRUE
  /\ pc' = "idle"
  /\ UNCHANGED <<worldVars, client, fetched, stop, detailVars>>

Publish ==
  /\ pc = "publish"
  /\ containers' = fetched /\ available' = TRUE
  /\ pc' = "idle"
  /\ UNCHANGED <<worldVars, client, fetched, stop, detailVars>>

-----------------------------------------------------------------------------
(* Stop                                                                    *)

CallStop ==
  /\ stop = "uncalled"
  /\ stop' = "waiting"
  /\ UNCHANGED <<worldVars, fieldVars, pc, fetched, detailVars>>

\* The goroutine has ended, and the client is closed: it stays in its field.
StopReturns ==
  /\ stop = "waiting"
  /\ pc = "done"
  /\ stop' = "returned"
  /\ UNCHANGED <<worldVars, fieldVars, pc, fetched, detailVars>>

-----------------------------------------------------------------------------
(* ContainerDetail                                                         *)

\* Variant for the mutation runs: the client is not compared with nil.
AskUnchecked(r) ==
  /\ asked[r] = "free"
  /\ asked' = [asked EXCEPT ![r] = "checked"]
  /\ raced' = IF client = "torn" THEN raced \cup {r} ELSE raced \ {r}
  /\ UNCHANGED <<worldVars, fieldVars, pc, fetched, stop>>

\* The first read of the client: nil is an error for the caller.
Ask(r) ==
  /\ asked[r] = "free"
  /\ client # "nil"
  /\ asked' = [asked EXCEPT ![r] = "checked"]
  /\ raced' = IF client = "torn" THEN raced \cup {r} ELSE raced \ {r}
  /\ UNCHANGED <<worldVars, fieldVars, pc, fetched, stop>>

\* The second read calls through what it finds; the answer, or the end of the
\* request's context, is left to the handler.
Inspect(r) ==
  /\ asked[r] = "checked"
  /\ \/ client # "nil" /\ asked' = [asked EXCEPT ![r] = "free"]
     \/ client # "set" /\ asked' = [asked EXCEPT ![r] = "panicked"]
  /\ UNCHANGED <<worldVars, fieldVars, pc, fetched, stop, raced>>

\* net/http recovers the panic and drops the connection.
Recover(r) ==
  /\ asked[r] = "panicked"
  /\ asked' = [asked EXCEPT ![r] = "free"]
  /\ UNCHANGED <<worldVars, fieldVars, pc, fetched, stop, raced>>

-----------------------------------------------------------------------------
(* Specification                                                           *)

\* NewMonitor has reached the daemon or not, and Start has begun run, which
\* refreshes at once.
Init ==
  /\ daemon \in {"up", "down", "hung"}
  /\ world = 0
  /\ client \in {"nil", "set"}
  /\ available = (client = "set")
  /\ containers = 0
  /\ pc = FirstCall
  /\ fetched = 0
  /\ stop = "uncalled"
  /\ asked = [r \in Requests |-> "free"]
  /\ raced = {}

Work == Refresh \/ Ping \/ StoreHalf \/ Connect \/ List \/ Drop \/ Stats \/ Publish

Next ==
  \/ DaemonChanges \/ ContainersChange
  \/ Work \/ Leave
  \/ CallStop \/ StopReturns
  \/ \E r \in Requests : Ask(r) \/ Inspect(r) \/ Recover(r)

Spec == Init /\ [][Next]_vars

\* The goroutines are scheduled, and a select that finds its context done time
\* and again takes that case at last: Go chooses among the ready ones at random.
FairSpec ==
  /\ Spec
  /\ WF_vars(Work) /\ SF_vars(Leave)
  /\ WF_vars(StopReturns)

-----------------------------------------------------------------------------
(* Properties                                                              *)

\* The type of every variable.
TypeOK ==
  /\ daemon \in {"up", "down", "hung"} /\ world \in Version
  /\ client \in {"nil", "torn", "set"}
  /\ available \in BOOLEAN /\ containers \in Version
  /\ pc \in {"idle", "ping", "connect", "list", "drop", "stats", "publish", "done"}
  /\ fetched \in Version
  /\ stop \in {"uncalled", "waiting", "returned"}
  /\ asked \in [Requests -> {"free", "checked", "panicked"}]
  /\ raced \in SUBSET Requests

\* monitor.go:50-51, 180-183, 190-193, 209-212: whoever holds the mutex finds the
\* flag up exactly when there is a client, whatever calls failed in between.
FlagMeansClient == client # "torn" => (available <=> client = "set")

\* monitor.go:106-110: a detail request panics only when a refresh stored the
\* client while it ran; without Docker, or with a settled one, it is answered.
PanicsOnlyInARace == \A r \in Requests : asked[r] = "panicked" => r \in raced

\* monitor.go:166-213, PL0005-docker-monitor.md:50: a daemon that comes back to
\* stay is picked up, and its containers come to be listed, for as long as the
\* monitor is not stopped.
PicksUpTheDaemon ==
  <>[](daemon = "up" /\ ~Cancelled) => <>[](available /\ containers = world)

\* The listing of containers as the feed that the engine polls.
Feed == INSTANCE MonitorFeed WITH flag <- available, listing <- containers

\* monitor.go:166-213: what is listed is a state the containers were in, never an older
\* one than before, while calls fail and the client comes and goes.
ContainersAreAFeed == Feed!FeedSpec

\* monitor.go:77-86: Stop returns, even from a call to a daemon that hangs.
StopEnds == stop = "waiting" ~> stop = "returned"
=============================================================================
