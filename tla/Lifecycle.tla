------------------------------ MODULE Lifecycle ------------------------------
(***************************************************************************)
(* One life of the process (cmd/ultron-ap/main.go): the start-up with its  *)
(* deferred calls, the signal, the shutdown of the HTTP server with its    *)
(* ten seconds, and the deferred calls.  After log.Fatal, or the default   *)
(* action of a signal, the process is gone and nothing deferred has run.   *)
(*                                                                         *)
(* What the goroutines do in their work is in the other modules; here they *)
(* are busy or not, and a request is a handler that runs.                  *)
(***************************************************************************)
EXTENDS Naturals, Sequences

CONSTANT Requests   \* bound: requests the server handles at once

Workers == {"collector", "docker", "systemd", "engine"}
Gone == {"exited", "fatal", "killed"}
Stages == {"config", "database", "admin", "seed", "listen", "notify",
           "waiting", "shutdown", "deferred"} \cup Workers \cup Gone

VARIABLES
  main,        \* the stage of main, or how it ended
  deferred,    \* the parts whose Stop or Close is deferred, the first to run first
  worker,      \* goroutine -> "off", "idle", "busy", "done"
  db,          \* "off", "open", "closed"
  account,     \* the User table has a row
  password,    \* ULTRON_ADMIN_PASS is set
  server,      \* "off", "starting", "listening", "failed", "closed"
  request,     \* request -> "none", "busy", "held": only its client can end it
  quit         \* the signals in the channel

vars == <<main, deferred, worker, db, account, password, server, request, quit>>
dbVars == <<db, account, password>>
httpVars == <<server, request>>

Alive == main \notin Gone
\* The deferred call that runs, if any, is that of p.
Stopping(p) == main = "deferred" /\ deferred # <<>> /\ Head(deferred) = p

-----------------------------------------------------------------------------
(* Start-up                                                                *)

\* Variant for the mutation runs: the first to be started is the first to be stopped.
DeferLast(p) == Append(deferred, p)

Defer(p) == <<p>> \o deferred

\* log.Fatal, in the stages that can fail.
Fatal ==
  /\ main \in {"config", "database", "admin", "seed"}
  /\ main' = "fatal"
  /\ UNCHANGED <<deferred, worker, dbVars, httpVars, quit>>

LoadConfig ==
  /\ main = "config"
  /\ main' = "database"
  /\ UNCHANGED <<deferred, worker, dbVars, httpVars, quit>>

OpenDatabase ==
  /\ main = "database"
  /\ db' = "open"
  /\ deferred' = Defer("db")
  /\ main' = "admin"
  /\ UNCHANGED <<worker, account, password, httpVars, quit>>

\* The first start inserts the account; it needs a password.
BootstrapAdmin ==
  /\ main = "admin"
  /\ account \/ password
  /\ account' = TRUE
  /\ main' = "collector"
  /\ UNCHANGED <<deferred, worker, db, password, httpVars, quit>>

After(w) ==
  CASE w = "collector" -> "docker"
    [] w = "docker" -> "systemd"
    [] w = "systemd" -> "seed"
    [] w = "engine" -> "listen"

\* Start: the engine waits an interval, the others begin with their work.
StartWorker(w) ==
  /\ main = w
  /\ worker' = [worker EXCEPT ![w] = IF w = "engine" THEN "idle" ELSE "busy"]
  /\ deferred' = Defer(w)
  /\ main' = After(w)
  /\ UNCHANGED <<dbVars, httpVars, quit>>

SeedRules ==
  /\ main = "seed"
  /\ main' = "engine"
  /\ UNCHANGED <<deferred, worker, dbVars, httpVars, quit>>

StartServer ==
  /\ main = "listen"
  /\ server' = "starting"
  /\ main' = "notify"
  /\ UNCHANGED <<deferred, worker, dbVars, request, quit>>

Notify ==
  /\ main = "notify"
  /\ main' = "waiting"
  /\ UNCHANGED <<deferred, worker, dbVars, httpVars, quit>>

-----------------------------------------------------------------------------
(* The goroutines and the server                                           *)

Tick(w) ==
  /\ Alive
  /\ worker[w] = "idle"
  /\ worker' = [worker EXCEPT ![w] = "busy"]
  /\ UNCHANGED <<main, deferred, dbVars, httpVars, quit>>

Finish(w) ==
  /\ Alive
  /\ worker[w] = "busy"
  /\ worker' = [worker EXCEPT ![w] = "idle"]
  /\ UNCHANGED <<main, deferred, dbVars, httpVars, quit>>

\* The context is done: the loop ends, unless select takes the ticker.
Quit(w) ==
  /\ Stopping(w)
  /\ worker[w] = "idle"
  /\ worker' = [worker EXCEPT ![w] = "done"]
  /\ UNCHANGED <<main, deferred, dbVars, httpVars, quit>>

\* The goroutine of srv.Start; the port may be taken, or Accept fail later.
Listen ==
  /\ Alive
  /\ server = "starting"
  /\ server' \in {"listening", "failed"}
  /\ UNCHANGED <<main, deferred, worker, dbVars, request, quit>>

ListenerFails ==
  /\ Alive
  /\ server = "listening"
  /\ server' = "failed"
  /\ UNCHANGED <<main, deferred, worker, dbVars, request, quit>>

Arrive(r) ==
  /\ Alive
  /\ server = "listening"
  /\ request[r] = "none"
  /\ request' = [request EXCEPT ![r] = "busy"]
  /\ UNCHANGED <<main, deferred, worker, dbVars, server, quit>>

\* The stream of the dashboard, or the detail of a container whose daemon hangs.
Hold(r) ==
  /\ Alive
  /\ request[r] = "busy"
  /\ request' = [request EXCEPT ![r] = "held"]
  /\ UNCHANGED <<main, deferred, worker, dbVars, server, quit>>

Answer(r) ==
  /\ Alive
  /\ request[r] = "busy"
  /\ request' = [request EXCEPT ![r] = "none"]
  /\ UNCHANGED <<main, deferred, worker, dbVars, server, quit>>

ClientLeaves(r) ==
  /\ Alive
  /\ request[r] = "held"
  /\ request' = [request EXCEPT ![r] = "none"]
  /\ UNCHANGED <<main, deferred, worker, dbVars, server, quit>>

-----------------------------------------------------------------------------
(* Signal and shutdown                                                     *)

\* SIGINT or SIGTERM before signal.Notify.
SignalKills ==
  /\ Alive
  /\ main \notin {"waiting", "shutdown", "deferred"}
  /\ main' = "killed"
  /\ UNCHANGED <<deferred, worker, dbVars, httpVars, quit>>

\* The channel holds one signal, and signal.Notify drops what does not fit.
Signal ==
  /\ main \in {"waiting", "shutdown", "deferred"}
  /\ quit' = 1
  /\ UNCHANGED <<main, deferred, worker, dbVars, httpVars>>

\* Shutdown closes the listener; a server that has not listened yet never does.
BeginShutdown ==
  /\ main = "waiting"
  /\ quit = 1
  /\ quit' = 0
  /\ server' = IF server = "failed" THEN server ELSE "closed"
  /\ main' = "shutdown"
  /\ UNCHANGED <<deferred, worker, dbVars, request>>

ServerError ==
  /\ main = "waiting"
  /\ server = "failed"
  /\ main' = "fatal"
  /\ UNCHANGED <<deferred, worker, dbVars, httpVars, quit>>

Drained == \A r \in Requests : request[r] = "none"

\* Variant for the mutation runs: Shutdown is given a context without a deadline.
OverdueNever == FALSE

\* Ten seconds end what is answered at all: what is left is held.
Overdue == \E r \in Requests : request[r] = "held"

ShutdownReturns ==
  /\ main = "shutdown"
  /\ Drained
  /\ main' = "deferred"
  /\ UNCHANGED <<deferred, worker, dbVars, httpVars, quit>>

ShutdownTimesOut ==
  /\ main = "shutdown"
  /\ Overdue
  /\ main' = "fatal"
  /\ UNCHANGED <<deferred, worker, dbVars, httpVars, quit>>

\* Variant for the mutation runs: Stop cancels and does not wait for the goroutine.
JoinedAtOnce(w) == TRUE

Joined(w) == worker[w] = "done"

StopReturns(w) ==
  /\ Stopping(w)
  /\ Joined(w)
  /\ deferred' = Tail(deferred)
  /\ UNCHANGED <<main, worker, dbVars, httpVars, quit>>

CloseDatabase ==
  /\ Stopping("db")
  /\ db' = "closed"
  /\ deferred' = Tail(deferred)
  /\ UNCHANGED <<main, worker, account, password, httpVars, quit>>

Exit ==
  /\ main = "deferred"
  /\ deferred = <<>>
  /\ main' = "exited"
  /\ UNCHANGED <<deferred, worker, dbVars, httpVars, quit>>

-----------------------------------------------------------------------------
(* Specification                                                           *)

Init ==
  /\ main = "config"
  /\ deferred = <<>>
  /\ worker = [w \in Workers |-> "off"]
  /\ db = "off"
  /\ account \in BOOLEAN
  /\ password \in BOOLEAN
  /\ server = "off"
  /\ request = [r \in Requests |-> "none"]
  /\ quit = 0

StartUp ==
  \/ LoadConfig \/ OpenDatabase \/ BootstrapAdmin \/ SeedRules \/ StartServer \/ Notify
  \/ \E w \in Workers : StartWorker(w)

ShutDown ==
  \/ BeginShutdown \/ ShutdownReturns \/ ShutdownTimesOut
  \/ \E w \in Workers : StopReturns(w)
  \/ CloseDatabase \/ Exit

Next ==
  \/ StartUp \/ Fatal
  \/ \E w \in Workers : Tick(w) \/ Finish(w) \/ Quit(w)
  \/ Listen \/ ListenerFails
  \/ \E r \in Requests : Arrive(r) \/ Hold(r) \/ Answer(r) \/ ClientLeaves(r)
  \/ SignalKills \/ Signal \/ ServerError
  \/ ShutDown

Spec == Init /\ [][Next]_vars

\* main goes on; handlers that answer do; a goroutine whose context is done ends
\* its work, for what could wait there without end waits on that context, and then
\* its loop, for a select takes each of two ready cases at last.
FairSpec ==
  /\ Spec
  /\ WF_vars(StartUp) /\ WF_vars(ShutDown)
  /\ \A r \in Requests : WF_vars(Answer(r) \/ Hold(r))
  /\ \A w \in Workers : WF_vars(Stopping(w) /\ Finish(w)) /\ SF_vars(Quit(w))

-----------------------------------------------------------------------------
(* Properties                                                              *)

\* The type of every variable.
TypeOK ==
  /\ main \in Stages
  /\ deferred \in Seq(Workers \cup {"db"})
  /\ worker \in [Workers -> {"off", "idle", "busy", "done"}]
  /\ db \in {"off", "open", "closed"}
  /\ account \in BOOLEAN /\ password \in BOOLEAN
  /\ server \in {"off", "starting", "listening", "failed", "closed"}
  /\ request \in [Requests -> {"none", "busy", "held"}]
  /\ quit \in 0..1

Evaluating == worker["engine"] = "busy"
Handling == \E r \in Requests : request[r] # "none"

\* main.go:43-97: while the engine evaluates or a handler runs, the database is
\* open and neither the collector nor a monitor has been stopped; from the first
\* request to the last deferred call.
UsersFindLiveParts ==
  Evaluating \/ Handling =>
    db = "open" /\ \A w \in Workers : worker[w] \in {"idle", "busy"}

\* main.go:39-41, 102-126: whoever reaches the server finds an account to sign in to.
RequestsFindAnAccount == Handling => account

\* main.go:92-100: the process exits with 0 only when no handler and no goroutine
\* of a part runs any more and the database is closed.
ExitIsClean ==
  main = "exited" =>
    /\ ~Handling
    /\ db = "closed"
    /\ \A w \in Workers : worker[w] = "done"

\* main.go:80-97: a signal the program has taken ends it, with dashboards open
\* and daemons that hang.
SignalEndsTheProcess == main = "shutdown" ~> main \in Gone

\* US0001-project-scaffolding.md:116: "Graceful shutdown: close DB, drain
\* connections, exit 0".  An open dashboard is a request that does not end.
GracefulShutdown == main = "shutdown" ~> main = "exited"
=============================================================================
