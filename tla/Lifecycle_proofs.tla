-------------------------- MODULE Lifecycle_proofs --------------------------
(***************************************************************************)
(* Theorems about Lifecycle, for every number of requests at once.         *)
(***************************************************************************)
EXTENDS Lifecycle, SequenceTheorems, TLAPS

-----------------------------------------------------------------------------
(* The stacks of deferred calls                                            *)

S0 == <<>>
S1 == <<"db">>
S2 == <<"collector", "db">>
S3 == <<"docker", "collector", "db">>
S4 == <<"systemd", "docker", "collector", "db">>
S5 == <<"engine", "systemd", "docker", "collector", "db">>
Stacks == {S0, S1, S2, S3, S4, S5}

\* The stacks with w's Stop in them.
Owing(w) ==
  CASE w = "collector" -> {S2, S3, S4, S5}
    [] w = "docker" -> {S3, S4, S5}
    [] w = "systemd" -> {S4, S5}
    [] w = "engine" -> {S5}

LEMMA StacksTyped == Stacks \subseteq Seq(Workers \cup {"db"})
BY SMT DEF Stacks, S0, S1, S2, S3, S4, S5, Workers

\* A sequence is the one it becomes without its head, pushed on by that head.
LEMMA PushIs ==
  ASSUME NEW S, NEW p \in S, NEW s \in Seq(S), NEW u \in Seq(S),
         Len(u) = Len(s) + 1, u[1] = p, \A i \in 1..Len(s) : u[i + 1] = s[i]
  PROVE  <<p>> \o s = u
<1>1. /\ <<p>> \in Seq(S) /\ Len(<<p>>) = 1 /\ <<p>>[1] = p /\ Len(s) \in Nat
  BY SMT
<1>2. /\ <<p>> \o s \in Seq(S) /\ Len(<<p>> \o s) = Len(u)
      /\ \A i \in 1..(1 + Len(s)) :
           (<<p>> \o s)[i] = IF i <= 1 THEN <<p>>[i] ELSE s[i - 1]
  BY <1>1, ConcatProperties
<1>3. ASSUME NEW i \in 1..Len(u) PROVE (<<p>> \o s)[i] = u[i]
  <2>1. CASE i = 1
    BY <1>1, <1>2, <2>1
  <2>2. CASE i # 1
    <3>1. i - 1 \in 1..Len(s) /\ (i - 1) + 1 = i /\ i \in 1..(1 + Len(s)) /\ ~(i <= 1)
      BY <1>1, <2>2
    <3>2. u[i] = s[i - 1]
      BY <3>1
    <3> QED
      BY <1>2, <3>1, <3>2
  <2> QED
    BY <2>1, <2>2
<1> QED
  BY <1>2, <1>3, SeqEqual

LEMMA Pushes ==
  /\ <<"db">> \o S0 = S1
  /\ <<"collector">> \o S1 = S2
  /\ <<"docker">> \o S2 = S3
  /\ <<"systemd">> \o S3 = S4
  /\ <<"engine">> \o S4 = S5
<1> DEFINE P == Workers \cup {"db"}
<1>1. {"db", "collector", "docker", "systemd", "engine"} \subseteq P
  BY DEF Workers
<1>2. Stacks \subseteq Seq(P)
  BY StacksTyped
<1> HIDE DEF P
<1>3. <<"db">> \o S0 = S1
  <2>1. Len(S1) = Len(S0) + 1 /\ S1[1] = "db" /\ \A i \in 1..Len(S0) : S1[i + 1] = S0[i]
    BY SMT DEF S0, S1
  <2> QED
    BY <1>1, <1>2, <2>1, PushIs DEF Stacks
<1>4. <<"collector">> \o S1 = S2
  <2>1. Len(S2) = Len(S1) + 1 /\ S2[1] = "collector"
        /\ \A i \in 1..Len(S1) : S2[i + 1] = S1[i]
    BY SMT DEF S1, S2
  <2> QED
    BY <1>1, <1>2, <2>1, PushIs DEF Stacks
<1>5. <<"docker">> \o S2 = S3
  <2>1. Len(S3) = Len(S2) + 1 /\ S3[1] = "docker"
        /\ \A i \in 1..Len(S2) : S3[i + 1] = S2[i]
    BY SMT DEF S2, S3
  <2> QED
    BY <1>1, <1>2, <2>1, PushIs DEF Stacks
<1>6. <<"systemd">> \o S3 = S4
  <2>1. Len(S4) = Len(S3) + 1 /\ S4[1] = "systemd"
        /\ \A i \in 1..Len(S3) : S4[i + 1] = S3[i]
    BY SMT DEF S3, S4
  <2> QED
    BY <1>1, <1>2, <2>1, PushIs DEF Stacks
<1>7. <<"engine">> \o S4 = S5
  <2>1. Len(S5) = Len(S4) + 1 /\ S5[1] = "engine"
        /\ \A i \in 1..Len(S4) : S5[i + 1] = S4[i]
    BY SMT DEF S4, S5
  <2> QED
    BY <1>1, <1>2, <2>1, PushIs DEF Stacks
<1> QED
  BY <1>3, <1>4, <1>5, <1>6, <1>7

LEMMA Pops ==
  /\ Tail(S1) = S0 /\ Head(S1) = "db"
  /\ Tail(S2) = S1 /\ Head(S2) = "collector"
  /\ Tail(S3) = S2 /\ Head(S3) = "docker"
  /\ Tail(S4) = S3 /\ Head(S4) = "systemd"
  /\ Tail(S5) = S4 /\ Head(S5) = "engine"
BY SMT DEF S0, S1, S2, S3, S4, S5

LEMMA Apart ==
  /\ S0 # S1 /\ S0 # S2 /\ S0 # S3 /\ S0 # S4 /\ S0 # S5
  /\ S1 # S2 /\ S1 # S3 /\ S1 # S4 /\ S1 # S5
  /\ S2 # S3 /\ S2 # S4 /\ S2 # S5
  /\ S3 # S4 /\ S3 # S5
  /\ S4 # S5
BY SMT DEF S0, S1, S2, S3, S4, S5

-----------------------------------------------------------------------------
(* The inductive invariant                                                 *)

\* The stage of main tells what is deferred.
Shape ==
  /\ deferred \in Stacks
  /\ main \in {"config", "database", "exited"} => deferred = S0
  /\ main \in {"admin", "collector"} => deferred = S1
  /\ main = "docker" => deferred = S2
  /\ main = "systemd" => deferred = S3
  /\ main \in {"seed", "engine"} => deferred = S4
  /\ main \in {"listen", "notify", "waiting", "shutdown"} => deferred = S5

\* The deferred calls have begun, or are over.
Winding == main \in {"deferred", "exited"}

\* Until then what is deferred tells what runs.
Ascent ==
  ~Winding =>
    /\ \A w \in Workers : deferred \in Owing(w) => worker[w] \in {"idle", "busy"}
    /\ \A w \in Workers : deferred \notin Owing(w) => worker[w] = "off"
    /\ deferred = S0 => db = "off"
    /\ deferred # S0 => db = "open"

\* From then on a goroutine ends in its turn, and nobody else uses anything.
Descent ==
  Winding =>
    /\ \A w \in Workers : deferred \in Owing(w) =>
         \/ worker[w] \in {"idle", "busy"}
         \/ worker[w] = "done" /\ Head(deferred) = w
    /\ \A w \in Workers : deferred \notin Owing(w) => worker[w] = "done"
    /\ deferred = S0 => db = "closed"
    /\ deferred # S0 => db = "open"
    /\ \A r \in Requests : request[r] = "none"
    /\ server \in {"failed", "closed"}

\* The server is started last, with an account, and is not left listening.
Served ==
  /\ server # "off" \/ Handling => account /\ (Winding \/ deferred = S5)
  /\ main \in {"waiting", "notify", "shutdown"} => server # "off"
  /\ main = "shutdown" => server \in {"failed", "closed"}
  /\ main \notin {"config", "database", "admin", "fatal", "killed"} => account

IInv == TypeOK /\ Shape /\ Ascent /\ Descent /\ Served

LEMMA Owings ==
  /\ Owing("collector") = {S2, S3, S4, S5}
  /\ Owing("docker") = {S3, S4, S5}
  /\ Owing("systemd") = {S4, S5}
  /\ Owing("engine") = {S5}
BY DEF Owing

LEMMA InitEstablishes == Init => IInv
<1> SUFFICES ASSUME Init PROVE IInv
  OBVIOUS
<1>1. TypeOK /\ Shape
  BY StacksTyped DEF Init, TypeOK, Stages, Workers, Shape, Stacks, S0
<1>2. deferred = S0 /\ \A w \in Workers : deferred \notin Owing(w)
  BY Owings, Apart DEF Init, S0, Workers
<1>3. Ascent /\ Descent /\ Served
  BY <1>2 DEF Init, Ascent, Descent, Served, Winding, Handling
<1> QED
  BY <1>1, <1>3 DEF IInv

\* main goes from one stage to the next, or ends, and starts or stops nothing.
LEMMA StagesPreserve ==
  ASSUME IInv,
         \/ Fatal \/ LoadConfig \/ BootstrapAdmin \/ SeedRules \/ Notify
         \/ SignalKills \/ ServerError \/ ShutdownTimesOut
  PROVE  IInv'
<1>1. /\ ~Winding /\ ~Winding' /\ main' \in Stages /\ account' \in BOOLEAN
      /\ UNCHANGED <<deferred, worker, db, password, server, request, quit>>
      /\ account => account'
  BY DEF IInv, TypeOK, Winding, Stages, Workers, Gone, Alive, dbVars, httpVars, Fatal,
         LoadConfig, BootstrapAdmin, SeedRules, Notify, SignalKills, ServerError,
         ShutdownTimesOut
<1>2. TypeOK'
  BY <1>1 DEF IInv, TypeOK
<1>3. Shape'
  BY <1>1 DEF IInv, Shape, Fatal, LoadConfig, BootstrapAdmin, SeedRules, Notify,
         SignalKills, ServerError, ShutdownTimesOut
<1>4. Ascent' /\ Descent'
  BY <1>1 DEF IInv, Ascent, Descent
<1>5. Served'
  BY <1>1 DEF IInv, Served, Handling, Winding, Fatal, LoadConfig, BootstrapAdmin,
         SeedRules, Notify, SignalKills, ServerError, ShutdownTimesOut
<1> QED
  BY <1>2, <1>3, <1>4, <1>5 DEF IInv

\* The server and its requests, before the deferred calls.
LEMMA ServerPreserves ==
  ASSUME IInv, StartServer \/ Listen \/ ListenerFails \/ BeginShutdown
  PROVE  IInv'
<1>1. /\ ~Winding /\ ~Winding' /\ main' \in Stages /\ server' \notin {"off"}
      /\ server' \in {"starting", "listening", "failed", "closed"} /\ quit' \in 0..1
      /\ UNCHANGED <<deferred, worker, db, account, password, request>>
      /\ account /\ deferred = S5
  BY DEF IInv, TypeOK, Shape, Descent, Served, Winding, Stages, Workers, Gone, Alive,
         dbVars, httpVars, StartServer, Listen, ListenerFails, BeginShutdown
<1>2. TypeOK'
  BY <1>1 DEF IInv, TypeOK
<1>3. Shape'
  BY <1>1 DEF IInv, Shape, StartServer, Listen, ListenerFails, BeginShutdown
<1>4. Ascent' /\ Descent'
  BY <1>1 DEF IInv, Ascent, Descent
<1>5. Served'
  BY <1>1 DEF IInv, Served, Handling, Winding, StartServer, Listen, ListenerFails,
         BeginShutdown
<1> QED
  BY <1>2, <1>3, <1>4, <1>5 DEF IInv

\* A request comes while the server listens, and no request is left when the
\* deferred calls begin.
LEMMA RequestPreserves ==
  ASSUME IInv, NEW r \in Requests, Arrive(r) \/ Hold(r) \/ Answer(r) \/ ClientLeaves(r)
  PROVE  IInv'
<1>1. /\ UNCHANGED <<main, deferred, worker, db, account, password, server, quit>>
      /\ request' \in [Requests -> {"none", "busy", "held"}]
  BY DEF IInv, TypeOK, dbVars, Arrive, Hold, Answer, ClientLeaves
<1>2. server # "off" \/ Handling
  BY DEF Arrive, Hold, Answer, ClientLeaves, Handling
<1>3. ~Winding
  <2>1. server = "listening" \/ request[r] # "none"
    BY DEF Arrive, Hold, Answer, ClientLeaves
  <2> QED
    BY <2>1 DEF IInv, Descent
<1>4. TypeOK' /\ Shape'
  BY <1>1 DEF IInv, TypeOK, Shape
<1>5. Ascent' /\ Descent'
  BY <1>1, <1>3 DEF IInv, Ascent, Descent, Winding
<1>6. Served'
  BY <1>1, <1>2, <1>3 DEF IInv, Served, Winding
<1> QED
  BY <1>4, <1>5, <1>6 DEF IInv

\* A signal is kept or dropped.
LEMMA SignalPreserves == ASSUME IInv, Signal PROVE IInv'
<1>1. /\ UNCHANGED <<main, deferred, worker, db, account, password, server, request>>
      /\ quit' \in 0..1
  BY DEF Signal, dbVars, httpVars
<1> QED
  BY <1>1 DEF IInv, TypeOK, Shape, Ascent, Descent, Served, Winding, Handling

\* A part is started, and its Stop or Close pushed.
LEMMA StartsPreserve ==
  ASSUME IInv, OpenDatabase \/ \E w \in Workers : StartWorker(w)
  PROVE  IInv'
<1>1. CASE OpenDatabase
  <2>1. /\ main = "database" /\ main' = "admin" /\ deferred = S0 /\ deferred' = S1
        /\ db' = "open" /\ UNCHANGED <<worker, account, password, server, request, quit>>
    BY <1>1, Pushes DEF OpenDatabase, Defer, IInv, Shape, httpVars
  <2>2. \A w \in Workers : deferred \notin Owing(w) /\ deferred' \notin Owing(w)
    BY <2>1, Owings, Apart DEF Workers
  <2>3. TypeOK' /\ Shape'
    BY <2>1, StacksTyped DEF IInv, TypeOK, Shape, Stages, Stacks
  <2>4. Ascent' /\ Descent' /\ Served'
    BY <2>1, <2>2, Apart DEF IInv, Ascent, Descent, Served, Winding, Handling
  <2> QED
    BY <2>3, <2>4 DEF IInv
<1>2. ASSUME NEW w \in Workers, StartWorker(w) PROVE IInv'
  <2>1. /\ main = w /\ main' = After(w) /\ UNCHANGED <<db, account, password, server, request, quit>>
        /\ worker' = [worker EXCEPT ![w] = IF w = "engine" THEN "idle" ELSE "busy"]
    BY <1>2 DEF StartWorker, dbVars, httpVars
  <2>2. \/ w = "collector" /\ main' = "docker" /\ deferred = S1 /\ deferred' = S2
        \/ w = "docker" /\ main' = "systemd" /\ deferred = S2 /\ deferred' = S3
        \/ w = "systemd" /\ main' = "seed" /\ deferred = S3 /\ deferred' = S4
        \/ w = "engine" /\ main' = "listen" /\ deferred = S4 /\ deferred' = S5
    BY <1>2, Pushes DEF StartWorker, After, Defer, IInv, Shape, Workers
  <2>3. ~Winding /\ ~Winding' /\ deferred # S0 /\ deferred' # S0 /\ deferred # S5
    BY <2>1, <2>2, Apart DEF Winding
  <2>4. /\ deferred' \in Owing(w)
        /\ \A v \in Workers \ {w} : deferred' \in Owing(v) <=> deferred \in Owing(v)
    BY <2>2, Owings, Apart DEF Workers
  <2>5. worker' \in [Workers -> {"off", "idle", "busy", "done"}]
    BY <2>1 DEF IInv, TypeOK
  <2>6. TypeOK' /\ Shape'
    BY <2>1, <2>2, <2>5, StacksTyped DEF IInv, TypeOK, Shape, Stages, Workers, Stacks
  <2>7. worker'[w] \in {"idle", "busy"} /\ \A v \in Workers \ {w} : worker'[v] = worker[v]
    BY <2>1 DEF IInv, TypeOK
  <2>8. Ascent' /\ Descent'
    BY <2>1, <2>3, <2>4, <2>7 DEF IInv, Ascent, Descent
  <2>9. Served'
    BY <2>1, <2>2, <2>3 DEF IInv, Served, Winding, Handling
  <2> QED
    BY <2>6, <2>8, <2>9 DEF IInv
<1> QED
  BY <1>1, <1>2

\* A goroutine works only while its Stop is deferred, and ends in its turn.
LEMMA WorkPreserves ==
  ASSUME IInv, NEW w \in Workers, Tick(w) \/ Finish(w) \/ Quit(w)
  PROVE  IInv'
<1>1. /\ UNCHANGED <<main, deferred, db, account, password, server, request, quit>>
      /\ worker' = [worker EXCEPT ![w] = worker'[w]]
      /\ worker[w] \in {"idle", "busy"}
      /\ \/ worker'[w] \in {"idle", "busy"}
         \/ worker'[w] = "done" /\ Winding /\ Head(deferred) = w
  BY DEF IInv, TypeOK, Winding, Stopping, Tick, Finish, Quit, dbVars, httpVars
<1>2. deferred \in Owing(w)
  BY <1>1 DEF IInv, Ascent, Descent
<1>3. /\ worker' \in [Workers -> {"off", "idle", "busy", "done"}]
      /\ \A v \in Workers \ {w} : worker'[v] = worker[v]
  BY <1>1 DEF IInv, TypeOK
<1>4. TypeOK' /\ Shape' /\ Served'
  BY <1>1, <1>3 DEF IInv, TypeOK, Shape, Served, Winding, Handling
<1>5. Ascent' /\ Descent'
  BY <1>1, <1>2, <1>3 DEF IInv, Ascent, Descent, Winding
<1> QED
  BY <1>4, <1>5 DEF IInv

\* No request is left: the deferred calls begin.
LEMMA DrainPreserves == ASSUME IInv, ShutdownReturns PROVE IInv'
<1>1. /\ main = "shutdown" /\ main' = "deferred" /\ deferred = S5
      /\ UNCHANGED <<deferred, worker, db, account, password, server, request, quit>>
      /\ \A r \in Requests : request[r] = "none"
  BY DEF ShutdownReturns, Drained, IInv, Shape, dbVars, httpVars
<1>2. ~Winding /\ Winding'
  BY <1>1 DEF Winding
<1>3. \A w \in Workers : deferred \in Owing(w)
  BY <1>1, Owings DEF Workers
<1>4. TypeOK' /\ Shape'
  BY <1>1 DEF IInv, TypeOK, Shape, Stages
<1>5. Ascent' /\ Descent'
  BY <1>1, <1>2, <1>3, Apart DEF IInv, Ascent, Descent, Served
<1>6. Served'
  BY <1>1, <1>2 DEF IInv, Served, Handling
<1> QED
  BY <1>4, <1>5, <1>6 DEF IInv

\* The deferred call on top is over, and main returns after the last.
LEMMA StopsPreserve ==
  ASSUME IInv, CloseDatabase \/ Exit \/ \E w \in Workers : StopReturns(w)
  PROVE  IInv'
<1>1. CASE CloseDatabase
  <2>1. /\ main = "deferred" /\ deferred = S1 /\ deferred' = S0 /\ db' = "closed"
        /\ UNCHANGED <<main, worker, account, password, server, request, quit>>
    <3>1. /\ main = "deferred" /\ deferred # S0 /\ Head(deferred) = "db"
          /\ deferred' = Tail(deferred) /\ deferred \in Stacks
      BY <1>1 DEF CloseDatabase, Stopping, IInv, Shape, S0
    <3>2. deferred = S1
      BY <3>1, Pops DEF Stacks
    <3> QED
      BY <1>1, <3>1, <3>2, Pops DEF CloseDatabase, httpVars
  <2>2. \A w \in Workers : deferred \notin Owing(w) /\ deferred' \notin Owing(w)
    BY <2>1, Owings, Apart DEF Workers
  <2>3. TypeOK' /\ Shape'
    BY <2>1, StacksTyped DEF IInv, TypeOK, Shape, Stacks
  <2>4. Ascent' /\ Descent' /\ Served'
    BY <2>1, <2>2, Apart DEF IInv, Ascent, Descent, Served, Winding, Handling
  <2> QED
    BY <2>3, <2>4 DEF IInv
<1>2. CASE Exit
  <2>1. /\ main = "deferred" /\ main' = "exited" /\ deferred = S0
        /\ UNCHANGED <<deferred, worker, db, account, password, server, request, quit>>
    BY <1>2 DEF Exit, S0, dbVars, httpVars
  <2>2. TypeOK' /\ Shape'
    BY <2>1 DEF IInv, TypeOK, Shape, Stages, Gone
  <2>3. Ascent' /\ Descent' /\ Served'
    BY <2>1 DEF IInv, Ascent, Descent, Served, Winding, Handling
  <2> QED
    BY <2>2, <2>3 DEF IInv
<1>3. ASSUME NEW w \in Workers, StopReturns(w) PROVE IInv'
  <2>1. /\ main = "deferred" /\ Head(deferred) = w /\ deferred' = Tail(deferred)
        /\ deferred \in Stacks \ {S0} /\ worker[w] = "done"
        /\ UNCHANGED <<main, worker, db, account, password, server, request, quit>>
    BY <1>3 DEF StopReturns, Stopping, Joined, IInv, Shape, S0, dbVars, httpVars
  <2>2. \/ w = "collector" /\ deferred = S2 /\ deferred' = S1
        \/ w = "docker" /\ deferred = S3 /\ deferred' = S2
        \/ w = "systemd" /\ deferred = S4 /\ deferred' = S3
        \/ w = "engine" /\ deferred = S5 /\ deferred' = S4
    BY <2>1, Pops DEF Stacks, Workers
  <2>3. /\ deferred' \notin Owing(w) /\ deferred # S0 /\ deferred' # S0
        /\ \A v \in Workers \ {w} : deferred' \in Owing(v) <=> deferred \in Owing(v)
    BY <2>2, Owings, Apart DEF Workers
  <2>4. TypeOK' /\ Shape'
    BY <2>1, <2>2, StacksTyped DEF IInv, TypeOK, Shape, Stacks
  <2>5. Ascent' /\ Descent' /\ Served'
    BY <2>1, <2>3 DEF IInv, Ascent, Descent, Served, Winding, Handling
  <2> QED
    BY <2>4, <2>5 DEF IInv
<1> QED
  BY <1>1, <1>2, <1>3

LEMMA Inductive == Spec => []IInv
<1>1. Init => IInv
  BY InitEstablishes
<1>2. IInv /\ [Next]_vars => IInv'
  <2> SUFFICES ASSUME IInv, [Next]_vars PROVE IInv'
    OBVIOUS
  <2>1. CASE StartUp \/ Fatal
    BY <2>1, StagesPreserve, StartsPreserve, ServerPreserves DEF StartUp
  <2>2. ASSUME NEW w \in Workers, Tick(w) \/ Finish(w) \/ Quit(w) PROVE IInv'
    BY <2>2, WorkPreserves
  <2>3. CASE Listen \/ ListenerFails
    BY <2>3, ServerPreserves
  <2>4. ASSUME NEW r \in Requests, Arrive(r) \/ Hold(r) \/ Answer(r) \/ ClientLeaves(r)
        PROVE  IInv'
    BY <2>4, RequestPreserves
  <2>5. CASE SignalKills \/ Signal \/ ServerError
    BY <2>5, StagesPreserve, SignalPreserves
  <2>6. CASE ShutDown
    BY <2>6, ServerPreserves, StagesPreserve, DrainPreserves, StopsPreserve DEF ShutDown
  <2>7. CASE UNCHANGED vars
    BY <2>7 DEF vars, IInv, TypeOK, Shape, Ascent, Descent, Served, Winding, Handling
  <2> QED
    BY <2>1, <2>2, <2>3, <2>4, <2>5, <2>6, <2>7 DEF Next
<1> QED
  BY <1>1, <1>2, PTL DEF Spec

-----------------------------------------------------------------------------

\* Every variable keeps its type.
THEOREM TypeCorrect == Spec => []TypeOK
<1>1. IInv => TypeOK
  BY DEF IInv
<1> QED
  BY <1>1, Inductive, PTL

\* main.go:43-97: nothing is used before it is started or after it is stopped.
THEOREM NothingUsedOutOfTime == Spec => []UsersFindLiveParts
<1>1. IInv => UsersFindLiveParts
  <2> SUFFICES ASSUME IInv, Evaluating \/ Handling
               PROVE  db = "open" /\ \A w \in Workers : worker[w] \in {"idle", "busy"}
    BY DEF UsersFindLiveParts
  <2>1. deferred = S5
    <3>1. CASE Evaluating
      <4>1. deferred \in Owing("engine")
        BY <3>1 DEF IInv, Evaluating, Ascent, Descent, Workers
      <4> QED
        BY <4>1, Owings
    <3>2. CASE Handling
      BY <3>2 DEF IInv, Served, Descent, Handling
    <3> QED
      BY <3>1, <3>2
  <2>2. deferred # S0 /\ Head(deferred) = "engine" /\ \A w \in Workers : deferred \in Owing(w)
    BY <2>1, Owings, Pops, Apart DEF Workers
  <2>3. CASE ~Winding
    BY <2>2, <2>3 DEF IInv, Ascent
  <2>4. CASE Winding
    <3>1. worker["engine"] = "busy"
      BY <2>4 DEF IInv, Descent, Handling, Evaluating
    <3> QED
      BY <2>2, <2>4, <3>1 DEF IInv, Descent
  <2> QED
    BY <2>3, <2>4
<1> QED
  BY <1>1, Inductive, PTL

\* main.go:39-41, 102-126: no request is handled before there is an account.
THEOREM NoRequestBeforeTheAccount == Spec => []RequestsFindAnAccount
<1>1. IInv => RequestsFindAnAccount
  BY DEF IInv, Served, RequestsFindAnAccount
<1> QED
  BY <1>1, Inductive, PTL

\* main.go:92-100: exit 0 leaves nothing running and the database closed.
THEOREM ExitLeavesNothing == Spec => []ExitIsClean
<1>1. IInv => ExitIsClean
  <2> SUFFICES ASSUME IInv, main = "exited" PROVE ExitIsClean
    BY DEF ExitIsClean
  <2>1. Winding /\ deferred = S0
    BY DEF IInv, Shape, Winding
  <2>2. \A w \in Workers : deferred \notin Owing(w)
    BY <2>1, Owings, Apart DEF Workers
  <2> QED
    BY <2>1, <2>2 DEF IInv, Descent, ExitIsClean, Handling
<1> QED
  BY <1>1, Inductive, PTL
=============================================================================
