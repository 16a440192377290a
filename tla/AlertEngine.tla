----------------------------- MODULE AlertEngine -----------------------------
(***************************************************************************)
(* The alert engine (internal/alerts/engine.go) with the tables it reads   *)
(* and writes (internal/database/alerts.go), the handlers of the settings  *)
(* page that edit the rules while an evaluation runs, the caches of the    *)
(* collector and of the two monitors it polls, and the crash and restart   *)
(* of the process.                                                         *)
(*                                                                         *)
(* The engine is one goroutine.  Each of its database calls and each read  *)
(* of a cache is a step of its own, because the HTTP handlers and the      *)
(* monitors run between them; what it computes on its locals in between is *)
(* part of the step.                                                       *)
(*                                                                         *)
(* A rule's (metric, operator, threshold) is a condition, and a snapshot   *)
(* is the set of conditions that hold in it.  The keys "metric:ID",        *)
(* "docker:name" and "systemd:name" of the cooldown map are the rule's id  *)
(* and the unit's name themselves: the prefixes keep them apart in the     *)
(* code, UnitsAssumption here.                                             *)
(***************************************************************************)
EXTENDS Integers, Sequences, FiniteSets

CONSTANTS
  Conditions,     \* conditions a rule can test
  Containers,     \* names of the Docker containers
  Services,       \* names of the systemd services
  ContainerInfos, \* what a listing can say of a container
  ServiceInfos,   \* what a listing can say of a service
  RuleForms,      \* rules the form can create: [cond, cooldown]
  Defaults,       \* the rules SeedDefaultAlertConfigs inserts, in order
  StateCooldown,  \* the 15 minutes of engine.go:190 and 230, in ticks
  RecentLimit,    \* the 50 of engine.go:129
  MaxTime,        \* bound: the clock stops here
  MaxRules,       \* bound: ids the AlertConfig table hands out
  MaxAlerts,      \* bound: no evaluation starts once the table is this long
  MaxLives,       \* bound: lives of the process
  MaxFaults,      \* bound: database calls that fail
  Nil             \* Go's nil, and a row that is not there

Units == Containers \cup Services
Sources == {"docker", "systemd"}
RuleIds == 1..MaxRules
Keys == RuleIds \cup Units
RuleForm == [cond : Conditions, cooldown : Nat]
\* The cooldowns in use.
Gaps == {StateCooldown} \cup {f.cooldown : f \in RuleForms}
          \cup {Defaults[n].cooldown : n \in DOMAIN Defaults}
Rule == [cond : Conditions, cooldown : Gaps, enabled : BOOLEAN]

Never == -1
Time == 0..MaxTime
Absent == [state |-> "absent", health |-> "none"]
Infos == ContainerInfos \cup ServiceInfos \cup {Absent}
States == {i.state : i \in Infos}

ASSUME BoundsAssumption ==
  /\ {RecentLimit, MaxTime, MaxRules, MaxAlerts, MaxFaults} \subseteq Nat
  /\ {StateCooldown, MaxLives} \subseteq Nat \ {0}

ASSUME UnitsAssumption ==
  /\ Containers \cap Services = {}
  /\ Units \cap Int = {}

\* docker/models.go:53-67 with docker/monitor.go:226-232, 247-251: only a status
\* "Exited (n)" has an exit code, so only an exited container is in error.
\* "failed" is a state of services, "exited" one of containers.
ASSUME InfosAssumption ==
  /\ ContainerInfos \cup ServiceInfos
       \subseteq [state : STRING \ {"absent"}, health : STRING]
  /\ \A i \in ContainerInfos : i.state # "failed" /\ (i.health = "error" => i.state = "exited")
  /\ \A i \in ServiceInfos : i.state # "exited"

ASSUME RulesAssumption ==
  /\ RuleForms \subseteq RuleForm
  /\ Defaults \in Seq(RuleForm)

ASSUME NilAssumption ==
  /\ Nil \notin Rule
  /\ \A S \in SUBSET Conditions : S # Nil
  /\ \A k \in Keys, w \in Conditions \cup States, t \in Time, g \in Gaps :
       Nil # [key |-> k, what |-> w, at |-> t, gap |-> g]

VARIABLES
  \* the SQLite file: survives a crash
  rules,      \* AlertConfig: id -> rule, or Nil
  nextId,     \* the AUTOINCREMENT counter of AlertConfig
  alerts,     \* Alert: the rows in the order of their ids
  \* the wall clock
  now,
  \* caches of the collector and the monitors
  latest,     \* Collector.Latest(): the conditions that hold in it, or Nil
  available,  \* source -> Monitor.Available()
  listed,     \* unit -> its entry in the monitor's listing
  \* fields of the Engine
  cooldowns,  \* key -> when it was last triggered
  prev,       \* prevDocker and prevSystemd: unit -> state, or "absent"
  recents,    \* recentAlerts: ids of the rows, newest first
  \* where the goroutine is, and its locals
  pc, src,    \* program counter, and the source it is evaluating
  loaded,     \* configs not yet evaluated: id -> copy of the rule, or Nil
  snap,       \* snapshot
  current,    \* the listing being walked: unit -> entry
  todo,       \* units of it not yet walked
  pend,       \* the alert about to be inserted, or Nil
  \* the process
  seedNo,     \* next default rule to insert
  life,       \* number of this life of the process
  faults,     \* database calls that have failed
  \* history, read by the properties only
  late,       \* rule -> times it fired since it was disabled or deleted
  well,       \* unit -> a pass of this life saw it up since its last alert
  fell,       \* unit -> when this life last saw it go from up to down
  stale       \* the last refresh of recents failed, or there was none

dbVars == <<rules, nextId, alerts>>
cacheVars == <<latest, available, listed>>
memVars == <<cooldowns, prev, recents>>
localVars == <<loaded, snap, current, todo, pend>>
ghostVars == <<late, well, fell, stale>>
vars == <<dbVars, now, cacheVars, memVars, pc, src, localVars, seedNo, life,
          faults, ghostVars>>

-----------------------------------------------------------------------------
(* Values                                                                  *)

NoRules == [i \in RuleIds |-> Nil]
NoListing == [u \in Units |-> Absent]

UnitsOf(s) == IF s = "docker" THEN Containers ELSE Services
\* The monitors the engine was given: the others are nil, engine.go:119 and 124.
Watched == {s \in Sources : UnitsOf(s) # {}}
InfosOf(u) == IF u \in Containers THEN ContainerInfos ELSE ServiceInfos

\* Listings a refresh of s can return: any unit may be missing from it.
Listings(s) ==
  {l \in [Units -> Infos] :
     \A u \in Units : IF u \in UnitsOf(s) THEN l[u] \in {Absent} \cup InfosOf(u)
                                          ELSE l[u] = listed[u]}

\* A row of Alert.  key stands for config_id and source, what for the rest of
\* the message; at, gap and life are history: when the engine decided, under
\* which cooldown, and in which life of the process.
Row == [key : Keys, what : Conditions \cup States, created : Time, at : Time,
        gap : Gaps, life : 1..MaxLives]
Pending == [key : Keys, what : Conditions \cup States, at : Time, gap : Gaps]

Exists(i) == rules[i] # Nil
Enabled(i) == rules[i] # Nil /\ rules[i].enabled

\* A database call that fails: SQLITE_BUSY, a full disk.
Fault == faults < MaxFaults /\ faults' = faults + 1

-----------------------------------------------------------------------------
(* Environment: the clock, the collector and the monitors                  *)

Tick ==
  /\ now < MaxTime
  /\ now' = now + 1
  /\ UNCHANGED <<dbVars, cacheVars, memVars, pc, src, localVars, seedNo, life,
                 faults, ghostVars>>

Running == pc # "down"

\* Collector.collect: a snapshot is added to the ring buffer.
Collect ==
  /\ Running
  /\ latest' \in SUBSET Conditions
  /\ UNCHANGED <<dbVars, now, available, listed, memVars, pc, src, localVars,
                 seedNo, life, faults, ghostVars>>

\* Monitor.refresh succeeds: the listing and the flag change in one critical section.
RefreshOk(s) ==
  /\ Running
  /\ listed' \in Listings(s)
  /\ available' = [available EXCEPT ![s] = TRUE]
  /\ UNCHANGED <<dbVars, now, latest, memVars, pc, src, localVars, seedNo, life,
                 faults, ghostVars>>

\* Monitor.refresh fails: the flag drops, the listing stays as it was.
RefreshFails(s) ==
  /\ Running
  /\ available' = [available EXCEPT ![s] = FALSE]
  /\ UNCHANGED <<dbVars, now, latest, listed, memVars, pc, src, localVars, seedNo,
                 life, faults, ghostVars>>

\* The Docker monitor reconnects: the flag rises before anything is listed, over
\* whatever listing was left.
Reconnect ==
  /\ Running
  /\ "docker" \in Watched
  /\ available' = [available EXCEPT !["docker"] = TRUE]
  /\ UNCHANGED <<dbVars, now, latest, listed, memVars, pc, src, localVars, seedNo,
                 life, faults, ghostVars>>

-----------------------------------------------------------------------------
(* The life of the process                                                 *)

\* Bound: the next life finds a rule, or ids enough to seed an empty table.
RoomToSeed == (\E i \in RuleIds : Exists(i)) \/ nextId + Len(Defaults) <= MaxRules + 1

\* The process dies: only the database is left.  Engine.Stop waits for the
\* evaluation to end and ends in the same state, and a failing query of the
\* seeding is a log.Fatalf (main.go:60-62), this step too.
Crash ==
  /\ Running
  /\ life < MaxLives
  /\ RoomToSeed
  /\ pc' = "down"
  /\ src' = "none"
  /\ latest' = Nil
  /\ available' = [s \in Sources |-> FALSE]
  /\ listed' = NoListing
  /\ cooldowns' = [k \in Keys |-> Never]
  /\ prev' = [u \in Units |-> "absent"]
  /\ recents' = <<>>
  /\ loaded' = NoRules /\ snap' = Nil /\ current' = NoListing
  /\ todo' = {} /\ pend' = Nil
  /\ well' = [u \in Units |-> FALSE]
  /\ fell' = [u \in Units |-> Never]
  /\ stale' = TRUE
  /\ seedNo' = 1
  /\ UNCHANGED <<dbVars, now, life, faults, late>>

\* What the monitors find when they are made, before they have listed anything: a
\* Docker daemon that answers, a systemctl that runs.
Probed == {a \in [Sources -> BOOLEAN] : \A s \in Sources : a[s] => s \in Watched}

\* The service manager starts the process again.
Restart ==
  /\ pc = "down"
  /\ pc' = "boot"
  /\ life' = life + 1
  /\ available' \in Probed
  /\ UNCHANGED <<dbVars, now, latest, listed, memVars, src, localVars, seedNo, faults,
                 ghostVars>>

\* SeedDefaultAlertConfigs, its first query: nothing to do if there is a rule.
SeedCheck ==
  /\ pc = "boot"
  /\ IF \E i \in RuleIds : Exists(i)
     THEN pc' = "idle"
     ELSE pc' = "seed"
  /\ UNCHANGED <<dbVars, now, cacheVars, memVars, src, localVars, seedNo, life,
                 faults, ghostVars>>

\* Variant for the mutation runs: without AUTOINCREMENT, SQLite takes one more
\* than the largest id in use.
LargestPlusOne ==
  LET used == {i \in RuleIds : Exists(i)}
  IN IF used = {} THEN 1 ELSE 1 + CHOOSE i \in used : \A j \in used : j <= i

\* One rule is inserted: AUTOINCREMENT hands out an id no row has ever had.
NewRuleId == nextId

InsertRule(f) ==
  /\ nextId \in RuleIds
  /\ rules' = [rules EXCEPT ![NewRuleId] =
                 [cond |-> f.cond, cooldown |-> f.cooldown, enabled |-> TRUE]]
  /\ nextId' = nextId + 1

\* The loop over the defaults, one INSERT each, in no transaction.
SeedInsert ==
  /\ pc = "seed"
  /\ seedNo <= Len(Defaults)
  /\ InsertRule(Defaults[seedNo])
  /\ seedNo' = seedNo + 1
  /\ UNCHANGED <<alerts, now, cacheVars, memVars, pc, src, localVars, life, faults,
                 ghostVars>>

SeedDone ==
  /\ pc = "seed"
  /\ seedNo > Len(Defaults)
  /\ pc' = "idle"
  /\ seedNo' = 1
  /\ UNCHANGED <<dbVars, now, cacheVars, memVars, src, localVars, life,
                 faults, ghostVars>>

-----------------------------------------------------------------------------
(* Handlers of the settings page                                           *)

\* The HTTP server listens once the engine has started.
Serving == pc \notin {"down", "boot", "seed"}

\* handleAlertRuleCreate
CreateRule ==
  /\ Serving
  /\ \E f \in RuleForms : InsertRule(f)
  /\ UNCHANGED <<alerts, now, cacheVars, memVars, pc, src, localVars, seedNo, life,
                 faults, ghostVars>>

\* handleAlertRuleToggle: one UPDATE that flips the column.
ToggleRule(i) ==
  /\ Serving
  /\ Exists(i)
  /\ rules' = [rules EXCEPT ![i].enabled = ~@]
  /\ late' = [late EXCEPT ![i] = 0]
  /\ UNCHANGED <<nextId, alerts, now, cacheVars, memVars, pc, src, localVars,
                 seedNo, life, faults, well, fell, stale>>

\* handleAlertRuleDelete
DeleteRule(i) ==
  /\ Serving
  /\ Exists(i)
  /\ rules' = [rules EXCEPT ![i] = Nil]
  /\ UNCHANGED <<nextId, alerts, now, cacheVars, memVars, pc, src, localVars,
                 seedNo, life, faults, ghostVars>>

-----------------------------------------------------------------------------
(* Engine.evaluate                                                         *)

\* Variant for the mutation runs: the query without its WHERE clause.
AllRules == rules

\* ListEnabledAlertConfigs
EnabledRules == [i \in RuleIds |-> IF Enabled(i) THEN rules[i] ELSE Nil]

\* The ticker fires and the enabled rules are read.
LoadConfigs ==
  /\ pc = "idle"
  /\ Len(alerts) < MaxAlerts
  /\ loaded' = EnabledRules
  /\ pc' = "snap"
  /\ UNCHANGED <<dbVars, now, cacheVars, memVars, src, snap, current, todo, pend,
                 seedNo, life, faults, ghostVars>>

\* The query fails: evaluate returns, and the goroutine waits for the next tick.
LoadConfigsFails ==
  /\ pc = "idle"
  /\ Fault
  /\ UNCHANGED <<dbVars, now, cacheVars, memVars, pc, src, localVars, seedNo, life,
                 ghostVars>>

\* collector.Latest(): without a snapshot the rules are not evaluated.
ReadSnapshot ==
  /\ pc = "snap"
  /\ snap' = latest
  /\ IF latest = Nil
     THEN pc' = "avail" /\ src' = "docker" /\ loaded' = NoRules
     ELSE pc' = "rules" /\ UNCHANGED <<src, loaded>>
  /\ UNCHANGED <<dbVars, now, cacheVars, memVars, current, todo, pend, seedNo, life,
                 faults, ghostVars>>

\* Variants for the mutation runs: off by one on either side, never over.
CoolingShort(k, gap) == cooldowns[k] # Never /\ now - cooldowns[k] < gap - 1
CoolingLong(k, gap) == cooldowns[k] # Never /\ now - cooldowns[k] <= gap
CoolingForever(k, gap) == cooldowns[k] # Never

\* A key is cooling down: it was triggered less than gap ago.
Cooling(k, gap) == cooldowns[k] # Never /\ now - cooldowns[k] < gap

\* Variant for the mutation runs: the trigger is not recorded.
DecideUnrecorded(k, what, gap) ==
  /\ UNCHANGED cooldowns
  /\ pend' = [key |-> k, what |-> what, at |-> now, gap |-> gap]

\* The cooldown is set before the alert is written, under the lock.
Decide(k, what, gap) ==
  /\ cooldowns' = [cooldowns EXCEPT ![k] = now]
  /\ pend' = [key |-> k, what |-> what, at |-> now, gap |-> gap]

\* evaluateMetricRule: its copy of the rule matches and is not cooling down.
Triggers(i) == loaded[i].cond \in snap /\ ~Cooling(i, loaded[i].cooldown)

\* The rules are evaluated in the order of their ids.
CheckRule(i) ==
  /\ pc = "rules" /\ pend = Nil
  /\ loaded[i] # Nil
  /\ \A j \in RuleIds : loaded[j] # Nil => i <= j
  /\ loaded' = [loaded EXCEPT ![i] = Nil]
  /\ IF Triggers(i)
     THEN /\ Decide(i, loaded[i].cond, loaded[i].cooldown)
          /\ late' = IF Enabled(i) THEN late ELSE [late EXCEPT ![i] = @ + 1]
     ELSE UNCHANGED <<cooldowns, pend, late>>
  /\ UNCHANGED <<dbVars, now, cacheVars, prev, recents, pc, src, snap, current, todo,
                 seedNo, life, faults, well, fell, stale>>

RulesDone ==
  /\ pc = "rules" /\ pend = Nil
  /\ loaded = NoRules
  /\ pc' = "avail" /\ src' = "docker" /\ snap' = Nil
  /\ UNCHANGED <<dbVars, now, cacheVars, memVars, loaded, current, todo, pend,
                 seedNo, life, faults, ghostVars>>

\* Variant for the mutation runs: a rule disabled meanwhile drops the alert.
InsertAlertIfEnabled ==
  /\ pend # Nil
  /\ alerts' = IF pend.key \in RuleIds /\ ~Enabled(pend.key) THEN alerts ELSE Append(alerts,
       [key |-> pend.key, what |-> pend.what, created |-> now, at |-> pend.at,
        gap |-> pend.gap, life |-> life])
  /\ pend' = Nil
  /\ UNCHANGED <<rules, nextId, now, cacheVars, memVars, pc, src, loaded, snap,
                 current, todo, seedNo, life, faults, ghostVars>>

\* db.CreateAlert: the row's time is the database's, at the insertion.
InsertAlert ==
  /\ pend # Nil
  /\ alerts' = Append(alerts,
       [key |-> pend.key, what |-> pend.what, created |-> now, at |-> pend.at,
        gap |-> pend.gap, life |-> life])
  /\ pend' = Nil
  /\ UNCHANGED <<rules, nextId, now, cacheVars, memVars, pc, src, loaded, snap,
                 current, todo, seedNo, life, faults, ghostVars>>

\* The insertion fails: it is logged, and the cooldown stands.
InsertAlertFails ==
  /\ pend # Nil
  /\ Fault
  /\ pend' = Nil
  /\ UNCHANGED <<dbVars, now, cacheVars, memVars, pc, src, loaded, snap, current,
                 todo, seedNo, life, ghostVars>>

(* evaluateDockerChanges and evaluateSystemdChanges                        *)

\* Variant for the mutation runs: the cache of recent alerts is not refreshed.
AfterPassIdle(s) ==
  IF s = "docker" THEN pc' = "avail" /\ src' = "systemd"
                  ELSE pc' = "idle" /\ src' = "none"

\* What comes after the pass over a source.
AfterPass(s) ==
  IF s = "docker" THEN pc' = "avail" /\ src' = "systemd"
                  ELSE pc' = "refresh" /\ src' = "none"

\* Available() is one read of the monitor ...
CheckAvailable ==
  /\ pc = "avail"
  /\ IF available[src] THEN pc' = "list" /\ UNCHANGED src ELSE AfterPass(src)
  /\ UNCHANGED <<dbVars, now, cacheVars, memVars, localVars, seedNo, life, faults,
                 ghostVars>>

\* ... and Containers() or Services() is another: the copy can be of any listing
\* published in between.
TakeListing ==
  /\ pc = "list"
  /\ current' = [u \in Units |-> IF u \in UnitsOf(src) THEN listed[u] ELSE Absent]
  /\ todo' = {u \in UnitsOf(src) : listed[u] # Absent}
  /\ pc' = "units"
  /\ UNCHANGED <<dbVars, now, cacheVars, memVars, src, loaded, snap, pend, seedNo,
                 life, faults, ghostVars>>

\* A container changed to a bad state; a service changed to failed.
DockerAlarm(p, i) == p # i.state /\ (i.state = "exited" \/ i.health = "error")
SystemdAlarm(p, i) == p # "failed" /\ i.state = "failed"
Alarm(p, i) == IF src = "docker" THEN DockerAlarm(p, i) ELSE SystemdAlarm(p, i)

\* The states in which a unit is down.
DownStates == {"exited", "failed"}

\* One turn of the loop over the listing, which comes in any order.  A unit the
\* previous pass did not see is only remembered.
CheckUnit(u) ==
  /\ pc = "units" /\ pend = Nil
  /\ u \in todo
  /\ todo' = todo \ {u}
  /\ IF /\ prev[u] # "absent"
        /\ Alarm(prev[u], current[u])
        /\ ~Cooling(u, StateCooldown)
     THEN Decide(u, current[u].state, StateCooldown)
     ELSE UNCHANGED <<cooldowns, pend>>
  /\ well' = [well EXCEPT ![u] = @ /\ pend' = Nil]
  /\ fell' = IF prev[u] \notin DownStates \cup {"absent"} /\ current[u].state \in DownStates
             THEN [fell EXCEPT ![u] = now] ELSE fell
  /\ UNCHANGED <<dbVars, now, cacheVars, prev, recents, pc, src, loaded, snap, current,
                 seedNo, life, faults, late, stale>>

\* Variant for the mutation runs: only units that are up are remembered.
RememberedUp ==
  [u \in Units |-> IF u \in UnitsOf(src) /\ current[u].state \notin DownStates
                   THEN current[u].state ELSE prev[u]]

\* The map built by the pass replaces the previous one.
Remembered == [u \in Units |-> IF u \in UnitsOf(src) THEN current[u].state ELSE prev[u]]

EndPass ==
  /\ pc = "units" /\ pend = Nil
  /\ todo = {}
  /\ prev' = Remembered
  /\ current' = NoListing
  /\ well' = [u \in Units |-> well[u] \/ current[u].state \notin DownStates \cup {"absent"}]
  /\ AfterPass(src)
  /\ UNCHANGED <<dbVars, now, cacheVars, cooldowns, recents, loaded, snap, todo, pend,
                 seedNo, life, faults, late, fell, stale>>

(* The cache of recent alerts                                              *)

\* Variant for the mutation runs: ascending order.
OldestFirst(n) ==
  {[a \in 1..(IF Len(alerts) < n THEN Len(alerts) ELSE n) |-> a]}

\* The results ListAlerts(n) can return: ids in descending order of created_at,
\* the n newest.  Rows of the same instant come in an order SQLite chooses.
MostRecent(n) ==
  LET k == IF Len(alerts) < n THEN Len(alerts) ELSE n
  IN {r \in [1..k -> DOMAIN alerts] :
        /\ \A a, b \in 1..k : a < b => /\ r[a] # r[b]
                                       /\ alerts[r[a]].created >= alerts[r[b]].created
        /\ \A x \in DOMAIN alerts : \A a \in 1..k :
             (\A b \in 1..k : r[b] # x) => alerts[r[a]].created >= alerts[x].created}

Refresh ==
  /\ pc = "refresh"
  /\ recents' \in MostRecent(RecentLimit)
  /\ stale' = FALSE
  /\ pc' = "idle"
  /\ UNCHANGED <<dbVars, now, cacheVars, cooldowns, prev, src, localVars, seedNo, life,
                 faults, late, well, fell>>

\* The query fails: the cache stays as it was.
RefreshCacheFails ==
  /\ pc = "refresh"
  /\ Fault
  /\ stale' = TRUE
  /\ pc' = "idle"
  /\ UNCHANGED <<dbVars, now, cacheVars, memVars, src, localVars, seedNo, life,
                 late, well, fell>>

-----------------------------------------------------------------------------
(* Specification                                                           *)

Init ==
  /\ rules = NoRules /\ nextId = 1 /\ alerts = <<>>
  /\ now = 0
  /\ latest = Nil
  /\ available \in Probed
  /\ listed = NoListing
  /\ cooldowns = [k \in Keys |-> Never]
  /\ prev = [u \in Units |-> "absent"]
  /\ recents = <<>>
  /\ pc = "boot" /\ src = "none"
  /\ loaded = NoRules /\ snap = Nil /\ current = NoListing /\ todo = {} /\ pend = Nil
  /\ seedNo = 1 /\ life = 1 /\ faults = 0
  /\ late = [i \in RuleIds |-> 0]
  /\ well = [u \in Units |-> FALSE]
  /\ fell = [u \in Units |-> Never]
  /\ stale = TRUE

Boot == SeedCheck \/ SeedInsert \/ SeedDone

Evaluate ==
  \/ LoadConfigs \/ LoadConfigsFails
  \/ ReadSnapshot
  \/ \E i \in RuleIds : CheckRule(i)
  \/ RulesDone
  \/ InsertAlert \/ InsertAlertFails
  \/ CheckAvailable \/ TakeListing
  \/ \E u \in Units : CheckUnit(u)
  \/ EndPass
  \/ Refresh \/ RefreshCacheFails

Handlers ==
  \/ CreateRule
  \/ \E i \in RuleIds : ToggleRule(i) \/ DeleteRule(i)

Environment ==
  \/ Tick
  \/ Collect
  \/ \E s \in Watched : RefreshOk(s) \/ RefreshFails(s)
  \/ Reconnect

Next == Environment \/ Handlers \/ Boot \/ Evaluate \/ Crash \/ Restart

Spec == Init /\ [][Next]_vars

\* Every goroutine of the process keeps being scheduled, the clock advances, and
\* the service manager restarts the process (Restart=on-failure).
FairSpec ==
  /\ Spec
  /\ WF_vars(Tick)
  /\ WF_vars(Boot) /\ WF_vars(Evaluate)
  /\ WF_vars(Restart)

-----------------------------------------------------------------------------
(* Properties                                                              *)

PCs == {"down", "boot", "seed", "idle", "snap", "rules", "avail", "list", "units",
        "refresh"}

\* The type of every variable.
TypeOK ==
  /\ rules \in [RuleIds -> {Nil} \cup Rule]
  /\ nextId \in 1..(MaxRules + 1)
  /\ alerts \in Seq(Row)
  /\ now \in Time
  /\ latest \in {Nil} \cup SUBSET Conditions
  /\ available \in [Sources -> BOOLEAN]
  /\ listed \in [Units -> Infos]
  /\ cooldowns \in [Keys -> Time \cup {Never}]
  /\ prev \in [Units -> States]
  /\ recents \in Seq(DOMAIN alerts)
  /\ pc \in PCs /\ src \in Sources \cup {"none"}
  /\ loaded \in [RuleIds -> {Nil} \cup Rule]
  /\ snap \in {Nil} \cup SUBSET Conditions
  /\ current \in [Units -> Infos]
  /\ todo \in SUBSET Units
  /\ pend \in {Nil} \cup Pending
  /\ seedNo \in 1..(Len(Defaults) + 1)
  /\ life \in 1..MaxLives /\ faults \in 0..MaxFaults
  /\ late \in [RuleIds -> Nat]
  /\ well \in [Units -> BOOLEAN]
  /\ fell \in [Units -> Time \cup {Never}]
  /\ stale \in BOOLEAN

\* engine.go:147-158, 187-195, 227-235: within one life of the process, the
\* decisions behind two alerts of one key are the key's cooldown apart, however
\* late their rows were written and whatever was done to the rule meanwhile.
CooldownRespected ==
  \A i, j \in DOMAIN alerts :
    /\ i < j
    /\ alerts[i].key = alerts[j].key
    /\ alerts[i].life = alerts[j].life
    => alerts[i].at + alerts[j].gap <= alerts[j].at

\* engine.go:104, 113-115 against the handlers: a rule that was disabled or
\* deleted fires at most once more, from the copy of the evaluation in flight.
LateFiringBounded == \A i \in RuleIds : late[i] <= 1

\* sqlite.go:43 (AUTOINCREMENT), engine.go:162-166: the rule an alert names is
\* the rule that raised it, or is gone; its id is never given to another rule.
RowsNameTheirRule ==
  \A n \in DOMAIN alerts : \A i \in RuleIds :
    alerts[n].key = i =>
      /\ i < nextId
      /\ Exists(i) => rules[i].cond = alerts[n].what /\ rules[i].cooldown = alerts[n].gap

\* engine.go:154, 168: nothing silences a key but an alert of this life that is in
\* the table, that is being written, or that the database refused.
NoSilenceWithoutAlert ==
  \A k \in Keys :
    cooldowns[k] # Never /\ faults = 0 =>
      \/ pend # Nil /\ pend.key = k /\ pend.at = cooldowns[k]
      \/ \E n \in DOMAIN alerts :
           alerts[n].key = k /\ alerts[n].life = life /\ alerts[n].at = cooldowns[k]

\* engine.go:181-186, 221-226: an alert about a unit needs a pass of this life,
\* since the unit's last alert, that saw the unit up: an outage is reported at
\* most once, and never by a process that found the unit down when it started.
OneAlertPerOutage ==
  [][\A u \in Units : pend' # pend /\ pend' # Nil /\ pend'.key = u => well[u]]_vars

\* engine.go:186-195, 226-235: when the engine sees a unit go down, it has
\* triggered the unit's alert then, or less than the cooldown before.
OutageCovered ==
  \A u \in Units :
    fell[u] # Never => /\ cooldowns[u] # Never
                       /\ cooldowns[u] <= fell[u]
                       /\ fell[u] < cooldowns[u] + StateCooldown

\* engine.go:128-136: between evaluations, unless the last refresh failed, the
\* cache misses an alert only for RecentLimit others that are not older.
RecentsComplete ==
  pc = "idle" /\ ~stale =>
    \A n \in DOMAIN alerts :
      \/ \E a \in DOMAIN recents : recents[a] = n
      \/ /\ Len(recents) = RecentLimit
         /\ \A a \in DOMAIN recents : alerts[recents[a]].created >= alerts[n].created

\* The same as a promise to the callers of RecentAlerts: an alert in the table comes to be in
\* the cache, through failed refreshes and crashes, or newer ones fill it.  At the bound
\* of the table the model evaluates no more.
InCacheOrDisplaced(n) ==
  \/ \E a \in DOMAIN recents : recents[a] = n
  \/ /\ n \in DOMAIN alerts
     /\ Cardinality({m \in DOMAIN alerts : alerts[m].created >= alerts[n].created})
          > RecentLimit
AlertsReachTheCache ==
  \A n \in 1..MaxAlerts :
    n \in DOMAIN alerts ~> InCacheOrDisplaced(n) \/ Len(alerts) >= MaxAlerts

\* engine.go:80-101, 104-107, 139-171: a breach that lasts is reported, at least once, whatever
\* the engine met before: a query that failed, an insertion that failed and left the key
\* silenced, a crash between the decision and its row, a toggle in the middle of an
\* evaluation.  At its bound the clock may leave the key cooling down.
Sustained(i) == Enabled(i) /\ latest # Nil /\ rules[i].cond \in latest
Reported(i) == \E n \in DOMAIN alerts : alerts[n].key = i
CoolingAtTheBound(i) ==
  /\ Exists(i) /\ now = MaxTime
  /\ cooldowns[i] # Never /\ now < cooldowns[i] + rules[i].cooldown
LastingBreachIsReported ==
  \A i \in RuleIds :
    <>[](Sustained(i) /\ Len(alerts) < MaxAlerts) =>
      <>[](Reported(i) \/ CoolingAtTheBound(i))

\* The table, seen as a log of decisions, is the log AlertLog promises.
Decisions ==
  [n \in DOMAIN alerts |->
     [key |-> alerts[n].key, at |-> alerts[n].at, gap |-> alerts[n].gap,
      life |-> alerts[n].life]]

Log == INSTANCE AlertLog WITH Times <- Time, Lives <- 1..MaxLives, log <- Decisions

\* alerts.go:103-119: rows are only appended, in the order of their decisions and
\* spaced by the cooldowns.
ImplementsLog == Log!LogSpec

\* alerts.go:212, "SeedDefaultAlertConfigs inserts default alert rules if none
\* exist": when the server answers, every default has been inserted once.  A crash
\* between two of the inserts leaves a table that is not empty and not complete.
DefaultsSeeded == Serving => nextId > Len(Defaults)
=============================================================================
