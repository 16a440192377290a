------------------------- MODULE AlertEngine_proofs -------------------------
(***************************************************************************)
(* Theorems about AlertEngine, for every set of rules and units and every  *)
(* value of the bounds.                                                    *)
(***************************************************************************)
EXTENDS AlertEngine, FiniteSetTheorems, SequenceTheorems, TLAPS

\* TypeOK is not inductive alone: a process that is down has a life left to start.
LifeLeft == pc = "down" => life < MaxLives
TypeInv == TypeOK /\ LifeLeft

-----------------------------------------------------------------------------
(* Values                                                                  *)

\* A sequence over a set is one over every larger set.
LEMMA SeqOfMore ==
  ASSUME NEW S, NEW T, S \subseteq T, NEW s \in Seq(S)
  PROVE  s \in Seq(T)
BY SeqMonotonic

\* What a form or a default makes is a rule.
LEMMA RuleFromForm ==
  ASSUME NEW f, f \in RuleForms \/ \E n \in DOMAIN Defaults : f = Defaults[n]
  PROVE  [cond |-> f.cond, cooldown |-> f.cooldown, enabled |-> TRUE] \in Rule
<1>1. f \in RuleForm
  <2>1. CASE f \in RuleForms
    BY <2>1, RulesAssumption
  <2>2. CASE \E n \in DOMAIN Defaults : f = Defaults[n]
    BY <2>2, RulesAssumption
  <2> QED
    BY <2>1, <2>2
<1>2. f.cooldown \in Gaps
  BY DEF Gaps
<1> QED
  BY <1>1, <1>2 DEF Rule, RuleForm

LEMMA ValueTypes ==
  /\ NoRules \in [RuleIds -> {Nil} \cup Rule]
  /\ NoListing \in [Units -> Infos]
  /\ Absent \in Infos /\ "absent" \in States
  /\ \A i \in Infos : i.state \in States
<1>1. Absent \in Infos
  BY DEF Infos
<1>2. \A i \in Infos : i.state \in States
  BY DEF States
<1>3. Absent.state = "absent"
  BY DEF Absent
<1>4. NoRules \in [RuleIds -> {Nil} \cup Rule]
  BY DEF NoRules
<1>5. NoListing \in [Units -> Infos]
  BY <1>1 DEF NoListing
<1> QED
  BY <1>1, <1>2, <1>3, <1>4, <1>5

-----------------------------------------------------------------------------
(* Types                                                                   *)

LEMMA InitType == Init => TypeInv
<1> SUFFICES ASSUME Init PROVE TypeInv
  OBVIOUS
<1>1. /\ nextId \in 1..(MaxRules + 1) /\ now \in Time /\ faults \in 0..MaxFaults
      /\ seedNo \in 1..(Len(Defaults) + 1) /\ life \in 1..MaxLives
  BY BoundsAssumption, RulesAssumption, LenProperties DEF Init, Time
<1>2. alerts \in Seq(Row) /\ recents \in Seq(DOMAIN alerts)
  BY EmptySeq DEF Init
<1>3. available \in [Sources -> BOOLEAN]
  BY DEF Init, Probed
<1> QED
  BY <1>1, <1>2, <1>3, ValueTypes, BoundsAssumption DEF Init, TypeInv, TypeOK, LifeLeft, PCs

LEMMA EnvironmentType == TypeInv /\ Environment => TypeInv'
<1> SUFFICES ASSUME TypeInv, Environment PROVE TypeInv'
  OBVIOUS
<1> USE DEF TypeInv, TypeOK, LifeLeft, PCs, dbVars, cacheVars, memVars, localVars, ghostVars
<1>1. CASE Tick
  <2>1. now' \in Time
    BY <1>1, BoundsAssumption DEF Tick, Time
  <2> QED
    BY <1>1, <2>1 DEF Tick
<1>2. CASE Collect
  BY <1>2 DEF Collect
<1>3. ASSUME NEW s \in Sources, RefreshOk(s) PROVE TypeInv'
  BY <1>3 DEF RefreshOk, Listings
<1>4. ASSUME NEW s \in Sources, RefreshFails(s) PROVE TypeInv'
  BY <1>4 DEF RefreshFails
<1>5. CASE Reconnect
  BY <1>5 DEF Reconnect, Sources
<1> QED
  BY <1>1, <1>2, <1>3, <1>4, <1>5 DEF Environment, Watched

LEMMA InsertRuleType ==
  ASSUME TypeInv, NEW f, f \in RuleForms \/ \E n \in DOMAIN Defaults : f = Defaults[n],
         InsertRule(f)
  PROVE  /\ rules' \in [RuleIds -> {Nil} \cup Rule]
         /\ nextId' \in 1..(MaxRules + 1)
<1>1. nextId \in RuleIds
  BY DEF InsertRule
<1>2. [cond |-> f.cond, cooldown |-> f.cooldown, enabled |-> TRUE] \in Rule
  BY RuleFromForm
<1>3. nextId' \in 1..(MaxRules + 1)
  BY <1>1, BoundsAssumption DEF InsertRule, RuleIds
<1> QED
  BY <1>1, <1>2, <1>3 DEF InsertRule, NewRuleId, TypeInv, TypeOK

LEMMA HandlersType == TypeInv /\ Handlers => TypeInv'
<1> SUFFICES ASSUME TypeInv, Handlers PROVE TypeInv'
  OBVIOUS
<1>1. CASE CreateRule
  <2>1. PICK f \in RuleForms : InsertRule(f)
    BY <1>1 DEF CreateRule
  <2>2. rules' \in [RuleIds -> {Nil} \cup Rule] /\ nextId' \in 1..(MaxRules + 1)
    BY <2>1, InsertRuleType
  <2> QED
    BY <1>1, <2>2 DEF CreateRule, TypeInv, TypeOK, LifeLeft, PCs, cacheVars, memVars,
                      localVars, ghostVars
<1>2. ASSUME NEW i \in RuleIds, ToggleRule(i) PROVE TypeInv'
  <2>1. rules[i] \in Rule
    BY <1>2 DEF ToggleRule, Exists, TypeInv, TypeOK
  <2>2. [rules[i] EXCEPT !.enabled = ~rules[i].enabled] \in Rule
    BY <2>1 DEF Rule
  <2>3. rules' \in [RuleIds -> {Nil} \cup Rule]
    BY <1>2, <2>2 DEF ToggleRule, TypeInv, TypeOK
  <2> QED
    BY <1>2, <2>3 DEF ToggleRule, TypeInv, TypeOK, LifeLeft, PCs, cacheVars, memVars,
                      localVars
<1>3. ASSUME NEW i \in RuleIds, DeleteRule(i) PROVE TypeInv'
  BY <1>3 DEF DeleteRule, TypeInv, TypeOK, LifeLeft, PCs, cacheVars, memVars, localVars,
              ghostVars
<1> QED
  BY <1>1, <1>2, <1>3 DEF Handlers

LEMMA ProcessType == TypeInv /\ (Boot \/ Crash \/ Restart) => TypeInv'
<1> SUFFICES ASSUME TypeInv, Boot \/ Crash \/ Restart PROVE TypeInv'
  OBVIOUS
<1>1. CASE SeedCheck
  BY <1>1 DEF SeedCheck, TypeInv, TypeOK, LifeLeft, PCs, dbVars, cacheVars, memVars,
              localVars, ghostVars
<1>2. CASE SeedInsert
  <2>1. Len(Defaults) \in Nat /\ DOMAIN Defaults = 1..Len(Defaults)
    BY RulesAssumption, LenProperties
  <2>2. seedNo \in DOMAIN Defaults /\ seedNo' \in 1..(Len(Defaults) + 1)
    BY <1>2, <2>1 DEF SeedInsert, TypeInv, TypeOK
  <2>3. rules' \in [RuleIds -> {Nil} \cup Rule] /\ nextId' \in 1..(MaxRules + 1)
    BY <1>2, <2>2, InsertRuleType DEF SeedInsert
  <2> QED
    BY <1>2, <2>2, <2>3 DEF SeedInsert, TypeInv, TypeOK, LifeLeft, PCs, cacheVars,
                            memVars, localVars, ghostVars
<1>3. CASE SeedDone
  <2>1. 1 \in 1..(Len(Defaults) + 1)
    BY RulesAssumption, LenProperties
  <2> QED
    BY <1>3, <2>1 DEF SeedDone, TypeInv, TypeOK, LifeLeft, PCs, dbVars, cacheVars,
                      memVars, localVars, ghostVars
<1>4. CASE Crash
  <2>1. 1 \in 1..(Len(Defaults) + 1)
    BY RulesAssumption, LenProperties
  <2>2. recents' \in Seq(DOMAIN alerts')
    BY <1>4, EmptySeq DEF Crash
  <2> QED
    BY <1>4, <2>1, <2>2, ValueTypes
       DEF Crash, TypeInv, TypeOK, LifeLeft, PCs, dbVars
<1>5. CASE Restart
  <2>1. life' \in 1..MaxLives
    <3>1. life \in 1..MaxLives /\ life < MaxLives /\ life' = life + 1
      BY <1>5 DEF Restart, TypeInv, TypeOK, LifeLeft
    <3>2. MaxLives \in Nat
      BY BoundsAssumption
    <3> QED
      BY <3>1, <3>2
  <2>2. available' \in [Sources -> BOOLEAN]
    BY <1>5 DEF Restart, Probed
  <2> QED
    BY <1>5, <2>1, <2>2 DEF Restart, TypeInv, TypeOK, LifeLeft, PCs, dbVars,
                            memVars, localVars, ghostVars
<1> QED
  BY <1>1, <1>2, <1>3, <1>4, <1>5 DEF Boot

\* A decision is about a key and names a condition or a state.
LEMMA DecideType ==
  ASSUME TypeInv, NEW k \in Keys, NEW w \in Conditions \cup States, NEW g \in Gaps,
         Decide(k, w, g)
  PROVE  /\ cooldowns' \in [Keys -> Time \cup {Never}]
         /\ pend' \in {Nil} \cup Pending
BY DEF Decide, TypeInv, TypeOK, Pending

LEMMA CheckRuleType ==
  ASSUME TypeInv, NEW i \in RuleIds, CheckRule(i)
  PROVE  TypeInv'
<1>1. loaded[i] \in Rule
  BY DEF CheckRule, TypeInv, TypeOK
<1>2. loaded[i].cond \in Conditions \cup States /\ loaded[i].cooldown \in Gaps
  BY <1>1 DEF Rule
<1>3. /\ cooldowns' \in [Keys -> Time \cup {Never}]
      /\ pend' \in {Nil} \cup Pending
  <2>1. CASE Triggers(i)
    <3>1. Decide(i, loaded[i].cond, loaded[i].cooldown) /\ i \in Keys
      BY <2>1 DEF CheckRule, Keys
    <3> QED
      BY <1>2, <3>1, DecideType
  <2>2. CASE ~Triggers(i)
    BY <2>2 DEF CheckRule, TypeInv, TypeOK
  <2> QED
    BY <2>1, <2>2
<1>4. late' \in [RuleIds -> Nat]
  <2>1. late \in [RuleIds -> Nat] /\ late[i] + 1 \in Nat
    BY DEF TypeInv, TypeOK
  <2>2. late' \in {late, [late EXCEPT ![i] = late[i] + 1]}
    BY DEF CheckRule
  <2> QED
    BY <2>1, <2>2
<1>5. loaded' \in [RuleIds -> {Nil} \cup Rule]
  BY DEF CheckRule, TypeInv, TypeOK
<1> QED
  BY <1>3, <1>4, <1>5 DEF CheckRule, TypeInv, TypeOK, LifeLeft, PCs, dbVars, cacheVars

LEMMA InsertAlertType == TypeInv /\ InsertAlert => TypeInv'
<1> SUFFICES ASSUME TypeInv, InsertAlert PROVE TypeInv'
  OBVIOUS
<1> DEFINE row == [key |-> pend.key, what |-> pend.what, created |-> now,
                   at |-> pend.at, gap |-> pend.gap, life |-> life]
<1>1. pend \in Pending
  BY DEF InsertAlert, TypeInv, TypeOK
<1>2. row \in Row
  BY <1>1 DEF Pending, Row, TypeInv, TypeOK
<1>3. alerts \in Seq(Row)
  BY DEF TypeInv, TypeOK
<1>4. alerts' = Append(alerts, row)
  BY DEF InsertAlert
<1>5. alerts' \in Seq(Row)
  BY <1>2, <1>3, <1>4, AppendProperties
<1>6. DOMAIN alerts \subseteq DOMAIN alerts'
  BY <1>2, <1>3, <1>4, AppendProperties, LenProperties
<1>7. recents' \in Seq(DOMAIN alerts')
  BY <1>6, SeqOfMore DEF InsertAlert, memVars, TypeInv, TypeOK
<1> QED
  BY <1>5, <1>7 DEF InsertAlert, TypeInv, TypeOK, LifeLeft, PCs, cacheVars, memVars,
                    ghostVars

LEMMA CheckUnitType ==
  ASSUME TypeInv, NEW u \in Units, CheckUnit(u)
  PROVE  TypeInv'
<1> DEFINE raises == /\ prev[u] # "absent"
                     /\ Alarm(prev[u], current[u])
                     /\ ~Cooling(u, StateCooldown)
<1>1. current[u].state \in Conditions \cup States
  BY ValueTypes DEF TypeInv, TypeOK
<1>2. StateCooldown \in Gaps
  BY DEF Gaps
<1>3. /\ cooldowns' \in [Keys -> Time \cup {Never}]
      /\ pend' \in {Nil} \cup Pending
  <2>1. CASE raises
    <3>1. Decide(u, current[u].state, StateCooldown)
      BY <2>1 DEF CheckUnit
    <3> QED
      BY <1>1, <1>2, <3>1, DecideType DEF Keys
  <2>2. CASE ~raises
    BY <2>2 DEF CheckUnit, TypeInv, TypeOK
  <2> QED
    BY <2>1, <2>2
<1>4. well' \in [Units -> BOOLEAN]
  <2>1. (well[u] /\ pend' = Nil) \in BOOLEAN
    OBVIOUS
  <2> QED
    BY <2>1 DEF CheckUnit, TypeInv, TypeOK
<1>5. fell' \in [Units -> Time \cup {Never}]
  BY DEF CheckUnit, TypeInv, TypeOK
<1>6. todo' \in SUBSET Units
  BY DEF CheckUnit, TypeInv, TypeOK
<1> QED
  BY <1>3, <1>4, <1>5, <1>6
     DEF CheckUnit, TypeInv, TypeOK, LifeLeft, PCs, dbVars, cacheVars

LEMMA EndPassType == TypeInv /\ EndPass => TypeInv'
<1> SUFFICES ASSUME TypeInv, EndPass PROVE TypeInv'
  OBVIOUS
<1>1. prev' \in [Units -> States]
  BY ValueTypes DEF EndPass, Remembered, TypeInv, TypeOK
<1>2. well' \in [Units -> BOOLEAN]
  <2>1. \A u \in Units : (well[u] \/ current[u].state \notin DownStates \cup {"absent"}) \in BOOLEAN
    OBVIOUS
  <2> QED
    BY <2>1 DEF EndPass
<1>3. current' \in [Units -> Infos]
  BY ValueTypes DEF EndPass
<1>4. pc' \in PCs \ {"down"} /\ src' \in Sources \cup {"none"}
  BY DEF EndPass, AfterPass, PCs, Sources
<1> QED
  BY <1>1, <1>2, <1>3, <1>4
     DEF EndPass, TypeInv, TypeOK, LifeLeft, dbVars, cacheVars

LEMMA MostRecentType ==
  ASSUME TypeInv, NEW r \in MostRecent(RecentLimit)
  PROVE  r \in Seq(DOMAIN alerts)
<1> DEFINE k == IF Len(alerts) < RecentLimit THEN Len(alerts) ELSE RecentLimit
<1>1. k \in Nat
  BY BoundsAssumption, LenProperties DEF TypeInv, TypeOK
<1>2. r \in [1..k -> DOMAIN alerts]
  BY DEF MostRecent
<1> HIDE DEF k
<1> QED
  BY <1>1, <1>2, SeqDef

LEMMA FaultType == TypeInv /\ Fault => faults' \in 0..MaxFaults
<1>1. MaxFaults \in Nat
  BY BoundsAssumption
<1>2. TypeInv => faults \in 0..MaxFaults
  BY DEF TypeInv, TypeOK
<1> QED
  BY <1>1, <1>2 DEF Fault

LEMMA EvaluateType == TypeInv /\ Evaluate => TypeInv'
<1> SUFFICES ASSUME TypeInv, Evaluate PROVE TypeInv'
  OBVIOUS
<1> USE DEF TypeInv, TypeOK, LifeLeft, PCs, dbVars, cacheVars, memVars, localVars, ghostVars
<1>1. CASE LoadConfigs
  BY <1>1 DEF LoadConfigs, EnabledRules
<1>2. CASE LoadConfigsFails
  BY <1>2, FaultType DEF LoadConfigsFails
<1>3. CASE ReadSnapshot
  BY <1>3, ValueTypes DEF ReadSnapshot, Sources
<1>4. CASE RulesDone
  BY <1>4 DEF RulesDone, Sources
<1>5. CASE InsertAlertFails
  BY <1>5, FaultType DEF InsertAlertFails
<1>6. CASE CheckAvailable
  BY <1>6 DEF CheckAvailable, AfterPass, Sources
<1>7. CASE TakeListing
  <2>1. /\ current' \in [Units -> Infos]
        /\ todo' \in SUBSET Units
    BY <1>7, ValueTypes DEF TakeListing, UnitsOf, Units
  <2> QED
    BY <1>7, <2>1 DEF TakeListing
<1>8. CASE Refresh
  BY <1>8, MostRecentType DEF Refresh
<1>9. CASE RefreshCacheFails
  BY <1>9, FaultType DEF RefreshCacheFails
<1> QED
  BY <1>1, <1>2, <1>3, <1>4, <1>5, <1>6, <1>7, <1>8, <1>9, CheckRuleType,
     InsertAlertType, CheckUnitType, EndPassType DEF Evaluate

LEMMA StutterType == TypeInv /\ UNCHANGED vars => TypeInv'
BY DEF vars, TypeInv, TypeOK, LifeLeft, PCs, dbVars, cacheVars, memVars, localVars, ghostVars

LEMMA TypeInvariant == Spec => []TypeInv
<1>1. TypeInv /\ [Next]_vars => TypeInv'
  BY EnvironmentType, HandlersType, ProcessType, EvaluateType, StutterType DEF Next
<1> QED
  BY <1>1, InitType, PTL DEF Spec

\* Every variable keeps its type.
THEOREM TypeCorrect == Spec => []TypeOK
<1>1. TypeInv => TypeOK
  BY DEF TypeInv
<1> QED
  BY <1>1, TypeInvariant, PTL

-----------------------------------------------------------------------------
(* Cooldowns                                                               *)

\* Clocks and lives only move forward; a process that is down remembers nothing.
PastInv ==
  /\ \A k \in Keys : cooldowns[k] <= now
  /\ \A n \in DOMAIN alerts : alerts[n].at <= now /\ alerts[n].life <= life
  /\ pc = "down" => pend = Nil /\ \A k \in Keys : cooldowns[k] = Never

\* A row of this life was decided when its key last triggered, or before.
RowsInv ==
  pc # "down" => \A n \in DOMAIN alerts :
    alerts[n].life = life => /\ cooldowns[alerts[n].key] # Never
                             /\ alerts[n].at <= cooldowns[alerts[n].key]

\* The alert being written may follow every row there is.
PendInv ==
  pend # Nil => /\ pend.at = cooldowns[pend.key]
                /\ \A n \in DOMAIN alerts :
                     /\ alerts[n].at <= pend.at
                     /\ alerts[n].key = pend.key /\ alerts[n].life = life
                          => alerts[n].at + pend.gap <= pend.at

CooldownInv == PastInv /\ RowsInv /\ PendInv /\ CooldownRespected

\* The variables CooldownInv is about, the clock apart.
Quiet ==
  /\ UNCHANGED <<alerts, cooldowns, pend, life>>
  /\ now' >= now
  /\ pc = "down" <=> pc' = "down"

LEMMA TimeIsNat ==
  /\ Time \subseteq Nat /\ Time \cup {Never} \subseteq Int
  /\ \A t \in Time : t \in Int /\ t # Never
BY BoundsAssumption DEF Time, Never

LEMMA GapsAreNat == Gaps \subseteq Nat
<1>1. \A f \in RuleForms : f.cooldown \in Nat
  BY RulesAssumption DEF RuleForm
<1>2. \A m \in DOMAIN Defaults : Defaults[m].cooldown \in Nat
  <2>1. \A m \in DOMAIN Defaults : Defaults[m] \in RuleForm
    BY RulesAssumption, LenProperties, ElementOfSeq
  <2> QED
    BY <2>1 DEF RuleForm
<1>3. StateCooldown \in Nat
  BY BoundsAssumption
<1> QED
  BY <1>1, <1>2, <1>3 DEF Gaps

LEMMA RowFields ==
  ASSUME TypeOK, NEW n \in DOMAIN alerts
  PROVE  /\ alerts[n] \in Row
         /\ alerts[n].key \in Keys
         /\ alerts[n].at \in Int /\ alerts[n].gap \in Nat /\ alerts[n].life \in Int
<1>1. alerts[n] \in Row
  BY LenProperties, ElementOfSeq DEF TypeOK
<1>2. Gaps \subseteq Nat
  BY GapsAreNat
<1>3. 1..MaxLives \subseteq Int
  OBVIOUS
<1> QED
  BY <1>1, <1>2, <1>3, TimeIsNat DEF Row

LEMMA QuietKeeps == TypeOK /\ TypeOK' /\ CooldownInv /\ Quiet => CooldownInv'
<1> SUFFICES ASSUME TypeOK, TypeOK', CooldownInv, Quiet PROVE CooldownInv'
  OBVIOUS
<1>1. now \in Int /\ now' \in Int
  BY TimeIsNat DEF TypeOK
<1>2. PastInv'
  <2>1. \A k \in Keys : cooldowns[k] \in Int /\ cooldowns'[k] = cooldowns[k]
    BY TimeIsNat DEF TypeOK, Quiet
  <2>2. \A n \in DOMAIN alerts : alerts[n].at \in Int
    BY RowFields
  <2> QED
    BY <1>1, <2>1, <2>2 DEF PastInv, Quiet, CooldownInv
<1>3. RowsInv'
  BY DEF RowsInv, Quiet, CooldownInv
<1>4. PendInv'
  BY DEF PendInv, Quiet, CooldownInv
<1>5. CooldownRespected'
  BY DEF CooldownRespected, Quiet, CooldownInv
<1> QED
  BY <1>2, <1>3, <1>4, <1>5 DEF CooldownInv

\* A key that is not cooling down may be decided about.
LEMMA DecideKeeps ==
  ASSUME TypeOK, CooldownInv, NEW k \in Keys, NEW w, NEW g \in Nat,
         pend = Nil, pc # "down", ~Cooling(k, g), Decide(k, w, g),
         UNCHANGED <<alerts, life, now, pc>>
  PROVE  CooldownInv'
<1>1. now \in Int /\ \A j \in Keys : cooldowns[j] \in Int
  BY TimeIsNat DEF TypeOK
<1>2. cooldowns' = [cooldowns EXCEPT ![k] = now] /\ now # Never
  BY TimeIsNat DEF Decide, Never, TypeOK
<1>3. \A j \in Keys : cooldowns'[j] = IF j = k THEN now ELSE cooldowns[j]
  BY <1>2 DEF TypeOK
<1>4. PastInv'
  BY <1>1, <1>3 DEF PastInv, CooldownInv
<1>5. RowsInv'
  BY <1>2, <1>3, RowFields DEF RowsInv, PastInv, CooldownInv
<1>6. PendInv'
  <2>1. pend'.at = now /\ pend'.key = k /\ pend'.gap = g
    BY DEF Decide
  <2>2. ASSUME NEW n \in DOMAIN alerts, alerts[n].key = k, alerts[n].life = life
        PROVE  alerts[n].at + g <= now
    <3>1. cooldowns[k] # Never /\ alerts[n].at <= cooldowns[k]
      BY <2>2 DEF RowsInv, CooldownInv
    <3>2. now - cooldowns[k] >= g
      BY <1>1, <3>1 DEF Cooling
    <3> QED
      BY <1>1, <3>1, <3>2, RowFields
  <2>3. \A n \in DOMAIN alerts : alerts[n].at <= now
    BY DEF PastInv, CooldownInv
  <2> QED
    BY <1>3, <2>1, <2>2, <2>3 DEF PendInv
<1>7. CooldownRespected'
  BY DEF CooldownRespected, CooldownInv
<1> QED
  BY <1>4, <1>5, <1>6, <1>7 DEF CooldownInv

LEMMA CooldownCheckRule ==
  ASSUME TypeOK, TypeOK', CooldownInv, NEW i \in RuleIds, CheckRule(i)
  PROVE  CooldownInv'
<1>1. pend = Nil /\ pc # "down" /\ pc' = pc /\ now' = now /\ UNCHANGED <<alerts, life>>
  BY DEF CheckRule, dbVars
<1>2. loaded[i].cooldown \in Nat /\ i \in Keys
  <2>1. loaded[i] \in Rule
    BY DEF CheckRule, TypeOK
  <2> QED
    BY <2>1, GapsAreNat DEF Rule, Keys
<1>3. CASE Triggers(i)
  BY <1>1, <1>2, <1>3, DecideKeeps DEF CheckRule, Triggers
<1>4. CASE ~Triggers(i)
  <2>1. Quiet
    BY <1>1, <1>4, TimeIsNat DEF CheckRule, Quiet, TypeOK
  <2> QED
    BY <2>1, QuietKeeps
<1> QED
  BY <1>3, <1>4

LEMMA CooldownCheckUnit ==
  ASSUME TypeOK, TypeOK', CooldownInv, NEW u \in Units, CheckUnit(u)
  PROVE  CooldownInv'
<1> DEFINE raises == /\ prev[u] # "absent"
                     /\ Alarm(prev[u], current[u])
                     /\ ~Cooling(u, StateCooldown)
<1>1. pend = Nil /\ pc # "down" /\ pc' = pc /\ now' = now /\ UNCHANGED <<alerts, life>>
  BY DEF CheckUnit, dbVars
<1>2. StateCooldown \in Nat /\ u \in Keys
  BY BoundsAssumption DEF Keys
<1>3. CASE raises
  <2>1. Decide(u, current[u].state, StateCooldown)
    BY <1>3 DEF CheckUnit
  <2> QED
    BY <1>1, <1>2, <1>3, <2>1, DecideKeeps
<1>4. CASE ~raises
  <2>1. Quiet
    BY <1>1, <1>4, TimeIsNat DEF CheckUnit, Quiet, TypeOK
  <2> QED
    BY <2>1, QuietKeeps
<1> QED
  BY <1>3, <1>4

\* The row that is written is the pending alert, after every other row.
LEMMA Inserted ==
  ASSUME TypeOK, InsertAlert
  PROVE  /\ pend \in Pending
         /\ DOMAIN alerts = 1..Len(alerts) /\ Len(alerts) \in Nat
         /\ DOMAIN alerts' = 1..(Len(alerts) + 1)
         /\ \A n \in DOMAIN alerts : alerts'[n] = alerts[n]
         /\ alerts'[Len(alerts) + 1] =
              [key |-> pend.key, what |-> pend.what, created |-> now, at |-> pend.at,
               gap |-> pend.gap, life |-> life]
<1> DEFINE row == [key |-> pend.key, what |-> pend.what, created |-> now,
                   at |-> pend.at, gap |-> pend.gap, life |-> life]
<1>1. pend \in Pending
  BY DEF InsertAlert, TypeOK
<1>2. row \in Row
  BY <1>1 DEF Pending, Row, TypeOK
<1>3. alerts \in Seq(Row) /\ alerts' = Append(alerts, row)
  BY DEF InsertAlert, TypeOK
<1> QED
  BY <1>1, <1>2, <1>3, AppendProperties, LenProperties

LEMMA CooldownInsert ==
  ASSUME TypeOK, TypeOK', CooldownInv, InsertAlert
  PROVE  CooldownInv'
<1> DEFINE last == Len(alerts) + 1
<1>1. /\ alerts'[last].key = pend.key /\ alerts'[last].at = pend.at
      /\ alerts'[last].gap = pend.gap /\ alerts'[last].life = life
      /\ DOMAIN alerts = 1..Len(alerts) /\ Len(alerts) \in Nat
      /\ DOMAIN alerts' = 1..last /\ last \in DOMAIN alerts'
      /\ \A n \in DOMAIN alerts : alerts'[n] = alerts[n]
  BY Inserted
<1>2. \A n \in DOMAIN alerts' : n \in DOMAIN alerts \/ n = last
  BY <1>1
<1>3. /\ pend # Nil /\ pend' = Nil /\ UNCHANGED <<cooldowns, now, life, pc>>
      /\ pend.key \in Keys /\ pend.at = cooldowns[pend.key] /\ pend.at # Never
      /\ pend.at \in Int
  <2>1. pend \in Pending /\ pend.key \in Keys /\ pend.at \in Time
    BY Inserted DEF Pending
  <2>2. pend.at \in Int /\ pend.at # Never
    BY <2>1, TimeIsNat
  <2> QED
    BY <2>1, <2>2 DEF InsertAlert, memVars, CooldownInv, PendInv
<1> HIDE DEF last
<1>4. PastInv'
  <2>1. pc' = "down" => pend' = Nil /\ \A k \in Keys : cooldowns'[k] = Never
    BY <1>3 DEF PastInv, CooldownInv
  <2>2. \A k \in Keys : cooldowns'[k] <= now'
    BY <1>3 DEF PastInv, CooldownInv
  <2>3. pend.at <= now /\ life <= life
    BY <1>3, <2>2 DEF TypeOK
  <2>4. \A n \in DOMAIN alerts' : alerts'[n].at <= now' /\ alerts'[n].life <= life'
    BY <1>1, <1>2, <1>3, <2>3 DEF PastInv, CooldownInv
  <2> QED
    BY <2>1, <2>2, <2>4 DEF PastInv
<1>5. RowsInv'
  <2> SUFFICES ASSUME pc # "down", NEW n \in DOMAIN alerts', alerts'[n].life = life
               PROVE  /\ cooldowns[alerts'[n].key] # Never
                      /\ alerts'[n].at <= cooldowns[alerts'[n].key]
    BY <1>3 DEF RowsInv
  <2>1. CASE n \in DOMAIN alerts
    BY <1>1, <2>1 DEF RowsInv, CooldownInv
  <2>2. CASE n = last
    BY <1>1, <1>3, <2>2
  <2> QED
    BY <1>2, <2>1, <2>2
<1>6. PendInv'
  BY <1>3 DEF PendInv
<1>7. CooldownRespected'
  <2> SUFFICES ASSUME NEW i \in DOMAIN alerts', NEW j \in DOMAIN alerts', i < j,
                      alerts'[i].key = alerts'[j].key, alerts'[i].life = alerts'[j].life
               PROVE  alerts'[i].at + alerts'[j].gap <= alerts'[j].at
    BY DEF CooldownRespected
  <2>1. CASE j \in DOMAIN alerts
    <3>1. i \in DOMAIN alerts
      BY <1>1, <2>1
    <3> QED
      BY <1>1, <2>1, <3>1 DEF CooldownRespected, CooldownInv
  <2>2. CASE j = last
    <3>1. i \in DOMAIN alerts
      BY <1>1, <1>2, <2>2
    <3> QED
      BY <1>1, <1>3, <2>2, <3>1 DEF PendInv, CooldownInv
  <2> QED
    BY <1>2, <2>1, <2>2
<1> QED
  BY <1>4, <1>5, <1>6, <1>7 DEF CooldownInv

\* A pending alert that is given up leaves the rest as it is.
LEMMA CooldownGivenUp ==
  ASSUME TypeOK, TypeOK', CooldownInv, pend' = Nil,
         UNCHANGED <<alerts, cooldowns, life, now>>, pc # "down", pc' # "down"
  PROVE  CooldownInv'
BY DEF CooldownInv, PastInv, RowsInv, PendInv, CooldownRespected

LEMMA CooldownCrash ==
  ASSUME TypeOK, CooldownInv, Crash
  PROVE  CooldownInv'
<1>1. /\ UNCHANGED <<alerts, life, now>> /\ pc' = "down" /\ pend' = Nil
      /\ cooldowns' = [k \in Keys |-> Never]
  BY DEF Crash, dbVars
<1>2. Never <= now
  BY TimeIsNat DEF TypeOK, Never
<1> QED
  BY <1>1, <1>2 DEF CooldownInv, PastInv, RowsInv, PendInv, CooldownRespected

\* A new life has a number no row has.
LEMMA CooldownRestart ==
  ASSUME TypeOK, CooldownInv, Restart
  PROVE  CooldownInv'
<1>1. /\ UNCHANGED <<alerts, cooldowns, pend, now>> /\ life' = life + 1
      /\ pc = "down" /\ pc' # "down"
  BY DEF Restart, dbVars, memVars, localVars
<1>2. life \in Nat
  BY DEF TypeOK
<1>3. \A n \in DOMAIN alerts : alerts[n].life < life' /\ alerts[n].life <= life'
  BY <1>1, <1>2, RowFields DEF CooldownInv, PastInv
<1>4. \A n \in DOMAIN alerts : alerts[n].life # life'
  BY <1>1, <1>2, <1>3, RowFields
<1> QED
  BY <1>1, <1>3, <1>4 DEF CooldownInv, PastInv, RowsInv, PendInv, CooldownRespected

LEMMA CooldownStep ==
  ASSUME TypeOK, TypeOK', CooldownInv, [Next]_vars
  PROVE  CooldownInv'
<1>1. now \in Int /\ now <= now
  BY TimeIsNat DEF TypeOK
<1>2. CASE Environment \/ Handlers \/ Boot \/ UNCHANGED vars
  <2>1. Quiet
    BY <1>1, <1>2 DEF Quiet, Environment, Tick, Collect, RefreshOk, RefreshFails,
       Reconnect, Handlers, CreateRule, InsertRule, ToggleRule, DeleteRule, Boot,
       SeedCheck, SeedInsert, SeedDone, Running, Serving, vars, dbVars, memVars,
       localVars
  <2> QED
    BY <2>1, QuietKeeps
<1>3. CASE LoadConfigs \/ LoadConfigsFails \/ ReadSnapshot \/ RulesDone \/ CheckAvailable
           \/ TakeListing \/ EndPass \/ Refresh \/ RefreshCacheFails
  <2>1. Quiet
    BY <1>1, <1>3 DEF Quiet, LoadConfigs, LoadConfigsFails, ReadSnapshot, RulesDone,
       CheckAvailable, TakeListing, EndPass, Refresh, RefreshCacheFails, AfterPass,
       dbVars, memVars, localVars
  <2> QED
    BY <2>1, QuietKeeps
<1>4. ASSUME NEW i \in RuleIds, CheckRule(i) PROVE CooldownInv'
  BY <1>4, CooldownCheckRule
<1>5. CASE InsertAlert
  BY <1>5, CooldownInsert
<1>6. CASE InsertAlertFails
  <2>1. pend' = Nil /\ UNCHANGED <<alerts, cooldowns, life, now, pc>> /\ pc # "down"
    BY <1>6 DEF InsertAlertFails, dbVars, memVars, CooldownInv, PastInv
  <2> QED
    BY <2>1, CooldownGivenUp
<1>7. ASSUME NEW u \in Units, CheckUnit(u) PROVE CooldownInv'
  BY <1>7, CooldownCheckUnit
<1>8. CASE Crash
  BY <1>8, CooldownCrash
<1>9. CASE Restart
  BY <1>9, CooldownRestart
<1> QED
  BY <1>2, <1>3, <1>4, <1>5, <1>6, <1>7, <1>8, <1>9 DEF Next, Evaluate

LEMMA CooldownInvariant == Spec => []CooldownInv
<1>1. Init => CooldownInv
  BY TimeIsNat DEF Init, CooldownInv, PastInv, RowsInv, PendInv, CooldownRespected,
     Never, Time
<1>2. TypeOK /\ TypeOK' /\ CooldownInv /\ [Next]_vars => CooldownInv'
  BY CooldownStep
<1> QED
  BY <1>1, <1>2, TypeCorrect, PTL DEF Spec

\* Within a life of the process, the decisions behind two alerts of one key are the
\* key's cooldown apart.
THEOREM CooldownSafe == Spec => []CooldownRespected
<1>1. CooldownInv => CooldownRespected
  BY DEF CooldownInv
<1> QED
  BY <1>1, CooldownInvariant, PTL

-----------------------------------------------------------------------------
(* What a step can change                                                  *)

\* A turn of the loop over the listing that raises an alert.
Raises(u) ==
  /\ prev[u] # "absent"
  /\ Alarm(prev[u], current[u])
  /\ ~Cooling(u, StateCooldown)

LEMMA RulesChange ==
  [Next]_vars => \/ \E f : InsertRule(f)
                 \/ \E i \in RuleIds : ToggleRule(i) \/ DeleteRule(i)
                 \/ UNCHANGED <<rules, nextId>>
BY DEF Next, Environment, Handlers, Boot, Evaluate, Tick, Collect, RefreshOk, RefreshFails,
   Reconnect, CreateRule, SeedCheck, SeedInsert, SeedDone, LoadConfigs, LoadConfigsFails,
   ReadSnapshot, CheckRule, RulesDone, InsertAlert, InsertAlertFails, CheckAvailable,
   TakeListing, CheckUnit, EndPass, Refresh, RefreshCacheFails, Crash, Restart, vars, dbVars

LEMMA LoadedChange ==
  [Next]_vars => \/ LoadConfigs
                 \/ loaded' = NoRules
                 \/ \E i \in RuleIds : CheckRule(i)
                 \/ UNCHANGED loaded
BY DEF Next, Environment, Handlers, Boot, Evaluate, Tick, Collect, RefreshOk, RefreshFails,
   Reconnect, CreateRule, ToggleRule, DeleteRule, SeedCheck, SeedInsert, SeedDone,
   LoadConfigsFails, ReadSnapshot, RulesDone, InsertAlert, InsertAlertFails, CheckAvailable,
   TakeListing, CheckUnit, EndPass, Refresh, RefreshCacheFails, Crash, Restart, vars, localVars

LEMMA PendChange ==
  [Next]_vars => \/ \E i \in RuleIds : CheckRule(i) /\ Triggers(i)
                 \/ \E u \in Units : CheckUnit(u) /\ Raises(u)
                 \/ pend' = Nil
                 \/ UNCHANGED pend
BY DEF Next, Environment, Handlers, Boot, Evaluate, Tick, Collect, RefreshOk, RefreshFails,
   Reconnect, CreateRule, ToggleRule, DeleteRule, SeedCheck, SeedInsert, SeedDone,
   LoadConfigs, LoadConfigsFails, ReadSnapshot, CheckRule, RulesDone, InsertAlert,
   InsertAlertFails, CheckAvailable, TakeListing, CheckUnit, Raises, EndPass, Refresh,
   RefreshCacheFails, Crash, Restart, vars, localVars

LEMMA AlertsChange == [Next]_vars => InsertAlert \/ UNCHANGED alerts
BY DEF Next, Environment, Handlers, Boot, Evaluate, Tick, Collect, RefreshOk, RefreshFails,
   Reconnect, CreateRule, ToggleRule, DeleteRule, SeedCheck, SeedInsert, SeedDone,
   LoadConfigs, LoadConfigsFails, ReadSnapshot, CheckRule, RulesDone, InsertAlertFails,
   CheckAvailable, TakeListing, CheckUnit, EndPass, Refresh, RefreshCacheFails, Crash,
   Restart, vars, dbVars

-----------------------------------------------------------------------------
(* The rules that alerts name                                              *)

\* The id was handed out to a rule of this condition and cooldown.
Names(i, what, gap) ==
  /\ i < nextId
  /\ Exists(i) => rules[i].cond = what /\ rules[i].cooldown = gap

\* So it is of every copy of a rule, of the alert being written and of the rows.
RuleInv ==
  /\ \A i \in RuleIds : Exists(i) => i < nextId
  /\ \A i \in RuleIds : loaded[i] # Nil => Names(i, loaded[i].cond, loaded[i].cooldown)
  /\ \A i \in RuleIds : pend # Nil /\ pend.key = i => Names(i, pend.what, pend.gap)
  /\ RowsNameTheirRule

\* An id keeps its rule, whatever is created, toggled or deleted.
LEMMA NamesKept ==
  ASSUME TypeOK, [Next]_vars, NEW i \in RuleIds, NEW w, NEW g, Names(i, w, g)
  PROVE  Names(i, w, g)'
<1>1. nextId \in Nat /\ i \in Nat /\ i < nextId
  BY BoundsAssumption DEF TypeOK, RuleIds, Names
<1>2. ASSUME NEW f, InsertRule(f) PROVE Names(i, w, g)'
  <2>1. nextId' = nextId + 1 /\ rules'[i] = rules[i]
    BY <1>1, <1>2 DEF InsertRule, NewRuleId, TypeOK
  <2> QED
    BY <1>1, <2>1 DEF Names, Exists
<1>3. ASSUME NEW j \in RuleIds, ToggleRule(j) PROVE Names(i, w, g)'
  <2>1. nextId' = nextId /\ Exists(j) /\ rules' = [rules EXCEPT ![j].enabled = ~@]
    BY <1>3 DEF ToggleRule
  <2>2. rules[j] \in Rule
    BY <2>1 DEF TypeOK, Exists
  <2>3. i = j => rules'[i].cond = rules[i].cond /\ rules'[i].cooldown = rules[i].cooldown
    BY <2>1, <2>2 DEF TypeOK, Rule
  <2>4. i # j => rules'[i] = rules[i]
    BY <2>1 DEF TypeOK
  <2> QED
    BY <2>1, <2>3, <2>4 DEF Names, Exists
<1>4. ASSUME NEW j \in RuleIds, DeleteRule(j) PROVE Names(i, w, g)'
  <2>1. nextId' = nextId /\ rules'[i] \in {rules[i], Nil}
    BY <1>4 DEF DeleteRule, TypeOK
  <2> QED
    BY <2>1 DEF Names, Exists
<1>5. CASE UNCHANGED <<rules, nextId>>
  BY <1>5 DEF Names, Exists
<1> QED
  BY <1>2, <1>3, <1>4, <1>5, RulesChange

LEMMA IdsHandedOut ==
  ASSUME TypeOK, RuleInv, [Next]_vars, NEW i \in RuleIds, Exists(i)'
  PROVE  i < nextId'
<1>1. nextId \in Nat /\ i \in Nat
  BY BoundsAssumption DEF TypeOK, RuleIds
<1>2. CASE Exists(i)
  <2>1. Names(i, rules[i].cond, rules[i].cooldown)
    BY <1>2 DEF Names, RuleInv
  <2> QED
    BY <2>1, NamesKept DEF Names
<1>3. CASE ~Exists(i)
  <2>1. PICK f : InsertRule(f)
    BY <1>3, RulesChange DEF ToggleRule, DeleteRule, Exists, TypeOK
  <2>2. i = nextId
    BY <1>3, <2>1 DEF InsertRule, NewRuleId, Exists, TypeOK
  <2> QED
    BY <1>1, <2>1, <2>2 DEF InsertRule
<1> QED
  BY <1>2, <1>3

LEMMA RuleStep ==
  ASSUME TypeOK, TypeOK', RuleInv, [Next]_vars
  PROVE  RuleInv'
<1>1. ASSUME NEW i \in RuleIds, loaded'[i] # Nil,
             NEW w, NEW g, w = loaded'[i].cond, g = loaded'[i].cooldown
      PROVE  Names(i, w, g)'
  <2>1. CASE LoadConfigs
    <3>1. Exists(i) /\ loaded'[i] = rules[i]
      BY <1>1, <2>1 DEF LoadConfigs, EnabledRules, Enabled, Exists
    <3> QED
      BY <1>1, <2>1, <3>1, NamesKept DEF RuleInv, Names
  <2>2. CASE loaded'[i] = loaded[i]
    <3>1. Names(i, w, g)
      BY <1>1, <2>2 DEF RuleInv
    <3> QED
      BY <3>1, NamesKept
  <2>3. ASSUME NEW j \in RuleIds, CheckRule(j) PROVE loaded'[i] = loaded[i]
    BY <1>1, <2>3 DEF CheckRule, TypeOK
  <2> QED
    BY <1>1, <2>1, <2>2, <2>3, LoadedChange DEF NoRules
<1>2. ASSUME NEW i \in RuleIds, pend' # Nil, pend'.key = i,
             NEW w, NEW g, w = pend'.what, g = pend'.gap
      PROVE  Names(i, w, g)'
  <2>1. ASSUME NEW j \in RuleIds, CheckRule(j), Triggers(j)
        PROVE  Names(i, w, g)'
    <3>1. /\ pend' = [key |-> j, what |-> loaded[j].cond, at |-> now, gap |-> loaded[j].cooldown]
          /\ loaded[j] # Nil
      BY <2>1 DEF CheckRule, Decide
    <3>2. i = j /\ w = loaded[j].cond /\ g = loaded[j].cooldown
      BY <1>2, <3>1
    <3>3. Names(i, w, g)
      BY <3>1, <3>2 DEF RuleInv
    <3> QED
      BY <3>3, NamesKept
  <2>2. ASSUME NEW u \in Units, CheckUnit(u), Raises(u) PROVE FALSE
    <3>1. pend'.key = u
      BY <2>2 DEF CheckUnit, Raises, Decide
    <3>2. i \in Int
      BY DEF RuleIds
    <3> QED
      BY <1>2, <3>1, <3>2, UnitsAssumption
  <2>3. CASE UNCHANGED pend
    <3>1. Names(i, w, g)
      BY <1>2, <2>3 DEF RuleInv
    <3> QED
      BY <3>1, NamesKept
  <2> QED
    BY <1>2, <2>1, <2>2, <2>3, PendChange
<1>3. ASSUME NEW n \in DOMAIN alerts', NEW i \in RuleIds, alerts'[n].key = i,
             NEW w, NEW g, w = alerts'[n].what, g = alerts'[n].gap
      PROVE  Names(i, w, g)'
  <2>1. CASE n \in DOMAIN alerts /\ alerts'[n] = alerts[n]
    <3>1. Names(i, w, g)
      BY <1>3, <2>1 DEF RuleInv, RowsNameTheirRule, Names
    <3> QED
      BY <3>1, NamesKept
  <2>2. CASE InsertAlert /\ n = Len(alerts) + 1
    <3>1. /\ pend # Nil
          /\ alerts'[n].key = pend.key /\ alerts'[n].what = pend.what
          /\ alerts'[n].gap = pend.gap
      BY <2>2, Inserted DEF InsertAlert
    <3>2. Names(i, w, g)
      BY <1>3, <3>1 DEF RuleInv
    <3> QED
      BY <3>2, NamesKept
  <2>3. CASE InsertAlert
    <3>1. n \in DOMAIN alerts \/ n = Len(alerts) + 1
      BY <1>3, <2>3, Inserted
    <3> QED
      BY <2>1, <2>2, <2>3, <3>1, Inserted
  <2> QED
    BY <1>3, <2>1, <2>3, AlertsChange
<1>4. RowsNameTheirRule'
  BY <1>3 DEF RowsNameTheirRule, Names, Exists
<1>5. \A i \in RuleIds : Exists(i)' => i < nextId'
  BY IdsHandedOut
<1>6. (\A i \in RuleIds : loaded[i] # Nil => Names(i, loaded[i].cond, loaded[i].cooldown))'
  BY <1>1 DEF Names, Exists
<1>7. (\A i \in RuleIds : pend # Nil /\ pend.key = i => Names(i, pend.what, pend.gap))'
  BY <1>2 DEF Names, Exists
<1> QED
  BY <1>4, <1>5, <1>6, <1>7 DEF RuleInv

LEMMA RuleInvariant == Spec => []RuleInv
<1>1. Init => RuleInv
  BY DEF Init, RuleInv, RowsNameTheirRule, Exists, NoRules
<1>2. TypeOK /\ TypeOK' /\ RuleInv /\ [Next]_vars => RuleInv'
  BY RuleStep
<1> QED
  BY <1>1, <1>2, TypeCorrect, PTL DEF Spec

\* sqlite.go:43 (AUTOINCREMENT): the rule an alert names is the rule that raised it, or
\* is gone, whatever is created, toggled and deleted while evaluations run.
THEOREM AlertsNameTheirRule == Spec => []RowsNameTheirRule
<1>1. RuleInv => RowsNameTheirRule
  BY DEF RuleInv
<1> QED
  BY <1>1, RuleInvariant, PTL

-----------------------------------------------------------------------------
(* Rules that fire late                                                    *)

\* A rule that fired since it was disabled has no copy left to fire from: it is no
\* longer enabled, so no evaluation loads it.
LateInv ==
  \A i \in RuleIds :
    late[i] # 0 => late[i] = 1 /\ ~Enabled(i) /\ loaded[i] = Nil /\ i < nextId

LEMMA LateChange ==
  [Next]_vars => \/ \E i \in RuleIds : CheckRule(i) /\ Triggers(i) /\ ~Enabled(i)
                 \/ \E i \in RuleIds : ToggleRule(i)
                 \/ UNCHANGED late
BY DEF Next, Environment, Handlers, Boot, Evaluate, Tick, Collect, RefreshOk, RefreshFails,
   Reconnect, CreateRule, DeleteRule, SeedCheck, SeedInsert, SeedDone, LoadConfigs,
   LoadConfigsFails, ReadSnapshot, CheckRule, RulesDone, InsertAlert, InsertAlertFails,
   CheckAvailable, TakeListing, CheckUnit, EndPass, Refresh, RefreshCacheFails, Crash,
   Restart, vars, ghostVars

\* What is not enabled is not loaded, and is enabled only by its toggle.
LEMMA StaysDisabled ==
  ASSUME TypeOK, [Next]_vars, NEW i \in RuleIds, ~Enabled(i), loaded[i] = Nil, i < nextId
  PROVE  /\ loaded'[i] = Nil /\ i < nextId'
         /\ Enabled(i)' => ToggleRule(i)
<1>1. nextId \in Nat /\ i \in Nat /\ i < nextId
  BY BoundsAssumption DEF TypeOK, RuleIds
<1>2. loaded'[i] = Nil
  <2>1. ASSUME NEW j \in RuleIds, CheckRule(j) PROVE loaded'[i] = Nil
    BY <2>1 DEF CheckRule, TypeOK
  <2>2. LoadConfigs => loaded'[i] = Nil
    BY DEF LoadConfigs, EnabledRules
  <2> QED
    BY <2>1, <2>2, LoadedChange DEF NoRules
<1>3. ASSUME NEW f, InsertRule(f) PROVE i < nextId' /\ ~Enabled(i)'
  <2>1. nextId' = nextId + 1 /\ rules'[i] = rules[i]
    BY <1>1, <1>3 DEF InsertRule, NewRuleId, TypeOK
  <2> QED
    BY <1>1, <2>1 DEF Enabled
<1>4. ASSUME NEW j \in RuleIds, ToggleRule(j), j # i PROVE nextId' = nextId /\ ~Enabled(i)'
  BY <1>4 DEF ToggleRule, TypeOK, Enabled
<1>5. ASSUME NEW j \in RuleIds, DeleteRule(j) PROVE nextId' = nextId /\ ~Enabled(i)'
  BY <1>5 DEF DeleteRule, TypeOK, Enabled
<1>6. ToggleRule(i) => nextId' = nextId
  BY DEF ToggleRule
<1>7. CASE UNCHANGED <<rules, nextId>>
  BY <1>2, <1>7 DEF Enabled
<1> QED
  BY <1>1, <1>2, <1>3, <1>4, <1>5, <1>6, <1>7, RulesChange

LEMMA LateStep ==
  ASSUME TypeOK, TypeOK', RuleInv, LateInv, [Next]_vars
  PROVE  LateInv'
<1> SUFFICES ASSUME NEW i \in RuleIds, late'[i] # 0
             PROVE  late'[i] = 1 /\ ~Enabled(i)' /\ loaded'[i] = Nil /\ i < nextId'
  BY DEF LateInv
<1>1. CASE late'[i] = late[i]
  <2>1. late[i] = 1 /\ ~Enabled(i) /\ loaded[i] = Nil /\ i < nextId
    BY <1>1 DEF LateInv
  <2>2. ~ToggleRule(i)
    BY DEF ToggleRule, TypeOK
  <2> QED
    BY <1>1, <2>1, <2>2, StaysDisabled
<1>2. ASSUME CheckRule(i), Triggers(i), ~Enabled(i)
      PROVE  late'[i] = 1 /\ ~Enabled(i)' /\ loaded'[i] = Nil /\ i < nextId'
  <2>1. loaded[i] # Nil /\ loaded'[i] = Nil /\ late'[i] = late[i] + 1
    BY <1>2 DEF CheckRule, TypeOK
  <2>2. late[i] = 0 /\ i < nextId
    BY <2>1 DEF LateInv, RuleInv, Names
  <2>3. UNCHANGED <<rules, nextId>>
    BY <1>2 DEF CheckRule, dbVars
  <2> QED
    BY <1>2, <2>1, <2>2, <2>3 DEF Enabled
<1>3. ASSUME NEW j \in RuleIds, CheckRule(j), Triggers(j), ~Enabled(j), j # i
      PROVE  late'[i] = late[i]
  BY <1>3 DEF CheckRule, TypeOK
<1>4. ASSUME NEW j \in RuleIds, ToggleRule(j) PROVE late'[i] = late[i]
  BY <1>4 DEF ToggleRule, TypeOK
<1> QED
  BY <1>1, <1>2, <1>3, <1>4, LateChange

\* engine.go:104, 113-115 against the handlers: a rule that was disabled or deleted
\* fires at most once more, however its evaluation and the requests are interleaved.
THEOREM LateFiring == Spec => []LateFiringBounded
<1>1. Init => LateInv
  BY DEF Init, LateInv
<1>2. TypeOK /\ TypeOK' /\ RuleInv /\ LateInv /\ [Next]_vars => LateInv'
  BY LateStep
<1>3. LateInv => LateFiringBounded
  <2>1. LateInv => \A i \in RuleIds : late[i] = 0 \/ late[i] = 1
    BY DEF LateInv
  <2> QED
    BY <2>1 DEF LateFiringBounded
<1> QED
  BY <1>1, <1>2, <1>3, TypeCorrect, RuleInvariant, PTL DEF Spec

-----------------------------------------------------------------------------
(* Alerts behind the cooldowns                                             *)

LEMMA CooldownsChange ==
  [Next]_vars => \/ \E i \in RuleIds : CheckRule(i) /\ Triggers(i)
                 \/ \E u \in Units : CheckUnit(u) /\ Raises(u)
                 \/ Crash
                 \/ UNCHANGED cooldowns
BY DEF Next, Environment, Handlers, Boot, Evaluate, Tick, Collect, RefreshOk, RefreshFails,
   Reconnect, CreateRule, ToggleRule, DeleteRule, SeedCheck, SeedInsert, SeedDone,
   LoadConfigs, LoadConfigsFails, ReadSnapshot, CheckRule, RulesDone, InsertAlert,
   InsertAlertFails, CheckAvailable, TakeListing, CheckUnit, Raises, EndPass, Refresh,
   RefreshCacheFails, Restart, vars, memVars

\* An alert being written is written, refused or lost in a crash.
LEMMA PendGone ==
  [Next]_vars /\ pend # Nil => InsertAlert \/ InsertAlertFails \/ Crash \/ UNCHANGED pend
BY DEF Next, Environment, Handlers, Boot, Evaluate, Tick, Collect, RefreshOk, RefreshFails,
   Reconnect, CreateRule, ToggleRule, DeleteRule, SeedCheck, SeedInsert, SeedDone,
   LoadConfigs, LoadConfigsFails, ReadSnapshot, CheckRule, RulesDone,
   CheckAvailable, TakeListing, CheckUnit, EndPass, Refresh,
   RefreshCacheFails, Restart, vars, localVars

\* A failing call is counted, for good.
LEMMA FaultsChange == [Next]_vars => Fault \/ UNCHANGED faults
BY DEF Next, Environment, Handlers, Boot, Evaluate, Tick, Collect, RefreshOk, RefreshFails,
   Reconnect, CreateRule, ToggleRule, DeleteRule, SeedCheck, SeedInsert, SeedDone,
   LoadConfigs, LoadConfigsFails, ReadSnapshot, CheckRule, RulesDone, InsertAlert,
   InsertAlertFails, CheckAvailable, TakeListing, CheckUnit, EndPass, Refresh,
   RefreshCacheFails, Crash, Restart, vars

LEMMA LifeChange == [Next]_vars => Restart \/ UNCHANGED life
BY DEF Next, Environment, Handlers, Boot, Evaluate, Tick, Collect, RefreshOk, RefreshFails,
   Reconnect, CreateRule, ToggleRule, DeleteRule, SeedCheck, SeedInsert, SeedDone,
   LoadConfigs, LoadConfigsFails, ReadSnapshot, CheckRule, RulesDone, InsertAlert,
   InsertAlertFails, CheckAvailable, TakeListing, CheckUnit, EndPass, Refresh,
   RefreshCacheFails, Crash, vars

\* A turn of either loop that decides records the decision, and nothing was being
\* written before it.
LEMMA Decided ==
  ASSUME TypeOK, NEW k \in Keys,
         \/ k \in RuleIds /\ CheckRule(k) /\ Triggers(k)
         \/ k \in Units /\ CheckUnit(k) /\ Raises(k)
  PROVE  /\ pend = Nil /\ pend'.key = k /\ pend'.at = now
         /\ cooldowns' = [cooldowns EXCEPT ![k] = now]
         /\ UNCHANGED <<alerts, life, faults, now>>
         /\ pend' # Nil
<1>1. CASE k \in RuleIds /\ CheckRule(k) /\ Triggers(k)
  <2>1. Decide(k, loaded[k].cond, loaded[k].cooldown)
    BY <1>1 DEF CheckRule
  <2>2. loaded[k] \in Rule
    BY <1>1 DEF TypeOK, CheckRule
  <2>3. pend' # Nil
    BY <2>1, <2>2, NilAssumption DEF TypeOK, Rule, Decide
  <2> QED
    BY <1>1, <2>1, <2>3 DEF CheckRule, Decide, dbVars
<1>2. CASE k \in Units /\ CheckUnit(k) /\ Raises(k)
  <2>1. Decide(k, current[k].state, StateCooldown)
    BY <1>2 DEF CheckUnit, Raises
  <2>2. current[k].state \in States /\ StateCooldown \in Gaps
    BY <1>2 DEF TypeOK, States, Gaps
  <2>3. pend' # Nil
    BY <2>1, <2>2, NilAssumption DEF TypeOK, Decide
  <2> QED
    BY <1>2, <2>1, <2>3 DEF CheckUnit, Decide, dbVars
<1> QED
  BY <1>1, <1>2

LEMMA RowsKept ==
  ASSUME TypeOK, [Next]_vars, NEW n \in DOMAIN alerts
  PROVE  n \in DOMAIN alerts' /\ alerts'[n] = alerts[n]
BY Inserted, AlertsChange

\* The decision behind a key's cooldown is in the table or on its way there.
Pends(k) == pend # Nil /\ pend.key = k /\ pend.at = cooldowns[k]
IsWritten(k) ==
  \E n \in DOMAIN alerts :
    alerts[n].key = k /\ alerts[n].life = life /\ alerts[n].at = cooldowns[k]

LEMMA WrittenStays ==
  ASSUME TypeOK, [Next]_vars, NEW k \in Keys, IsWritten(k), cooldowns'[k] = cooldowns[k],
         life' = life
  PROVE  IsWritten(k)'
BY RowsKept DEF IsWritten

LEMMA NoSilenceStep ==
  ASSUME TypeOK, TypeOK', PastInv, NoSilenceWithoutAlert, [Next]_vars
  PROVE  NoSilenceWithoutAlert'
<1> SUFFICES ASSUME NEW k \in Keys, cooldowns'[k] # Never, faults' = 0
             PROVE  Pends(k)' \/ IsWritten(k)'
  BY DEF NoSilenceWithoutAlert, Pends, IsWritten
<1>1. ~Fault /\ faults = 0
  BY FaultsChange DEF Fault, TypeOK
<1>2. ASSUME cooldowns[k] # Never PROVE Pends(k) \/ IsWritten(k)
  BY <1>1, <1>2 DEF NoSilenceWithoutAlert, Pends, IsWritten
<1>3. ASSUME NEW j \in Keys,
             \/ j \in RuleIds /\ CheckRule(j) /\ Triggers(j)
             \/ j \in Units /\ CheckUnit(j) /\ Raises(j)
      PROVE  Pends(k)' \/ IsWritten(k)'
  <2>1. /\ pend = Nil /\ pend'.key = j /\ pend'.at = now /\ pend' # Nil
        /\ cooldowns' = [cooldowns EXCEPT ![j] = now] /\ life' = life
    BY <1>3, Decided
  <2>2. CASE j = k
    BY <2>1, <2>2 DEF TypeOK, Pends
  <2>3. CASE j # k
    <3>1. cooldowns'[k] = cooldowns[k]
      BY <2>1, <2>3
    <3>2. IsWritten(k)
      BY <1>2, <2>1, <3>1 DEF Pends
    <3> QED
      BY <2>1, <3>1, <3>2, WrittenStays
  <2> QED
    BY <2>2, <2>3
<1>4. ~Crash
  BY DEF Crash
<1>5. CASE UNCHANGED cooldowns
  <2>1. cooldowns[k] # Never /\ life' = life
    BY <1>5, LifeChange DEF Restart, PastInv
  <2>2. CASE IsWritten(k)
    BY <1>5, <2>1, <2>2, WrittenStays
  <2>3. CASE Pends(k) /\ UNCHANGED pend
    BY <1>5, <2>3 DEF Pends
  <2>4. CASE Pends(k) /\ InsertAlert
    <3> DEFINE last == Len(alerts) + 1
    <3>1. /\ last \in DOMAIN alerts' /\ alerts'[last].key = pend.key
          /\ alerts'[last].at = pend.at /\ alerts'[last].life = life
      BY <2>4, Inserted
    <3> QED
      BY <1>5, <2>1, <2>4, <3>1 DEF Pends, IsWritten
  <2>5. ~InsertAlertFails
    BY <1>1 DEF InsertAlertFails
  <2> QED
    BY <1>2, <1>4, <2>1, <2>2, <2>3, <2>4, <2>5, PendGone DEF Pends
<1> QED
  BY <1>3, <1>4, <1>5, CooldownsChange DEF Keys

\* engine.go:154, 168: nothing silences a key but an alert that was decided and is in
\* the table, is being written, or was refused by the database.
THEOREM SilenceHasAnAlert == Spec => []NoSilenceWithoutAlert
<1>1. Init => NoSilenceWithoutAlert
  BY DEF Init, NoSilenceWithoutAlert
<1>2. TypeOK /\ TypeOK' /\ CooldownInv /\ NoSilenceWithoutAlert /\ [Next]_vars
        => NoSilenceWithoutAlert'
  BY NoSilenceStep DEF CooldownInv
<1> QED
  BY <1>1, <1>2, TypeCorrect, CooldownInvariant, PTL DEF Spec

-----------------------------------------------------------------------------
(* The walk over a listing                                                 *)

\* What a source can say of a unit, and the pass it is said in.
KindInv ==
  \A u \in Units : /\ listed[u] \in {Absent} \cup InfosOf(u)
                   /\ current[u] \in {Absent} \cup InfosOf(u)
                   /\ prev[u] \in {"absent"} \cup {i.state : i \in InfosOf(u)}

PlaceInv ==
  /\ pc \in {"avail", "list", "units"} => src \in Sources
  /\ todo # {} => pc = "units" /\ todo \subseteq UnitsOf(src)
  /\ pend # Nil => pc \in {"rules", "units"}
  /\ pc \in {"down", "boot", "seed"} => stale

WalkInv == KindInv /\ PlaceInv

LEMMA ListedChange ==
  [Next]_vars => (\E s \in Watched : RefreshOk(s)) \/ listed' = NoListing \/ UNCHANGED listed
BY DEF Next, Environment, Handlers, Boot, Evaluate, Tick, Collect, RefreshFails,
   Reconnect, CreateRule, ToggleRule, DeleteRule, SeedCheck, SeedInsert, SeedDone,
   LoadConfigs, LoadConfigsFails, ReadSnapshot, CheckRule, RulesDone, InsertAlert,
   InsertAlertFails, CheckAvailable, TakeListing, CheckUnit, EndPass, Refresh,
   RefreshCacheFails, Crash, Restart, vars, cacheVars

LEMMA CurrentChange ==
  [Next]_vars => TakeListing \/ current' = NoListing \/ UNCHANGED current
BY DEF Next, Environment, Handlers, Boot, Evaluate, Tick, Collect, RefreshOk, RefreshFails,
   Reconnect, CreateRule, ToggleRule, DeleteRule, SeedCheck, SeedInsert, SeedDone,
   LoadConfigs, LoadConfigsFails, ReadSnapshot, CheckRule, RulesDone, InsertAlert,
   InsertAlertFails, CheckAvailable, CheckUnit, EndPass, Refresh, RefreshCacheFails, Crash,
   Restart, vars, localVars

LEMMA PrevChange == [Next]_vars => EndPass \/ Crash \/ UNCHANGED prev
BY DEF Next, Environment, Handlers, Boot, Evaluate, Tick, Collect, RefreshOk, RefreshFails,
   Reconnect, CreateRule, ToggleRule, DeleteRule, SeedCheck, SeedInsert, SeedDone,
   LoadConfigs, LoadConfigsFails, ReadSnapshot, CheckRule, RulesDone, InsertAlert,
   InsertAlertFails, CheckAvailable, TakeListing, CheckUnit, Refresh, RefreshCacheFails,
   Restart, vars, memVars

LEMMA KindStep ==
  ASSUME TypeOK, TypeOK', KindInv, [Next]_vars
  PROVE  KindInv'
<1> SUFFICES ASSUME NEW u \in Units
             PROVE  /\ listed'[u] \in {Absent} \cup InfosOf(u)
                    /\ current'[u] \in {Absent} \cup InfosOf(u)
                    /\ prev'[u] \in {"absent"} \cup {i.state : i \in InfosOf(u)}
  BY DEF KindInv
<1>1. NoListing[u] = Absent /\ Absent.state = "absent"
  BY DEF NoListing, Absent
<1>2. listed'[u] \in {Absent} \cup InfosOf(u)
  <2>1. ASSUME NEW s \in Watched, RefreshOk(s) PROVE listed'[u] \in {Absent} \cup InfosOf(u)
    BY <2>1 DEF RefreshOk, Listings, KindInv
  <2> QED
    BY <1>1, <2>1, ListedChange DEF KindInv
<1>3. current'[u] \in {Absent} \cup InfosOf(u)
  <2>1. TakeListing => current'[u] \in {listed[u], Absent}
    BY DEF TakeListing
  <2> QED
    BY <1>1, <2>1, CurrentChange DEF KindInv
<1>4. prev'[u] \in {"absent"} \cup {i.state : i \in InfosOf(u)}
  <2>1. CASE EndPass
    <3>1. prev'[u] \in {current[u].state, prev[u]}
      BY <2>1 DEF EndPass, Remembered
    <3>2. current[u] \in {Absent} \cup InfosOf(u)
      BY DEF KindInv
    <3> QED
      BY <1>1, <3>1, <3>2 DEF KindInv
  <2>2. CASE Crash
    BY <2>2 DEF Crash
  <2> QED
    BY <2>1, <2>2, PrevChange DEF KindInv
<1> QED
  BY <1>2, <1>3, <1>4

LEMMA PlaceStep ==
  ASSUME TypeOK, PlaceInv, [Next]_vars
  PROVE  PlaceInv'
<1>1. CASE Environment \/ Handlers \/ UNCHANGED vars
  BY <1>1 DEF Environment, Handlers, Tick, Collect, RefreshOk, RefreshFails, Reconnect,
     CreateRule, ToggleRule, DeleteRule, vars, ghostVars, localVars, PlaceInv
<1>2. CASE Boot \/ Crash \/ Restart
  BY <1>2 DEF Boot, SeedCheck, SeedInsert, SeedDone, Crash, Restart, ghostVars, localVars,
     PlaceInv
<1>3. CASE LoadConfigs \/ LoadConfigsFails \/ ReadSnapshot \/ RulesDone
  BY <1>3 DEF LoadConfigs, LoadConfigsFails, ReadSnapshot, RulesDone, ghostVars, localVars,
     PlaceInv, Sources
<1>4. ASSUME NEW i \in RuleIds, CheckRule(i) PROVE PlaceInv'
  BY <1>4 DEF CheckRule, PlaceInv
<1>5. CASE InsertAlert \/ InsertAlertFails
  BY <1>5 DEF InsertAlert, InsertAlertFails, ghostVars, PlaceInv
<1>6. CASE CheckAvailable \/ TakeListing
  BY <1>6 DEF CheckAvailable, TakeListing, AfterPass, Sources, ghostVars, localVars, PlaceInv
<1>7. ASSUME NEW u \in Units, CheckUnit(u) PROVE PlaceInv'
  BY <1>7 DEF CheckUnit, PlaceInv
<1>8. CASE EndPass
  BY <1>8 DEF EndPass, AfterPass, Sources, PlaceInv
<1>9. CASE Refresh \/ RefreshCacheFails
  BY <1>9 DEF Refresh, RefreshCacheFails, localVars, PlaceInv
<1> QED
  BY <1>1, <1>2, <1>3, <1>4, <1>5, <1>6, <1>7, <1>8, <1>9 DEF Next, Evaluate

LEMMA WalkInvariant == Spec => []WalkInv
<1>1. Init => WalkInv
  BY DEF Init, WalkInv, KindInv, PlaceInv, NoListing
<1>2. TypeOK /\ TypeOK' /\ WalkInv /\ [Next]_vars => WalkInv'
  BY KindStep, PlaceStep DEF WalkInv
<1> QED
  BY <1>1, <1>2, TypeCorrect, PTL DEF Spec

-----------------------------------------------------------------------------
(* Outages                                                                 *)

\* The last pass saw the unit, and saw it up.
Healthy(u) == prev[u] \notin DownStates \cup {"absent"}

\* The two comparisons of the code, on what Docker and systemd can say: a unit is
\* alarming when it was up and is down.
LEMMA AlarmIsAFall ==
  ASSUME TypeOK, WalkInv, NEW u \in todo
  PROVE  prev[u] # "absent" /\ Alarm(prev[u], current[u])
           <=> Healthy(u) /\ current[u].state \in DownStates
<1>1. u \in Units /\ src \in Sources /\ u \in UnitsOf(src)
  BY DEF TypeOK, WalkInv, PlaceInv
<1>2. /\ current[u] \in {Absent} \cup InfosOf(u)
      /\ prev[u] \in {"absent"} \cup {i.state : i \in InfosOf(u)}
  BY <1>1 DEF WalkInv, KindInv
<1>3. CASE u \in Containers
  <2>1. src = "docker" /\ InfosOf(u) = ContainerInfos
    BY <1>1, <1>3, UnitsAssumption DEF UnitsOf, Sources, InfosOf
  <2>2. prev[u] # "failed" /\ current[u].state # "failed"
    BY <1>2, <2>1, InfosAssumption DEF Absent
  <2>3. current[u].health = "error" => current[u].state = "exited"
    BY <1>2, <2>1, InfosAssumption DEF Absent
  <2> QED
    BY <2>1, <2>2, <2>3 DEF Alarm, DockerAlarm, Healthy, DownStates
<1>4. CASE u \notin Containers
  <2>1. src = "systemd" /\ InfosOf(u) = ServiceInfos
    BY <1>1, <1>4 DEF UnitsOf, Sources, InfosOf
  <2>2. prev[u] # "exited" /\ current[u].state # "exited"
    BY <1>2, <2>1, InfosAssumption DEF Absent
  <2> QED
    BY <2>1, <2>2 DEF Alarm, SystemdAlarm, Healthy, DownStates
<1> QED
  BY <1>3, <1>4

\* A unit the last pass saw up has been up since its last alert, or that pass is the
\* one being walked and the unit's turn is over.
WellInv ==
  \A u \in Units :
    Healthy(u) => well[u] \/ (pc = "units" /\ u \in UnitsOf(src) \ todo)

LEMMA WellChange ==
  [Next]_vars => \/ \E u \in Units : CheckUnit(u)
                 \/ TakeListing
                 \/ EndPass
                 \/ Crash
                 \/ UNCHANGED <<prev, well>> /\ (pc = "units" => UNCHANGED <<pc, src, todo>>)
BY DEF Next, Environment, Handlers, Boot, Evaluate, Tick, Collect, RefreshOk, RefreshFails,
   Reconnect, CreateRule, ToggleRule, DeleteRule, SeedCheck, SeedInsert, SeedDone,
   LoadConfigs, LoadConfigsFails, ReadSnapshot, CheckRule, RulesDone, InsertAlert,
   InsertAlertFails, CheckAvailable, Refresh, RefreshCacheFails, Restart, vars, memVars,
   localVars, ghostVars

LEMMA WellStep ==
  ASSUME TypeOK, TypeOK', WalkInv, WellInv, [Next]_vars
  PROVE  WellInv'
<1> SUFFICES ASSUME NEW u \in Units, Healthy(u)'
             PROVE  well'[u] \/ (pc' = "units" /\ u \in UnitsOf(src)' \ todo')
  BY DEF WellInv
<1>1. ASSUME NEW v \in Units, CheckUnit(v)
      PROVE  well'[u] \/ (pc' = "units" /\ u \in UnitsOf(src)' \ todo')
  <2>1. /\ pc = "units" /\ v \in todo /\ v \in UnitsOf(src)
        /\ UNCHANGED <<pc, src, prev>> /\ todo' = todo \ {v}
        /\ well' = [well EXCEPT ![v] = @ /\ pend' = Nil]
    BY <1>1 DEF CheckUnit, WalkInv, PlaceInv
  <2>2. well[u] \/ u \in UnitsOf(src) \ todo
    BY <2>1 DEF WellInv, Healthy
  <2>3. u # v => well'[u] = well[u]
    BY <2>1 DEF TypeOK
  <2> QED
    BY <2>1, <2>2, <2>3 DEF UnitsOf
<1>2. CASE TakeListing
  BY <1>2 DEF TakeListing, WellInv, Healthy, memVars, ghostVars
<1>3. CASE EndPass
  <2>1. /\ pc = "units" /\ todo = {}
        /\ prev'[u] = IF u \in UnitsOf(src) THEN current[u].state ELSE prev[u]
        /\ well'[u] = (well[u] \/ current[u].state \notin DownStates \cup {"absent"})
    BY <1>3 DEF EndPass, Remembered
  <2>2. CASE u \in UnitsOf(src)
    BY <2>1, <2>2 DEF Healthy
  <2>3. CASE u \notin UnitsOf(src)
    BY <2>1, <2>3 DEF Healthy, WellInv
  <2> QED
    BY <2>2, <2>3
<1>4. ~Crash
  BY DEF Crash, Healthy
<1>5. CASE UNCHANGED <<prev, well>> /\ (pc = "units" => UNCHANGED <<pc, src, todo>>)
  BY <1>5 DEF WellInv, Healthy, UnitsOf
<1> QED
  BY <1>1, <1>2, <1>3, <1>4, <1>5, WellChange

LEMMA AlertNeedsHealth ==
  ASSUME TypeOK, WalkInv, WellInv, [Next]_vars, NEW u \in Units,
         pend' # pend, pend' # Nil, pend'.key = u
  PROVE  well[u]
<1>1. ASSUME NEW i \in RuleIds, CheckRule(i), Triggers(i) PROVE FALSE
  <2>1. pend'.key = i /\ i \in Int
    BY <1>1 DEF CheckRule, Decide, RuleIds
  <2> QED
    BY <2>1, UnitsAssumption
<1>2. ASSUME NEW v \in Units, CheckUnit(v), Raises(v) PROVE well[u]
  <2>1. v = u /\ u \in todo
    BY <1>2 DEF CheckUnit, Raises, Decide
  <2>2. Healthy(u)
    BY <1>2, <2>1, AlarmIsAFall DEF Raises
  <2> QED
    BY <2>1, <2>2 DEF WellInv
<1> QED
  BY <1>1, <1>2, PendChange

\* engine.go:181-186, 221-226: an alert about a unit needs a pass of this life, since
\* the unit's last alert, that saw the unit up.
THEOREM OneAlertForAnOutage == Spec => OneAlertPerOutage
<1>1. Init => WellInv
  BY DEF Init, WellInv, Healthy
<1>2. TypeOK /\ TypeOK' /\ WalkInv /\ WellInv /\ [Next]_vars => WellInv'
  BY WellStep
<1>3. TypeOK /\ WalkInv /\ WellInv /\ [Next]_vars
        => [\A u \in Units : pend' # pend /\ pend' # Nil /\ pend'.key = u => well[u]]_vars
  BY AlertNeedsHealth
<1> QED
  BY <1>1, <1>2, <1>3, TypeCorrect, WalkInvariant, PTL DEF Spec, OneAlertPerOutage

LEMMA FellChange ==
  [Next]_vars => (\E u \in Units : CheckUnit(u)) \/ Crash \/ UNCHANGED fell
BY DEF Next, Environment, Handlers, Boot, Evaluate, Tick, Collect, RefreshOk, RefreshFails,
   Reconnect, CreateRule, ToggleRule, DeleteRule, SeedCheck, SeedInsert, SeedDone,
   LoadConfigs, LoadConfigsFails, ReadSnapshot, CheckRule, RulesDone, InsertAlert,
   InsertAlertFails, CheckAvailable, TakeListing, EndPass, Refresh, RefreshCacheFails,
   Restart, vars, ghostVars

\* The turn of a unit.
LEMMA CoveredByTurn ==
  ASSUME TypeOK, PastInv, WalkInv, OutageCovered, NEW u \in Units, CheckUnit(u),
         fell'[u] # Never
  PROVE  /\ cooldowns'[u] # Never /\ cooldowns'[u] <= fell'[u]
         /\ fell'[u] < cooldowns'[u] + StateCooldown
<1>1. /\ u \in todo /\ u \in Keys
      /\ fell'[u] = IF Healthy(u) /\ current[u].state \in DownStates THEN now ELSE fell[u]
  BY DEF CheckUnit, Healthy, TypeOK, Keys
<1>2. Raises(u) => cooldowns'[u] = now
  BY <1>1 DEF CheckUnit, Raises, Decide, TypeOK
<1>3. ~Raises(u) => cooldowns' = cooldowns
  BY DEF CheckUnit, Raises
<1>4. /\ cooldowns[u] \in Int /\ now \in Int /\ now # Never /\ cooldowns[u] <= now
      /\ StateCooldown \in Nat \ {0}
  BY <1>1, TimeIsNat, BoundsAssumption DEF TypeOK, PastInv
<1>5. CASE Healthy(u) /\ current[u].state \in DownStates
  <2>1. Raises(u) \/ Cooling(u, StateCooldown)
    BY <1>1, <1>5, AlarmIsAFall DEF Raises
  <2>2. CASE Raises(u)
    BY <1>1, <1>2, <1>4, <1>5, <2>2
  <2>3. CASE ~Raises(u)
    BY <1>1, <1>3, <1>4, <1>5, <2>1, <2>3 DEF Cooling
  <2> QED
    BY <2>2, <2>3
<1>6. CASE ~(Healthy(u) /\ current[u].state \in DownStates)
  <2>1. ~Raises(u)
    BY <1>1, <1>6, AlarmIsAFall DEF Raises
  <2> QED
    BY <1>1, <1>3, <1>6, <2>1 DEF OutageCovered
<1> QED
  BY <1>5, <1>6

LEMMA CoveredStep ==
  ASSUME TypeOK, TypeOK', PastInv, WalkInv, OutageCovered, [Next]_vars
  PROVE  OutageCovered'
<1> SUFFICES ASSUME NEW u \in Units, fell'[u] # Never
             PROVE  /\ cooldowns'[u] # Never /\ cooldowns'[u] <= fell'[u]
                    /\ fell'[u] < cooldowns'[u] + StateCooldown
  BY DEF OutageCovered
<1>1. u \in Keys /\ u \notin RuleIds
  BY UnitsAssumption DEF Keys, RuleIds
<1>2. CASE UNCHANGED fell /\ cooldowns'[u] = cooldowns[u]
  BY <1>2 DEF OutageCovered
<1>3. ~Crash
  BY DEF Crash
<1>4. ASSUME NEW v \in Units, CheckUnit(v), v # u
      PROVE  fell'[u] = fell[u] /\ cooldowns'[u] = cooldowns[u]
  <2>1. fell'[u] = fell[u]
    BY <1>4 DEF CheckUnit, TypeOK
  <2>2. cooldowns'[u] = cooldowns[u]
    BY <1>1, <1>4 DEF CheckUnit, Decide, TypeOK
  <2> QED
    BY <2>1, <2>2
<1>5. ASSUME NEW i \in RuleIds, CheckRule(i)
      PROVE  UNCHANGED fell /\ cooldowns'[u] = cooldowns[u]
  <2>1. i # u
    BY <1>1
  <2> QED
    BY <1>1, <1>5, <2>1 DEF CheckRule, Decide, TypeOK
<1>6. CASE \E v \in Units : CheckUnit(v)
  <2>1. CASE CheckUnit(u)
    BY <2>1, CoveredByTurn
  <2>2. CASE ~CheckUnit(u)
    BY <1>4, <1>6, <2>2 DEF OutageCovered
  <2> QED
    BY <2>1, <2>2
<1>7. CASE ~\E v \in Units : CheckUnit(v)
  <2>1. UNCHANGED fell
    BY <1>3, <1>7, FellChange
  <2> QED
    BY <1>2, <1>3, <1>5, <1>7, <2>1, CooldownsChange
<1> QED
  BY <1>6, <1>7

\* engine.go:186-195, 226-235: every fall of a unit the engine sees has its alert, then
\* or less than the cooldown before.
THEOREM OutagesCovered == Spec => []OutageCovered
<1>1. Init => OutageCovered
  BY DEF Init, OutageCovered
<1>2. TypeOK /\ TypeOK' /\ CooldownInv /\ WalkInv /\ OutageCovered /\ [Next]_vars
        => OutageCovered'
  BY CoveredStep DEF CooldownInv
<1> QED
  BY <1>1, <1>2, TypeCorrect, CooldownInvariant, WalkInvariant, PTL DEF Spec

-----------------------------------------------------------------------------
(* The cache of recent alerts                                              *)

\* What the query returns leaves a row out only for as many others as were asked for,
\* none of them older: a result shorter than that holds every row, being as long as
\* the table and without repetitions.
LEMMA MostRecentComplete ==
  ASSUME TypeOK, NEW r \in MostRecent(RecentLimit), NEW n \in DOMAIN alerts
  PROVE  \/ \E a \in DOMAIN r : r[a] = n
         \/ /\ Len(r) = RecentLimit
            /\ \A a \in DOMAIN r : alerts[r[a]].created >= alerts[n].created
<1> DEFINE k == IF Len(alerts) < RecentLimit THEN Len(alerts) ELSE RecentLimit
<1>1. /\ k \in Nat /\ Len(alerts) \in Nat /\ DOMAIN alerts = 1..Len(alerts)
      /\ k = Len(alerts) \/ k = RecentLimit
  BY BoundsAssumption, LenProperties DEF TypeOK
<1>2. /\ r \in [1..k -> DOMAIN alerts]
      /\ \A a, b \in 1..k : a < b => r[a] # r[b]
      /\ \A a \in 1..k : (\A b \in 1..k : r[b] # n)
                            => alerts[r[a]].created >= alerts[n].created
  BY DEF MostRecent
<1> HIDE DEF k
<1>3. DOMAIN r = 1..k /\ Len(r) = k
  BY <1>1, <1>2
<1>4. CASE k = RecentLimit
  BY <1>2, <1>3, <1>4
<1>5. CASE k = Len(alerts)
  <2>1. r \in [1..k -> 1..k]
    BY <1>1, <1>2, <1>5
  <2>2. ASSUME NEW a \in 1..k, NEW b \in 1..k, r[a] = r[b] PROVE a = b
    <3>1. ~(a < b) /\ ~(b < a)
      BY <1>2, <2>2
    <3> QED
      BY <3>1
  <2>3. r \in Injection(1..k, 1..k)
    BY <2>1, <2>2 DEF Injection, IsInjective
  <2>4. IsFiniteSet(1..k)
    <3>1. k \in Nat
      BY <1>1
    <3>2. k \in Int
      BY <3>1
    <3> QED
      BY <3>2, FS_Interval
  <2>5. r \in Surjection(1..k, 1..k)
    BY <2>3, <2>4, FS_Injection
  <2> QED
    BY <1>1, <1>3, <1>5, <2>5 DEF Surjection
<1> QED
  BY <1>1, <1>4, <1>5

LEMMA RecentsChange ==
  [Next]_vars => \/ Refresh
                 \/ RefreshCacheFails
                 \/ Boot
                 \/ Crash
                 \/ UNCHANGED <<recents, stale>> /\ (UNCHANGED pc \/ pc' # "idle")
<1>1. Environment \/ Handlers \/ UNCHANGED vars => UNCHANGED <<recents, stale, pc>>
  <2>1. Environment => UNCHANGED <<recents, stale, pc>>
    BY DEF Environment, Tick, Collect, RefreshOk, RefreshFails, Reconnect, memVars, ghostVars
  <2>2. CreateRule \/ (\E i \in RuleIds : DeleteRule(i)) => UNCHANGED <<recents, stale, pc>>
    BY DEF CreateRule, DeleteRule, memVars, ghostVars
  <2>3. ASSUME NEW i \in RuleIds, ToggleRule(i) PROVE UNCHANGED <<recents, stale, pc>>
    BY <2>3 DEF ToggleRule, memVars
  <2>4. UNCHANGED vars => UNCHANGED <<recents, stale, pc>>
    BY DEF vars, memVars, ghostVars
  <2> QED
    BY <2>1, <2>2, <2>3, <2>4 DEF Handlers
<1>2. CheckAvailable \/ TakeListing \/ EndPass
        => UNCHANGED <<recents, stale>> /\ (UNCHANGED pc \/ pc' # "idle")
  BY DEF CheckAvailable, TakeListing, EndPass, AfterPass, memVars, ghostVars
<1>3. LoadConfigs \/ LoadConfigsFails \/ ReadSnapshot \/ RulesDone \/ InsertAlert
        \/ InsertAlertFails => UNCHANGED <<recents, stale>> /\ (UNCHANGED pc \/ pc' # "idle")
  BY DEF LoadConfigs, LoadConfigsFails, ReadSnapshot, RulesDone, InsertAlert,
     InsertAlertFails, memVars, ghostVars
<1>4. (\E i \in RuleIds : CheckRule(i)) \/ (\E u \in Units : CheckUnit(u))
        => UNCHANGED <<recents, stale>> /\ UNCHANGED pc
  BY DEF CheckRule, CheckUnit
<1>5. Restart => UNCHANGED <<recents, stale>> /\ pc' # "idle"
  BY DEF Restart, memVars, ghostVars
<1> QED
  BY <1>1, <1>2, <1>3, <1>4, <1>5 DEF Next, Evaluate

LEMMA RecentsStep ==
  ASSUME TypeOK, PlaceInv, RecentsComplete, [Next]_vars
  PROVE  RecentsComplete'
<1> SUFFICES ASSUME pc' = "idle", ~stale', NEW n \in DOMAIN alerts'
             PROVE  \/ \E a \in DOMAIN recents' : recents'[a] = n
                    \/ /\ Len(recents') = RecentLimit
                       /\ \A a \in DOMAIN recents' :
                            alerts'[recents'[a]].created >= alerts'[n].created
  BY DEF RecentsComplete
<1>1. CASE Refresh
  <2>1. recents' \in MostRecent(RecentLimit) /\ alerts' = alerts
    BY <1>1 DEF Refresh, dbVars
  <2> QED
    BY <2>1, MostRecentComplete
<1>2. ~Crash /\ ~RefreshCacheFails
  BY DEF Crash, RefreshCacheFails
<1>3. ~Boot
  BY DEF Boot, SeedCheck, SeedInsert, SeedDone, PlaceInv, ghostVars
<1>4. CASE UNCHANGED <<recents, stale>> /\ UNCHANGED pc
  <2>1. pc = "idle" /\ ~stale /\ pend = Nil
    BY <1>4 DEF PlaceInv
  <2>2. alerts' = alerts
    BY <2>1, AlertsChange DEF InsertAlert
  <2> QED
    BY <1>4, <2>1, <2>2 DEF RecentsComplete
<1> QED
  BY <1>1, <1>2, <1>3, <1>4, RecentsChange

\* engine.go:128-136: between evaluations, unless the last refresh failed, the cache
\* misses an alert only for RecentLimit others that are not older.
THEOREM RecentsAreComplete == Spec => []RecentsComplete
<1>1. Init => RecentsComplete
  BY DEF Init, RecentsComplete
<1>2. TypeOK /\ WalkInv /\ RecentsComplete /\ [Next]_vars => RecentsComplete'
  BY RecentsStep DEF WalkInv
<1> QED
  BY <1>1, <1>2, TypeCorrect, WalkInvariant, PTL DEF Spec

-----------------------------------------------------------------------------
(* The table is the log AlertLog promises                                  *)

LEMMA LogInitial == Init => Log!LogInit
<1> SUFFICES ASSUME Init PROVE Log!LogInit
  OBVIOUS
<1>1. DOMAIN alerts = {}
  BY DEF Init
<1>2. Decisions = <<>>
  BY <1>1 DEF Decisions
<1>3. life \in 1..MaxLives
  BY BoundsAssumption DEF Init
<1> QED
  BY <1>2, <1>3 DEF Log!LogInit

LEMMA DecisionsType ==
  ASSUME NEW rows \in Seq(Row)
  PROVE  [n \in DOMAIN rows |->
            [key |-> rows[n].key, at |-> rows[n].at, gap |-> rows[n].gap,
             life |-> rows[n].life]] \in Seq(Log!Entry)
<1> DEFINE seen == [n \in DOMAIN rows |->
                      [key |-> rows[n].key, at |-> rows[n].at, gap |-> rows[n].gap,
                       life |-> rows[n].life]]
<1>1. DOMAIN rows = 1..Len(rows) /\ Len(rows) \in Nat
  BY LenProperties
<1>2. \A n \in DOMAIN rows : rows[n] \in Row
  BY <1>1, ElementOfSeq
<1>3. seen \in [1..Len(rows) -> Log!Entry]
  BY <1>1, <1>2 DEF Row, Log!Entry
<1> HIDE DEF seen
<1>4. seen \in Seq(Log!Entry)
  BY <1>1, <1>3, SeqDef
<1> QED
  BY <1>4 DEF seen

\* Writing a row records its decision.
LEMMA InsertRecords ==
  ASSUME TypeOK, TypeOK', CooldownInv, InsertAlert
  PROVE  Log!Record(pend.key, pend.at, pend.gap)
<1> DEFINE last == Len(alerts) + 1
           entry == [key |-> pend.key, at |-> pend.at, gap |-> pend.gap, life |-> life]
<1>1. /\ DOMAIN alerts = 1..Len(alerts) /\ Len(alerts) \in Nat
      /\ DOMAIN alerts' = 1..last
      /\ \A n \in DOMAIN alerts : alerts'[n] = alerts[n]
      /\ alerts'[last].key = pend.key /\ alerts'[last].at = pend.at
      /\ alerts'[last].gap = pend.gap /\ alerts'[last].life = life
  BY Inserted
<1>2. pend # Nil /\ UNCHANGED life
  BY DEF InsertAlert
<1>3. Log!Spaced(pend.key, pend.at, pend.gap)
  BY <1>2 DEF Log!Spaced, Decisions, CooldownInv, PendInv
<1>4. Decisions \in Seq(Log!Entry) /\ Decisions' \in Seq(Log!Entry)
  BY DecisionsType DEF Decisions, TypeOK
<1>5. entry \in Log!Entry
  BY Inserted DEF Pending, Log!Entry, TypeOK
<1>6. /\ Append(Decisions, entry) \in Seq(Log!Entry)
      /\ Len(Append(Decisions, entry)) = Len(Decisions) + 1
      /\ Append(Decisions, entry)[Len(Decisions) + 1] = entry
      /\ \A n \in 1..Len(Decisions) : Append(Decisions, entry)[n] = Decisions[n]
  BY <1>4, <1>5, AppendProperties
<1>7. Len(Decisions) = Len(alerts) /\ Len(Decisions') = last
  BY <1>1, <1>4, LenProperties DEF Decisions
<1>8. \A n \in 1..last : Decisions'[n] = Append(Decisions, entry)[n]
  <2>1. Decisions'[last] = entry
    BY <1>1, <1>2 DEF Decisions
  <2>2. \A n \in DOMAIN alerts : Decisions'[n] = Decisions[n]
    BY <1>1 DEF Decisions
  <2> QED
    BY <1>1, <1>6, <1>7, <2>1, <2>2
<1>9. Decisions' = Append(Decisions, entry)
  BY <1>4, <1>6, <1>7, <1>8, SeqEqual
<1> QED
  BY <1>2, <1>3, <1>9 DEF Log!Record

LEMMA LogStep ==
  ASSUME TypeOK, TypeOK', CooldownInv, [Next]_vars
  PROVE  [Log!LogNext]_Log!logVars
<1>1. CASE InsertAlert
  <2>1. pend.key \in Keys /\ pend.at \in Time /\ pend.gap \in Gaps
    BY <1>1, Inserted DEF Pending
  <2> QED
    BY <1>1, <2>1, InsertRecords DEF Log!LogNext
<1>2. CASE Restart
  <2>1. life' = life + 1 /\ life' \in 1..MaxLives /\ UNCHANGED alerts
    BY <1>2 DEF Restart, dbVars, TypeOK
  <2> QED
    BY <2>1 DEF Log!LogNext, Log!NewLife, Decisions
<1>3. CASE ~InsertAlert /\ ~Restart
  <2>1. UNCHANGED <<alerts, life>>
    BY <1>3 DEF Next, Environment, Handlers, Boot, Evaluate, Tick, Collect, RefreshOk,
       RefreshFails, Reconnect, CreateRule, ToggleRule, DeleteRule, SeedCheck,
       SeedInsert, SeedDone, LoadConfigs, LoadConfigsFails, ReadSnapshot, CheckRule,
       RulesDone, InsertAlertFails, CheckAvailable, TakeListing, CheckUnit, EndPass,
       Refresh, RefreshCacheFails, Crash, vars, dbVars
  <2> QED
    BY <2>1 DEF Log!logVars, Decisions
<1> QED
  BY <1>1, <1>2, <1>3

\* The Alert table implements AlertLog: rows are only appended, in the order of their
\* decisions, each its cooldown after the last one of its key and life.
THEOREM LogRefined == Spec => ImplementsLog
<1>1. TypeOK /\ TypeOK' /\ CooldownInv /\ [Next]_vars => [Log!LogNext]_Log!logVars
  BY LogStep
<1> QED
  BY <1>1, LogInitial, TypeCorrect, CooldownInvariant, PTL
     DEF Spec, ImplementsLog, Log!LogSpec
=============================================================================
