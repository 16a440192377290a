-------------------------- MODULE Monitors_proofs --------------------------
(***************************************************************************)
(* Theorems about the two monitors: DockerMonitor, for every number of     *)
(* detail requests and every number of changes of the listing;             *)
(* parseListUnits, for every listing; and SystemdMonitor, for every        *)
(* history of the units.                                                   *)
(***************************************************************************)
EXTENDS Monitors, SequenceTheorems, WellFoundedInduction, TLAPS

\* What the goroutine's place says of the field client: only between the two
\* halves of a store is it torn, and the calls of a refresh go through a client.
Placed ==
  /\ pc \in {"idle", "done"} => client \in {"nil", "set"}
  /\ pc = "ping" => client = "nil"
  /\ pc = "connect" => client \in {"nil", "torn"}
  /\ pc \in {"list", "stats", "publish"} => client = "set"
  /\ pc = "drop" => client \in {"set", "torn"}

\* A request that has passed the check while there is no whole client was raced.
Witnessed ==
  \A r \in Requests :
    \/ asked[r] = "checked" /\ client # "set"
    \/ asked[r] = "panicked"
    => r \in raced

IInv == TypeOK /\ Placed /\ FlagMeansClient /\ Witnessed

LEMMA InitEstablishes == Init => IInv
<1> SUFFICES ASSUME Init PROVE IInv
  OBVIOUS
<1>1. available \in BOOLEAN /\ FlagMeansClient
  BY Zenon DEF Init, FlagMeansClient
<1>2. TypeOK
  BY <1>1, BoundAssumption, SMT DEF Init, FirstCall, TypeOK, Version
<1>3. Placed /\ Witnessed
  BY SMT DEF Init, FirstCall, Placed, Witnessed
<1> QED
  BY <1>1, <1>2, <1>3 DEF IInv

\* The daemon touches nothing of the monitor's.
LEMMA DaemonPreserves ==
  ASSUME IInv, DaemonChanges \/ ContainersChange PROVE IInv'
BY BoundAssumption, SMT
   DEF IInv, TypeOK, Version, Placed, FlagMeansClient, Witnessed, DaemonChanges,
       ContainersChange, fieldVars, detailVars

\* The steps that leave the fields alone.
LEMMA CallsPreserve ==
  ASSUME IInv, Refresh \/ Leave \/ Ping \/ List \/ Stats PROVE IInv'
BY SMT
   DEF IInv, TypeOK, Version, Placed, FlagMeansClient, Witnessed, Refresh, FirstCall,
       Leave, Ping, List, Stats, Cancelled, worldVars, fieldVars, detailVars

\* The first half of a store marks the requests in flight.
LEMMA StorePreserves == ASSUME IInv, StoreHalf PROVE IInv'
<1>1. /\ client' = "torn" /\ raced' = raced \cup InFlight
      /\ UNCHANGED <<daemon, world, available, containers, pc, fetched, stop, asked>>
  BY DEF StoreHalf, worldVars
<1>2. InFlight \subseteq Requests
  BY DEF InFlight
<1>3. TypeOK'
  BY <1>1, <1>2 DEF IInv, TypeOK, Version
<1>4. Placed' /\ FlagMeansClient'
  BY <1>1 DEF IInv, Placed, FlagMeansClient, StoreHalf
<1>5. ASSUME NEW r \in Requests, asked'[r] = "checked" \/ asked'[r] = "panicked"
      PROVE  r \in raced'
  <2>1. CASE asked[r] = "checked"
    BY <1>1, <2>1 DEF InFlight
  <2>2. CASE asked[r] = "panicked"
    BY <1>1, <2>2 DEF IInv, Witnessed
  <2> QED
    BY <1>1, <1>5, <2>1, <2>2
<1>6. Witnessed'
  BY <1>5 DEF Witnessed
<1> QED
  BY <1>3, <1>4, <1>6 DEF IInv

\* The second half leaves the client whole, or nil for requests that are marked.
LEMMA SectionsPreserve ==
  ASSUME IInv, Connect \/ Drop \/ Publish PROVE IInv'
<1>1. /\ UNCHANGED <<daemon, world, fetched, stop, asked, raced>>
      /\ client' \in {"nil", "set"} /\ pc' \in {"idle", "list"}
      /\ available' \in BOOLEAN /\ containers' \in Version
  <2>1. CASE Connect
    BY <2>1 DEF IInv, TypeOK, Connect, worldVars, detailVars
  <2>2. CASE Drop
    BY <2>2 DEF IInv, TypeOK, Drop, worldVars, detailVars
  <2>3. CASE Publish
    BY <2>3 DEF IInv, TypeOK, Placed, Publish, worldVars, detailVars
  <2> QED
    BY <2>1, <2>2, <2>3
<1>2. TypeOK'
  BY <1>1 DEF IInv, TypeOK, Version
<1>3. Placed' /\ FlagMeansClient'
  BY DEF IInv, Placed, FlagMeansClient, Connect, Drop, Publish
<1>4. client' = "set" \/ client = "torn" \/ client' = client
  BY DEF Connect, Drop, Publish
<1>5. Witnessed'
  BY <1>1, <1>4 DEF IInv, Witnessed
<1> QED
  BY <1>2, <1>3, <1>5 DEF IInv

LEMMA StopPreserves == ASSUME IInv, CallStop \/ StopReturns PROVE IInv'
BY SMT
   DEF IInv, TypeOK, Version, Placed, FlagMeansClient, Witnessed, CallStop, StopReturns,
       worldVars, fieldVars, detailVars

LEMMA DetailPreserves ==
  ASSUME IInv, NEW r \in Requests, Ask(r) \/ Inspect(r) \/ Recover(r)
  PROVE  IInv'
BY SMT
   DEF IInv, TypeOK, Version, Placed, FlagMeansClient, Witnessed, Ask, Inspect, Recover,
       worldVars, fieldVars

LEMMA Inductive == Spec => []IInv
<1>1. Init => IInv
  BY InitEstablishes
<1>2. IInv /\ [Next]_vars => IInv'
  <2> SUFFICES ASSUME IInv, [Next]_vars PROVE IInv'
    OBVIOUS
  <2>1. CASE DaemonChanges \/ ContainersChange
    BY <2>1, DaemonPreserves
  <2>2. CASE Work
    BY <2>2, CallsPreserve, StorePreserves, SectionsPreserve DEF Work
  <2>3. CASE Leave
    BY <2>3, CallsPreserve
  <2>4. CASE CallStop \/ StopReturns
    BY <2>4, StopPreserves
  <2>5. ASSUME NEW r \in Requests, Ask(r) \/ Inspect(r) \/ Recover(r)
        PROVE  IInv'
    BY <2>5, DetailPreserves
  <2>6. CASE UNCHANGED vars
    BY <2>6 DEF vars, IInv, TypeOK, Version, Placed, FlagMeansClient, Witnessed
  <2> QED
    BY <2>1, <2>2, <2>3, <2>4, <2>5, <2>6 DEF Next
<1> QED
  BY <1>1, <1>2, PTL DEF Spec

-----------------------------------------------------------------------------

\* Every variable keeps its type.
THEOREM TypeCorrect == Spec => []TypeOK
<1>1. IInv => TypeOK
  BY DEF IInv
<1> QED
  BY <1>1, Inductive, PTL

\* monitor.go:50-51, 180-193, 209-212: whoever holds the mutex finds the flag up
\* exactly when there is a client.
THEOREM FlagTellsTheClient == Spec => []FlagMeansClient
<1>1. IInv => FlagMeansClient
  BY DEF IInv
<1> QED
  BY <1>1, Inductive, PTL

\* monitor.go:106-110: only a store of the client while it ran makes a detail
\* request panic.
THEOREM OnlyRacesPanic == Spec => []PanicsOnlyInARace
<1>1. IInv => PanicsOnlyInARace
  BY DEF IInv, Witnessed, PanicsOnlyInARace
<1> QED
  BY <1>1, Inductive, PTL

-----------------------------------------------------------------------------

\* What is listed was fetched, and what was fetched was there.
Ordered == containers <= fetched /\ fetched <= world

LEMMA OrderKept ==
  ASSUME IInv, IInv', Ordered, [Next]_vars PROVE Ordered'
<1>1. /\ containers \in Nat /\ fetched \in Nat /\ world \in Nat
      /\ containers' \in Nat /\ fetched' \in Nat /\ world' \in Nat
  BY BoundAssumption, SMT DEF IInv, TypeOK, Version
<1>2. CASE ContainersChange
  BY <1>1, <1>2, SMT DEF Ordered, ContainersChange, fieldVars
<1>3. CASE List
  BY <1>1, <1>3, SMT DEF Ordered, List, worldVars, fieldVars
<1>4. CASE Publish
  BY <1>1, <1>4, SMT DEF Ordered, Publish, worldVars
<1>5. CASE UNCHANGED <<world, containers, fetched>>
  BY <1>5 DEF Ordered
<1>6. ContainersChange \/ List \/ Publish \/ UNCHANGED <<world, containers, fetched>>
  BY DEF Next, Work, DaemonChanges, Refresh, Leave, Ping, StoreHalf, Connect, Drop, Stats,
         CallStop, StopReturns, Ask, Inspect, Recover, vars, worldVars, fieldVars
<1> QED
  BY <1>2, <1>3, <1>4, <1>5, <1>6

\* Each step is one of the feed's, or none of its business.
LEMMA FeedSteps ==
  ASSUME IInv, Ordered, [Next]_vars
  PROVE  [Feed!FeedNext]_<<world, available, containers>>
<1>1. containers \in Nat /\ fetched \in Nat /\ world \in Nat
  BY BoundAssumption, SMT DEF IInv, TypeOK, Version
<1>2. CASE ContainersChange
  BY <1>2 DEF ContainersChange, fieldVars, Feed!FeedNext, Feed!WorldChanges
<1>3. CASE Connect
  <2>1. containers \in containers..world
    BY <1>1, SMT DEF Ordered
  <2> QED
    BY <1>3, <2>1 DEF Connect, worldVars, Feed!FeedNext, Feed!Refreshed
<1>4. CASE Drop
  BY <1>4 DEF Drop, worldVars, Feed!FeedNext, Feed!Failed
<1>5. CASE Publish
  <2>1. fetched \in containers..world
    BY <1>1, SMT DEF Ordered
  <2> QED
    BY <1>5, <2>1 DEF Publish, worldVars, Feed!FeedNext, Feed!Refreshed
<1>6. CASE UNCHANGED <<world, available, containers>>
  BY <1>6
<1>7. \/ ContainersChange \/ Connect \/ Drop \/ Publish
      \/ UNCHANGED <<world, available, containers>>
  BY DEF Next, Work, DaemonChanges, Refresh, Leave, Ping, StoreHalf, List, Stats, CallStop,
         StopReturns, Ask, Inspect, Recover, vars, worldVars, fieldVars
<1> QED
  BY <1>2, <1>3, <1>4, <1>5, <1>6, <1>7

\* monitor.go:166-213: the listing is a feed: a state the containers were in, never an
\* older one than before, through every failed call and reconnection.
THEOREM ListingIsAFeed == Spec => ContainersAreAFeed
<1>1. Init => Ordered /\ Feed!FeedInit
  <2> SUFFICES ASSUME Init PROVE Ordered /\ Feed!FeedInit
    OBVIOUS
  <2>1. IInv
    BY InitEstablishes
  <2>2. available \in BOOLEAN
    BY <2>1 DEF IInv, TypeOK
  <2> QED
    BY <2>2, SMT DEF Init, Ordered, Feed!FeedInit
<1>2. IInv /\ IInv' /\ Ordered /\ [Next]_vars
      => Ordered' /\ [Feed!FeedNext]_(Feed!feedVars)
  BY OrderKept, FeedSteps DEF Feed!feedVars
<1> QED
  BY <1>1, <1>2, Inductive, PTL DEF Spec, ContainersAreAFeed, Feed!FeedSpec

-----------------------------------------------------------------------------
(* parseListUnits                                                          *)

\* A set that has 0 and the successors of its numbers has them all.
LEMMA FromZero ==
  ASSUME NEW S, 0 \in S, \A n \in Nat : n \in S => n + 1 \in S
  PROVE  Nat \subseteq S
<1> SUFFICES ASSUME Nat \ S # {} PROVE FALSE
  OBVIOUS
<1>1. PICK m \in Nat \ S : \A n \in Nat \ S : ~(<<n, m>> \in OpToRel(<, Nat))
  <2>1. Nat \ S \subseteq Nat
    OBVIOUS
  <2> QED
    BY <2>1, NatLessThanWellFounded, WFMin
<1>2. \A n \in Nat \ S : ~(n < m)
  BY <1>1 DEF OpToRel
<1>3. m \in Nat /\ m \notin S
  OBVIOUS
<1>4. m - 1 \in Nat /\ m - 1 < m /\ (m - 1) + 1 = m
  BY <1>3
<1>5. m - 1 \in S
  BY <1>2, <1>4
<1> QED
  BY <1>3, <1>4, <1>5

\* A turn of the loop.
Scan(s, l) == IF IsUnit(l) THEN Append(s, UnitOf(l)) ELSE s

\* The loop goes line by line.
LEMMA LineByLine ==
  ASSUME NEW lines, Len(lines) \in Nat
  PROVE  \E f : /\ f[0] = <<>>
                /\ \A n \in 1..Len(lines) :
                     f[n] = Scan(f[n - 1], lines[n])
                /\ ParseListUnits(lines) = f[Len(lines)]
<1> DEFINE Solves(f, m) ==
             f = [n \in 0..m |-> IF n = 0 THEN <<>> ELSE Scan(f[n - 1], lines[n])]
           S == {m \in Nat : \E f : Solves(f, m)}
<1>1. 0 \in S
  <2>1. Solves([n \in 0..0 |-> <<>>], 0)
    OBVIOUS
  <2> QED
    BY <2>1
<1>2. ASSUME NEW m \in Nat, m \in S PROVE m + 1 \in S
  <2>1. PICK f : Solves(f, m)
    BY <1>2
  <2>2. PICK g : g = [n \in 0..(m + 1) |-> IF n = 0 THEN <<>> ELSE Scan(f[n - 1], lines[n])]
    OBVIOUS
  <2>3. \A n \in 0..m : g[n] = f[n]
    <3>1. \A n \in 0..m : f[n] = IF n = 0 THEN <<>> ELSE Scan(f[n - 1], lines[n])
      BY <2>1
    <3> QED
      BY <2>2, <3>1
  <2>4. \A n \in 0..(m + 1) : n # 0 => g[n - 1] = f[n - 1]
    <3>1. \A n \in 0..(m + 1) : n # 0 => n - 1 \in 0..m
      OBVIOUS
    <3> QED
      BY <2>3, <3>1, Zenon
  <2>5. Solves(g, m + 1)
    BY <2>2, <2>4
  <2> QED
    BY <2>5
<1>3. Nat \subseteq S
  <2> HIDE DEF S
  <2> QED
    BY <1>1, <1>2, FromZero
<1> DEFINE kept == CHOOSE f : Solves(f, Len(lines))
<1>4. Solves(kept, Len(lines))
  <2>1. \E f : Solves(f, Len(lines))
    BY <1>3
  <2> QED
    BY <2>1, Zenon
<1>5. ParseListUnits(lines) = kept[Len(lines)]
  BY Zenon DEF ParseListUnits, Scan
<1> HIDE DEF kept
<1>6. /\ kept[0] = <<>>
      /\ \A n \in 1..Len(lines) :
           kept[n] = Scan(kept[n - 1], lines[n])
  BY <1>4
<1> QED
  BY <1>5, <1>6

LEMMA WordsOfALine ==
  ASSUME NEW S, NEW x \in S, NEW y \in S, NEW z \in S, NEW d \in Seq(S),
         NEW w, w = <<x, y, z>> \o d
  PROVE  /\ Len(w) >= 3 /\ w[1] = x /\ w[2] = y /\ w[3] = z
         /\ SubSeq(w, 4, Len(w)) = d
<1>1. PICK a \in Seq(S) : Len(a) = 3 /\ a[1] = x /\ a[2] = y /\ a[3] = z /\ w = a \o d
  <2>1. <<x, y, z>> \in Seq(S) /\ Len(<<x, y, z>>) = 3
    OBVIOUS
  <2> QED
    BY <2>1
<1>2. /\ w \in Seq(S) /\ Len(w) = Len(a) + Len(d) /\ Len(d) \in Nat
      /\ \A i \in 1..(Len(a) + Len(d)) : w[i] = IF i <= Len(a) THEN a[i] ELSE d[i - Len(a)]
  BY <1>1, ConcatProperties, LenProperties
<1>3. /\ Len(w) = 3 + Len(d)
      /\ w[1] = x /\ w[2] = y /\ w[3] = z
      /\ \A i \in 1..Len(d) : w[i + 3] = d[i]
  BY <1>1, <1>2
<1>4. PICK r : r = SubSeq(w, 4, Len(w))
  OBVIOUS
<1>5. r \in Seq(S) /\ Len(r) = Len(d) /\ \A i \in 1..Len(d) : r[i] = w[i + 3]
  BY <1>2, <1>3, <1>4
<1>6. r = d
  BY <1>3, <1>5, SeqEqual
<1> QED
  BY <1>2, <1>3, <1>4, <1>6

\* What is kept of the line of a unit is the unit.
LEMMA UnitIsRead ==
  ASSUME NEW u \in Unit, ~Footer(UnitLine(u))
  PROVE  IsUnit(UnitLine(u)) /\ UnitOf(UnitLine(u)) = ServiceInfo(u)
<1> DEFINE l == UnitLine(u)
<1>1. /\ u.load \in STRING /\ u.active \in STRING /\ u.sub \in STRING
      /\ u.description \in Seq(STRING)
  BY DEF Unit
<1>2. /\ l.first = u.name /\ l.suffix = "service"
      /\ l.words = <<u.load, u.active, u.sub>> \o u.description
  BY Zenon DEF UnitLine, Line
<1> HIDE DEF l
<1>3. /\ Len(l.words) >= 3
      /\ l.words[1] = u.load /\ l.words[2] = u.active /\ l.words[3] = u.sub
      /\ SubSeq(l.words, 4, Len(l.words)) = u.description
  BY <1>1, <1>2, WordsOfALine
<1>4. IsUnit(l)
  <2>1. l # Empty
    <3>1. Empty.suffix = ""
      BY DEF Empty, Line
    <3> QED
      BY <1>2, <3>1
  <2> QED
    BY <1>2, <1>3, <2>1 DEF IsUnit, l
<1>5. UnitOf(l) = ServiceInfo([name |-> u.name, load |-> u.load, active |-> u.active,
                               sub |-> u.sub, description |-> u.description])
  BY <1>2, <1>3, Zenon DEF UnitOf
<1>6. @ = ServiceInfo(u)
  BY DEF ServiceInfo
<1> QED
  BY <1>4, <1>5, <1>6 DEF l

\* The output: a header, the units, and six lines that are none.
LEMMA OutputLines ==
  ASSUME NEW units \in Seq(Unit)
  PROVE  LET out == Output(units)
         IN /\ Len(units) \in Nat /\ DOMAIN units = 1..Len(units)
            /\ Len(out) = Len(units) + 7
            /\ ~IsUnit(out[1])
            /\ \A i \in 1..Len(units) : out[i + 1] = UnitLine(units[i])
            /\ \A i \in (Len(units) + 2)..(Len(units) + 7) : ~IsUnit(out[i])
<1> DEFINE h == Line("UNIT", "", <<"LOAD", "ACTIVE", "SUB", "DESCRIPTION">>)
           l1 == Empty
           l2 == Line("LOAD", "", <<"=", "Reflects", "whether", "the", "unit">>)
           l3 == Line("ACTIVE", "", <<"=", "The", "high-level", "unit">>)
           l4 == Line("SUB", "", <<"=", "The", "low-level", "unit">>)
           l5 == Line("2", "", <<"loaded", "units", "listed.">>)
           l6 == Line("To", "", <<"show", "all", "installed", "unit", "files">>)
           n == Len(units)
           b == [i \in DOMAIN units |-> UnitLine(units[i])]
           c == <<l1, l2, l3, l4, l5, l6>>
           L == {h, l1, l2, l3, l4, l5, l6} \cup {UnitLine(u) : u \in Unit}
<1>1. n \in Nat /\ DOMAIN units = 1..n /\ \A i \in 1..n : units[i] \in Unit
  OBVIOUS
<1>2. b = [i \in 1..n |-> UnitLine(units[i])]
  BY <1>1
<1>3. \A l \in {h, l1, l2, l3, l4, l5, l6} : l.suffix = ""
  <2>1. \A first, words : Line(first, "", words).suffix = ""
    BY DEF Line
  <2> QED
    BY <2>1, Zenon DEF Empty
<1>4. \A l : l.suffix = "" => ~IsUnit(l)
  BY DEF IsUnit
<1>5. Output(units) = <<h>> \o b \o c
  BY DEF Output
<1> HIDE DEF h, l1, l2, l3, l4, l5, l6, n, b
<1>6. b \in Seq(L) /\ Len(b) = n /\ \A i \in 1..n : b[i] = UnitLine(units[i])
  <2>1. \A i \in 1..n : UnitLine(units[i]) \in L
    BY <1>1
  <2> HIDE DEF L
  <2>2. b \in [1..n -> L]
    BY <1>2, <2>1
  <2> QED
    BY <1>1, <1>2, <2>2
<1>7. <<h>> \in Seq(L) /\ Len(<<h>>) = 1 /\ <<h>>[1] = h
  <2>1. h \in L
    OBVIOUS
  <2> HIDE DEF L
  <2> QED
    BY <2>1
<1>8. c \in Seq(L) /\ Len(c) = 6 /\ \A i \in 1..6 : c[i] \in {l1, l2, l3, l4, l5, l6}
  <2>1. l1 \in L /\ l2 \in L /\ l3 \in L /\ l4 \in L /\ l5 \in L /\ l6 \in L
    OBVIOUS
  <2> HIDE DEF L
  <2> QED
    BY <2>1
<1> HIDE DEF L, c
<1> DEFINE a == <<h>> \o b
           out == a \o c
<1>9. a \in Seq(L) /\ Len(a) = n + 1 /\ a[1] = h /\ \A i \in 1..n : a[i + 1] = b[i]
  BY <1>1, <1>6, <1>7
<1> HIDE DEF a
<1>10. /\ Len(out) = n + 7
       /\ \A i \in 1..(n + 1) : out[i] = a[i]
       /\ \A i \in (n + 2)..(n + 7) : out[i] = c[i - (n + 1)] /\ i - (n + 1) \in 1..6
  <2>1. /\ Len(out) = Len(a) + Len(c)
        /\ \A i \in 1..(Len(a) + Len(c)) :
             out[i] = IF i <= Len(a) THEN a[i] ELSE c[i - Len(a)]
    BY <1>8, <1>9, ConcatProperties
  <2> HIDE DEF out
  <2> QED
    BY <1>1, <1>8, <1>9, <2>1
<1>11. Output(units) = out
  BY <1>5 DEF a
<1> HIDE DEF out
<1>12. out[1] = h /\ \A i \in 1..n : out[i + 1] = UnitLine(units[i])
  <2>1. 1 \in 1..(n + 1) /\ \A i \in 1..n : i + 1 \in 1..(n + 1)
    BY <1>1
  <2> QED
    BY <1>6, <1>9, <1>10, <2>1
<1>13. \A i \in (n + 2)..(n + 7) : ~IsUnit(out[i])
  <2>1. \A j \in 1..6 : ~IsUnit(c[j])
    BY <1>3, <1>4, <1>8, Zenon
  <2> QED
    BY <1>10, <2>1
<1> QED
  BY <1>1, <1>3, <1>4, <1>10, <1>11, <1>12, <1>13 DEF n

\* parser.go:10-60: whatever units there are, parseListUnits takes each line of one for it,
\* in order, and nothing of the header, the legend and the count, as long as no
\* unit is described in the words of the legend.
THEOREM ParserReadsTheUnits ==
  ASSUME NEW units \in Seq(Unit), \A i \in DOMAIN units : ~Footer(UnitLine(units[i]))
  PROVE  ParseListUnits(Output(units)) = [i \in DOMAIN units |-> ServiceInfo(units[i])]
<1> DEFINE out == Output(units)
           n == Len(units)
           Prefix(m) == [i \in 1..m |-> ServiceInfo(units[i])]
           Infos == {ServiceInfo(u) : u \in Unit}
<1>1. /\ n \in Nat /\ DOMAIN units = 1..n
      /\ Len(out) = n + 7
      /\ ~IsUnit(out[1])
      /\ \A i \in 1..n : out[i + 1] = UnitLine(units[i])
      /\ \A i \in (n + 2)..(n + 7) : ~IsUnit(out[i])
  BY OutputLines
<1>2. \A i \in 1..n : /\ units[i] \in Unit
                      /\ IsUnit(out[i + 1]) /\ UnitOf(out[i + 1]) = ServiceInfo(units[i])
  <2> TAKE i \in 1..n
  <2>1. units[i] \in Unit /\ ~Footer(UnitLine(units[i]))
    BY <1>1
  <2> QED
    BY <1>1, <2>1, UnitIsRead
<1> HIDE DEF out, n
<1>3. PICK f : /\ f[0] = <<>>
               /\ \A m \in 1..(n + 7) : f[m] = Scan(f[m - 1], out[m])
               /\ ParseListUnits(out) = f[n + 7]
  <2>1. Len(out) \in Nat /\ Len(out) = n + 7
    BY <1>1
  <2>2. \E f : /\ f[0] = <<>>
               /\ \A m \in 1..Len(out) : f[m] = Scan(f[m - 1], out[m])
               /\ ParseListUnits(out) = f[Len(out)]
    BY <2>1, LineByLine, Zenon
  <2> QED
    BY <2>1, <2>2, Zenon
<1>4. \A m \in Nat : m <= n => f[m + 1] = Prefix(m)
  <2> DEFINE T == {m \in Nat : m <= n => f[m + 1] = Prefix(m)}
  <2>1. 0 \in T
    <3>1. f[1] = Scan(f[0], out[1])
      <4>1. 1 \in 1..(n + 7) /\ 1 - 1 = 0
        BY <1>1
      <4> QED
        BY <1>3, <4>1
    <3>2. f[1] = <<>>
      BY <1>1, <1>3, <3>1 DEF Scan
    <3>3. Prefix(0) = <<>>
      OBVIOUS
    <3> QED
      BY <3>2, <3>3
  <2>2. ASSUME NEW m \in Nat, m \in T PROVE m + 1 \in T
    <3> SUFFICES ASSUME m + 1 <= n PROVE f[(m + 1) + 1] = Prefix(m + 1)
      OBVIOUS
    <3>1. m <= n /\ m + 1 \in 1..n /\ (m + 1) + 1 \in 1..(n + 7) /\ (m + 1) + 1 - 1 = m + 1
      BY <1>1
    <3>2. f[m + 1] = Prefix(m)
      BY <2>2, <3>1
    <3>3. f[(m + 1) + 1] = Scan(Prefix(m), out[(m + 1) + 1])
      BY <1>3, <3>1, <3>2
    <3>4. f[(m + 1) + 1] = Append(Prefix(m), ServiceInfo(units[m + 1]))
      <4> HIDE DEF Prefix
      <4> QED
        BY <1>2, <3>1, <3>3 DEF Scan
    <3>5. Append(Prefix(m), ServiceInfo(units[m + 1])) = Prefix(m + 1)
      <4>1. \A i \in 1..(m + 1) : ServiceInfo(units[i]) \in Infos
        BY <1>1, <1>2, <3>1
      <4> HIDE DEF Infos
      <4>2. Prefix(m) \in Seq(Infos) /\ Len(Prefix(m)) = m
        BY <4>1
      <4> QED
        BY <4>1, <4>2
    <3> QED
      BY <3>4, <3>5
  <2>3. Nat \subseteq T
    <3> HIDE DEF T
    <3> QED
      BY <2>1, <2>2, FromZero
  <2> QED
    BY <2>3
<1>5. \A m \in Nat : m <= 6 => f[n + 1 + m] = Prefix(n)
  <2> DEFINE T == {m \in Nat : m <= 6 => f[n + 1 + m] = Prefix(n)}
  <2>1. 0 \in T
    <3>1. n <= n /\ n + 1 + 0 = n + 1
      BY <1>1
    <3> QED
      BY <1>1, <1>4, <3>1
  <2>2. ASSUME NEW m \in Nat, m \in T PROVE m + 1 \in T
    <3> SUFFICES ASSUME m + 1 <= 6 PROVE f[n + 1 + (m + 1)] = Prefix(n)
      OBVIOUS
    <3> DEFINE k == n + 1 + (m + 1)
    <3>1. m <= 6 /\ k \in 1..(n + 7) /\ k \in (n + 2)..(n + 7) /\ k - 1 = n + 1 + m
      BY <1>1
    <3>2. f[n + 1 + m] = Prefix(n)
      BY <2>2, <3>1
    <3> HIDE DEF Prefix, k
    <3>3. f[k] = Scan(Prefix(n), out[k])
      BY <1>3, <3>1, <3>2
    <3>4. f[k] = Prefix(n)
      BY <1>1, <3>1, <3>3 DEF Scan
    <3> QED
      BY <3>4 DEF k
  <2>3. Nat \subseteq T
    <3> HIDE DEF T
    <3> QED
      BY <2>1, <2>2, FromZero
  <2> QED
    BY <2>3
<1>6. f[n + 7] = Prefix(n)
  <2>1. n + 1 + 6 = n + 7 /\ 6 \in Nat /\ 6 <= 6
    BY <1>1
  <2> QED
    BY <1>5, <2>1
<1> QED
  BY <1>1, <1>3, <1>6 DEF out

-----------------------------------------------------------------------------
(* The systemd monitor, next to the Docker monitor                         *)

LEMMA ParsedIsTruth == Parsed = Truth
<1>1. \A v \in DOMAIN UnitsAt :
        ParseListUnits(Output(UnitsAt[v])) = [i \in DOMAIN UnitsAt[v] |-> ServiceInfo(UnitsAt[v][i])]
  BY UnitsAssumption, ParserReadsTheUnits
<1> QED
  BY <1>1, Zenon DEF Parsed, Truth

\* Each state of the units has a listing of its own, and none is empty.
LEMMA TruthTells ==
  /\ DOMAIN Truth \subseteq Nat /\ 0 \in DOMAIN Truth
  /\ \A v \in DOMAIN Truth : Truth[v] # <<>>
  /\ \A v, w \in DOMAIN Truth : Truth[v] = Truth[w] => v = w
<1>1. DOMAIN Truth = DOMAIN UnitsAt
  BY DEF Truth
<1>2. ASSUME NEW v \in DOMAIN UnitsAt PROVE Truth[v] # <<>>
  <2>1. UnitsAt[v] \in Seq(Unit) /\ UnitsAt[v] # <<>>
    BY UnitsAssumption
  <2>2. 1 \in DOMAIN UnitsAt[v]
    BY <2>1
  <2>3. 1 \in DOMAIN Truth[v]
    BY <2>2 DEF Truth
  <2> QED
    BY <2>3
<1> QED
  BY <1>1, <1>2, UnitsAssumption

\* What is served is the output that was parsed last, and that is never ahead of the units.
SdInv ==
  /\ sdAvailable \in BOOLEAN
  /\ sdWorld \in DOMAIN Truth /\ sdOutput \in DOMAIN Truth /\ sdOutput <= sdWorld
  /\ services = <<>> \/ \E v \in DOMAIN Truth : v <= sdOutput /\ services = Truth[v]

LEMMA SdInitial == Systemd!Init => SdInv /\ Systemd!Feed!FeedInit
<1> SUFFICES ASSUME Systemd!Init PROVE SdInv /\ Systemd!Feed!FeedInit
  OBVIOUS
<1>1. sdAvailable \in BOOLEAN
  BY Zenon DEF Systemd!Init
<1>2. sdWorld = 0 /\ sdOutput = 0 /\ services = <<>>
  BY DEF Systemd!Init
<1>3. SdInv
  BY <1>1, <1>2, TruthTells DEF SdInv
<1>4. Systemd!ListedVersion = 0 /\ sdWorld + 1 \in Nat
  BY <1>2 DEF Systemd!ListedVersion
<1> QED
  BY <1>1, <1>3, <1>4 DEF Systemd!Feed!FeedInit

\* The version of a listing.
LEMMA ListedIs ==
  /\ services = <<>> => Systemd!ListedVersion = 0
  /\ \A v \in DOMAIN Truth : services = Truth[v] => Systemd!ListedVersion = v + 1
<1>1. ASSUME NEW v \in DOMAIN Truth, services = Truth[v]
      PROVE  Systemd!ListedVersion = v + 1
  <2>1. services # <<>>
    BY <1>1, TruthTells
  <2>2. (CHOOSE w \in DOMAIN Truth : Truth[w] = services) = v
    BY <1>1, TruthTells
  <2>3. Systemd!ListedVersion = 1 + v
    BY <1>1, <2>1, <2>2 DEF Systemd!ListedVersion, Systemd!Version
  <2> QED
    BY <2>3, TruthTells
<1> QED
  BY <1>1 DEF Systemd!ListedVersion

\* Each step of the systemd monitor keeps the invariant, and is one of the feed's or none of
\* its business.
LEMMA SdStep ==
  ASSUME SdInv, [Systemd!Next]_sdVars
  PROVE  /\ SdInv'
         /\ [Systemd!Feed!FeedNext]_<<sdWorld + 1, sdAvailable, Systemd!ListedVersion>>
<1>1. /\ sdWorld \in Nat /\ sdOutput \in Nat /\ sdOutput <= sdWorld
      /\ sdWorld \in DOMAIN Truth /\ sdOutput \in DOMAIN Truth
  BY TruthTells DEF SdInv
<1>2. CASE Systemd!UnitsChange
  <2>1. /\ sdWorld' = sdWorld + 1 /\ sdWorld' \in DOMAIN Truth
        /\ UNCHANGED <<sdAvailable, services, sdOutput>>
    BY <1>2 DEF Systemd!UnitsChange, Systemd!Version
  <2>2. SdInv'
    BY <1>1, <2>1 DEF SdInv
  <2>3. UNCHANGED Systemd!ListedVersion
    <3>1. CASE services = <<>>
      BY <2>1, <3>1 DEF Systemd!ListedVersion
    <3>2. CASE services # <<>>
      <4>1. \E v \in DOMAIN Truth : Truth[v] = services
        BY <3>2 DEF SdInv
      <4> QED
        BY <2>1, <3>2, <4>1 DEF Systemd!ListedVersion, Systemd!Version
    <3> QED
      BY <3>1, <3>2
  <2> QED
    BY <1>1, <2>1, <2>2, <2>3 DEF Systemd!Feed!FeedNext, Systemd!Feed!WorldChanges
<1>3. CASE Systemd!Publish
  <2>1. /\ services' = Truth[sdOutput] /\ sdAvailable' = TRUE
        /\ UNCHANGED <<sdWorld, sdOutput>>
    BY <1>3, ParsedIsTruth DEF Systemd!Publish
  <2>2. SdInv'
    BY <1>1, <2>1 DEF SdInv
  <2>3. Systemd!ListedVersion' = sdOutput + 1
    <3>1. services' # <<>> /\ (CHOOSE w \in DOMAIN Truth : Truth[w] = services') = sdOutput
      BY <1>1, <2>1, TruthTells
    <3>2. Systemd!ListedVersion' = 1 + sdOutput
      BY <1>1, <2>1, <3>1 DEF Systemd!ListedVersion, Systemd!Version
    <3> QED
      BY <1>1, <3>2
  <2>4. Systemd!ListedVersion \in 0..(sdOutput + 1)
    <3>1. CASE services = <<>>
      BY <1>1, <3>1, ListedIs
    <3>2. CASE services # <<>>
      <4>1. PICK v \in DOMAIN Truth : v <= sdOutput /\ services = Truth[v]
        BY <3>2 DEF SdInv
      <4>2. Systemd!ListedVersion = v + 1 /\ v \in Nat
        BY <4>1, ListedIs, TruthTells
      <4> QED
        BY <1>1, <4>1, <4>2
    <3> QED
      BY <3>1, <3>2
  <2>5. Systemd!ListedVersion' \in Systemd!ListedVersion..(sdWorld + 1)
    BY <1>1, <2>3, <2>4
  <2> QED
    BY <2>1, <2>2, <2>5 DEF Systemd!Feed!FeedNext, Systemd!Feed!Refreshed
<1>4. ASSUME UNCHANGED <<sdWorld, services>>, sdOutput' = sdOutput \/ sdOutput' = sdWorld,
             UNCHANGED sdAvailable \/ sdAvailable' = FALSE
      PROVE  /\ SdInv'
             /\ [Systemd!Feed!FeedNext]_<<sdWorld + 1, sdAvailable, Systemd!ListedVersion>>
  <2>1. SdInv'
    <3>1. sdOutput' \in DOMAIN Truth /\ sdOutput <= sdOutput' /\ sdOutput' <= sdWorld
      BY <1>1, <1>4
    <3>2. sdAvailable' \in BOOLEAN
      BY <1>4 DEF SdInv
    <3>3. services' = <<>> \/ \E v \in DOMAIN Truth : v <= sdOutput' /\ services' = Truth[v]
      <4>1. CASE services = <<>>
        BY <1>4, <4>1
      <4>2. CASE services # <<>>
        <5>1. PICK v \in DOMAIN Truth : v <= sdOutput /\ services = Truth[v]
          BY <4>2 DEF SdInv
        <5>2. v <= sdOutput'
          BY <1>1, <3>1, <5>1, TruthTells
        <5> QED
          BY <1>4, <5>1, <5>2
      <4> QED
        BY <4>1, <4>2
    <3> QED
      BY <1>1, <1>4, <3>1, <3>2, <3>3 DEF SdInv
  <2>2. UNCHANGED Systemd!ListedVersion
    BY <1>4 DEF Systemd!ListedVersion
  <2> QED
    BY <1>4, <2>1, <2>2 DEF Systemd!Feed!FeedNext, Systemd!Feed!Failed
<1>5. \/ Systemd!UnitsChange \/ Systemd!Publish
      \/ /\ UNCHANGED <<sdWorld, services>> /\ (sdOutput' = sdOutput \/ sdOutput' = sdWorld)
         /\ (UNCHANGED sdAvailable \/ sdAvailable' = FALSE)
  BY DEF sdVars, Systemd!Next, Systemd!Work, Systemd!ToolChanges, Systemd!Refresh, Systemd!Run,
         Systemd!Leave, Systemd!CallStop, Systemd!StopReturns
<1> QED
  BY <1>2, <1>3, <1>4, <1>5

\* main.go:48-57: next to the systemd monitor the Docker monitor is what it is by itself, so
\* that what is proved of it holds of the two.
THEOREM SideBySide == MonitorsSpec => Spec
<1>1. MonitorsInit => Init
  BY DEF MonitorsInit
<1>2. [MonitorsNext]_<<vars, sdVars>> => [Next]_vars
  BY DEF MonitorsNext
<1> QED
  BY <1>1, <1>2, PTL DEF MonitorsSpec, Spec

\* parser.go:10-60, monitor.go:101-137: for every history of the units that their listings
\* tell apart, what is served is, unit by unit, a state the units were in, never an
\* older one than before, through every failure of systemctl and next to any daemon.
THEOREM ServicesAreListed == MonitorsSpec => ServicesAreAFeed
<1>1. MonitorsInit => SdInv /\ Systemd!Feed!FeedInit
  BY SdInitial DEF MonitorsInit
<1>2. [MonitorsNext]_<<vars, sdVars>> => [Systemd!Next]_sdVars
  BY DEF MonitorsNext
<1>3. SdInv /\ [Systemd!Next]_sdVars
        => SdInv' /\ [Systemd!Feed!FeedNext]_(Systemd!Feed!feedVars)
  BY SdStep DEF Systemd!Feed!feedVars
<1> QED
  BY <1>1, <1>2, <1>3, PTL
     DEF MonitorsSpec, ServicesAreAFeed, Systemd!ServicesAreAFeed, Systemd!Feed!FeedSpec
=============================================================================
