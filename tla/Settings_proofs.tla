--------------------------- MODULE Settings_proofs ---------------------------
(* Theorems about Settings, for every set of tabs, requests, channels and secrets. *)
EXTENDS Settings, SequenceTheorems, TLAPS

RangeOf(s) == {s[i] : i \in DOMAIN s}

-----------------------------------------------------------------------------
(* The operators                                                           *)

LEMMA ChannelsArePart ==
  /\ Channel \subseteq STRING \ {"rules"}
  /\ "rules" \in Part
  /\ RangeOf(<<"rules">> \o Channels) = Part
  /\ <<"rules">> \o Channels \in Seq(Part)
<1>1. Channel \subseteq STRING \ {"rules"} /\ "rules" \in Part /\ Channels \in Seq(Channel)
  BY PartsAssumption DEF Channel, Part
<1>2. <<"rules">> \in Seq(Part) /\ Channels \in Seq(Part)
  BY <1>1 DEF Part
<1>3. ASSUME NEW i \in DOMAIN (<<"rules">> \o Channels)
      PROVE  (<<"rules">> \o Channels)[i] \in Part
  BY <1>2
<1>4. ASSUME NEW p \in Part
      PROVE  \E i \in DOMAIN (<<"rules">> \o Channels) : (<<"rules">> \o Channels)[i] = p
  <2>1. CASE p = "rules"
    <3>1. 1 \in DOMAIN (<<"rules">> \o Channels) /\ (<<"rules">> \o Channels)[1] = "rules"
      BY PartsAssumption
    <3>2. QED  BY <3>1, <2>1
  <2>2. CASE p \in Channel
    <3>1. PICK n \in DOMAIN Channels : Channels[n] = p
      BY <2>2 DEF Channel
    <3>2. /\ n + 1 \in DOMAIN (<<"rules">> \o Channels)
          /\ (<<"rules">> \o Channels)[n + 1] = Channels[n]
      BY <3>1, PartsAssumption
    <3>3. QED  BY <3>1, <3>2
  <2>3. QED  BY <2>1, <2>2 DEF Part
<1>5. QED  BY <1>1, <1>2, <1>3, <1>4 DEF RangeOf

LEMMA HeadTail ==
  ASSUME NEW S, NEW s \in Seq(S), s # <<>>
  PROVE  /\ Head(s) \in S
         /\ Tail(s) \in Seq(S)
         /\ RangeOf(s) \subseteq {Head(s)} \cup RangeOf(Tail(s))
<1>1. Head(s) \in S /\ Tail(s) \in Seq(S) /\ Len(s) > 0
  OBVIOUS
<1>2. ASSUME NEW i \in DOMAIN s PROVE s[i] \in {Head(s)} \cup RangeOf(Tail(s))
  <2>1. CASE i = 1
    BY <2>1
  <2>2. CASE i # 1
    <3>1. i - 1 \in DOMAIN Tail(s) /\ Tail(s)[i - 1] = s[i]
      BY <2>2
    <3>2. QED  BY <3>1 DEF RangeOf
  <2>3. QED  BY <2>1, <2>2
<1>3. QED  BY <1>1, <1>2 DEF RangeOf

\* Shown, part by part.
LEMMA ShownParts ==
  ASSUME NEW P, NEW f
  PROVE  f \in Shown(P) <=>
           /\ f = [p \in P |-> f[p]]
           /\ \A p \in P : f[p] \in IF p = "rules" THEN Table ELSE Inputs
<1>1. ASSUME f \in Shown(P)
      PROVE  /\ f = [p \in P |-> f[p]]
             /\ \A p \in P : f[p] \in IF p = "rules" THEN Table ELSE Inputs
  BY <1>1 DEF Shown
<1>2. ASSUME f = [p \in P |-> f[p]],
             \A p \in P : f[p] \in IF p = "rules" THEN Table ELSE Inputs
      PROVE  f \in Shown(P)
  <2>1. \A p \in P : f[p] \in Table \cup Inputs
    BY <1>2
  <2>2. f \in [P -> Table \cup Inputs]
    BY <2>1, <1>2
  <2>3. QED  BY <2>2, <1>2 DEF Shown
<1>3. QED  BY <1>1, <1>2

LEMMA OverShown ==
  ASSUME NEW P, NEW Q, NEW f \in Shown(P), NEW g \in Shown(Q)
  PROVE  /\ Over(f, g) \in Shown(P \cup Q)
         /\ DOMAIN Over(f, g) = P \cup Q
         /\ \A p \in P : Over(f, g)[p] = f[p]
         /\ \A p \in Q \ P : Over(f, g)[p] = g[p]
<1>1. DOMAIN f = P /\ DOMAIN g = Q
  BY ShownParts
<1>2. Over(f, g) = [p \in P \cup Q |-> IF p \in P THEN f[p] ELSE g[p]]
  BY <1>1 DEF Over
<1>3. \A p \in P \cup Q :
        Over(f, g)[p] \in IF p = "rules" THEN Table ELSE Inputs
  BY <1>2, ShownParts
<1>4. QED  BY <1>2, <1>3, ShownParts

LEMMA StaleShown ==
  ASSUME NEW P, NEW f \in Shown(P), NEW c \in Channel
  PROVE  /\ Stale(f, c) \in Shown(P)
         /\ DOMAIN Stale(f, c) = P
         /\ \A p \in P \ {c} : Stale(f, c)[p] = f[p]
         /\ c \in P => /\ ~Stale(f, c)[c].fresh
                       /\ Stale(f, c)[c].secret = f[c].secret
                       /\ Stale(f, c)[c].mask = f[c].mask
<1>1. c # "rules"
  BY ChannelsArePart
<1>2. DOMAIN f = P /\ f = [p \in P |-> f[p]]
  BY ShownParts
<1>3. CASE c \notin P
  BY <1>2, <1>3 DEF Stale
<1>4. CASE c \in P
  <2>1. f[c] \in Inputs
    BY <1>1, <1>4, ShownParts
  <2>2. /\ [f[c] EXCEPT !.fresh = FALSE] \in Inputs
        /\ ~[f[c] EXCEPT !.fresh = FALSE].fresh
        /\ [f[c] EXCEPT !.fresh = FALSE].secret = f[c].secret
        /\ [f[c] EXCEPT !.fresh = FALSE].mask = f[c].mask
    BY <2>1 DEF Inputs
  <2>3. Stale(f, c) = [p \in P |-> IF p = c THEN [f[c] EXCEPT !.fresh = FALSE] ELSE f[p]]
    BY <1>2, <1>4 DEF Stale
  <2>4. \A p \in P : Stale(f, c)[p] \in IF p = "rules" THEN Table ELSE Inputs
    BY <1>1, <2>2, <2>3, ShownParts
  <2>5. Stale(f, c) \in Shown(P)
    <3>1. Stale(f, c) = [p \in P |-> Stale(f, c)[p]]
      BY <2>3
    <3>2. QED  BY <3>1, <2>4, ShownParts
  <2>6. QED  BY <1>4, <2>2, <2>3, <2>5
<1>5. QED  BY <1>3, <1>4

\* A mask begins with a star, or is empty.
LEMMA MaskHides ==
  ASSUME NEW s \in Seq(Chars)
  PROVE  Mask(s) \in Seq(Chars \cup {"*"}) /\ Mask(s) \notin Secrets
<1> DEFINE C == Chars \cup {"*"}
<1>1. CASE s = <<>>
  BY <1>1, SecretsAssumption DEF Mask
<1>2. CASE s # <<>> /\ Len(s) > 4
  <2>1. Mask(s) = [i \in 1..Len(s) |-> IF i <= Len(s) - 4 THEN "*" ELSE s[i]]
    BY <1>2 DEF Mask
  <2>2. \A i \in 1..Len(s) : s[i] \in Chars
    OBVIOUS
  <2>3. Mask(s) \in [1..Len(s) -> C] /\ Mask(s)[1] = "*"
    BY <2>1, <2>2, <1>2
  <2>4. Mask(s) \in Seq(C)
    BY <2>3, SeqDef
  <2>5. Mask(s) \notin Seq(Chars)
    <3>1. 1 \in 1..Len(Mask(s))
      BY <2>3, <2>4, <1>2
    <3>2. QED  BY <3>1, <2>3, ElementOfSeq, SecretsAssumption
  <2>6. QED  BY <2>4, <2>5, SecretsAssumption
<1>3. CASE s # <<>> /\ ~(Len(s) > 4)
  <2>1. Mask(s) = <<"*", "*", "*", "*">>
    BY <1>3 DEF Mask
  <2>2. <<"*", "*", "*", "*">> \in Seq(C)
    OBVIOUS
  <2>3. <<"*", "*", "*", "*">> \notin Seq(Chars)
    <3>1. <<"*", "*", "*", "*">>[1] = "*" /\ 1 \in 1..Len(<<"*", "*", "*", "*">>)
      OBVIOUS
    <3>2. QED  BY <3>1, ElementOfSeq, SecretsAssumption
  <2>4. QED  BY <2>1, <2>2, <2>3, SecretsAssumption
<1>4. QED  BY <1>1, <1>2, <1>3

LEMMA Forms ==
  ASSUME NEW row \in {Nil} \cup Row
  PROVE  /\ FormOf(row) \in Inputs
         /\ FormOf(row).mask \notin Secrets
         /\ FormOf(row).secret = <<>>
         /\ FormOf(row).fresh =>
              /\ row \in Row
              /\ FormOf(row).text = row.text
              /\ FormOf(row).enabled = row.enabled
<1>1. CASE row = Nil
  <2>1. FormOf(row) = [secret |-> <<>>, mask |-> <<>>, text |-> NoText, enabled |-> FALSE,
                       fresh |-> FALSE]
    BY <1>1 DEF FormOf, Unconfigured, Form
  <2>2. <<>> \in Seq(Chars) /\ <<>> \in Seq(Chars \cup {"*"}) /\ NoText \in Texted
    BY DEF Texted
  <2>3. FormOf(row) \in Inputs
    BY <2>1, <2>2 DEF Inputs
  <2>4. ~FormOf(row).fresh /\ FormOf(row).secret = <<>> /\ FormOf(row).mask = <<>>
    BY <2>1
  <2>5. QED  BY <2>3, <2>4, SecretsAssumption
<1>2. CASE row # Nil
  <2>1. FormOf(row) = [secret |-> <<>>, mask |-> Mask(row.secret), text |-> row.text,
                       enabled |-> row.enabled, fresh |-> TRUE]
    BY <1>2 DEF FormOf, Form
  <2>2. row \in Row /\ row.secret \in Seq(Chars) /\ row.text \in Texted /\ row.enabled \in BOOLEAN
    BY <1>2 DEF Row
  <2>3. Mask(row.secret) \in Seq(Chars \cup {"*"}) /\ Mask(row.secret) \notin Secrets
    BY <2>2, MaskHides
  <2>4. <<>> \in Seq(Chars)
    OBVIOUS
  <2>5. QED  BY <2>1, <2>2, <2>3, <2>4 DEF Inputs
<1>3. QED  BY <1>1, <1>2

-----------------------------------------------------------------------------
(* Type correctness                                                        *)

\* What a page that is being loaded lacks is still to be read.
Filled ==
  \A r \in Requests : req[r] # Nil /\ tab[req[r].tab] = Nil =>
    Part = DOMAIN req[r].read \cup RangeOf(req[r].todo)

TypeInv == TypeOK /\ Filled

LEMMA AnswerParts ==
  ASSUME NEW a \in Answer
  PROVE  /\ a.tab \in Tabs /\ a.csrf \in Nat /\ a.todo \in Seq(Part) /\ a.held \subseteq Table
         /\ DOMAIN a.read \subseteq Part
         /\ a.read \in Shown(DOMAIN a.read)
<1>1. PICK parts \in SUBSET Part : a.read \in Shown(parts)
  BY DEF Answer
<1>2. DOMAIN a.read = parts
  BY <1>1, ShownParts
<1>3. QED  BY <1>1, <1>2 DEF Answer

LEMMA NothingShown == <<>> \in Shown({}) /\ DOMAIN <<>> = {}
<1>1. <<>> = [p \in {} |-> <<>>[p]] /\ DOMAIN <<>> = {}
  OBVIOUS
<1>2. QED  BY <1>1, ShownParts

LEMMA AskingTyped ==
  ASSUME TypeOK, NEW t \in Tabs, NEW queries \in Seq(Part), NEW rs \in Table
  PROVE  /\ Asking(t, queries, rs) \in Answer
         /\ Asking(t, queries, rs).tab = t
         /\ Asking(t, queries, rs).todo = queries
         /\ Asking(t, queries, rs).read = <<>>
         /\ Asking(t, queries, rs).held = {rs}
<1>1. Asking(t, queries, rs) =
        [tab |-> t, csrf |-> token, todo |-> queries, read |-> <<>>, held |-> {rs}]
  BY DEF Asking
<1>2. token \in Nat /\ {rs} \in SUBSET Table
  BY DEF TypeOK
<1>3. <<>> \in UNION {Shown(parts) : parts \in SUBSET Part}
  BY NothingShown
<1>4. QED  BY <1>1, <1>2, <1>3 DEF Answer

LEMMA HeldTyped ==
  ASSUME TypeOK, NEW rs \in Table
  PROVE  /\ Held(rs) \in [Requests -> {Nil} \cup Answer]
         /\ \A q \in Requests : Held(rs)[q] = Nil <=> req[q] = Nil
         /\ \A q \in Requests : req[q] # Nil =>
              /\ Held(rs)[q].tab = req[q].tab
              /\ Held(rs)[q].todo = req[q].todo
              /\ Held(rs)[q].read = req[q].read
              /\ Held(rs)[q].held = req[q].held \cup {rs}
<1>1. ASSUME NEW q \in Requests, req[q] # Nil
      PROVE  /\ Held(rs)[q] \in Answer
             /\ Held(rs)[q].tab = req[q].tab
             /\ Held(rs)[q].todo = req[q].todo
             /\ Held(rs)[q].read = req[q].read
             /\ Held(rs)[q].held = req[q].held \cup {rs}
  <2>1. req[q] \in Answer
    BY <1>1 DEF TypeOK
  <2>2. Held(rs)[q] = [req[q] EXCEPT !.held = @ \cup {rs}]
    BY <1>1 DEF Held
  <2>3. QED  BY <2>1, <2>2 DEF Answer
<1>2. \A q \in Requests : req[q] = Nil => Held(rs)[q] = Nil
  BY DEF Held
<1>3. Held(rs) = [q \in Requests |-> Held(rs)[q]]
  BY DEF Held
<1>4. QED  BY <1>1, <1>2, <1>3, NilAssumption

LEMMA LoadTyped ==
  ASSUME TypeInv, NEW r \in Requests, NEW t \in Tabs, Load(r, t)
  PROVE  TypeInv'
<1> DEFINE queries == <<"rules">> \o Channels
           ask == Asking(t, queries, rules)
<1>1. queries \in Seq(Part) /\ RangeOf(queries) = Part
  BY ChannelsArePart
<1>2. ask \in Answer /\ ask.tab = t /\ ask.todo = queries /\ ask.read = <<>>
  <2>1. TypeOK /\ rules \in Table
    BY DEF TypeInv, TypeOK
  <2> HIDE DEF queries
  <2>2. QED  BY <1>1, <2>1, AskingTyped
<1> HIDE DEF ask, queries
<1>3. /\ req' = [q \in Requests |->
                 IF q = r THEN ask
                 ELSE IF req[q] # Nil /\ req[q].tab = t THEN Nil ELSE req[q]]
      /\ tab' = [tab EXCEPT ![t] = Nil]
      /\ UNCHANGED <<config, rules, token, faults>>
  BY DEF Load, ask, queries
<1>4. TypeOK'
  <2>1. req' \in [Requests -> {Nil} \cup Answer]
    BY <1>2, <1>3 DEF TypeInv, TypeOK
  <2>2. tab' \in [Tabs -> {Nil} \cup Page]
    BY <1>3 DEF TypeInv, TypeOK
  <2>3. QED  BY <1>3, <2>1, <2>2 DEF TypeInv, TypeOK
<1>5. ASSUME NEW q \in Requests, req'[q] # Nil, tab'[req'[q].tab] = Nil
      PROVE  Part = DOMAIN req'[q].read \cup RangeOf(req'[q].todo)
  <2>1. CASE q = r
    BY <1>1, <1>2, <1>3, <2>1, NothingShown
  <2>2. CASE q # r
    <3>1. req'[q] = req[q] /\ req[q] # Nil /\ req[q].tab # t
      BY <1>3, <1>5, <2>2
    <3>2. req[q].tab \in Tabs
      BY <3>1, AnswerParts DEF TypeInv, TypeOK
    <3>3. tab'[req[q].tab] = tab[req[q].tab]
      BY <1>3, <3>1, <3>2 DEF TypeInv, TypeOK
    <3>4. QED  BY <1>5, <3>1, <3>3 DEF TypeInv, Filled
  <2>3. QED  BY <2>1, <2>2
<1>6. QED  BY <1>4, <1>5 DEF TypeInv, Filled

LEMMA UnconfiguredTyped ==
  /\ Unconfigured \in Inputs
  /\ Unconfigured.secret = <<>> /\ Unconfigured.mask = <<>> /\ Unconfigured.fresh = FALSE
<1>1. Unconfigured = [secret |-> <<>>, mask |-> <<>>, text |-> NoText, enabled |-> FALSE,
                      fresh |-> FALSE]
  BY DEF Unconfigured, Form
<1>2. <<>> \in Seq(Chars) /\ <<>> \in Seq(Chars \cup {"*"}) /\ NoText \in Texted
  BY DEF Texted
<1>3. QED  BY <1>1, <1>2 DEF Inputs

\* A query of a request, answered or failed.
LEMMA ReadStep ==
  ASSUME TypeOK, NEW r \in Requests, Read(r)
  PROVE  \E shown, held :
           LET p == Head(req[r].todo)
           IN /\ p = "rules" => \/ shown = rules /\ held = {}
                                \/ shown = <<>> /\ held = {<<>>}
              /\ p # "rules" => shown \in {FormOf(config[p]), Unconfigured} /\ held = {}
              /\ req' = [req EXCEPT ![r] =
                   [tab |-> @.tab, csrf |-> @.csrf, todo |-> Tail(@.todo),
                    read |-> Over([x \in {p} |-> shown], @.read), held |-> @.held \cup held]]
<1> DEFINE p == Head(req[r].todo)
           Got(shown, held) ==
             req' = [req EXCEPT ![r] =
               [tab |-> @.tab, csrf |-> @.csrf, todo |-> Tail(@.todo),
                read |-> Over([x \in {p} |-> shown], @.read), held |-> @.held \cup held]]
<1>1. \/ IF p = "rules" THEN Got(rules, {}) ELSE Got(FormOf(config[p]), {})
      \/ IF p = "rules" THEN Got(<<>>, {<<>>}) ELSE Got(Unconfigured, {})
  BY DEF Read
<1> HIDE DEF Got, p
<1>2. \E shown, held :
        /\ p = "rules" => \/ shown = rules /\ held = {}
                          \/ shown = <<>> /\ held = {<<>>}
        /\ p # "rules" => shown \in {FormOf(config[p]), Unconfigured} /\ held = {}
        /\ Got(shown, held)
  BY <1>1
<1>3. QED  BY <1>2 DEF Got, p

\* What it leaves.
ReadBy(r, shown, held) ==
  LET p == Head(req[r].todo)
      new == [x \in {p} |-> shown]
  IN /\ p = "rules" => \/ shown = rules /\ held = {}
                       \/ shown = <<>> /\ held = {<<>>}
     /\ p # "rules" => shown \in {FormOf(config[p]), Unconfigured} /\ held = {}
     /\ p \in Part /\ new \in Shown({p})
     /\ req[r] \in Answer /\ req'[r] \in Answer
     /\ req'[r].tab = req[r].tab
     /\ req'[r].todo = Tail(req[r].todo)
     /\ req'[r].held = req[r].held \cup held
     /\ req'[r].read = Over(new, req[r].read)
     /\ DOMAIN req'[r].read = {p} \cup DOMAIN req[r].read
     /\ req' = [req EXCEPT ![r] = req'[r]]

LEMMA ReadFields ==
  ASSUME TypeOK, NEW r \in Requests, Read(r)
  PROVE  \E shown, held : ReadBy(r, shown, held)
<1> DEFINE p == Head(req[r].todo)
<1>1. PICK shown, held :
        /\ p = "rules" => \/ shown = rules /\ held = {}
                          \/ shown = <<>> /\ held = {<<>>}
        /\ p # "rules" => shown \in {FormOf(config[p]), Unconfigured} /\ held = {}
        /\ req' = [req EXCEPT ![r] =
             [tab |-> @.tab, csrf |-> @.csrf, todo |-> Tail(@.todo),
              read |-> Over([x \in {p} |-> shown], @.read), held |-> @.held \cup held]]
  BY ReadStep
<1> DEFINE new == [x \in {p} |-> shown]
           read == Over(new, req[r].read)
<1>2. req[r] \in Answer /\ req[r].todo \in Seq(Part) /\ req[r].todo # <<>>
  BY AnswerParts DEF TypeOK, Read
<1>3. p \in Part /\ Tail(req[r].todo) \in Seq(Part)
  BY <1>2, HeadTail
<1>4. shown \in (IF p = "rules" THEN Table ELSE Inputs) /\ held \subseteq Table
  <2>1. CASE p = "rules"
    <3>1. rules \in Table /\ <<>> \in Table
      BY DEF TypeOK, Table
    <3>2. QED  BY <1>1, <2>1, <3>1
  <2>2. CASE p # "rules"
    <3>1. config[p] \in {Nil} \cup Row
      BY <1>3, <2>2 DEF TypeOK, Part
    <3>2. FormOf(config[p]) \in Inputs /\ Unconfigured \in Inputs
      BY <3>1, Forms, UnconfiguredTyped
    <3>3. QED  BY <1>1, <2>2, <3>2
  <2>3. QED  BY <2>1, <2>2
<1>5. new \in Shown({p})
  <2>1. new = [x \in {p} |-> new[x]] /\ \A x \in {p} : x = p /\ new[x] = shown
    OBVIOUS
  <2>2. QED  BY <1>4, <2>1, ShownParts
<1>6. /\ read \in Shown({p} \cup DOMAIN req[r].read)
      /\ DOMAIN read = {p} \cup DOMAIN req[r].read
      /\ {p} \cup DOMAIN req[r].read \subseteq Part
  <2> HIDE DEF new, p
  <2>1. /\ DOMAIN req[r].read \subseteq Part
        /\ req[r].read \in Shown(DOMAIN req[r].read)
    BY <1>2, AnswerParts
  <2> DEFINE D == DOMAIN req[r].read
  <2>2. {p} \cup D \subseteq Part
    BY <1>3, <2>1
  <2>3. req[r].read \in Shown(D)
    BY <2>1
  <2> DEFINE g == req[r].read
  <2>4. g \in Shown(D)
    BY <2>3
  <2> HIDE DEF D, g
  <2>5. Over(new, g) \in Shown({p} \cup D) /\ DOMAIN Over(new, g) = {p} \cup D
    BY <1>5, <2>4, OverShown
  <2>6. QED  BY <2>2, <2>5 DEF D, g
<1>7. read \in UNION {Shown(parts) : parts \in SUBSET Part}
  BY <1>6
<1> DEFINE rec == [tab |-> req[r].tab, csrf |-> req[r].csrf, todo |-> Tail(req[r].todo),
                   held |-> req[r].held \cup held, read |-> read]
<1>8. rec \in Answer
  <2>1. req[r].tab \in Tabs /\ req[r].csrf \in Nat /\ req[r].held \cup held \in SUBSET Table
    BY <1>2, <1>4, AnswerParts
  <2> HIDE DEF read
  <2>2. QED  BY <1>3, <1>7, <2>1 DEF Answer
<1>9. req' = [req EXCEPT ![r] = rec]
  <2>1. req \in [Requests -> {Nil} \cup Answer]
    BY DEF TypeOK
  <2>2. QED  BY <1>1, <2>1
<1>10. req'[r] = rec /\ req' = [req EXCEPT ![r] = req'[r]]
  <2> HIDE DEF rec
  <2>1. req \in [Requests -> {Nil} \cup Answer]
    BY DEF TypeOK
  <2>2. QED  BY <1>9, <2>1
<1>11. rec.tab = req[r].tab /\ rec.todo = Tail(req[r].todo)
       /\ rec.held = req[r].held \cup held /\ rec.read = read
  OBVIOUS
<1> HIDE DEF rec
<1>12. /\ p \in Part /\ new \in Shown({p})
       /\ req[r] \in Answer /\ req'[r] \in Answer
       /\ req'[r].tab = req[r].tab
       /\ req'[r].todo = Tail(req[r].todo)
       /\ req'[r].held = req[r].held \cup held
       /\ req'[r].read = Over(new, req[r].read)
       /\ DOMAIN req'[r].read = {p} \cup DOMAIN req[r].read
       /\ req' = [req EXCEPT ![r] = req'[r]]
  <2> HIDE DEF new, p
  <2>1. QED  BY <1>2, <1>3, <1>5, <1>6, <1>8, <1>10, <1>11
<1>13. ReadBy(r, shown, held)
  <2> SUFFICES /\ p = "rules" => \/ shown = rules /\ held = {}
                                 \/ shown = <<>> /\ held = {<<>>}
               /\ p # "rules" => shown \in {FormOf(config[p]), Unconfigured} /\ held = {}
               /\ p \in Part /\ new \in Shown({p})
               /\ req[r] \in Answer /\ req'[r] \in Answer
               /\ req'[r].tab = req[r].tab
               /\ req'[r].todo = Tail(req[r].todo)
               /\ req'[r].held = req[r].held \cup held
               /\ req'[r].read = Over(new, req[r].read)
               /\ DOMAIN req'[r].read = {p} \cup DOMAIN req[r].read
               /\ req' = [req EXCEPT ![r] = req'[r]]
    BY Zenon DEF ReadBy
  <2> HIDE DEF p, new
  <2>1. QED  BY <1>1, <1>12
<1>14. QED  BY <1>13

LEMMA FaultTyped ==
  ASSUME TypeOK, Fault \/ UNCHANGED faults
  PROVE  faults' \in Nat
BY DEF TypeOK, Fault

LEMMA ReadTyped ==
  ASSUME TypeInv, NEW r \in Requests, Read(r)
  PROVE  TypeInv'
<1>1. TypeOK
  BY DEF TypeInv
<1>2. /\ req[r] \in Answer /\ req'[r] \in Answer
      /\ req'[r].tab = req[r].tab
      /\ req'[r].todo = Tail(req[r].todo)
      /\ DOMAIN req'[r].read = {Head(req[r].todo)} \cup DOMAIN req[r].read
      /\ req' = [req EXCEPT ![r] = req'[r]]
  <2>1. PICK shown, held : ReadBy(r, shown, held)
    BY <1>1, ReadFields
  <2>2. QED  BY <2>1, Zenon DEF ReadBy
<1>3. UNCHANGED <<config, rules, token, tab>> /\ (Fault \/ UNCHANGED faults) /\ req[r] # Nil
      /\ req[r].todo # <<>>
  BY DEF Read
<1>4. TypeOK'
  <2>1. req' \in [Requests -> {Nil} \cup Answer]
    BY <1>1, <1>2 DEF TypeOK
  <2>2. faults' \in Nat
    BY <1>1, <1>3, FaultTyped
  <2>3. QED  BY <1>1, <1>3, <2>1, <2>2 DEF TypeOK
<1>5. ASSUME NEW q \in Requests, req'[q] # Nil, tab'[req'[q].tab] = Nil
      PROVE  Part = DOMAIN req'[q].read \cup RangeOf(req'[q].todo)
  <2>1. CASE q = r
    <3>1. Part = DOMAIN req[r].read \cup RangeOf(req[r].todo)
      BY <1>2, <1>3, <1>5, <2>1 DEF TypeInv, Filled
    <3>2. req[r].todo \in Seq(Part)
      BY <1>2, AnswerParts
    <3>3. RangeOf(req[r].todo) \subseteq {Head(req[r].todo)} \cup RangeOf(Tail(req[r].todo))
      BY <1>3, <3>2, HeadTail
    <3>4. DOMAIN req'[r].read \subseteq Part /\ req'[r].todo \in Seq(Part)
      BY <1>2, AnswerParts
    <3>5. RangeOf(req'[r].todo) \subseteq Part
      BY <3>4 DEF RangeOf
    <3>6. QED  BY <1>2, <2>1, <3>1, <3>3, <3>4, <3>5
  <2>2. CASE q # r
    <3>1. req'[q] = req[q]
      BY <1>1, <1>2, <2>2 DEF TypeOK
    <3>2. QED  BY <1>3, <1>5, <3>1 DEF TypeInv, Filled
  <2>3. QED  BY <2>1, <2>2
<1>6. QED  BY <1>4, <1>5 DEF TypeInv, Filled

LEMMA ShowPageTyped ==
  ASSUME TypeInv, NEW r \in Requests, ShowPage(r)
  PROVE  TypeInv'
<1>1. TypeOK /\ req[r] \in Answer /\ req[r].tab \in Tabs
  BY AnswerParts DEF TypeInv, TypeOK, ShowPage
<1>2. PICK csrf \in {req[r].csrf, NoToken} :
        tab' = [tab EXCEPT ![req[r].tab] = [csrf |-> csrf, part |-> req[r].read]]
  BY DEF ShowPage
<1>3. /\ UNCHANGED <<config, rules, token>> /\ (Fault \/ UNCHANGED faults)
      /\ req' = [req EXCEPT ![r] = Nil]
      /\ req[r] # Nil /\ req[r].todo = <<>> /\ tab[req[r].tab] = Nil
  BY DEF ShowPage
<1>4. [csrf |-> csrf, part |-> req[r].read] \in Page
  <2>1. Part = DOMAIN req[r].read
    <3>1. RangeOf(<<>>) = {}
      BY DEF RangeOf
    <3>2. Part = DOMAIN req[r].read \cup RangeOf(req[r].todo)
      BY <1>3 DEF TypeInv, Filled
    <3>3. QED  BY <1>3, <3>1, <3>2
  <2>2. req[r].read \in Shown(Part) /\ req[r].csrf \in Nat
    BY <1>1, <2>1, AnswerParts
  <2>3. QED  BY <2>2 DEF Page, NoToken
<1>5. TypeOK'
  <2>1. faults' \in Nat
    BY <1>1, <1>3, FaultTyped
  <2>2. tab' \in [Tabs -> {Nil} \cup Page]
    BY <1>1, <1>2, <1>4 DEF TypeOK
  <2>3. req' \in [Requests -> {Nil} \cup Answer]
    BY <1>1, <1>3 DEF TypeOK
  <2>4. QED  BY <1>1, <1>3, <2>1, <2>2, <2>3 DEF TypeOK
<1>6. ASSUME NEW q \in Requests, req'[q] # Nil, tab'[req'[q].tab] = Nil
      PROVE  Part = DOMAIN req'[q].read \cup RangeOf(req'[q].todo)
  <2>1. q # r /\ req'[q] = req[q] /\ req[q] \in Answer
    BY <1>1, <1>3, <1>6 DEF TypeOK
  <2>2. req[q].tab \in Tabs
    BY <2>1, AnswerParts
  <2>3. tab[req[q].tab] = Nil
    BY <1>1, <1>2, <1>3, <1>4, <1>6, <2>1, <2>2 DEF TypeOK
  <2>4. QED  BY <1>6, <2>1, <2>3 DEF TypeInv, Filled
<1>7. QED  BY <1>5, <1>6 DEF TypeInv, Filled

LEMMA ShowTableTyped ==
  ASSUME TypeInv, NEW r \in Requests, ShowTable(r)
  PROVE  TypeInv'
<1> DEFINE t == req[r].tab
<1>1. TypeOK /\ req[r] \in Answer /\ t \in Tabs /\ tab[t] \in Page
  BY AnswerParts DEF TypeInv, TypeOK, ShowTable
<1>2. /\ UNCHANGED <<config, rules, token, faults>>
      /\ req' = [req EXCEPT ![r] = Nil]
      /\ tab' = [tab EXCEPT ![t].part = Over(req[r].read, @)]
      /\ tab[t] # Nil
  BY DEF ShowTable
<1> HIDE DEF t
<1>3. Over(req[r].read, tab[t].part) \in Shown(Part)
  <2>1. tab[t].part \in Shown(Part)
    BY <1>1 DEF Page
  <2> DEFINE D == DOMAIN req[r].read
  <2>2. req[r].read \in Shown(D) /\ D \cup Part = Part
    BY <1>1, AnswerParts
  <2> HIDE DEF D
  <2>3. QED  BY <2>1, <2>2, OverShown
<1>4. tab' \in [Tabs -> {Nil} \cup Page] /\ tab'[t] \in Page
  <2>1. [tab[t] EXCEPT !.part = Over(req[r].read, tab[t].part)] \in Page
    <3>1. \A part \in Shown(Part) : [tab[t] EXCEPT !.part = part] \in Page
      BY <1>1 DEF Page
    <3>2. QED  BY <1>3, <3>1
  <2>2. tab' = [tab EXCEPT ![t] = [tab[t] EXCEPT !.part = Over(req[r].read, tab[t].part)]]
    BY <1>2
  <2>3. QED  BY <1>1, <2>1, <2>2 DEF TypeOK
<1>5. TypeOK'
  <2>1. req' \in [Requests -> {Nil} \cup Answer]
    BY <1>1, <1>2 DEF TypeOK
  <2>2. QED  BY <1>1, <1>2, <1>4, <2>1 DEF TypeOK
<1>6. ASSUME NEW q \in Requests, req'[q] # Nil, tab'[req'[q].tab] = Nil
      PROVE  Part = DOMAIN req'[q].read \cup RangeOf(req'[q].todo)
  <2>1. q # r /\ req'[q] = req[q] /\ req[q] \in Answer
    BY <1>1, <1>2, <1>6 DEF TypeOK
  <2>2. req[q].tab \in Tabs /\ req[q].tab # t
    BY <1>4, <1>6, <2>1, AnswerParts, NilAssumption
  <2>3. tab[req[q].tab] = Nil
    BY <1>1, <1>2, <1>6, <2>1, <2>2 DEF TypeOK
  <2>4. QED  BY <1>6, <2>1, <2>3 DEF TypeInv, Filled
<1>7. QED  BY <1>5, <1>6 DEF TypeInv, Filled

\* A click, whatever it makes of the rules.
LEMMA ClickTyped ==
  ASSUME TypeInv, NEW r \in Requests \cup {Nil}, NEW t \in Tabs, NEW rs \in Table,
         Accepted(t), Click(r, t, rs)
  PROVE  TypeInv'
<1> DEFINE query == <<"rules">>
           ask == Asking(t, query, rs)
<1>1. TypeOK
  BY DEF TypeInv
<1>2. ask \in Answer /\ ask.tab = t
  <2>1. query \in Seq(Part)
    BY ChannelsArePart
  <2> HIDE DEF query
  <2>2. QED  BY <1>1, <2>1, AskingTyped
<1>3. /\ Held(rs) \in [Requests -> {Nil} \cup Answer]
      /\ \A q \in Requests : Held(rs)[q] = Nil <=> req[q] = Nil
      /\ \A q \in Requests : req[q] # Nil =>
           /\ Held(rs)[q].tab = req[q].tab
           /\ Held(rs)[q].todo = req[q].todo
           /\ Held(rs)[q].read = req[q].read
  BY <1>1, HeldTyped
<1>4. /\ rules' = rs /\ UNCHANGED <<config, token, tab, faults>>
      /\ req' = [q \in Requests |-> IF q = r THEN ask ELSE Held(rs)[q]]
      /\ tab[t] # Nil
  BY DEF Click, Accepted
<1> HIDE DEF ask
<1>5. TypeOK'
  <2>1. req' \in [Requests -> {Nil} \cup Answer]
    BY <1>2, <1>3, <1>4
  <2>2. QED  BY <1>1, <1>4, <2>1 DEF TypeOK
<1>6. ASSUME NEW q \in Requests, req'[q] # Nil, tab'[req'[q].tab] = Nil
      PROVE  Part = DOMAIN req'[q].read \cup RangeOf(req'[q].todo)
  <2>1. q # r
    BY <1>2, <1>4, <1>6
  <2>2. req'[q] = Held(rs)[q]
    BY <1>4, <2>1
  <2>3. req[q] # Nil /\ tab[req[q].tab] = Nil
    BY <1>3, <1>4, <1>6, <2>2
  <2>4. QED  BY <1>3, <2>2, <2>3 DEF TypeInv, Filled
<1>7. QED  BY <1>5, <1>6 DEF TypeInv, Filled

\* The rules after a click.
LEMMA RuleClicks ==
  ASSUME TypeOK, NEW r \in Requests \cup {Nil}, NEW t \in Tabs,
         Create(r, t) \/ \E i \in DOMAIN rules : Toggle(r, t, i) \/ Delete(r, t, i)
  PROVE  \E rs \in Table : Accepted(t) /\ Click(r, t, rs)
<1>1. rules \in Table
  BY DEF TypeOK
<1>2. CASE Create(r, t)
  <2>1. Append(rules, "on") \in Table
    BY <1>1 DEF Table
  <2>2. QED  BY <1>2, <2>1 DEF Create
<1>3. CASE \E i \in DOMAIN rules : Toggle(r, t, i)
  <2>1. PICK i \in DOMAIN rules : Toggle(r, t, i)
    BY <1>3
  <2>2. [rules EXCEPT ![i] = Flipped(@)] \in Table
    <3>1. rules[i] \in {"on", "off", "gone"}
      BY <1>1 DEF Table
    <3>2. Flipped(rules[i]) \in {"on", "off", "gone"}
      BY <3>1 DEF Flipped
    <3>3. QED  BY <1>1, <2>1, <3>2, ExceptSeq DEF Table
  <2>3. QED  BY <2>1, <2>2 DEF Toggle
<1>4. CASE \E i \in DOMAIN rules : Delete(r, t, i)
  <2>1. PICK i \in DOMAIN rules : Delete(r, t, i)
    BY <1>4
  <2>2. [rules EXCEPT ![i] = "gone"] \in Table
    BY <1>1, <2>1, ExceptSeq DEF Table
  <2>3. QED  BY <2>1, <2>2 DEF Delete
<1>5. QED  BY <1>2, <1>3, <1>4

\* The form that was saved.
Stays(t, c, secret, text, enabled) ==
  tab'[t].part[c] = Form(secret, tab[t].part[c].mask, text, enabled, TRUE)

\* The pages after a save: the tab's own inputs, and the others, told apart.
LEMMA SavedPages ==
  ASSUME TypeOK, NEW t \in Tabs, NEW c \in Channel, NEW secret \in Seq(Chars),
         NEW text \in Texted, NEW enabled \in BOOLEAN, Save(t, c, secret, text, enabled)
  PROVE  /\ tab[t] \in Page /\ tab'[t] \in Page
         /\ \A p \in Part \ {c} : tab'[t].part[p] = tab[t].part[p]
         /\ Stays(t, c, secret, text, enabled)
         /\ \A u \in Tabs \ {t} :
              /\ tab[u] = Nil <=> tab'[u] = Nil
              /\ tab[u] # Nil => /\ tab'[u] \in Page /\ tab[u] \in Page
                                 /\ tab'[u].part = Stale(tab[u].part, c)
         /\ tab' \in [Tabs -> {Nil} \cup Page]
<1>1. /\ tab' = [u \in Tabs |->
                   IF tab[u] = Nil THEN Nil
                   ELSE IF u # t THEN [tab[u] EXCEPT !.part = Stale(@, c)]
                   ELSE [tab[u] EXCEPT !.part[c] = Form(secret, @.mask, text, enabled, TRUE)]]
      /\ tab[t] \in Page /\ tab[t] # Nil
  BY DEF Save, Accepted, TypeOK
<1>2. c # "rules" /\ c \in Part
  BY ChannelsArePart DEF Part
<1> DEFINE form == Form(secret, tab[t].part[c].mask, text, enabled, TRUE)
           part == [tab[t].part EXCEPT ![c] = form]
<1>3. tab[t].part \in Shown(Part) /\ DOMAIN tab[t].part = Part
  BY <1>1, ShownParts DEF Page
<1>4. form \in Inputs
  <2>1. tab[t].part[c] \in Inputs
    BY <1>2, <1>3, ShownParts
  <2>2. tab[t].part[c].mask \in Seq(Chars \cup {"*"})
    BY <2>1 DEF Inputs
  <2>3. QED  BY <2>2 DEF Inputs, Form
<1> HIDE DEF form
<1>5. part \in Shown(Part) /\ part[c] = form /\ \A p \in Part \ {c} : part[p] = tab[t].part[p]
  <2>1. part = [p \in Part |-> IF p = c THEN form ELSE tab[t].part[p]]
    BY <1>3
  <2>2. \A p \in Part : part[p] \in IF p = "rules" THEN Table ELSE Inputs
    BY <1>2, <1>3, <1>4, <2>1, ShownParts
  <2>3. part = [p \in Part |-> part[p]]
    BY <2>1
  <2>4. part \in Shown(Part)
    BY <2>2, <2>3, ShownParts
  <2>5. QED  BY <1>2, <2>1, <2>4
<1>6. tab'[t] = [tab[t] EXCEPT !.part = part]
  BY <1>1 DEF form
<1> HIDE DEF part
<1>7. tab'[t] \in Page /\ tab'[t].part = part
  BY <1>1, <1>5, <1>6 DEF Page
<1>8. ASSUME NEW u \in Tabs \ {t}, tab[u] # Nil
      PROVE  /\ tab[u] \in Page /\ tab'[u] \in Page
             /\ tab'[u].part = Stale(tab[u].part, c)
  <2>1. tab[u] \in Page /\ tab'[u] = [tab[u] EXCEPT !.part = Stale(tab[u].part, c)]
    BY <1>1, <1>8 DEF TypeOK
  <2>2. tab[u].part \in Shown(Part)
    BY <2>1 DEF Page
  <2> DEFINE stale == Stale(tab[u].part, c)
  <2>3. stale \in Shown(Part)
    BY <2>2, StaleShown
  <2> HIDE DEF stale
  <2>4. tab'[u] = [tab[u] EXCEPT !.part = stale]
    BY <2>1 DEF stale
  <2>5. tab'[u] \in Page /\ tab'[u].part = stale
    BY <2>1, <2>3, <2>4 DEF Page
  <2>6. QED  BY <2>1, <2>5 DEF stale
<1>9. \A u \in Tabs \ {t} : tab[u] = Nil => tab'[u] = Nil
  BY <1>1
<1>10. tab' \in [Tabs -> {Nil} \cup Page]
  <2>1. tab' = [u \in Tabs |-> tab'[u]]
    BY <1>1
  <2>2. \A u \in Tabs : tab'[u] \in {Nil} \cup Page
    BY <1>7, <1>8, <1>9
  <2>3. QED  BY <2>1, <2>2
<1>11. Stays(t, c, secret, text, enabled)
  BY <1>5, <1>7 DEF form, Stays
<1>12. QED  BY <1>1, <1>5, <1>7, <1>8, <1>9, <1>10, <1>11, NilAssumption

\* The requests after a save.
LEMMA SavedReads ==
  ASSUME TypeOK, NEW t \in Tabs, NEW c \in Channel, NEW secret \in Seq(Chars),
         NEW text \in Texted, NEW enabled \in BOOLEAN, Save(t, c, secret, text, enabled)
  PROVE  /\ req' \in [Requests -> {Nil} \cup Answer]
         /\ \A q \in Requests :
              /\ req[q] = Nil <=> req'[q] = Nil
              /\ req[q] # Nil => /\ req[q] \in Answer /\ req'[q] \in Answer
                                 /\ req'[q].tab = req[q].tab
                                 /\ req'[q].todo = req[q].todo
                                 /\ req'[q].held = req[q].held
                                 /\ req'[q].read = Stale(req[q].read, c)
<1>1. req' = [q \in Requests |->
                IF req[q] = Nil THEN Nil ELSE [req[q] EXCEPT !.read = Stale(@, c)]]
  BY DEF Save
<1>2. ASSUME NEW q \in Requests, req[q] # Nil
      PROVE  /\ req[q] \in Answer /\ req'[q] \in Answer
             /\ req'[q].tab = req[q].tab
             /\ req'[q].todo = req[q].todo
             /\ req'[q].held = req[q].held
             /\ req'[q].read = Stale(req[q].read, c)
  <2>1. req[q] \in Answer
    BY <1>2 DEF TypeOK
  <2> DEFINE D == DOMAIN req[q].read
             stale == Stale(req[q].read, c)
  <2>2. D \in SUBSET Part /\ stale \in Shown(D)
    BY <2>1, AnswerParts, StaleShown
  <2>3. stale \in UNION {Shown(parts) : parts \in SUBSET Part}
    <3> HIDE DEF D, stale
    <3>1. QED  BY <2>2
  <2> HIDE DEF D, stale
  <2>4. req'[q] = [req[q] EXCEPT !.read = stale]
    BY <1>1, <1>2 DEF stale
  <2>5. /\ req'[q] \in Answer
        /\ req'[q].tab = req[q].tab
        /\ req'[q].todo = req[q].todo
        /\ req'[q].held = req[q].held
        /\ req'[q].read = stale
    BY <2>1, <2>3, <2>4 DEF Answer
  <2>6. QED  BY <2>1, <2>5 DEF stale
<1>3. \A q \in Requests : req[q] = Nil => req'[q] = Nil
  BY <1>1
<1>4. req' = [q \in Requests |-> req'[q]]
  BY <1>1
<1>5. QED  BY <1>2, <1>3, <1>4, NilAssumption

LEMMA SaveTyped ==
  ASSUME TypeInv, NEW t \in Tabs, NEW c \in Channel, NEW secret \in Seq(Chars),
         NEW text \in Texted, NEW enabled \in BOOLEAN, Save(t, c, secret, text, enabled)
  PROVE  TypeInv'
<1>1. TypeOK
  BY DEF TypeInv
<1>2. /\ tab' \in [Tabs -> {Nil} \cup Page] /\ tab[t] \in Page /\ tab'[t] \in Page
      /\ \A u \in Tabs \ {t} : tab[u] = Nil <=> tab'[u] = Nil
  <2>1. tab' \in [Tabs -> {Nil} \cup Page] /\ tab[t] \in Page /\ tab'[t] \in Page
    BY <1>1, SavedPages
  <2>2. ASSUME NEW u \in Tabs \ {t}
        PROVE  tab[u] = Nil <=> tab'[u] = Nil
    BY <1>1, SavedPages
  <2>3. QED  BY <2>1, <2>2
<1>3. /\ req' \in [Requests -> {Nil} \cup Answer]
      /\ \A q \in Requests :
           /\ req[q] = Nil <=> req'[q] = Nil
           /\ req[q] # Nil => /\ req[q] \in Answer
                              /\ req'[q].tab = req[q].tab
                              /\ req'[q].todo = req[q].todo
                              /\ req'[q].read = Stale(req[q].read, c)
  BY <1>1, SavedReads
<1>4. TypeOK'
  <2>1. [secret |-> secret, text |-> text, enabled |-> enabled] \in Row
    BY DEF Row
  <2>2. config' \in [Channel -> {Nil} \cup Row]
    BY <1>1, <2>1 DEF Save, TypeOK
  <2>3. UNCHANGED <<rules, token, faults>>
    BY DEF Save
  <2>4. QED  BY <1>1, <1>2, <1>3, <2>2, <2>3 DEF TypeOK
<1>5. ASSUME NEW q \in Requests, req'[q] # Nil, tab'[req'[q].tab] = Nil
      PROVE  Part = DOMAIN req'[q].read \cup RangeOf(req'[q].todo)
  <2>1. req[q] # Nil /\ req[q] \in Answer /\ req[q].tab \in Tabs /\ req'[q].tab = req[q].tab
    BY <1>3, <1>5, AnswerParts
  <2>2. tab[req[q].tab] = Nil
    BY <1>2, <1>5, <2>1, NilAssumption
  <2>3. Part = DOMAIN req[q].read \cup RangeOf(req[q].todo)
    BY <2>1, <2>2 DEF TypeInv, Filled
  <2>4. DOMAIN Stale(req[q].read, c) = DOMAIN req[q].read
    BY <2>1, AnswerParts, StaleShown
  <2>5. QED  BY <1>3, <2>1, <2>3, <2>4
<1>6. QED  BY <1>4, <1>5 DEF TypeInv, Filled

\* What an edited form is saved with.
LEMMA EditSaves ==
  ASSUME TypeOK, NEW t \in Tabs, NEW c \in Channel, Accepted(t), Edit(t, c)
  PROVE  \E secret \in Secrets \cup {<<>>, tab[t].part[c].secret},
            text \in Texted, enabled \in BOOLEAN :
              secret \in Seq(Chars) /\ Save(t, c, secret, text, enabled)
<1>1. tab[t].part[c] \in Inputs
  <2>1. tab[t] \in Page /\ c \in Part /\ c # "rules"
    BY ChannelsArePart DEF TypeOK, Accepted, Part
  <2>2. tab[t].part \in Shown(Part)
    BY <2>1 DEF Page
  <2>3. QED  BY <2>1, <2>2, ShownParts
<1>2. tab[t].part[c].secret \in Seq(Chars) /\ tab[t].part[c].text \in Texted
  BY <1>1 DEF Inputs
<1>3. PICK secret \in Secrets \cup {<<>>, tab[t].part[c].secret},
           text \in Texts \cup {tab[t].part[c].text}, enabled \in BOOLEAN :
             Save(t, c, secret, text, enabled)
  BY DEF Edit
<1>4. <<>> \in Seq(Chars)
  OBVIOUS
<1>5. secret \in Seq(Chars) /\ text \in Texted
  BY <1>2, <1>3, <1>4, SecretsAssumption DEF Texted
<1>6. QED  BY <1>3, <1>5

LEMMA QuietTyped ==
  ASSUME TypeInv, SignIn \/ (\E t \in Tabs : WriteFails(t)) \/ UNCHANGED vars
  PROVE  TypeInv'
<1>1. UNCHANGED <<config, rules, tab, req>> /\ (Fault \/ UNCHANGED faults) /\ token' \in Nat
  BY DEF SignIn, WriteFails, vars, TypeInv, TypeOK
<1>2. faults' \in Nat
  BY <1>1, FaultTyped DEF TypeInv
<1>3. QED  BY <1>1, <1>2 DEF TypeInv, TypeOK, Filled

\* Every way a step can be one of those.
LEMMA Steps ==
  ASSUME TypeOK, [Next]_vars
  PROVE  \/ SignIn \/ (\E t \in Tabs : WriteFails(t)) \/ UNCHANGED vars
         \/ \E r \in Requests : Read(r) \/ ShowPage(r) \/ ShowTable(r)
         \/ \E r \in Requests, t \in Tabs : Load(r, t)
         \/ \E r \in Requests \cup {Nil}, t \in Tabs, rs \in Table :
              Accepted(t) /\ Click(r, t, rs)
         \/ \E t \in Tabs, c \in Channel, secret \in Seq(Chars), text \in Texted,
               enabled \in BOOLEAN :
              /\ Accepted(t)
              /\ secret \in Secrets \cup {<<>>, tab[t].part[c].secret}
              /\ Save(t, c, secret, text, enabled)
<1>1. CASE \E r \in Requests \cup {Nil}, t \in Tabs :
             Create(r, t) \/ \E i \in DOMAIN rules : Toggle(r, t, i) \/ Delete(r, t, i)
  BY <1>1, RuleClicks
<1>2. CASE \E t \in Tabs, c \in Channel : Accepted(t) /\ Edit(t, c)
  BY <1>2, EditSaves
<1>3. CASE \/ SignIn \/ (\E t \in Tabs : WriteFails(t)) \/ UNCHANGED vars
           \/ \E r \in Requests : Read(r) \/ ShowPage(r) \/ ShowTable(r)
           \/ \E r \in Requests, t \in Tabs : Load(r, t)
  BY <1>3
<1>4. QED  BY <1>1, <1>2, <1>3 DEF Next

LEMMA TypeStep == TypeInv /\ [Next]_vars => TypeInv'
<1> SUFFICES ASSUME TypeInv, [Next]_vars PROVE TypeInv'
  OBVIOUS
<1>1. TypeOK
  BY DEF TypeInv
<1>2. CASE SignIn \/ (\E t \in Tabs : WriteFails(t)) \/ UNCHANGED vars
  BY <1>2, QuietTyped
<1>3. CASE \E r \in Requests : Read(r) \/ ShowPage(r) \/ ShowTable(r)
  BY <1>3, ReadTyped, ShowPageTyped, ShowTableTyped
<1>4. CASE \E r \in Requests, t \in Tabs : Load(r, t)
  BY <1>4, LoadTyped
<1>5. CASE \E r \in Requests \cup {Nil}, t \in Tabs, rs \in Table :
             Accepted(t) /\ Click(r, t, rs)
  BY <1>5, ClickTyped
<1>6. CASE \E t \in Tabs, c \in Channel, secret \in Seq(Chars), text \in Texted,
              enabled \in BOOLEAN : Save(t, c, secret, text, enabled)
  BY <1>6, SaveTyped
<1>7. QED  BY <1>1, <1>2, <1>3, <1>4, <1>5, <1>6, Steps

LEMMA TypeInit == Init => TypeInv
<1> SUFFICES ASSUME Init PROVE TypeInv
  OBVIOUS
<1>1. rules \in Table
  BY DEF Init, Table
<1>2. TypeOK
  <2>1. /\ config \in [Channel -> {Nil} \cup Row]
        /\ tab \in [Tabs -> {Nil} \cup Page]
        /\ req \in [Requests -> {Nil} \cup Answer]
    BY DEF Init
  <2>2. token \in Nat /\ faults \in Nat
    BY DEF Init
  <2>3. QED  BY <1>1, <2>1, <2>2 DEF TypeOK
<1>3. \A r \in Requests : req[r] = Nil
  BY DEF Init
<1>4. QED  BY <1>2, <1>3 DEF TypeInv, Filled

\* Every variable of the settings page keeps its type (handlers_settings.go, render.go).
THEOREM TypeCorrect == Spec => []TypeOK
<1>1. TypeInv => TypeOK
  BY DEF TypeInv
<1>2. QED  BY <1>1, TypeInit, TypeStep, PTL DEF Spec

-----------------------------------------------------------------------------
(* Secrets, masks and fresh forms                                          *)

\* A form against the row of its channel.
Tells(row, form) ==
  /\ form.secret \in Secrets \cup {<<>>}
  /\ form.mask \notin Secrets
  /\ form.fresh => row \in Row /\ form.text = row.text /\ form.enabled = row.enabled

Sound(rows, parts) == \A c \in Channel \cap DOMAIN parts : Tells(rows[c], parts[c])

Kept ==
  /\ \A c \in Channel : config[c] # Nil => config[c].secret \in Secrets \cup {<<>>}
  /\ \A t \in Tabs : tab[t] # Nil => Sound(config, tab[t].part)
  /\ \A r \in Requests : req[r] # Nil => Sound(config, req[r].read)

LEMMA OverSound ==
  ASSUME NEW rows, NEW P, NEW Q, NEW f \in Shown(P), NEW g \in Shown(Q),
         Sound(rows, f), Sound(rows, g)
  PROVE  Sound(rows, Over(f, g))
<1>1. /\ DOMAIN f = P /\ DOMAIN g = Q
      /\ DOMAIN Over(f, g) = P \cup Q
      /\ \A p \in P : Over(f, g)[p] = f[p]
      /\ \A p \in Q \ P : Over(f, g)[p] = g[p]
  <2>1. DOMAIN f = P /\ DOMAIN g = Q
    BY ShownParts
  <2>2. QED  BY <2>1 DEF Over
<1>2. ASSUME NEW c \in Channel, c \in P \cup Q
      PROVE  Tells(rows[c], Over(f, g)[c])
  BY <1>1, <1>2 DEF Sound
<1>3. QED  BY <1>1, <1>2 DEF Sound

\* A channel's row is replaced, and what was read of it no longer fresh.
LEMMA StaleSound ==
  ASSUME NEW P, NEW f \in Shown(P), NEW c \in Channel, Sound(config, f),
         \A d \in Channel \ {c} : config'[d] = config[d]
  PROVE  Sound(config', Stale(f, c))
<1>1. /\ DOMAIN f = P /\ DOMAIN Stale(f, c) = P
      /\ \A p \in P \ {c} : Stale(f, c)[p] = f[p]
      /\ c \in P => /\ ~Stale(f, c)[c].fresh
                    /\ Stale(f, c)[c].secret = f[c].secret
                    /\ Stale(f, c)[c].mask = f[c].mask
  BY StaleShown, ShownParts
<1>2. ASSUME NEW d \in Channel, d \in P
      PROVE  Tells(config'[d], Stale(f, c)[d])
  <2>1. Tells(config[d], f[d])
    BY <1>1, <1>2 DEF Sound
  <2>2. CASE d = c
    BY <1>1, <1>2, <2>1, <2>2 DEF Tells
  <2>3. CASE d # c
    BY <1>1, <1>2, <2>1, <2>3
  <2>4. QED  BY <2>2, <2>3
<1>3. QED  BY <1>1, <1>2 DEF Sound

LEMMA FormTells ==
  ASSUME NEW row \in {Nil} \cup Row
  PROVE  Tells(row, FormOf(row)) /\ Tells(row, Unconfigured)
<1>1. Tells(row, FormOf(row))
  BY Forms DEF Tells
<1>2. Tells(row, Unconfigured)
  BY UnconfiguredTyped, SecretsAssumption DEF Tells
<1>3. QED  BY <1>1, <1>2

LEMMA ReadKept ==
  ASSUME TypeInv, Kept, NEW r \in Requests, Read(r)
  PROVE  Kept'
<1>1. TypeOK
  BY DEF TypeInv
<1> DEFINE p == Head(req[r].todo)
<1>0. PICK shown, held : ReadBy(r, shown, held)
  BY <1>1, ReadFields
<1>2. /\ p = "rules" => \/ shown = rules /\ held = {}
                        \/ shown = <<>> /\ held = {<<>>}
      /\ p # "rules" => shown \in {FormOf(config[p]), Unconfigured} /\ held = {}
      /\ p \in Part /\ [x \in {p} |-> shown] \in Shown({p})
      /\ req[r] \in Answer
      /\ req'[r].read = Over([x \in {p} |-> shown], req[r].read)
      /\ req' = [req EXCEPT ![r] = req'[r]]
  BY <1>0, Zenon DEF ReadBy
<1> DEFINE new == [x \in {p} |-> shown]
<1>3. UNCHANGED <<config, tab>> /\ req[r] # Nil
  BY DEF Read
<1>4. Sound(config, new)
  <2>1. ASSUME NEW c \in Channel, c \in {p} PROVE Tells(config[c], new[c])
    <3>1. c = p /\ c # "rules" /\ new[c] = shown
      BY <2>1, ChannelsArePart
    <3>2. shown = FormOf(config[c]) \/ shown = Unconfigured
      BY <1>2, <3>1
    <3>3. config[c] \in {Nil} \cup Row
      BY <1>1 DEF TypeOK
    <3>4. QED  BY <3>1, <3>2, <3>3, FormTells
  <2>2. DOMAIN new = {p}
    OBVIOUS
  <2> HIDE DEF new, p
  <2>3. QED  BY <2>1, <2>2 DEF Sound
<1>5. Sound(config, req'[r].read)
  <2>1. Sound(config, req[r].read)
    BY <1>3 DEF Kept
  <2> DEFINE D == DOMAIN req[r].read
             old == req[r].read
  <2>2. old \in Shown(D)
    BY <1>2, AnswerParts
  <2>3. new \in Shown({p})
    BY <1>2
  <2> HIDE DEF new, D, p
  <2>4. Sound(config, Over(new, old))
    BY <1>4, <2>1, <2>2, <2>3, OverSound
  <2>5. QED  BY <1>2, <2>4 DEF new, p
<1>6. ASSUME NEW q \in Requests, req'[q] # Nil PROVE Sound(config', req'[q].read)
  <2>1. CASE q = r
    BY <1>3, <1>5, <2>1
  <2>2. CASE q # r
    <3>1. req'[q] = req[q]
      BY <1>1, <1>2, <2>2 DEF TypeOK
    <3>2. QED  BY <1>3, <1>6, <3>1 DEF Kept
  <2>3. QED  BY <2>1, <2>2
<1>7. QED  BY <1>3, <1>6 DEF Kept

LEMMA LoadKept ==
  ASSUME TypeInv, Kept, NEW r \in Requests, NEW t \in Tabs, Load(r, t)
  PROVE  Kept'
<1> DEFINE ask == Asking(t, <<"rules">> \o Channels, rules)
<1>1. ask.read = <<>> /\ Sound(config, <<>>)
  BY DEF Asking, Sound
<1> HIDE DEF ask
<1>2. /\ req' = [q \in Requests |->
                 IF q = r THEN ask
                 ELSE IF req[q] # Nil /\ req[q].tab = t THEN Nil ELSE req[q]]
      /\ tab' = [tab EXCEPT ![t] = Nil]
      /\ UNCHANGED config
  BY DEF Load, ask
<1>3. ASSUME NEW q \in Requests, req'[q] # Nil PROVE Sound(config', req'[q].read)
  BY <1>1, <1>2, <1>3 DEF Kept
<1>4. ASSUME NEW u \in Tabs, tab'[u] # Nil PROVE Sound(config', tab'[u].part)
  <2>1. tab'[u] = tab[u]
    BY <1>2, <1>4 DEF TypeInv, TypeOK
  <2>2. QED  BY <1>2, <1>4, <2>1 DEF Kept
<1>5. QED  BY <1>2, <1>3, <1>4 DEF Kept

LEMMA ShowPageKept ==
  ASSUME TypeInv, Kept, NEW r \in Requests, ShowPage(r)
  PROVE  Kept'
<1>1. TypeOK /\ req[r].tab \in Tabs
  BY AnswerParts DEF TypeInv, TypeOK, ShowPage
<1>2. PICK csrf \in {req[r].csrf, NoToken} :
        tab' = [tab EXCEPT ![req[r].tab] = [csrf |-> csrf, part |-> req[r].read]]
  BY DEF ShowPage
<1>3. UNCHANGED config /\ req' = [req EXCEPT ![r] = Nil] /\ req[r] # Nil
  BY DEF ShowPage
<1>4. ASSUME NEW q \in Requests, req'[q] # Nil PROVE Sound(config', req'[q].read)
  <2>1. req'[q] = req[q]
    BY <1>1, <1>3, <1>4 DEF TypeOK
  <2>2. QED  BY <1>3, <1>4, <2>1 DEF Kept
<1>5. ASSUME NEW u \in Tabs, tab'[u] # Nil PROVE Sound(config', tab'[u].part)
  <2>1. CASE u = req[r].tab
    <3>1. tab'[u].part = req[r].read
      BY <1>1, <1>2, <2>1 DEF TypeOK
    <3>2. QED  BY <1>3, <3>1 DEF Kept
  <2>2. CASE u # req[r].tab
    <3>1. tab'[u] = tab[u]
      BY <1>1, <1>2, <2>2 DEF TypeOK
    <3>2. QED  BY <1>3, <1>5, <3>1 DEF Kept
  <2>3. QED  BY <2>1, <2>2
<1>6. QED  BY <1>3, <1>4, <1>5 DEF Kept

LEMMA ShowTableKept ==
  ASSUME TypeInv, Kept, NEW r \in Requests, ShowTable(r)
  PROVE  Kept'
<1> DEFINE t == req[r].tab
<1>1. TypeOK /\ req[r] \in Answer /\ t \in Tabs /\ tab[t] \in Page
  BY AnswerParts DEF TypeInv, TypeOK, ShowTable
<1>2. /\ UNCHANGED config /\ req' = [req EXCEPT ![r] = Nil] /\ req[r] # Nil
      /\ tab' = [tab EXCEPT ![t].part = Over(req[r].read, @)]
      /\ tab[t] # Nil
  BY DEF ShowTable
<1> HIDE DEF t
<1>3. Sound(config, Over(req[r].read, tab[t].part))
  <2>1. Sound(config, req[r].read) /\ Sound(config, tab[t].part)
    BY <1>1, <1>2 DEF Kept
  <2> DEFINE D == DOMAIN req[r].read
             new == req[r].read
             old == tab[t].part
  <2>2. new \in Shown(D) /\ old \in Shown(Part)
    BY <1>1, AnswerParts DEF Page
  <2>3. Sound(config, new) /\ Sound(config, old)
    BY <2>1
  <2> HIDE DEF D, new, old
  <2>4. Sound(config, Over(new, old))
    BY <2>2, <2>3, OverSound
  <2>5. QED  BY <2>4 DEF new, old
<1>4. ASSUME NEW q \in Requests, req'[q] # Nil PROVE Sound(config', req'[q].read)
  <2>1. req'[q] = req[q]
    BY <1>1, <1>2, <1>4 DEF TypeOK
  <2>2. QED  BY <1>2, <1>4, <2>1 DEF Kept
<1>5. ASSUME NEW u \in Tabs, tab'[u] # Nil PROVE Sound(config', tab'[u].part)
  <2>1. CASE u = t
    <3>1. tab'[u] = [tab[t] EXCEPT !.part = Over(req[r].read, tab[t].part)]
      BY <1>1, <1>2, <2>1 DEF TypeOK
    <3>2. tab'[u].part = Over(req[r].read, tab[t].part)
      BY <1>1, <3>1 DEF Page
    <3>3. QED  BY <1>2, <1>3, <3>2
  <2>2. CASE u # t
    <3>1. tab'[u] = tab[u]
      BY <1>1, <1>2, <2>2 DEF TypeOK
    <3>2. QED  BY <1>2, <1>5, <3>1 DEF Kept
  <2>3. QED  BY <2>1, <2>2
<1>6. QED  BY <1>2, <1>4, <1>5 DEF Kept

LEMMA ClickKept ==
  ASSUME TypeInv, Kept, NEW r \in Requests \cup {Nil}, NEW t \in Tabs, NEW rs \in Table,
         Click(r, t, rs)
  PROVE  Kept'
<1> DEFINE ask == Asking(t, <<"rules">>, rs)
<1>1. ask.read = <<>> /\ Sound(config, <<>>)
  BY DEF Asking, Sound
<1> HIDE DEF ask
<1>2. /\ UNCHANGED <<config, tab>>
      /\ req' = [q \in Requests |-> IF q = r THEN ask ELSE Held(rs)[q]]
  BY DEF Click, ask
<1>3. ASSUME NEW q \in Requests, req'[q] # Nil PROVE Sound(config', req'[q].read)
  <2>1. CASE q = r
    BY <1>1, <1>2, <2>1
  <2>2. CASE q # r
    <3>1. req'[q] = Held(rs)[q]
      BY <1>2, <2>2
    <3>2. req[q] # Nil /\ req'[q].read = req[q].read
      BY <1>3, <3>1, HeldTyped DEF TypeInv
    <3>3. QED  BY <1>2, <3>2 DEF Kept
  <2>3. QED  BY <2>1, <2>2
<1>4. QED  BY <1>2, <1>3 DEF Kept

LEMMA SaveKept ==
  ASSUME TypeInv, Kept, NEW t \in Tabs, NEW c \in Channel, NEW secret \in Seq(Chars),
         NEW text \in Texted, NEW enabled \in BOOLEAN, Accepted(t),
         secret \in Secrets \cup {<<>>, tab[t].part[c].secret},
         Save(t, c, secret, text, enabled)
  PROVE  Kept'
<1>1. TypeOK /\ tab[t] # Nil
  BY DEF TypeInv, Accepted
<1> DEFINE row == [secret |-> secret, text |-> text, enabled |-> enabled]
<1>2. /\ row \in Row
      /\ config'[c] = row
      /\ \A d \in Channel \ {c} : config'[d] = config[d]
  BY <1>1 DEF Save, TypeOK, Row
<1>3. /\ tab[t] \in Page /\ tab'[t] \in Page
      /\ \A p \in Part \ {c} : tab'[t].part[p] = tab[t].part[p]
      /\ Stays(t, c, secret, text, enabled)
  BY <1>1, SavedPages
<1>4. c \in Part /\ tab[t].part \in Shown(Part) /\ DOMAIN tab[t].part = Part
      /\ DOMAIN tab'[t].part = Part
  BY <1>3, ShownParts DEF Page, Part
<1>5. Tells(config[c], tab[t].part[c])
  BY <1>1, <1>4 DEF Kept, Sound
<1>6. secret \in Secrets \cup {<<>>}
  BY <1>5 DEF Tells
<1>7. Tells(config'[c], tab'[t].part[c])
  <2>1. tab'[t].part[c] = [secret |-> secret, mask |-> tab[t].part[c].mask, text |-> text,
                           enabled |-> enabled, fresh |-> TRUE]
    BY <1>3 DEF Stays, Form
  <2>2. tab[t].part[c].mask \notin Secrets
    BY <1>5 DEF Tells
  <2>3. QED  BY <1>2, <1>6, <2>1, <2>2 DEF Tells
<1>8. ASSUME NEW u \in Tabs, tab'[u] # Nil PROVE Sound(config', tab'[u].part)
  <2>1. CASE u = t
    <3>1. ASSUME NEW d \in Channel, d # c PROVE Tells(config'[d], tab'[t].part[d])
      <4>1. d \in Part
        BY DEF Part
      <4>2. Tells(config[d], tab[t].part[d])
        BY <1>1, <1>4, <4>1 DEF Kept, Sound
      <4>3. QED  BY <1>2, <1>3, <3>1, <4>1, <4>2
    <3>2. QED  BY <1>7, <2>1, <3>1 DEF Sound
  <2>2. CASE u # t
    <3>1. tab[u] # Nil /\ tab[u] \in Page /\ tab'[u].part = Stale(tab[u].part, c)
      BY <1>1, <1>8, <2>2, SavedPages
    <3>2. Sound(config, tab[u].part) /\ tab[u].part \in Shown(Part)
      BY <3>1 DEF Kept, Page
    <3>3. QED  BY <1>2, <3>1, <3>2, StaleSound
  <2>3. QED  BY <2>1, <2>2
<1>9. ASSUME NEW q \in Requests, req'[q] # Nil PROVE Sound(config', req'[q].read)
  <2>1. req[q] # Nil /\ req[q] \in Answer /\ req'[q].read = Stale(req[q].read, c)
    BY <1>1, <1>9, SavedReads
  <2> DEFINE D == DOMAIN req[q].read
             read == req[q].read
  <2>2. Sound(config, read) /\ read \in Shown(D)
    BY <2>1, AnswerParts DEF Kept
  <2> HIDE DEF D, read
  <2>3. Sound(config', Stale(read, c))
    BY <1>2, <2>2, StaleSound
  <2>4. QED  BY <2>1, <2>3 DEF read
<1>10. ASSUME NEW d \in Channel, config'[d] # Nil
       PROVE  config'[d].secret \in Secrets \cup {<<>>}
  BY <1>2, <1>6, <1>10 DEF Kept
<1>11. QED  BY <1>8, <1>9, <1>10 DEF Kept

LEMMA KeptStep == TypeInv /\ Kept /\ [Next]_vars => Kept'
<1> SUFFICES ASSUME TypeInv, Kept, [Next]_vars PROVE Kept'
  OBVIOUS
<1>1. TypeOK
  BY DEF TypeInv
<1>2. CASE SignIn \/ (\E t \in Tabs : WriteFails(t)) \/ UNCHANGED vars
  <2>1. UNCHANGED <<config, tab, req>>
    BY <1>2 DEF SignIn, WriteFails, vars
  <2>2. QED  BY <2>1 DEF Kept
<1>3. CASE \E r \in Requests : Read(r) \/ ShowPage(r) \/ ShowTable(r)
  BY <1>3, ReadKept, ShowPageKept, ShowTableKept
<1>4. CASE \E r \in Requests, t \in Tabs : Load(r, t)
  BY <1>4, LoadKept
<1>5. CASE \E r \in Requests \cup {Nil}, t \in Tabs, rs \in Table :
             Accepted(t) /\ Click(r, t, rs)
  BY <1>5, ClickKept
<1>6. CASE \E t \in Tabs, c \in Channel, secret \in Seq(Chars), text \in Texted,
              enabled \in BOOLEAN :
             /\ Accepted(t)
             /\ secret \in Secrets \cup {<<>>, tab[t].part[c].secret}
             /\ Save(t, c, secret, text, enabled)
  BY <1>6, SaveKept
<1>7. QED  BY <1>1, <1>2, <1>3, <1>4, <1>5, <1>6, Steps

LEMMA KeptInit == Init => Kept
BY DEF Init, Kept

LEMMA KeptAlways == Spec => [](TypeInv /\ Kept)
BY TypeInit, TypeStep, KeptInit, KeptStep, PTL DEF Spec

\* handlers_settings.go:47-73, 189-203, settings.html:75, 115: what is stored was typed, for every
\* sequence of loads and saves of any number of tabs.
THEOREM MasksStayOut == Spec => []MaskNeverStored
<1>1. Kept => MaskNeverStored
  BY DEF Kept, MaskNeverStored
<1>2. QED  BY <1>1, KeptAlways, PTL

\* handlers_settings.go:61-66: no page shows a secret, of whatever length.
THEOREM NoSecretOnAPage == Spec => []SecretsStayMasked
<1>1. TypeInv /\ Kept => SecretsStayMasked
  <2> SUFFICES ASSUME TypeInv, Kept, NEW t \in Tabs, tab[t] # Nil, NEW c \in Channel
               PROVE  tab[t].part[c].mask \notin Secrets
    BY DEF SecretsStayMasked
  <2>1. tab[t].part \in Shown(Part)
    BY DEF TypeInv, TypeOK, Page
  <2>2. c \in DOMAIN tab[t].part
    BY <2>1, ShownParts DEF Part
  <2>3. QED  BY <2>2 DEF Kept, Sound, Tells
<1>2. QED  BY <1>1, KeptAlways, PTL

\* handlers_settings.go:28-45, 176-213: a save of a fresh form that nobody touched changes nothing
\* but the secret, whatever the other tabs do.
THEOREM FreshSavesAreHarmless == Spec => FreshSavesKeepTheRest
<1> DEFINE A == \A t \in Tabs, c \in Channel :
                  Current(t, c) /\ Untouched(t, c) =>
                    config' = [config EXCEPT ![c].secret = tab[t].part[c].secret]
<1>1. TypeInv /\ Kept /\ [Next]_vars => [A]_vars
  <2> SUFFICES ASSUME TypeInv, Kept, NEW t \in Tabs, NEW c \in Channel, Current(t, c),
                      Untouched(t, c)
               PROVE  config' = [config EXCEPT ![c].secret = tab[t].part[c].secret]
    OBVIOUS
  <2> DEFINE form == tab[t].part[c]
  <2>1. tab[t] # Nil /\ form.fresh
    BY DEF Current
  <2>2. config' = [config EXCEPT ![c] = [secret |-> form.secret, text |-> form.text,
                                         enabled |-> form.enabled]]
    BY DEF Untouched, Save
  <2>3. tab[t].part \in Shown(Part) /\ c \in DOMAIN tab[t].part
    <3>1. tab[t].part \in Shown(Part)
      BY <2>1 DEF TypeInv, TypeOK, Page
    <3>2. QED  BY <3>1, ShownParts DEF Part
  <2>4. config[c] \in Row /\ form.text = config[c].text /\ form.enabled = config[c].enabled
    BY <2>1, <2>3 DEF Kept, Sound, Tells
  <2> HIDE DEF form
  <2>5. [secret |-> form.secret, text |-> form.text, enabled |-> form.enabled]
          = [config[c] EXCEPT !.secret = form.secret]
    BY <2>4 DEF Row
  <2>6. config' = [config EXCEPT ![c] = [config[c] EXCEPT !.secret = form.secret]]
    BY <2>2, <2>5
  <2>7. QED  BY <2>6 DEF form
<1>2. QED  BY <1>1, KeptAlways, PTL DEF Spec, FreshSavesKeepTheRest

-----------------------------------------------------------------------------
(* The tables                                                              *)

\* Of a request: the rules are one of those it may tell, and so is what it has read.
TellsRules(a, rs) ==
  /\ rs \in a.held
  /\ "rules" \in DOMAIN a.read => a.read["rules"] \in a.held

Listed == \A r \in Requests : req[r] # Nil => TellsRules(req[r], rules)

LEMMA AskingTells ==
  ASSUME NEW t, NEW queries, NEW rs
  PROVE  TellsRules(Asking(t, queries, rs), rs)
<1>1. Asking(t, queries, rs).held = {rs} /\ Asking(t, queries, rs).read = <<>>
  BY DEF Asking
<1>2. QED  BY <1>1 DEF TellsRules

LEMMA ReadListed ==
  ASSUME TypeInv, Listed, NEW r \in Requests, Read(r)
  PROVE  Listed'
<1>1. TypeOK
  BY DEF TypeInv
<1> DEFINE p == Head(req[r].todo)
<1>2. PICK shown, held : ReadBy(r, shown, held)
  BY <1>1, ReadFields
<1> DEFINE new == [x \in {p} |-> shown]
<1>3. /\ p = "rules" => shown = rules \/ shown \in held
      /\ req[r] \in Answer
      /\ req'[r].held = req[r].held \cup held
      /\ req'[r].read = Over(new, req[r].read)
      /\ req' = [req EXCEPT ![r] = req'[r]]
  BY <1>2 DEF ReadBy
<1>4. UNCHANGED rules /\ req[r] # Nil /\ TellsRules(req[r], rules)
  BY DEF Read, Listed
<1>5. TellsRules(req'[r], rules')
  <2>1. /\ DOMAIN Over(new, req[r].read) = {p} \cup DOMAIN req[r].read
        /\ p = "rules" => Over(new, req[r].read)["rules"] = shown
        /\ p # "rules" /\ "rules" \in DOMAIN req[r].read =>
             Over(new, req[r].read)["rules"] = req[r].read["rules"]
    BY DEF Over
  <2> HIDE DEF p, new
  <2>2. QED  BY <1>3, <1>4, <2>1 DEF TellsRules
<1>6. ASSUME NEW q \in Requests, req'[q] # Nil PROVE TellsRules(req'[q], rules')
  <2>1. CASE q = r
    BY <1>5, <2>1
  <2>2. CASE q # r
    <3>1. req'[q] = req[q]
      BY <1>1, <1>3, <2>2 DEF TypeOK
    <3>2. QED  BY <1>4, <1>6, <3>1 DEF Listed
  <2>3. QED  BY <2>1, <2>2
<1>7. QED  BY <1>6 DEF Listed

LEMMA ClickListsIt ==
  ASSUME TypeInv, Listed, NEW r \in Requests \cup {Nil}, NEW t \in Tabs, NEW rs \in Table,
         Click(r, t, rs)
  PROVE  Listed'
<1> DEFINE ask == Asking(t, <<"rules">>, rs)
<1>1. TellsRules(ask, rs)
  BY AskingTells
<1> HIDE DEF ask
<1>2. rules' = rs /\ req' = [q \in Requests |-> IF q = r THEN ask ELSE Held(rs)[q]]
  BY DEF Click, ask
<1>3. ASSUME NEW q \in Requests, req'[q] # Nil PROVE TellsRules(req'[q], rs)
  <2>1. CASE q = r
    BY <1>1, <1>2, <2>1
  <2>2. CASE q # r
    <3>1. req'[q] = Held(rs)[q]
      BY <1>2, <2>2
    <3>2. req[q] # Nil /\ req'[q].read = req[q].read /\ req'[q].held = req[q].held \cup {rs}
      BY <1>3, <3>1, HeldTyped DEF TypeInv
    <3>3. QED  BY <3>2 DEF Listed, TellsRules
  <2>3. QED  BY <2>1, <2>2
<1>4. QED  BY <1>2, <1>3 DEF Listed

\* The other steps leave the rules, and of a request what this is about.
LEMMA OtherwiseListed ==
  ASSUME TypeInv, Listed, UNCHANGED rules,
         \A q \in Requests : req'[q] # Nil =>
           \/ req'[q] = req[q]
           \/ TellsRules(req'[q], rules)
  PROVE  Listed'
BY DEF Listed

LEMMA SaveListed ==
  ASSUME TypeInv, Listed, NEW t \in Tabs, NEW c \in Channel, NEW secret \in Seq(Chars),
         NEW text \in Texted, NEW enabled \in BOOLEAN, Save(t, c, secret, text, enabled)
  PROVE  Listed'
<1>1. ASSUME NEW q \in Requests, req'[q] # Nil PROVE TellsRules(req'[q], rules)
  <2>1. /\ req[q] # Nil /\ req[q] \in Answer /\ req'[q].held = req[q].held
        /\ req'[q].read = Stale(req[q].read, c)
    BY <1>1, SavedReads DEF TypeInv
  <2> DEFINE D == DOMAIN req[q].read
             read == req[q].read
  <2>2. read \in Shown(D) /\ "rules" # c
    BY <2>1, AnswerParts, ChannelsArePart
  <2> HIDE DEF D, read
  <2>3. DOMAIN Stale(read, c) = D /\ ("rules" \in D => Stale(read, c)["rules"] = read["rules"])
    BY <2>2, StaleShown
  <2>4. TellsRules(req[q], rules)
    BY <2>1 DEF Listed
  <2>5. QED  BY <2>1, <2>3, <2>4 DEF TellsRules, D, read
<1>2. UNCHANGED rules
  BY DEF Save
<1>3. QED  BY <1>1, <1>2, OtherwiseListed

LEMMA ListedStep == TypeInv /\ Listed /\ [Next]_vars => Listed'
<1> SUFFICES ASSUME TypeInv, Listed, [Next]_vars PROVE Listed'
  OBVIOUS
<1>1. TypeOK
  BY DEF TypeInv
<1>2. CASE SignIn \/ (\E t \in Tabs : WriteFails(t)) \/ UNCHANGED vars
  <2>1. UNCHANGED <<rules, req>>
    BY <1>2 DEF SignIn, WriteFails, vars
  <2>2. QED  BY <2>1, OtherwiseListed
<1>3. ASSUME NEW r \in Requests, ShowPage(r) \/ ShowTable(r) PROVE Listed'
  <2>1. UNCHANGED rules /\ req' = [req EXCEPT ![r] = Nil]
    BY <1>3 DEF ShowPage, ShowTable
  <2>2. \A q \in Requests : req'[q] # Nil => req'[q] = req[q]
    BY <1>1, <2>1 DEF TypeOK
  <2>3. QED  BY <2>1, <2>2, OtherwiseListed
<1>4. ASSUME NEW r \in Requests, NEW t \in Tabs, Load(r, t) PROVE Listed'
  <2> DEFINE ask == Asking(t, <<"rules">> \o Channels, rules)
  <2>1. TellsRules(ask, rules)
    BY AskingTells
  <2> HIDE DEF ask
  <2>2. /\ UNCHANGED rules
        /\ req' = [q \in Requests |->
                     IF q = r THEN ask
                     ELSE IF req[q] # Nil /\ req[q].tab = t THEN Nil ELSE req[q]]
    BY <1>4 DEF Load, ask
  <2>3. QED  BY <2>1, <2>2, OtherwiseListed
<1>5. CASE \E r \in Requests \cup {Nil}, t \in Tabs, rs \in Table :
             Accepted(t) /\ Click(r, t, rs)
  BY <1>5, ClickListsIt
<1>6. CASE \E t \in Tabs, c \in Channel, secret \in Seq(Chars), text \in Texted,
              enabled \in BOOLEAN : Save(t, c, secret, text, enabled)
  BY <1>6, SaveListed
<1>7. CASE \E r \in Requests : Read(r)
  BY <1>7, ReadListed
<1>8. QED  BY <1>1, <1>2, <1>3, <1>4, <1>5, <1>6, <1>7, Steps

\* handlers_settings.go:75-173, 220-239: a table that answers a click is what the rules were at
\* some moment since, for every number of requests being answered at once.
THEOREM TablesAreCurrent == Spec => []TablesTellTheirClick
<1>1. Init => Listed
  BY DEF Init, Listed
<1>2. Listed => TablesTellTheirClick
  BY DEF Listed, TellsRules, TablesTellTheirClick
<1>3. QED  BY <1>1, <1>2, TypeInit, TypeStep, ListedStep, PTL DEF Spec
=============================================================================
