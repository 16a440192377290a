---------------------------- MODULE Auth_proofs ----------------------------
(***************************************************************************)
(* For every set of browsers, addresses and tokens, every number of        *)
(* requests in flight, every limit, window and time to live: the type, the *)
(* bound on the failures of an address, that nothing is served after a     *)
(* session's end, and that a cookie names a session.                       *)
(*                                                                         *)
(* The last two are not inductive: that a late request stays refused needs *)
(* that a session that is over never comes back, which needs that a token  *)
(* that was issued is not issued again.                                    *)
(***************************************************************************)
EXTENDS Auth, FiniteSetTheorems, TLAPS

-----------------------------------------------------------------------------
(* Type correctness                                                        *)

LoginReq == [pc : LoginPCs, from : Browsers, token : {Nil}, late : {FALSE}]
AuthReq == [pc : AuthPCs, from : Browsers, token : Tokens, late : BOOLEAN]

LEMMA RequestTypes ==
  ASSUME TypeOK, NEW s \in Slots
  PROVE  /\ req[s] \in {Free} \cup LoginReq \cup AuthReq
         /\ req[s].pc = "free" => req[s] = Free
         /\ req[s].pc \in LoginPCs => req[s] \in LoginReq /\ IpOfReq(s) \in IPs
         /\ req[s].pc \in AuthPCs => req[s] \in AuthReq
<1>1. req[s] \in {Free} \cup LoginReq \cup AuthReq
  BY DEF TypeOK, LoginReq, AuthReq
<1>2. CASE req[s] = Free
  BY <1>1, <1>2 DEF Free, LoginPCs, AuthPCs
<1>3. CASE req[s] \in LoginReq
  BY <1>1, <1>3, AuthAssumption DEF LoginReq, LoginPCs, AuthPCs, IpOfReq
<1>4. CASE req[s] \in AuthReq
  BY <1>1, <1>4 DEF AuthReq, LoginPCs, AuthPCs
<1> QED BY <1>1, <1>2, <1>3, <1>4

\* A request that moves on stays a request of its kind; one that is answered
\* leaves its slot free.
LEMMA GotoLogin ==
  ASSUME TypeOK, NEW s \in Slots, req[s].pc \in LoginPCs,
         NEW label \in LoginPCs, Goto(s, label)
  PROVE  req' \in [Slots -> {Free} \cup LoginReq \cup AuthReq]
<1>1. req \in [Slots -> {Free} \cup LoginReq \cup AuthReq]
  BY DEF TypeOK, LoginReq, AuthReq
<1>2. [req[s] EXCEPT !.pc = label] \in LoginReq
  BY RequestTypes DEF LoginReq
<1> QED BY <1>1, <1>2 DEF Goto

LEMMA GotoAuth ==
  ASSUME TypeOK, NEW s \in Slots, req[s].pc \in AuthPCs,
         NEW label \in AuthPCs, Goto(s, label)
  PROVE  req' \in [Slots -> {Free} \cup LoginReq \cup AuthReq]
<1>1. req \in [Slots -> {Free} \cup LoginReq \cup AuthReq]
  BY DEF TypeOK, LoginReq, AuthReq
<1>2. [req[s] EXCEPT !.pc = label] \in AuthReq
  BY RequestTypes DEF AuthReq
<1> QED BY <1>1, <1>2 DEF Goto

LEMMA ReplyFrees ==
  ASSUME TypeOK, NEW s \in Slots, Reply(s)
  PROVE  req' \in [Slots -> {Free} \cup LoginReq \cup AuthReq]
BY DEF TypeOK, LoginReq, AuthReq, Reply

LEMMA FaultType == ASSUME TypeOK, Fault PROVE faults' \in 0..MaxFaults
BY AuthAssumption, SMT DEF TypeOK, Fault

LEMMA TypeInit == Init => TypeOK
<1> SUFFICES ASSUME Init PROVE TypeOK
  OBVIOUS
<1>1. req \in [Slots -> {Free}]
  BY DEF Init
<1>2. faults \in 0..MaxFaults
  BY AuthAssumption, SMT DEF Init
<1> QED BY <1>1, <1>2 DEF Init, TypeOK

\* An age and what is left of a session keep their type when the clock ticks.
LEMMA TickType == ASSUME TypeOK, Tick PROVE TypeOK'
<1>1. \A a \in AgeOf : Older(a) \in AgeOf
  BY AuthAssumption, NilAssumption, SMT DEF AgeOf, Older
<1>2. ASSUME NEW ip \in IPs, attempts[ip] # Nil
      PROVE  [attempts[ip] EXCEPT !.age = Older(@)]
               \in [count : Nat \ {0}, age : AgeOf]
  BY <1>1, <1>2 DEF TypeOK
<1>3. attempts' \in [IPs -> {Nil} \cup [count : Nat \ {0}, age : AgeOf]]
  BY <1>2 DEF Tick, TypeOK
<1>4. \A n \in Expired..SessionTTL : n # Expired => n - 1 \in Expired..SessionTTL
  BY AuthAssumption, SMT DEF Expired
<1>5. sessions' \in [Tokens -> {Nil} \cup (Expired..SessionTTL)]
  BY <1>4 DEF Tick, TypeOK
<1> QED BY <1>3, <1>5 DEF Tick, TypeOK

LEMMA TypeStep == TypeOK /\ [Next]_vars => TypeOK'
<1> SUFFICES ASSUME TypeOK, [Next]_vars PROVE TypeOK'
  OBVIOUS
<1> DEFINE ReqType == [Slots -> {Free} \cup LoginReq \cup AuthReq]
<1>0. TypeOK' <=> /\ attempts' \in [IPs -> {Nil} \cup [count : Nat \ {0}, age : AgeOf]]
                  /\ sessions' \in [Tokens -> {Nil} \cup (Expired..SessionTTL)]
                  /\ issued' \in SUBSET Tokens
                  /\ jar' \in [Browsers -> {Nil} \cup Tokens]
                  /\ req' \in ReqType
                  /\ faults' \in 0..MaxFaults
                  /\ over' \in SUBSET Tokens
  BY DEF TypeOK, LoginReq, AuthReq
<1>t. req \in ReqType
  BY DEF TypeOK, LoginReq, AuthReq
<1> HIDE DEF ReqType
<1>1. CASE Tick
  BY <1>1, TickType
<1>2. ASSUME NEW s \in Slots, NEW b \in Browsers, NEW kind \in {"login", "protected"},
             Arrive(s, b, kind)
      PROVE  TypeOK'
  <2>1. req' \in ReqType
    <3>1. CASE kind = "login"
      BY <1>2, <1>t, <3>1 DEF Arrive, ReqType, LoginReq, LoginPCs
    <3>2. CASE kind # "login"
      BY <1>2, <1>t, <3>2 DEF Arrive, ReqType, AuthReq, AuthPCs, TypeOK
    <3> QED BY <3>1, <3>2
  <2> QED BY <1>0, <1>2, <2>1 DEF Arrive, TypeOK
<1>3. CASE Restart
  BY <1>0, <1>3 DEF Restart, TypeOK, ReqType
<1>4. ASSUME NEW s \in Slots, HandleLogin(s) PROVE TypeOK'
  <2>0. req[s].pc \in LoginPCs /\ IpOfReq(s) \in IPs /\ req[s].from \in Browsers
    BY <1>4, RequestTypes
       DEF HandleLogin, CheckLock, Lookup, Refuse, Accept, SignIn, LoginPCs, LoginReq
  <2>1. CASE CheckLock(s)
    <3>1. req' \in ReqType
      BY <2>0, <2>1, GotoLogin, ReplyFrees DEF CheckLock, LoginPCs, ReqType
    <3>2. attempts' \in [IPs -> {Nil} \cup [count : Nat \ {0}, age : AgeOf]]
      BY <2>1 DEF CheckLock, Purged, TypeOK
    <3> QED BY <1>0, <2>1, <3>1, <3>2 DEF CheckLock, TypeOK
  <2>2. CASE Lookup(s)
    <3>1. req' \in ReqType
      BY <2>0, <2>2, GotoLogin, ReplyFrees DEF Lookup, LoginPCs, ReqType
    <3>2. faults' \in 0..MaxFaults
      BY <2>2, FaultType DEF Lookup, TypeOK
    <3> QED BY <1>0, <2>2, <3>1, <3>2 DEF Lookup, TypeOK
  <2>3. CASE Refuse(s)
    <3>1. req' \in ReqType
      BY <2>3, ReplyFrees DEF Refuse, ReqType
    <3>2. [count |-> 1, age |-> 0] \in [count : Nat \ {0}, age : AgeOf]
      BY AuthAssumption, SMT DEF AgeOf
    <3>3. \A a \in [count : Nat \ {0}, age : AgeOf] :
            [count |-> a.count + 1, age |-> a.age] \in [count : Nat \ {0}, age : AgeOf]
      BY SMT
    <3>4. attempts' \in [IPs -> {Nil} \cup [count : Nat \ {0}, age : AgeOf]]
      BY <2>0, <2>3, <3>2, <3>3 DEF Refuse, Recorded, TypeOK
    <3> QED BY <1>0, <2>3, <3>1, <3>4 DEF Refuse, TypeOK
  <2>4. CASE Accept(s)
    <3>1. req' \in ReqType
      BY <2>0, <2>4, GotoLogin DEF Accept, LoginPCs, ReqType
    <3> QED BY <1>0, <2>4, <3>1 DEF Accept, TypeOK
  <2>5. CASE SignIn(s)
    <3>1. req' \in ReqType
      BY <2>5, ReplyFrees DEF SignIn, ReqType
    <3>2. faults' \in 0..MaxFaults
      BY <2>5, FaultType DEF SignIn, TypeOK
    <3>3. SessionTTL \in Expired..SessionTTL
      BY AuthAssumption, SMT DEF Expired
    <3>4. CASE UNCHANGED <<issued, sessions, jar>>
      BY <1>0, <2>5, <3>1, <3>2, <3>4 DEF SignIn, TypeOK
    <3>5. ASSUME NEW k \in Tokens \ issued, issued' = issued \cup {k},
                 sessions' = [sessions EXCEPT ![k] = SessionTTL],
                 jar' = [jar EXCEPT ![req[s].from] = k]
          PROVE  TypeOK'
      <4>1. /\ sessions' \in [Tokens -> {Nil} \cup (Expired..SessionTTL)]
            /\ issued' \in SUBSET Tokens
            /\ jar' \in [Browsers -> {Nil} \cup Tokens]
        BY <2>0, <3>3, <3>5 DEF TypeOK
      <4> QED BY <1>0, <2>5, <3>1, <3>2, <4>1 DEF SignIn, TypeOK
    <3> QED BY <2>5, <3>4, <3>5 DEF SignIn
  <2> QED BY <1>4, <2>1, <2>2, <2>3, <2>4, <2>5 DEF HandleLogin
<1>5. ASSUME NEW s \in Slots, HandleProtected(s) PROVE TypeOK'
  <2>0. req[s].pc \in AuthPCs /\ req[s].token \in Tokens /\ req[s].from \in Browsers
    BY <1>5, RequestTypes
       DEF HandleProtected, Authenticate, PurgeSession, CheckForm, Write, Logout, AuthPCs,
           AuthReq
  <2>1. CASE Authenticate(s)
    <3>1. req' \in ReqType
      BY <2>0, <2>1, GotoAuth, ReplyFrees DEF Authenticate, AuthPCs, ReqType
    <3>2. faults' \in 0..MaxFaults
      BY <2>1, FaultType DEF Authenticate, TypeOK
    <3> QED BY <1>0, <2>1, <3>1, <3>2 DEF Authenticate, TypeOK
  <2>2. CASE PurgeSession(s)
    <3>1. req' \in ReqType
      BY <2>2, ReplyFrees DEF PurgeSession, ReqType
    <3>2. faults' \in 0..MaxFaults
      BY <2>2, FaultType DEF PurgeSession, TypeOK
    <3> QED BY <1>0, <2>0, <2>2, <3>1, <3>2 DEF PurgeSession, TypeOK
  <2>3. CASE CheckForm(s)
    <3>1. req' \in ReqType
      BY <2>0, <2>3, GotoAuth, ReplyFrees DEF CheckForm, AuthPCs, ReqType
    <3>2. faults' \in 0..MaxFaults
      BY <2>3, FaultType DEF CheckForm, TypeOK
    <3> QED BY <1>0, <2>3, <3>1, <3>2 DEF CheckForm, TypeOK
  <2>4. CASE Write(s)
    <3>1. req' \in ReqType
      BY <2>4, ReplyFrees DEF Write, ReqType
    <3> QED BY <1>0, <2>4, <3>1 DEF Write, TypeOK
  <2>5. CASE Logout(s)
    <3>1. req' \in ReqType
      BY <2>5, ReplyFrees DEF Logout, ReqType
    <3>2. faults' \in 0..MaxFaults
      BY <2>5, FaultType DEF Logout, TypeOK
    <3> QED BY <1>0, <2>0, <2>5, <3>1, <3>2 DEF Logout, TypeOK
  <2> QED BY <1>5, <2>1, <2>2, <2>3, <2>4, <2>5 DEF HandleProtected
<1>6. CASE UNCHANGED vars
  BY <1>6 DEF vars, TypeOK
<1> QED BY <1>1, <1>2, <1>3, <1>4, <1>5, <1>6 DEF Next

\* Every variable keeps its type.
THEOREM TypeCorrect == Spec => []TypeOK
BY TypeInit, TypeStep, PTL DEF Spec

-----------------------------------------------------------------------------
(* Sessions                                                                *)

\* A token in use was issued; a session that is over, or that a late request
\* names, does not come back; a late request has passed no check.
Gone(k) == sessions[k] \in {Expired, Nil}

Ended == \A k \in over : k \in issued /\ Gone(k)

Held == \A b \in Browsers : jar[b] # Nil => jar[b] \in issued

Late == \A s \in Slots :
  req[s].pc \in AuthPCs =>
    /\ req[s].token \in issued
    /\ req[s].pc = "purge" => Gone(req[s].token)
    /\ req[s].late => Gone(req[s].token) /\ req[s].pc \in {"auth", "purge"}

SessionInv == TypeOK /\ Ended /\ Held /\ Late /\ CookieNamesASession

\* What a step does to the sessions: those that are gone stay gone, except that a
\* token that was not issued may be.
LEMMA SessionSteps ==
  ASSUME SessionInv, [Next]_vars
  PROVE  /\ issued \subseteq issued'
         /\ \A k \in issued : Gone(k) => Gone(k)'
<1> USE DEF SessionInv, Gone
<1>0. TypeOK /\ issued \subseteq Tokens
  BY DEF TypeOK
<1>1. CASE Tick
  <2>1. \A k \in Tokens : sessions[k] \in {Expired, Nil} => sessions'[k] \in {Expired, Nil}
    BY <1>1 DEF Tick
  <2> QED BY <1>0, <1>1, <2>1 DEF Tick
<1>2. ASSUME NEW s \in Slots, SignIn(s)
      PROVE  /\ issued \subseteq issued'
             /\ \A k \in issued : Gone(k) => Gone(k)'
  BY <1>0, <1>2 DEF SignIn, TypeOK
<1>3. ASSUME NEW s \in Slots, PurgeSession(s) \/ Logout(s)
      PROVE  /\ issued \subseteq issued'
             /\ \A k \in issued : Gone(k) => Gone(k)'
  BY <1>0, <1>3 DEF PurgeSession, Logout, TypeOK
<1>4. CASE UNCHANGED <<sessions, issued>>
  BY <1>4
<1> QED
  BY <1>1, <1>2, <1>3, <1>4
     DEF Next, Restart, Arrive, HandleLogin, CheckLock, Lookup, Refuse, Accept,
         HandleProtected, Authenticate, CheckForm, Write, vars

\* The same for a request: late or not, it stays what it is while its slot is taken.
LEMMA SessionTick == ASSUME SessionInv, Tick PROVE SessionInv'
<1>1. TypeOK'
  BY TypeStep DEF SessionInv, Next
<1>2. issued' = issued /\ \A k \in issued : Gone(k) => Gone(k)'
  BY SessionSteps DEF Next, Tick
<1>3. Ended' /\ Held' /\ Late'
  BY <1>2 DEF SessionInv, Ended, Held, Late, Tick
<1>4. \A k \in Tokens : sessions[k] # Nil => sessions'[k] # Nil
  BY NilAssumption, SMT DEF Tick, SessionInv, TypeOK, Expired
<1>5. CookieNamesASession'
  BY <1>4 DEF Tick, SessionInv, CookieNamesASession, TypeOK
<1> QED BY <1>1, <1>3, <1>5 DEF SessionInv

LEMMA SessionArrive ==
  ASSUME SessionInv, NEW s \in Slots, NEW b \in Browsers,
         NEW kind \in {"login", "protected"}, Arrive(s, b, kind)
  PROVE  SessionInv'
<1>1. TypeOK'
  BY TypeStep DEF SessionInv, Next
<1>2. Ended' /\ Held' /\ CookieNamesASession'
  BY DEF SessionInv, Ended, Held, CookieNamesASession, Arrive, Gone
<1>3. Late'
  <2>1. ASSUME NEW r \in Slots, r # s, req'[r].pc \in AuthPCs
        PROVE  req'[r] = req[r]
    BY <2>1 DEF Arrive, SessionInv, TypeOK
  <2>2. CASE kind = "login"
    <3>1. req'[s].pc = "check"
      BY <2>2 DEF Arrive, SessionInv, TypeOK
    <3>2. "check" \notin AuthPCs
      BY DEF AuthPCs
    <3>3. \A r \in Slots : req'[r].pc \in AuthPCs => req'[r] = req[r]
      BY <2>1, <3>1, <3>2
    <3>4. sessions' = sessions /\ issued' = issued
      BY DEF Arrive
    <3> QED BY <3>3, <3>4 DEF SessionInv, Late, Gone
  <2>3. CASE kind # "login"
    <3>1. /\ req'[s].pc = "auth" /\ req'[s].token = jar[b] /\ jar[b] \in issued
          /\ req'[s].late => jar[b] \in over \/ sessions[jar[b]] \in {Expired, Nil}
      BY <2>3 DEF Arrive, SessionInv, TypeOK, Held
    <3>2. req'[s].late => Gone(jar[b])
      BY <3>1 DEF SessionInv, Ended, Gone
    <3>3. sessions' = sessions /\ issued' = issued
      BY DEF Arrive
    <3> QED BY <2>1, <3>1, <3>2, <3>3 DEF SessionInv, Late, Gone
  <2> QED BY <2>2, <2>3
<1> QED BY <1>1, <1>2, <1>3 DEF SessionInv

LEMMA SessionRestart == ASSUME SessionInv, Restart PROVE SessionInv'
<1>1. TypeOK'
  BY TypeStep DEF SessionInv, Next
<1> QED BY <1>1 DEF SessionInv, Ended, Held, Late, CookieNamesASession, Restart, Gone,
                    Free, AuthPCs

\* A login touches no session but the one it inserts.
LEMMA SessionLogin == ASSUME SessionInv, NEW s \in Slots, HandleLogin(s) PROVE SessionInv'
<1>1. TypeOK'
  BY TypeStep DEF SessionInv, Next
<1>2. \A r \in Slots : req'[r].pc \in AuthPCs => req'[r] = req[r]
  <2>1. \A r \in Slots : r # s => req'[r] = req[r]
    BY DEF HandleLogin, CheckLock, Lookup, Refuse, Accept, SignIn, Goto, Reply,
           SessionInv, TypeOK
  <2>2. req'[s].pc \in {"free", "lookup", "compare", "insert"}
    <3>1. \A label : Goto(s, label) => req'[s].pc = label
      BY DEF Goto, SessionInv, TypeOK
    <3>2. Reply(s) => req'[s].pc = "free"
      BY DEF Reply, SessionInv, TypeOK, Free
    <3> QED BY <3>1, <3>2 DEF HandleLogin, CheckLock, Lookup, Refuse, Accept, SignIn
  <2> QED BY <2>1, <2>2 DEF AuthPCs
<1>3. issued \subseteq issued' /\ \A k \in issued : Gone(k) => Gone(k)'
  BY SessionSteps DEF Next
<1>4. Late'
  BY <1>2, <1>3 DEF SessionInv, Late
<1>5. over' = over
  BY DEF HandleLogin, CheckLock, Lookup, Refuse, Accept, SignIn
<1>6. Ended'
  BY <1>3, <1>5 DEF SessionInv, Ended
<1>7. CASE UNCHANGED <<sessions, issued, jar>>
  BY <1>1, <1>4, <1>5, <1>6, <1>7 DEF SessionInv, Held, CookieNamesASession
<1>8. ASSUME NEW k \in Tokens \ issued, issued' = issued \cup {k},
             sessions' = [sessions EXCEPT ![k] = SessionTTL],
             jar' = [jar EXCEPT ![req[s].from] = k]
      PROVE  SessionInv'
  <2>1. \A b \in Browsers : jar'[b] = jar[b] \/ jar'[b] = k
    BY <1>8 DEF SessionInv, TypeOK
  <2>2. sessions'[k] # Nil
    BY <1>8, NilAssumption, AuthAssumption, SMT DEF SessionInv, TypeOK
  <2>3. \A j \in issued : sessions'[j] = sessions[j]
    BY <1>8 DEF SessionInv, TypeOK
  <2>4. Held' /\ CookieNamesASession'
    BY <1>5, <1>8, <2>1, <2>2, <2>3 DEF SessionInv, Held, CookieNamesASession
  <2> QED BY <1>1, <1>4, <1>6, <2>4 DEF SessionInv
<1> QED BY <1>7, <1>8 DEF HandleLogin, CheckLock, Lookup, Refuse, Accept, SignIn

\* A protected request ends at most the session it names, and says so in over.
LEMMA SessionProtected ==
  ASSUME SessionInv, NEW s \in Slots, HandleProtected(s) PROVE SessionInv'
<1> DEFINE k == req[s].token
<1>1. TypeOK'
  BY TypeStep DEF SessionInv, Next
<1>2. req[s].pc \in AuthPCs /\ k \in issued /\ k \in Tokens
  BY DEF SessionInv, TypeOK, Late, HandleProtected, Authenticate, PurgeSession, CheckForm,
         Write, Logout, AuthPCs
<1>3. issued' = issued
  BY DEF HandleProtected, Authenticate, PurgeSession, CheckForm, Write, Logout
<1>4. \A j \in issued : Gone(j) => sessions'[j] \in {Expired, Nil}
  BY SessionSteps DEF Next, Gone
<1>5. \A r \in Slots : r # s => req'[r] = req[r]
  BY DEF HandleProtected, Authenticate, PurgeSession, CheckForm, Write, Logout, Goto,
         Reply, SessionInv, TypeOK
<1>6. ASSUME req'[s].pc \in AuthPCs
      PROVE  /\ req'[s].token = k /\ req'[s].late = req[s].late
             /\ req'[s].pc = "purge" => Gone(k)
             /\ req[s].late => req'[s].pc \in {"auth", "purge"}
  <2>1. ~Reply(s)
    BY <1>6 DEF Reply, SessionInv, TypeOK, Free, AuthPCs
  <2>2. \A label : Goto(s, label) =>
          req'[s].pc = label /\ req'[s].token = k /\ req'[s].late = req[s].late
    BY RequestTypes, <1>2 DEF Goto, SessionInv, TypeOK, AuthReq
  <2>3. CASE Authenticate(s)
    <3>1. CASE sessions[k] # Nil /\ TimeOver(k) /\ Goto(s, "purge")
      BY <2>2, <3>1 DEF TimeOver, Gone
    <3>2. ASSUME sessions[k] # Nil, ~TimeOver(k), NEW next \in {"csrf", "delete"}, Goto(s, next)
          PROVE  /\ req'[s].token = k /\ req'[s].late = req[s].late
                 /\ req'[s].pc \in {"csrf", "delete"} /\ ~req[s].late
      BY <1>2, <2>2, <3>2 DEF TimeOver, SessionInv, Late, Gone
    <3> QED BY <2>1, <2>3, <3>1, <3>2 DEF Authenticate
  <2>4. CASE CheckForm(s)
    <3>1. Goto(s, "write") /\ req[s].pc = "csrf"
      BY <2>1, <2>4 DEF CheckForm
    <3>2. ~req[s].late
      BY <1>2, <3>1 DEF SessionInv, Late
    <3> QED BY <2>2, <3>1, <3>2
  <2> QED BY <2>1, <2>3, <2>4 DEF HandleProtected, PurgeSession, Write, Logout
<1>7. Late'
  <2>1. ASSUME NEW r \in Slots, r # s, req'[r].pc \in AuthPCs
        PROVE  /\ req'[r].token \in issued'
               /\ req'[r].pc = "purge" => sessions'[req[r].token] \in {Expired, Nil}
               /\ req'[r].late => /\ sessions'[req[r].token] \in {Expired, Nil}
                                  /\ req'[r].pc \in {"auth", "purge"}
    BY <1>3, <1>4, <1>5, <2>1 DEF SessionInv, Late
  <2>2. ASSUME req'[s].pc \in AuthPCs
        PROVE  /\ req'[s].token \in issued'
               /\ req'[s].pc = "purge" => sessions'[k] \in {Expired, Nil}
               /\ req'[s].late => /\ sessions'[k] \in {Expired, Nil}
                                  /\ req'[s].pc \in {"auth", "purge"}
    <3>1. req'[s].token = k /\ k \in issued'
      BY <1>2, <1>3, <1>6, <2>2
    <3>2. CASE req'[s].pc = "purge"
      <4>1. sessions'[k] \in {Expired, Nil}
        BY <1>2, <1>4, <1>6, <2>2, <3>2
      <4> QED BY <3>1, <3>2, <4>1
    <3>3. CASE req'[s].pc # "purge" /\ req'[s].late
      <4>1. Gone(k)
        BY <1>2, <1>6, <2>2, <3>3 DEF SessionInv, Late
      <4>2. sessions'[k] \in {Expired, Nil}
        BY <1>2, <1>4, <4>1
      <4> QED BY <1>6, <2>2, <3>1, <3>3, <4>2
    <3> QED BY <3>1, <3>2, <3>3
  <2>3. \A r \in Slots : req'[r].pc \in AuthPCs => req'[r].token = req[r].token
    BY <1>5, <1>6
  <2> QED BY <2>1, <2>2, <2>3 DEF Late, Gone
<1>8. /\ over' = over \/ (over' = over \cup {k} /\ (Gone(k) \/ sessions'[k] = Nil))
      /\ \A j \in Tokens : j # k => sessions'[j] = sessions[j]
      /\ sessions'[k] = sessions[k] \/ (sessions'[k] = Nil /\ (k \in over' \/ sessions[k] = Nil))
      /\ \A b \in Browsers : jar'[b] \in {Nil, jar[b]}
  <2>1. CASE PurgeSession(s)
    <3>1. Gone(k)
      BY <1>2, <2>1 DEF PurgeSession, SessionInv, Late
    <3> QED BY <1>2, <2>1, <3>1 DEF PurgeSession, SessionInv, TypeOK, Gone
  <2>2. CASE Logout(s)
    BY <1>2, <2>2 DEF Logout, SessionInv, TypeOK
  <2>3. CASE UNCHANGED <<sessions, over, jar>>
    BY <2>3
  <2> QED BY <2>1, <2>2, <2>3 DEF HandleProtected, Authenticate, CheckForm, Write
<1>9. Ended'
  <2>1. Gone(k) \/ sessions'[k] = Nil => sessions'[k] \in {Expired, Nil}
    BY <1>2, <1>4
  <2>2. \A j \in over : sessions'[j] \in {Expired, Nil} /\ j \in issued
    BY <1>4 DEF SessionInv, Ended
  <2>3. \A j \in over' : sessions'[j] \in {Expired, Nil} /\ j \in issued
    BY <1>2, <1>8, <2>1, <2>2
  <2> QED BY <1>3, <2>3 DEF Ended, Gone
<1>10. Held'
  BY <1>3, <1>8 DEF SessionInv, Held
<1>11. CookieNamesASession'
  <2> SUFFICES ASSUME NEW b \in Browsers, jar'[b] # Nil
               PROVE  sessions'[jar'[b]] # Nil \/ jar'[b] \in over'
    BY DEF CookieNamesASession
  <2>1. jar'[b] = jar[b] /\ jar[b] \in Tokens /\ over \subseteq over'
    BY <1>8 DEF SessionInv, TypeOK
  <2>2. sessions[jar[b]] # Nil \/ jar[b] \in over
    BY <2>1 DEF SessionInv, CookieNamesASession
  <2> HIDE DEF k
  <2> QED BY <1>8, <2>1, <2>2
<1> QED BY <1>1, <1>7, <1>9, <1>10, <1>11 DEF SessionInv

LEMMA SessionsInductive == Spec => []SessionInv
<1>1. Init => SessionInv
  BY TypeInit
     DEF Init, SessionInv, Ended, Held, Late, CookieNamesASession, Free, AuthPCs
<1>2. SessionInv /\ [Next]_vars => SessionInv'
  <2> SUFFICES ASSUME SessionInv, [Next]_vars PROVE SessionInv'
    OBVIOUS
  <2>1. CASE Next
    BY <2>1, SessionTick, SessionArrive, SessionRestart, SessionLogin, SessionProtected
       DEF Next
  <2>2. CASE UNCHANGED vars
    <3>1. TypeOK'
      BY <2>2, TypeStep DEF SessionInv
    <3> QED BY <2>2, <3>1
            DEF vars, SessionInv, Ended, Held, Late, CookieNamesASession, Gone
  <2> QED BY <2>1, <2>2
<1> QED BY <1>1, <1>2, PTL DEF Spec

\* middleware.go:27-37, handlers_auth.go:135: whatever runs in between, a request
\* sent after its session's end reaches no handler.
THEOREM NothingServedAfterTheEnd == Spec => []NothingAfterTheEnd
<1>1. SessionInv => NothingAfterTheEnd
  BY DEF SessionInv, Late, NothingAfterTheEnd, AuthPCs
<1> QED BY <1>1, SessionsInductive, PTL

\* handlers_auth.go:107-119: a browser that holds a cookie is signed in, until the
\* session is over.
THEOREM CookiesNameSessions == Spec => []CookieNamesASession
<1>1. SessionInv => CookieNamesASession
  BY DEF SessionInv
<1> QED BY <1>1, SessionsInductive, PTL

-----------------------------------------------------------------------------
(* The bound on failures                                                   *)

\* A stale window included: the count and the passwords being compared together.
Within(ip) ==
  attempts[ip] # Nil =>
    attempts[ip].count + Cardinality(Comparing(ip)) < MaxAttempts + Cardinality(Slots)

BoundInv == TypeOK /\ \A ip \in IPs : Within(ip)

\* There are at most as many passwords being compared as slots.
LEMMA Comparisons ==
  ASSUME NEW S \in SUBSET Slots, NEW T \in SUBSET S
  PROVE  /\ Cardinality(T) \in Nat /\ Cardinality(S) \in Nat /\ Cardinality(Slots) \in Nat
         /\ Cardinality(T) <= Cardinality(S) /\ Cardinality(S) <= Cardinality(Slots)
         /\ \A s \in S : s \notin T => Cardinality(T) + 1 <= Cardinality(S)
<1>1. IsFiniteSet(Slots) /\ IsFiniteSet(S) /\ IsFiniteSet(T)
  BY AuthAssumption, FS_Subset
<1>2. /\ Cardinality(T) \in Nat /\ Cardinality(S) \in Nat /\ Cardinality(Slots) \in Nat
      /\ Cardinality(T) <= Cardinality(S) /\ Cardinality(S) <= Cardinality(Slots)
  BY <1>1, FS_CardinalityType, FS_Subset
<1>3. ASSUME NEW s \in S, s \notin T PROVE Cardinality(T) + 1 <= Cardinality(S)
  <2>1. Cardinality(S \ {s}) = Cardinality(S) - 1 /\ IsFiniteSet(S \ {s})
    BY <1>1, FS_RemoveElement
  <2>2. Cardinality(T) <= Cardinality(S \ {s})
    BY <1>3, <2>1, FS_Subset
  <2> QED BY <1>2, <2>1, <2>2, SMT
<1> QED BY <1>2, <1>3

\* A step that does not raise the count, nor adds a comparison, keeps the bound;
\* so does one that leaves the count below the limit.
LEMMA WithinKept ==
  ASSUME TypeOK, TypeOK', NEW ip \in IPs, Within(ip),
         attempts'[ip] # Nil =>
           \/ attempts'[ip].count < MaxAttempts
           \/ /\ attempts[ip] # Nil /\ attempts'[ip].count = attempts[ip].count
              /\ \A r \in Slots : req'[r] = req[r] \/ req'[r].pc \notin {"lookup", "compare"}
                                  \/ (req[r].pc \in {"lookup", "compare"}
                                        /\ req'[r].from = req[r].from)
  PROVE  Within(ip)'
<1> DEFINE Old == Comparing(ip)
           New == {r \in Slots : req'[r].pc \in {"lookup", "compare"}
                                   /\ IpOf[req'[r].from] = ip}
<1>1. Comparing(ip)' = New
  BY DEF Comparing, IpOfReq
<1> SUFFICES ASSUME attempts'[ip] # Nil
             PROVE  attempts'[ip].count + Cardinality(New) < MaxAttempts + Cardinality(Slots)
  BY <1>1 DEF Within
<1>2. attempts'[ip].count \in Nat /\ MaxAttempts \in Nat
  BY AuthAssumption DEF TypeOK
<1>3. CASE attempts'[ip].count < MaxAttempts
  <2>1. /\ Cardinality(New) \in Nat /\ Cardinality(Slots) \in Nat
        /\ Cardinality(New) <= Cardinality(Slots)
    BY Comparisons
  <2> HIDE DEF New
  <2> QED BY <1>2, <1>3, <2>1, SMT
<1>4. CASE ~(attempts'[ip].count < MaxAttempts)
  <2>1. attempts[ip] # Nil /\ attempts'[ip].count = attempts[ip].count /\ New \subseteq Old
    BY <1>4 DEF Comparing, IpOfReq
  <2>2. /\ Cardinality(New) \in Nat /\ Cardinality(Old) \in Nat /\ Cardinality(Slots) \in Nat
        /\ Cardinality(New) <= Cardinality(Old)
    BY <2>1, Comparisons DEF Comparing
  <2>3. attempts[ip].count + Cardinality(Old) < MaxAttempts + Cardinality(Slots)
    BY <2>1 DEF Within
  <2> HIDE DEF Old, New
  <2> QED BY <1>2, <2>1, <2>2, <2>3, SMT
<1> QED BY <1>3, <1>4

\* A failure is recorded: one comparison less for one failure more.
LEMMA WithinRefused ==
  ASSUME BoundInv, TypeOK', NEW s \in Slots, Refuse(s), NEW ip \in IPs
  PROVE  Within(ip)'
<1>0. TypeOK /\ Within(ip)
  BY DEF BoundInv
<1>1. /\ \A r \in Slots : r # s => req'[r] = req[r]
      /\ req'[s].pc = "free" /\ req[s].pc = "compare" /\ IpOfReq(s) \in IPs
  BY <1>0, RequestTypes DEF Refuse, Reply, TypeOK, Free, LoginPCs
<1>2. CASE ip # IpOfReq(s)
  <2>1. attempts'[ip] = attempts[ip]
    BY <1>0, <1>2 DEF Refuse, Recorded, TypeOK
  <2> QED BY <1>0, <1>1, <2>1, WithinKept
<1>3. CASE ip = IpOfReq(s)
  <2> DEFINE Old == Comparing(ip)
             New == {r \in Slots : req'[r].pc \in {"lookup", "compare"}
                                     /\ IpOf[req'[r].from] = ip}
  <2>1. Comparing(ip)' = New
    BY DEF Comparing, IpOfReq
  <2>2. s \in Old /\ New \subseteq Old /\ s \notin New
    BY <1>1, <1>3 DEF Comparing, IpOfReq
  <2>3. /\ Cardinality(New) \in Nat /\ Cardinality(Old) \in Nat /\ Cardinality(Slots) \in Nat
        /\ Cardinality(New) + 1 <= Cardinality(Old) /\ Cardinality(Old) <= Cardinality(Slots)
    BY <2>2, Comparisons DEF Comparing
  <2>4. /\ attempts'[ip] # Nil /\ attempts'[ip].count \in Nat /\ MaxAttempts \in Nat \ {0}
        /\ \/ attempts'[ip].count = 1
           \/ /\ attempts[ip] # Nil /\ attempts[ip].count \in Nat
              /\ attempts'[ip].count = attempts[ip].count + 1
    <3>1. attempts'[ip] = IF attempts[ip] = Nil \/ attempts[ip].age > LockoutWindow
                          THEN [count |-> 1, age |-> 0]
                          ELSE [count |-> attempts[ip].count + 1, age |-> attempts[ip].age]
      BY <1>0, <1>3 DEF Refuse, Recorded, TypeOK
    <3>2. attempts'[ip] # Nil
      <4>1. [count |-> 1, age |-> 0] \in [count : Nat \ {0}, age : 0..(LockoutWindow + 1)]
        BY AuthAssumption, SMT
      <4>2. attempts[ip] # Nil =>
              [count |-> attempts[ip].count + 1, age |-> attempts[ip].age]
                \in [count : Nat \ {0}, age : 0..(LockoutWindow + 1)]
        BY <1>0, SMT DEF TypeOK, AgeOf
      <4> QED BY <3>1, <4>1, <4>2, NilAssumption
    <3>3. attempts[ip] # Nil => attempts[ip].count \in Nat
      BY <1>0 DEF TypeOK
    <3>4. attempts'[ip].count \in Nat
      BY <3>2 DEF TypeOK
    <3> QED BY <3>1, <3>2, <3>3, <3>4, AuthAssumption
  <2>5. attempts[ip] # Nil =>
          attempts[ip].count + Cardinality(Old) < MaxAttempts + Cardinality(Slots)
    BY <1>0 DEF Within
  <2> HIDE DEF Old, New
  <2>6. attempts'[ip].count + Cardinality(New) < MaxAttempts + Cardinality(Slots)
    BY <2>3, <2>4, <2>5, SMT
  <2> QED BY <2>1, <2>6 DEF Within
<1> QED BY <1>2, <1>3

LEMMA BoundStep == BoundInv /\ [Next]_vars => BoundInv'
<1> SUFFICES ASSUME BoundInv, [Next]_vars, NEW ip \in IPs PROVE Within(ip)'
  BY TypeStep DEF BoundInv
<1>0. TypeOK /\ Within(ip) /\ TypeOK'
  BY TypeStep DEF BoundInv
<1> DEFINE Same(r) == \/ req'[r] = req[r] \/ req'[r].pc \notin {"lookup", "compare"}
                      \/ (req[r].pc \in {"lookup", "compare"} /\ req'[r].from = req[r].from)
<1>1. CASE UNCHANGED <<attempts, req>>
  BY <1>0, <1>1, WithinKept
<1>2. CASE Tick
  <2>1. attempts'[ip] # Nil => attempts[ip] # Nil /\ attempts'[ip].count = attempts[ip].count
    BY <1>0, <1>2 DEF Tick, TypeOK
  <2> QED BY <1>0, <1>2, <2>1, WithinKept DEF Tick
<1>3. CASE Restart
  <2>1. attempts'[ip] = Nil
    BY <1>3 DEF Restart
  <2> QED BY <1>0, <2>1 DEF Within
<1>4. ASSUME NEW s \in Slots, NEW b \in Browsers, NEW kind \in {"login", "protected"},
             Arrive(s, b, kind)
      PROVE  Within(ip)'
  <2>1. \A r \in Slots : Same(r)
    BY <1>0, <1>4 DEF Arrive, TypeOK
  <2> QED BY <1>0, <1>4, <2>1, WithinKept DEF Arrive
<1>5. ASSUME NEW s \in Slots, CheckLock(s) PROVE Within(ip)'
  <2>1. attempts'[ip] # Nil =>
          /\ attempts'[ip] = attempts[ip]
          /\ ip = IpOfReq(s) => attempts[ip].age <= LockoutWindow
    BY <1>0, <1>5, AuthAssumption, SMT DEF CheckLock, Purged, TypeOK, AgeOf
  <2>2. CASE Reply(s)
    <3>1. \A r \in Slots : Same(r)
      BY <1>0, <2>2 DEF Reply, TypeOK, Free
    <3> QED BY <1>0, <2>1, <3>1, WithinKept
  <2>3. CASE ~Locked(IpOfReq(s)) /\ Goto(s, "lookup")
    <3>1. CASE ip = IpOfReq(s)
      <4>1. attempts'[ip] # Nil => attempts'[ip].count < MaxAttempts
        BY <1>0, <2>1, <2>3, <3>1, AuthAssumption, SMT DEF Locked, TypeOK
      <4> QED BY <1>0, <4>1, WithinKept
    <3>2. CASE ip # IpOfReq(s)
      <4> DEFINE Old == Comparing(ip)
                 New == {r \in Slots : req'[r].pc \in {"lookup", "compare"}
                                         /\ IpOf[req'[r].from] = ip}
      <4>1. Comparing(ip)' = New
        BY DEF Comparing, IpOfReq
      <4>2. req'[s].from = req[s].from /\ \A r \in Slots : r # s => req'[r] = req[r]
        BY <1>0, <1>5, <2>3, RequestTypes
           DEF CheckLock, Goto, TypeOK, LoginReq, LoginPCs
      <4>3. New \subseteq Old
        BY <3>2, <4>2 DEF Comparing, IpOfReq
      <4>4. /\ Cardinality(New) \in Nat /\ Cardinality(Old) \in Nat
            /\ Cardinality(Slots) \in Nat /\ Cardinality(New) <= Cardinality(Old)
        BY <4>3, Comparisons DEF Comparing
      <4> SUFFICES ASSUME attempts'[ip] # Nil
                   PROVE  attempts'[ip].count + Cardinality(New)
                            < MaxAttempts + Cardinality(Slots)
        BY <4>1 DEF Within
      <4>5. /\ attempts'[ip] = attempts[ip] /\ attempts[ip].count \in Nat /\ MaxAttempts \in Nat
            /\ attempts[ip].count + Cardinality(Old) < MaxAttempts + Cardinality(Slots)
        BY <1>0, <2>1, AuthAssumption DEF Within, TypeOK
      <4> HIDE DEF Old, New
      <4> QED BY <4>4, <4>5, SMT
    <3> QED BY <3>1, <3>2
  <2> QED BY <1>5, <2>2, <2>3 DEF CheckLock
<1>6. ASSUME NEW s \in Slots, Lookup(s) PROVE Within(ip)'
  <2>1. \A r \in Slots : Same(r)
    <3>1. CASE Reply(s)
      BY <1>0, <3>1 DEF Reply, TypeOK, Free
    <3>2. CASE Goto(s, "compare")
      BY <1>0, <1>6, <3>2, RequestTypes DEF Lookup, Goto, TypeOK, LoginReq, LoginPCs
    <3> QED BY <1>6, <3>1, <3>2 DEF Lookup
  <2> QED BY <1>0, <1>6, <2>1, WithinKept DEF Lookup
<1>7. ASSUME NEW s \in Slots, Refuse(s) PROVE Within(ip)'
  BY <1>0, <1>7, WithinRefused
<1>8. ASSUME NEW s \in Slots, Accept(s) PROVE Within(ip)'
  <2>1. attempts'[ip] # Nil => attempts'[ip] = attempts[ip]
    BY <1>0, <1>8 DEF Accept, TypeOK
  <2>2. /\ \A r \in Slots : r # s => req'[r] = req[r]
        /\ req'[s].pc = "insert"
    <3>1. \A label : Goto(s, label) =>
            req'[s].pc = label /\ \A r \in Slots : r # s => req'[r] = req[r]
      BY <1>0, RequestTypes DEF Goto, TypeOK
    <3> QED BY <1>8, <3>1 DEF Accept
  <2>3. \A r \in Slots : Same(r)
    BY <2>2
  <2> QED BY <1>0, <2>1, <2>3, WithinKept
<1>9. ASSUME NEW s \in Slots, SignIn(s) PROVE Within(ip)'
  <2>1. \A r \in Slots : Same(r)
    BY <1>0, <1>9 DEF SignIn, Reply, TypeOK, Free
  <2> QED BY <1>0, <1>9, <2>1, WithinKept DEF SignIn
<1>10. ASSUME NEW s \in Slots, HandleProtected(s) PROVE Within(ip)'
  <2>1. attempts' = attempts
    BY <1>10 DEF HandleProtected, Authenticate, PurgeSession, CheckForm, Write, Logout
  <2>2. /\ \A r \in Slots : r # s => req'[r] = req[r]
        /\ req'[s].pc \in {"free", "purge", "csrf", "delete", "write"}
    <3>1. \A label : Goto(s, label) =>
            req'[s].pc = label /\ \A r \in Slots : r # s => req'[r] = req[r]
      BY <1>0, RequestTypes DEF Goto, TypeOK
    <3>2. Reply(s) => req'[s].pc = "free" /\ \A r \in Slots : r # s => req'[r] = req[r]
      BY <1>0 DEF Reply, TypeOK, Free
    <3> QED BY <1>10, <3>1, <3>2
            DEF HandleProtected, Authenticate, PurgeSession, CheckForm, Write, Logout
  <2>3. \A r \in Slots : Same(r)
    BY <2>2
  <2> QED BY <1>0, <2>1, <2>3, WithinKept
<1> QED BY <1>0, <1>1, <1>2, <1>3, <1>4, <1>5, <1>6, <1>7, <1>8, <1>9, <1>10
        DEF Next, HandleLogin, vars

\* bruteforce.go:29-56, handlers_auth.go:44-78: for every limit and every number of
\* requests in flight, an address has fewer than MaxAttempts + |Slots| failures in
\* a window.
THEOREM OvershootIsBounded == Spec => []OvershootBounded
<1>1. Init => BoundInv
  <2> SUFFICES ASSUME Init PROVE BoundInv
    OBVIOUS
  <2>1. TypeOK
    BY TypeInit
  <2> QED BY <2>1 DEF BoundInv, Within, Init
<1>2. BoundInv => OvershootBounded
  BY DEF BoundInv, Within, OvershootBounded
<1> QED BY <1>1, <1>2, BoundStep, PTL DEF Spec
=============================================================================
