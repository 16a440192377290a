-------------------------------- MODULE Auth --------------------------------
(***************************************************************************)
(* Signing in and out: the failure counter (internal/auth/bruteforce.go),  *)
(* the login and logout handlers (internal/server/handlers_auth.go), the   *)
(* middleware in front of the protected routes (middleware.go, with the    *)
(* second reading of the session in validateCSRF, handlers_settings.go)    *)
(* and the Session table (internal/database/auth.go).                      *)
(*                                                                         *)
(* Every request is handled by a goroutine of its own; each call to the    *)
(* counter (one mutex) and each query (one connection) is a step.  Time is *)
(* kept as ages, so that the clock needs no bound: an age stops growing    *)
(* once it is past every comparison the code makes with it.                *)
(***************************************************************************)
EXTENDS Integers, FiniteSets

CONSTANTS
  Browsers,
  IPs, IpOf,      \* browser -> the address its requests come from
  Slots,          \* bound: requests in flight at once
  Tokens,         \* bound: session tokens ever issued; each login draws a new one
  MaxAttempts,    \* bruteforce.go:9
  LockoutWindow,  \* bruteforce.go:10, in ticks
  SessionTTL,     \* in ticks
  MaxFaults,      \* bound: database calls that fail
  Nil

ASSUME AuthAssumption ==
  /\ IpOf \in [Browsers -> IPs]
  /\ {MaxAttempts, LockoutWindow} \subseteq Nat \ {0}
  /\ {SessionTTL, MaxFaults} \subseteq Nat
  /\ IsFiniteSet(Slots) /\ IsFiniteSet(Tokens)

ASSUME NilAssumption ==
  /\ Nil \notin Tokens /\ Nil \notin Int
  /\ Nil \notin [count : Nat \ {0}, age : 0..(LockoutWindow + 1)]

VARIABLES
  attempts,  \* ip -> [count, age of firstAt], or Nil; lost with the process
  sessions,  \* token -> ticks it has left (-1: expired), or Nil; in the database
  issued,    \* tokens drawn so far
  jar,       \* browser -> the token in its session cookie, or Nil
  req,       \* slot -> the request handled there
  faults,    \* database calls that have failed
  \* history, read by the properties only
  over       \* tokens whose session was ended by a logout or found expired

vars == <<attempts, sessions, issued, jar, req, faults, over>>

Expired == -1
Free == [pc |-> "free", from |-> Nil, token |-> Nil, late |-> FALSE]
AgeOf == 0..(LockoutWindow + 1)
LoginPCs == {"check", "lookup", "compare", "insert"}
AuthPCs == {"auth", "purge", "csrf", "write", "delete"}

Fault == faults < MaxFaults /\ faults' = faults + 1
IpOfReq(s) == IpOf[req[s].from]
Goto(s, label) == req' = [req EXCEPT ![s].pc = label]
Reply(s) == req' = [req EXCEPT ![s] = Free]

-----------------------------------------------------------------------------
(* The failure counter                                                     *)

\* Variant for the mutation runs: one failure more.
LockedLate(ip) ==
  /\ attempts[ip] # Nil
  /\ attempts[ip].age <= LockoutWindow
  /\ attempts[ip].count > MaxAttempts
\* Variant for the mutation runs: the window is not looked at.
LockedForGood(ip) == attempts[ip] # Nil /\ attempts[ip].count >= MaxAttempts

\* What IsLocked answers.
Locked(ip) ==
  /\ attempts[ip] # Nil
  /\ attempts[ip].age <= LockoutWindow
  /\ attempts[ip].count >= MaxAttempts

\* IsLocked also forgets a window that is over.
Purged(ip) ==
  IF attempts[ip] # Nil /\ attempts[ip].age > LockoutWindow
  THEN [attempts EXCEPT ![ip] = Nil] ELSE attempts

\* RecordFailure: a new window, or one more failure in the window.
Recorded(ip) ==
  [attempts EXCEPT ![ip] =
     IF @ = Nil \/ @.age > LockoutWindow
     THEN [count |-> 1, age |-> 0]
     ELSE [count |-> @.count + 1, age |-> @.age]]

-----------------------------------------------------------------------------
(* The clock, the browsers and the process                                 *)

Older(age) == IF age <= LockoutWindow THEN age + 1 ELSE age

Tick ==
  /\ attempts' = [ip \in IPs |-> IF attempts[ip] = Nil THEN Nil
                    ELSE [attempts[ip] EXCEPT !.age = Older(@)]]
  /\ sessions' = [k \in Tokens |-> IF sessions[k] = Nil \/ sessions[k] = Expired
                                   THEN sessions[k] ELSE sessions[k] - 1]
  /\ UNCHANGED <<issued, jar, req, faults, over>>

\* Bound: every login in flight can draw a token.
RoomToSignIn ==
  Cardinality(issued) + Cardinality({s \in Slots : req[s].pc \in LoginPCs})
    < Cardinality(Tokens)

\* POST /login, POST /logout or a POST that changes a setting: the request carries
\* the cookie its browser has now.
Arrive(s, b, kind) ==
  /\ req[s].pc = "free"
  /\ kind = "login" => RoomToSignIn
  /\ kind # "login" => jar[b] # Nil
  /\ req' = [req EXCEPT ![s] =
       [pc    |-> IF kind = "login" THEN "check" ELSE "auth",
        from  |-> b,
        token |-> IF kind = "login" THEN Nil ELSE jar[b],
        late  |-> kind # "login" /\ (jar[b] \in over \/ sessions[jar[b]] \in {Expired, Nil})]]
  /\ UNCHANGED <<attempts, sessions, issued, jar, faults, over>>

\* The process dies and comes back: the counter is empty, the requests are lost.
Restart ==
  /\ attempts' = [ip \in IPs |-> Nil]
  /\ req' = [s \in Slots |-> Free]
  /\ UNCHANGED <<sessions, issued, jar, faults, over>>

-----------------------------------------------------------------------------
(* handleLogin                                                             *)

\* IsLocked, and the CSRF cookie: a refused request ends here.
CheckLock(s) ==
  /\ req[s].pc = "check"
  /\ attempts' = Purged(IpOfReq(s))
  /\ \/ ~Locked(IpOfReq(s)) /\ Goto(s, "lookup")
     \/ Reply(s)
  /\ UNCHANGED <<sessions, issued, jar, faults, over>>

\* GetUserByUsername: the hash to compare with, or an error.
Lookup(s) ==
  /\ req[s].pc = "lookup"
  /\ \/ Goto(s, "compare") /\ UNCHANGED faults
     \/ Fault /\ Reply(s)
  /\ UNCHANGED <<attempts, sessions, issued, jar, over>>

\* The password was wrong, or there is no such user.
Refuse(s) ==
  /\ req[s].pc = "compare"
  /\ attempts' = Recorded(IpOfReq(s))
  /\ Reply(s)
  /\ UNCHANGED <<sessions, issued, jar, faults, over>>

\* The password was right: the counter is reset ...
Accept(s) ==
  /\ req[s].pc = "compare"
  /\ attempts' = [attempts EXCEPT ![IpOfReq(s)] = Nil]
  /\ Goto(s, "insert")
  /\ UNCHANGED <<sessions, issued, jar, faults, over>>

\* Variant for the mutation runs: the cookie is set though the insertion failed.
SignInUnchecked(s) ==
  /\ req[s].pc = "insert"
  /\ \E k \in Tokens \ issued :
       /\ issued' = issued \cup {k}
       /\ jar' = [jar EXCEPT ![req[s].from] = k]
       /\ Reply(s)
       /\ \/ sessions' = [sessions EXCEPT ![k] = SessionTTL] /\ UNCHANGED faults
          \/ Fault /\ UNCHANGED sessions
  /\ UNCHANGED <<attempts, over>>

\* ... and the session inserted; the answer sets the cookie.  An error leaves the
\* counter reset and the browser as it was.
SignIn(s) ==
  /\ req[s].pc = "insert"
  /\ \/ \E k \in Tokens \ issued :
          /\ issued' = issued \cup {k}
          /\ sessions' = [sessions EXCEPT ![k] = SessionTTL]
          /\ jar' = [jar EXCEPT ![req[s].from] = k]
          /\ UNCHANGED faults
     \/ Fault /\ UNCHANGED <<issued, sessions, jar>>
  /\ Reply(s)
  /\ UNCHANGED <<attempts, over>>

-----------------------------------------------------------------------------
(* requireAuth, and the handlers behind it                                 *)

\* Variant for the mutation runs: the expiry is not looked at.
NeverOver(k) == FALSE

\* now.After(ExpiresAt)
TimeOver(k) == sessions[k] = Expired

\* GetSession: no row, or an error, and the request is sent to the login page.
Authenticate(s) ==
  LET k == req[s].token
  IN /\ req[s].pc = "auth"
     /\ \/ sessions[k] = Nil /\ Reply(s) /\ UNCHANGED faults
        \/ Fault /\ Reply(s)
        \/ sessions[k] # Nil /\ TimeOver(k) /\ Goto(s, "purge") /\ UNCHANGED faults
        \/ /\ sessions[k] # Nil /\ ~TimeOver(k)
           /\ \E next \in {"csrf", "delete"} : Goto(s, next)
           /\ UNCHANGED faults
     /\ UNCHANGED <<attempts, sessions, issued, jar, over>>

\* The expired session is deleted, if the database lets it.
PurgeSession(s) ==
  LET k == req[s].token
  IN /\ req[s].pc = "purge"
     /\ \/ sessions' = [sessions EXCEPT ![k] = Nil] /\ UNCHANGED faults
        \/ Fault /\ UNCHANGED sessions
     /\ over' = IF sessions[k] = Expired THEN over \cup {k} ELSE over
     /\ Reply(s)
     /\ UNCHANGED <<attempts, issued, jar>>

\* validateCSRF reads the session again, not its expiry; a form of another session
\* is refused.
CheckForm(s) ==
  /\ req[s].pc = "csrf"
  /\ \/ sessions[req[s].token] # Nil /\ Goto(s, "write") /\ UNCHANGED faults
     \/ Reply(s) /\ UNCHANGED faults
     \/ Fault /\ Reply(s)
  /\ UNCHANGED <<attempts, sessions, issued, jar, over>>

\* The setting is written.
Write(s) ==
  /\ req[s].pc = "write"
  /\ Reply(s)
  /\ UNCHANGED <<attempts, sessions, issued, jar, faults, over>>

\* handleLogout: the deletion's error is dropped, the cookie is cleared anyway.
Logout(s) ==
  /\ req[s].pc = "delete"
  /\ \/ /\ sessions' = [sessions EXCEPT ![req[s].token] = Nil]
        /\ over' = over \cup {req[s].token}
        /\ UNCHANGED faults
     \/ Fault /\ UNCHANGED <<sessions, over>>
  /\ jar' = [jar EXCEPT ![req[s].from] = Nil]
  /\ Reply(s)
  /\ UNCHANGED <<attempts, issued>>

-----------------------------------------------------------------------------
(* Specification                                                           *)

Init ==
  /\ attempts = [ip \in IPs |-> Nil]
  /\ sessions = [k \in Tokens |-> Nil]
  /\ issued = {}
  /\ jar = [b \in Browsers |-> Nil]
  /\ req = [s \in Slots |-> Free]
  /\ faults = 0
  /\ over = {}

HandleLogin(s) == CheckLock(s) \/ Lookup(s) \/ Refuse(s) \/ Accept(s) \/ SignIn(s)

HandleProtected(s) ==
  Authenticate(s) \/ PurgeSession(s) \/ CheckForm(s) \/ Write(s) \/ Logout(s)

Next ==
  \/ Tick
  \/ Restart
  \/ \E s \in Slots :
       \/ \E b \in Browsers, kind \in {"login", "protected"} : Arrive(s, b, kind)
       \/ HandleLogin(s)
       \/ HandleProtected(s)

Spec == Init /\ [][Next]_vars

\* Time passes, and the goroutine of a request keeps being scheduled.
FairSpec ==
  /\ Spec
  /\ WF_vars(Tick)
  /\ \A s \in Slots : WF_vars(HandleLogin(s) \/ HandleProtected(s))

-----------------------------------------------------------------------------
(* Properties                                                              *)

\* The type of every variable.
TypeOK ==
  /\ attempts \in [IPs -> {Nil} \cup [count : Nat \ {0}, age : AgeOf]]
  /\ sessions \in [Tokens -> {Nil} \cup (Expired..SessionTTL)]
  /\ issued \in SUBSET Tokens
  /\ jar \in [Browsers -> {Nil} \cup Tokens]
  /\ req \in [Slots -> {Free} \cup
        [pc : LoginPCs, from : Browsers, token : {Nil}, late : {FALSE}] \cup
        [pc : AuthPCs, from : Browsers, token : Tokens, late : BOOLEAN]]
  /\ faults \in 0..MaxFaults
  /\ over \in SUBSET Tokens

\* bruteforce.go:41-56 against handlers_auth.go:44-78: the check and the recording
\* are a bcrypt apart, so the requests in flight can pass the limit, but no others:
\* an address never has more than MaxAttempts - 1 + |Slots| failures in a window.
Comparing(ip) ==
  {s \in Slots : req[s].pc \in {"lookup", "compare"} /\ IpOfReq(s) = ip}
OvershootBounded ==
  \A ip \in IPs :
    attempts[ip] # Nil /\ attempts[ip].age <= LockoutWindow =>
      attempts[ip].count + Cardinality(Comparing(ip)) < MaxAttempts + Cardinality(Slots)

\* bruteforce.go:50-53: a lock ends by itself, whatever its owner keeps trying.
LockEnds == \A ip \in IPs : Locked(ip) ~> ~Locked(ip)

\* middleware.go:27-37, handlers_auth.go:135, handlers_settings.go:247: a request
\* that was sent after its session had expired, or after a logout had deleted it,
\* reaches no handler; only those already in flight may.
NothingAfterTheEnd ==
  \A s \in Slots : req[s].pc \in {"csrf", "write", "delete"} => ~req[s].late

\* handlers_auth.go:107-119: a browser that holds a cookie is signed in, until the
\* session expires or another of its requests signs out, through failed calls and
\* restarts of the server.
CookieNamesASession ==
  \A b \in Browsers :
    jar[b] # Nil => sessions[jar[b]] # Nil \/ jar[b] \in over
=============================================================================
