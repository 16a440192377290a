------------------------------ MODULE AlertLog ------------------------------
(***************************************************************************)
(* What the alert engine promises of the Alert table, whatever its         *)
(* evaluations, its database and the administrator do: the table is a log  *)
(* that only grows at its end, in the order in which the engine decided,   *)
(* and within one life of the process two alerts of one key (a rule, a     *)
(* container or a service) are at least the key's cooldown apart.  A       *)
(* restart forgets the cooldowns, so nothing is promised across lives.     *)
(***************************************************************************)
EXTENDS Naturals, Sequences

CONSTANTS Keys,     \* what an alert can be about
          Times,    \* the instants of the clock
          Gaps,     \* the cooldowns in use
          Lives     \* the numbers of the process's lives

VARIABLES log,      \* the alerts recorded so far
          life      \* the current life of the process

logVars == <<log, life>>

Entry == [key : Keys, at : Times, gap : Gaps, life : Lives]

\* No alert of k in this life is less than g before t, and none is later than t.
Spaced(k, t, g) ==
  \A i \in DOMAIN log :
    /\ log[i].at <= t
    /\ log[i].key = k /\ log[i].life = life => log[i].at + g <= t

LogInit == log = <<>> /\ life \in Lives

Record(k, t, g) ==
  /\ Spaced(k, t, g)
  /\ log' = Append(log, [key |-> k, at |-> t, gap |-> g, life |-> life])
  /\ UNCHANGED life

NewLife ==
  /\ life + 1 \in Lives
  /\ life' = life + 1
  /\ UNCHANGED log

LogNext ==
  \/ \E k \in Keys, t \in Times, g \in Gaps : Record(k, t, g)
  \/ NewLife

LogSpec == LogInit /\ [][LogNext]_logVars
=============================================================================
