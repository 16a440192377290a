----------------------------- MODULE MCMonitors -----------------------------
(* Values for TLC's instance of Monitors: the states of two services. *)
EXTENDS Monitors, TLC

Loaded(n, a, s, d) ==
  [name |-> n, load |-> "loaded", active |-> a, sub |-> s, description |-> d]

MCUnitsAt ==
  (0 :> <<Loaded("ssh", "active", "running", <<"Secure", "shell">>)>>)
   @@ (1 :> <<Loaded("ssh", "failed", "failed", <<"Secure", "shell">>),
               Loaded("web", "activating", "start", <<>>)>>)
=============================================================================
