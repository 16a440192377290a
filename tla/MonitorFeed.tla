----------------------------- MODULE MonitorFeed -----------------------------
(***************************************************************************)
(* What a monitor promises to the engine and to the pages: a flag and a    *)
(* listing of something that changes.  A listing is known by the version   *)
(* of what it lists; it is never made up and never goes back.  A refresh   *)
(* that fails drops the flag and keeps the listing.  The flag may rise     *)
(* over a listing left from before.                                        *)
(*                                                                         *)
(* This is the environment that AlertEngine assumes, where a listing of    *)
(* any units stands for any version of them.                               *)
(***************************************************************************)
EXTENDS Naturals

VARIABLES world,   \* version of what is listed
          flag,    \* Available()
          listing  \* the version Containers() or Services() gives; 0: none yet

feedVars == <<world, flag, listing>>

FeedInit ==
  /\ world \in Nat
  /\ flag \in BOOLEAN
  /\ listing = 0

WorldChanges == world' = world + 1 /\ UNCHANGED <<flag, listing>>

Refreshed ==
  /\ flag' = TRUE
  /\ listing' \in listing..world
  /\ UNCHANGED world

Failed == flag' = FALSE /\ UNCHANGED <<world, listing>>

FeedNext == WorldChanges \/ Refreshed \/ Failed

FeedSpec == FeedInit /\ [][FeedNext]_feedVars
=============================================================================
