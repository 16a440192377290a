------------------------------ MODULE Monitors ------------------------------
(***************************************************************************)
(* The two monitors side by side, as main starts them (cmd/ultron-ap/      *)
(* main.go:48-57): neither waits for the other, and the engine is given    *)
(* both.                                                                   *)
(***************************************************************************)
EXTENDS DockerMonitor, SystemctlParser

VARIABLES sdTool, sdWorld, sdAvailable, services, sdPc, sdOutput, sdStop

sdVars == <<sdTool, sdWorld, sdAvailable, services, sdPc, sdOutput, sdStop>>

Systemd == INSTANCE SystemdMonitor WITH
  tool <- sdTool, world <- sdWorld, available <- sdAvailable, pc <- sdPc,
  output <- sdOutput, stop <- sdStop

MonitorsInit == Init /\ Systemd!Init

\* The deferred calls of main stop the systemd monitor first.
MonitorsNext ==
  \/ Next /\ UNCHANGED sdVars /\ (Cancelled' => sdStop = "returned")
  \/ Systemd!Next /\ UNCHANGED vars

MonitorsSpec == MonitorsInit /\ [][MonitorsNext]_<<vars, sdVars>>

FairMonitorsSpec ==
  /\ MonitorsSpec
  /\ WF_vars(Work \/ StopReturns) /\ SF_vars(Leave)
  /\ Systemd!Fairness

-----------------------------------------------------------------------------
(* Properties                                                              *)

\* systemd/parser.go:10-60, systemd/monitor.go:117-137: what is served is, unit by unit, a state the
\* units were in, never an older one than before, while the flag falls and rises.
ServicesAreAFeed == Systemd!ServicesAreAFeed

\* systemd/monitor.go:101-137: once systemctl works for good the services come to be
\* those of the machine, whatever the Docker daemon does.
ServicesCatchUp == Systemd!ServicesCatchUp

\* docker/monitor.go:77-86, systemd/monitor.go:64-70: both Stops return, even from a daemon or a
\* systemctl that hangs.
StopsEnd == StopEnds /\ Systemd!StopEnds
=============================================================================
