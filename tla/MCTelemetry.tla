---------------------------- MODULE MCTelemetry ----------------------------
(* An instance of Telemetry: the snapshots that its collector can add. *)
EXTENDS Telemetry

MCSnapshots == [cpu : {0} \cup Loads, net : {NoNetwork} \cup Rates]
=============================================================================
