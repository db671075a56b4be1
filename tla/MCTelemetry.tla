---------------------------- MODULE MCTelemetry -----------------------------
(* Telemetry on three servers with short logs.                             *)
EXTENDS Telemetry

CONSTANT Bystander

\* One server votes, replicates and may lead, which makes logs diverge, but
\* its own statistics never come: health is judged one server at a time.
BystanderSilent == fetched[Bystander] = None
=============================================================================
