-------------------------- MODULE MCUsageTelemetry --------------------------
(* The instance of UsageTelemetry for TLC: two feature keys, one bucket.   *)
EXTENDS UsageTelemetry
=============================================================================
