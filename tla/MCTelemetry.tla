---------------------------- MODULE MCTelemetry ----------------------------
(* Reports that degrade, recover and degrade again.                        *)
EXTENDS Telemetry

MCLevelOf == [n \in Report |-> IF n % 2 = 1 THEN 2 ELSE 0]
=============================================================================
