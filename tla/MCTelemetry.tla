------------------------------ MODULE MCTelemetry ------------------------------
EXTENDS Telemetry
CONSTANTS s1, s2, u1, u2
TwoRuns == <<{s1}, {s2}>>
TwoRunsUnits == <<{u1, u2}, {u2}>>
==============================================================================
