---------------------------- MODULE MCTelemetry ----------------------------
EXTENDS Telemetry

MCKinds == {"cpu", "gpu"}
MCPorts == {1, 2}
=============================================================================
