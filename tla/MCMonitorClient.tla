--------------------------- MODULE MCMonitorClient ---------------------------
EXTENDS MonitorClient
=============================================================================
