--------------------------- MODULE MCSocksSession ---------------------------
EXTENDS SocksSession
=============================================================================
