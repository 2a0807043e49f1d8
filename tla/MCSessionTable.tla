--------------------------- MODULE MCSessionTable ---------------------------
EXTENDS SessionTable
=============================================================================
