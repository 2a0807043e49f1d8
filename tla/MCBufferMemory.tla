--------------------------- MODULE MCBufferMemory ---------------------------
EXTENDS BufferMemory
=============================================================================
