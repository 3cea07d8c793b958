--------------------------- MODULE MCSocketBuffer ---------------------------
EXTENDS SocketBuffer
=============================================================================
