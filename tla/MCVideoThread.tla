--------------------------- MODULE MCVideoThread ---------------------------
EXTENDS VideoThread
=============================================================================
