--------------------------- MODULE MCAudioThread ---------------------------
EXTENDS AudioThread
=============================================================================
