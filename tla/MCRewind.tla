------------------------------ MODULE MCRewind -----------------------------
EXTENDS RewindBuffer
MCSaved == {<<0, 0, 0, 0>>, <<2, 1, 2, 1>>}
=============================================================================
