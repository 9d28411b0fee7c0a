---------------------------- MODULE MCLoopCounter ---------------------------
EXTENDS LoopCounter
=============================================================================
