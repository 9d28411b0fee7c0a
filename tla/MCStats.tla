------------------------------- MODULE MCStats -------------------------------
EXTENDS Stats
=============================================================================
