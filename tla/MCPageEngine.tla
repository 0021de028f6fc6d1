---------------------------- MODULE MCPageEngine ----------------------------
EXTENDS PageEngine
=============================================================================
