---------------------------- MODULE MCBlitzGame ----------------------------
\* A game long enough for both sides to move, and a short one after it.
EXTENDS BlitzGame

MCMaxPly == <<4, 1>>
=============================================================================
