-------------------------- MODULE MCBlitzAnalysis --------------------------
EXTENDS BlitzAnalysis
=============================================================================
