---------------------------- MODULE MCDrillClaim ----------------------------
EXTENDS DrillClaim, TLC

Symmetry == Permutations(Tabs)
=============================================================================
