--------------------------- MODULE MCClaimSearch ---------------------------
EXTENDS ClaimSearch, TLC

Symmetry == Permutations(Callers) \cup Permutations(Phases)
=============================================================================
