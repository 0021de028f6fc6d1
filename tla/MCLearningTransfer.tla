------------------------- MODULE MCLearningTransfer -------------------------
EXTENDS LearningTransfer, TLC

\* A ladder of two steps, a day each.
MCIntervals == <<1, 1>>

\* A ladder of one step: a reported rule is not due again.
MCShortLadder == <<1>>

Symmetry == Permutations(Tabs) \cup Permutations(Boards)
=============================================================================
