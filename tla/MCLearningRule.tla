--------------------------- MODULE MCLearningRule ---------------------------
EXTENDS LearningRuleGrades

\* The ladder of the source is <<1, 3, 7, 21>>; the days in between are not
\* told apart.
MCIntervals == <<1, 3, 7, 21>>
=============================================================================
