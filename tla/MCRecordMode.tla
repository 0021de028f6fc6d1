---------------------------- MODULE MCRecordMode ----------------------------
EXTENDS RecordMode, TLC

CONSTANTS d1, d2
MCFile == {<<"decision", d2>>, <<"reveal", d2>>}
Symmetric == Permutations(Tabs)
=============================================================================
