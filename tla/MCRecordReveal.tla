--------------------------- MODULE MCRecordReveal ---------------------------
EXTENDS RecordReveal, TLC

\* Three searches: the first two find the same verdict, the third another.
MCSays == 1 :> "same" @@ 2 :> "same" @@ 3 :> "other"
=============================================================================
