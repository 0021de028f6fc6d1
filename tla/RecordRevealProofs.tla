------------------------- MODULE RecordRevealProofs -------------------------
(***************************************************************************)
(* Proofs about RecordReveal for every set of moves and every number of    *)
(* searches: type correctness, the inductive invariant behind the safety   *)
(* properties, and the refinement of DecisionRecord.                       *)
(***************************************************************************)
EXTENDS RecordReveal, TLAPS

(***************************************************************************)
(* Why the attempts cannot disagree.  Both carry the one payload that was  *)
(* built (Bodies), so whatever either stores is that payload's             *)
(* (VerdictIsPayload); a call that got past its writes found or wrote the  *)
(* price (Written), because an atom it read with an answered move and no   *)
(* price sends it to score (Snapshot).                                     *)
(***************************************************************************)
Unrecorded == {"deciding", "committing", "uncommitted"}
Writing == {"writing", "rewriting", "revealed", "writeFailed"}

\* Beyond the commit, the decision is on the record.
Recorded ==
  /\ stage \notin Unrecorded => decision = "stored"
  /\ stage \in Unrecorded => runs = 0
  /\ stage \in {"searching", "engineFailed"} => runs # 0
  /\ pc["commit"] = "done" => decision = "stored"
  /\ pc["answer"] \in {"check", "insert"} => decision = "stored"

\* The answer the page heard is the row.
Answered ==
  /\ ScoredMoveIsOnRecord
  /\ pc["answer"] = "done" => answer = named

\* No reveal call without a payload, and only one payload.
Bodies ==
  /\ stage \notin Writing =>
       payload = NoPayload /\ pc["first"] = "idle" /\ pc["second"] = "idle"
  /\ stage = "writing" => pc["second"] = "idle"
  /\ stage \in Writing => payload.search # 0
  /\ \A c \in RevealCalls : pc[c] # "idle" => body[c] = payload
  /\ payload.cost = 0 \/ (payload.cost = payload.search /\ alternative # NoMove)

VerdictIsPayload ==
  /\ verdict = 0 \/ verdict = payload.search
  /\ price = 0 \/ (price = payload.cost /\ verdict # 0)

Snapshot ==
  \A c \in RevealCalls : pc[c] = "hasReveal" =>
    /\ payload.cost # 0 => seen[c].answer \in Moves
    /\ seen[c].price # 0 => price # 0

Written ==
  /\ \A c \in RevealCalls :
       /\ pc[c] = "score" => verdict # 0 /\ payload.cost # 0
       /\ pc[c] \in {"reread", "done"} => verdict # 0 /\ price = payload.cost
  /\ stage = "revealed" => verdict # 0 /\ price = payload.cost

IInv == /\ TypeOK
        /\ Recorded
        /\ Answered
        /\ Bodies
        /\ VerdictIsPayload
        /\ Snapshot
        /\ Written

USE RevealAssumption DEF Searches, Calls, RevealCalls, NoPayload, To

-----------------------------------------------------------------------------
LEMMA TypeStep == TypeOK /\ [Next]_vars => TypeOK'
<1> SUFFICES ASSUME TypeOK, [Next]_vars PROVE TypeOK'
  OBVIOUS
<1> USE DEF TypeOK, Stages, Steps, Payloads
<1> USE DEF pageVars, callVars, tables
<1>1. CASE PressCommit
  BY <1>1 DEF PressCommit
<1>2. CASE CommitHeard
  BY <1>2 DEF CommitHeard
<1>3. CASE CommitFailed
  BY <1>3 DEF CommitFailed
<1>4. CASE AnswerProbe
  BY <1>4 DEF AnswerProbe
<1>5. CASE AnswerHeard
  BY <1>5 DEF AnswerHeard
<1>6. CASE AnswerFailed
  BY <1>6 DEF AnswerFailed
<1>7. CASE EngineAnswers
  <2>1. payload' \in Payloads
    BY <1>7 DEF EngineAnswers
  <2> QED
    BY <1>7, <2>1 DEF EngineAnswers
<1>8. CASE EngineFails
  BY <1>8 DEF EngineFails
<1>9. CASE RetryReveal
  <2>1. runs + 1 \in 0..MaxSearches
    BY <1>9 DEF RetryReveal
  <2> QED
    BY <1>9, <2>1 DEF RetryReveal
<1>10. CASE WriteFailsOnce
  BY <1>10 DEF WriteFailsOnce, Resend
<1>11. CASE WriteFailsTwice
  BY <1>11 DEF WriteFailsTwice
<1>12. CASE WriteHeard
  BY <1>12 DEF WriteHeard
<1>13. CASE CommitChecks
  BY <1>13 DEF CommitChecks
<1>14. CASE InsertDecision
  BY <1>14 DEF InsertDecision
<1>15. CASE AnswerBegins
  BY <1>15 DEF AnswerBegins
<1>16. CASE AnswerChecks
  BY <1>16 DEF AnswerChecks
<1>17. CASE InsertAnswer
  BY <1>17 DEF InsertAnswer
<1>18. ASSUME NEW c \in RevealCalls, RevealBegins(c) PROVE TypeOK'
  <2>1. pc' \in [Calls -> Steps]
    BY <1>18 DEF RevealBegins
  <2>2. seen' \in [RevealCalls -> [verdict : 0..MaxSearches,
                                 answer : Moves \cup {NoMove, NoRow},
                                 price : 0..MaxSearches]]
    BY <1>18 DEF RevealBegins
  <2> QED
    BY <1>18, <2>1, <2>2, SMTT(30) DEF RevealBegins
<1>19. ASSUME NEW c \in RevealCalls, ReadAnswers(c) PROVE TypeOK'
  <2>1. pc' \in [Calls -> Steps]
    BY <1>19 DEF ReadAnswers
  <2>2. seen' \in [RevealCalls -> [verdict : 0..MaxSearches,
                                 answer : Moves \cup {NoMove, NoRow},
                                 price : 0..MaxSearches]]
    BY <1>19 DEF ReadAnswers
  <2> QED
    BY <1>19, <2>1, <2>2, SMTT(30) DEF ReadAnswers
<1>20. ASSUME NEW c \in RevealCalls, HasReveal(c) PROVE TypeOK'
  BY <1>20 DEF HasReveal
<1>21. ASSUME NEW c \in RevealCalls, InsertReveal(c) PROVE TypeOK'
  BY <1>21 DEF InsertReveal
<1>22. ASSUME NEW c \in RevealCalls, ScoreCounterfactual(c) PROVE TypeOK'
  BY <1>22 DEF ScoreCounterfactual
<1>23. ASSUME NEW c \in RevealCalls, Reread(c) PROVE TypeOK'
  BY <1>23 DEF Reread
<1>24. ASSUME NEW c \in Calls, StatementFails(c) PROVE TypeOK'
  BY <1>24 DEF StatementFails
<1>25. CASE UNCHANGED vars
  BY <1>25 DEF vars
<1> QED
  BY <1>1, <1>2, <1>3, <1>4, <1>5, <1>6, <1>7, <1>8, <1>9, <1>10, <1>11, <1>12,
     <1>13, <1>14, <1>15, <1>16, <1>17, <1>18, <1>19, <1>20, <1>21, <1>22,
     <1>23, <1>24, <1>25 DEF Next, Page, Server

\* Every variable keeps its type, whatever the network and the database do.
THEOREM TypeCorrect == Spec => []TypeOK
<1>1. Init => TypeOK
  BY DEF Init, TypeOK, Stages, Steps, Payloads
<1> QED
  BY <1>1, TypeStep, PTL DEF Spec

-----------------------------------------------------------------------------
(* The invariant, one conjunct per lemma; each lemma has one step per      *)
(* action.                                                                 *)

LEMMA RecordedStep ==
    ASSUME IInv, [Next]_vars
    PROVE  Recorded'
<1> USE DEF IInv, Recorded
<1> USE DEF pageVars, callVars, tables, TypeOK, Steps, Stages, Payloads, Unrecorded, Writing
<1>0. TypeOK'
  BY TypeStep
<1>1. CASE PressCommit
  BY <1>1 DEF PressCommit
<1>2. CASE CommitHeard
  BY <1>2 DEF CommitHeard
<1>3. CASE CommitFailed
  BY <1>3 DEF CommitFailed
<1>4. CASE AnswerProbe
  BY <1>4 DEF AnswerProbe
<1>5. CASE AnswerHeard
  BY <1>5 DEF AnswerHeard
<1>6. CASE AnswerFailed
  BY <1>6 DEF AnswerFailed
<1>7. CASE EngineAnswers
  BY <1>7 DEF EngineAnswers
<1>8. CASE EngineFails
  BY <1>8 DEF EngineFails
<1>9. CASE RetryReveal
  BY <1>9 DEF RetryReveal
<1>10. CASE WriteFailsOnce
  BY <1>10 DEF WriteFailsOnce
<1>11. CASE WriteFailsTwice
  BY <1>11 DEF WriteFailsTwice
<1>12. CASE WriteHeard
  BY <1>12 DEF WriteHeard
<1>13. CASE CommitChecks
  BY <1>13 DEF CommitChecks
<1>14. CASE InsertDecision
  BY <1>14 DEF InsertDecision
<1>15. CASE AnswerBegins
  BY <1>15 DEF AnswerBegins
<1>16. CASE AnswerChecks
  BY <1>16 DEF AnswerChecks
<1>17. CASE InsertAnswer
  BY <1>17 DEF InsertAnswer
<1>18. ASSUME NEW d \in RevealCalls, RevealBegins(d) PROVE Recorded'
  BY <1>18 DEF RevealBegins
<1>19. ASSUME NEW d \in RevealCalls, ReadAnswers(d) PROVE Recorded'
  BY <1>19 DEF ReadAnswers
<1>20. ASSUME NEW d \in RevealCalls, HasReveal(d) PROVE Recorded'
  BY <1>20 DEF HasReveal
<1>21. ASSUME NEW d \in RevealCalls, InsertReveal(d) PROVE Recorded'
  BY <1>21 DEF InsertReveal
<1>22. ASSUME NEW d \in RevealCalls, ScoreCounterfactual(d) PROVE Recorded'
  BY <1>22 DEF ScoreCounterfactual
<1>23. ASSUME NEW d \in RevealCalls, Reread(d) PROVE Recorded'
  BY <1>23 DEF Reread
<1>24. ASSUME NEW d \in Calls, StatementFails(d) PROVE Recorded'
  BY <1>24 DEF StatementFails, Over
<1>25. CASE UNCHANGED vars
  BY <1>25 DEF vars
<1> QED
  BY <1>0, <1>1, <1>2, <1>3, <1>4, <1>5, <1>6, <1>7, <1>8, <1>9,
     <1>10, <1>11, <1>12, <1>13, <1>14, <1>15, <1>16, <1>17, <1>18, <1>19,
     <1>20, <1>21, <1>22, <1>23, <1>24, <1>25 DEF Next, Page, Server

LEMMA AnsweredStep ==
    ASSUME IInv, [Next]_vars
    PROVE  Answered'
<1> USE DEF IInv, Answered
<1> USE DEF pageVars, callVars, tables, TypeOK, Steps, Stages, Payloads, Unrecorded, Writing, ScoredMoveIsOnRecord
<1>0. TypeOK'
  BY TypeStep
<1>1. CASE PressCommit
  BY <1>1 DEF PressCommit
<1>2. CASE CommitHeard
  BY <1>2 DEF CommitHeard
<1>3. CASE CommitFailed
  BY <1>3 DEF CommitFailed
<1>4. CASE AnswerProbe
  BY <1>4 DEF AnswerProbe
<1>5. CASE AnswerHeard
  BY <1>5 DEF AnswerHeard
<1>6. CASE AnswerFailed
  BY <1>6 DEF AnswerFailed
<1>7. CASE EngineAnswers
  BY <1>7 DEF EngineAnswers
<1>8. CASE EngineFails
  BY <1>8 DEF EngineFails
<1>9. CASE RetryReveal
  BY <1>9 DEF RetryReveal
<1>10. CASE WriteFailsOnce
  BY <1>10 DEF WriteFailsOnce
<1>11. CASE WriteFailsTwice
  BY <1>11 DEF WriteFailsTwice
<1>12. CASE WriteHeard
  BY <1>12 DEF WriteHeard
<1>13. CASE CommitChecks
  BY <1>13 DEF CommitChecks
<1>14. CASE InsertDecision
  BY <1>14 DEF InsertDecision
<1>15. CASE AnswerBegins
  BY <1>15 DEF AnswerBegins
<1>16. CASE AnswerChecks
  BY <1>16 DEF AnswerChecks
<1>17. CASE InsertAnswer
  BY <1>17 DEF InsertAnswer
<1>18. ASSUME NEW d \in RevealCalls, RevealBegins(d) PROVE Answered'
  BY <1>18 DEF RevealBegins
<1>19. ASSUME NEW d \in RevealCalls, ReadAnswers(d) PROVE Answered'
  BY <1>19 DEF ReadAnswers
<1>20. ASSUME NEW d \in RevealCalls, HasReveal(d) PROVE Answered'
  BY <1>20 DEF HasReveal
<1>21. ASSUME NEW d \in RevealCalls, InsertReveal(d) PROVE Answered'
  BY <1>21 DEF InsertReveal
<1>22. ASSUME NEW d \in RevealCalls, ScoreCounterfactual(d) PROVE Answered'
  BY <1>22 DEF ScoreCounterfactual
<1>23. ASSUME NEW d \in RevealCalls, Reread(d) PROVE Answered'
  BY <1>23 DEF Reread
<1>24. ASSUME NEW d \in Calls, StatementFails(d) PROVE Answered'
  BY <1>24 DEF StatementFails, Over
<1>25. CASE UNCHANGED vars
  BY <1>25 DEF vars
<1> QED
  BY <1>0, <1>1, <1>2, <1>3, <1>4, <1>5, <1>6, <1>7, <1>8, <1>9,
     <1>10, <1>11, <1>12, <1>13, <1>14, <1>15, <1>16, <1>17, <1>18, <1>19,
     <1>20, <1>21, <1>22, <1>23, <1>24, <1>25 DEF Next, Page, Server

LEMMA BodiesStep ==
    ASSUME IInv, [Next]_vars
    PROVE  Bodies'
<1> USE DEF IInv, Bodies
<1> USE DEF pageVars, callVars, tables, TypeOK, Steps, Stages, Payloads, Unrecorded, Writing
<1>0. TypeOK'
  BY TypeStep
<1>1. CASE PressCommit
  BY <1>1 DEF PressCommit
<1>2. CASE CommitHeard
  BY <1>2 DEF CommitHeard
<1>3. CASE CommitFailed
  BY <1>3 DEF CommitFailed
<1>4. CASE AnswerProbe
  BY <1>4 DEF AnswerProbe
<1>5. CASE AnswerHeard
  BY <1>5 DEF AnswerHeard
<1>6. CASE AnswerFailed
  BY <1>6 DEF AnswerFailed
<1>7. CASE EngineAnswers
  BY <1>7 DEF EngineAnswers, Recorded
<1>8. CASE EngineFails
  BY <1>8 DEF EngineFails
<1>9. CASE RetryReveal
  BY <1>9 DEF RetryReveal
<1>10. CASE WriteFailsOnce
  BY <1>10 DEF WriteFailsOnce, Resend
<1>11. CASE WriteFailsTwice
  BY <1>11 DEF WriteFailsTwice
<1>12. CASE WriteHeard
  BY <1>12 DEF WriteHeard
<1>13. CASE CommitChecks
  BY <1>13 DEF CommitChecks
<1>14. CASE InsertDecision
  BY <1>14 DEF InsertDecision
<1>15. CASE AnswerBegins
  BY <1>15 DEF AnswerBegins
<1>16. CASE AnswerChecks
  BY <1>16 DEF AnswerChecks
<1>17. CASE InsertAnswer
  BY <1>17 DEF InsertAnswer
<1>18. ASSUME NEW d \in RevealCalls, RevealBegins(d) PROVE Bodies'
  BY <1>18 DEF RevealBegins
<1>19. ASSUME NEW d \in RevealCalls, ReadAnswers(d) PROVE Bodies'
  BY <1>19 DEF ReadAnswers
<1>20. ASSUME NEW d \in RevealCalls, HasReveal(d) PROVE Bodies'
  BY <1>20 DEF HasReveal
<1>21. ASSUME NEW d \in RevealCalls, InsertReveal(d) PROVE Bodies'
  BY <1>21 DEF InsertReveal
<1>22. ASSUME NEW d \in RevealCalls, ScoreCounterfactual(d) PROVE Bodies'
  BY <1>22 DEF ScoreCounterfactual
<1>23. ASSUME NEW d \in RevealCalls, Reread(d) PROVE Bodies'
  BY <1>23 DEF Reread
<1>24. ASSUME NEW d \in Calls, StatementFails(d) PROVE Bodies'
  BY <1>24 DEF StatementFails, Over
<1>25. CASE UNCHANGED vars
  BY <1>25 DEF vars
<1> QED
  BY <1>0, <1>1, <1>2, <1>3, <1>4, <1>5, <1>6, <1>7, <1>8, <1>9,
     <1>10, <1>11, <1>12, <1>13, <1>14, <1>15, <1>16, <1>17, <1>18, <1>19,
     <1>20, <1>21, <1>22, <1>23, <1>24, <1>25 DEF Next, Page, Server

LEMMA VerdictStep ==
    ASSUME IInv, [Next]_vars
    PROVE  VerdictIsPayload'
<1> USE DEF IInv, VerdictIsPayload
<1> USE DEF pageVars, callVars, tables, TypeOK, Steps, Stages, Payloads, Unrecorded, Writing, Bodies
<1>0. TypeOK'
  BY TypeStep
<1>1. CASE PressCommit
  BY <1>1 DEF PressCommit
<1>2. CASE CommitHeard
  BY <1>2 DEF CommitHeard
<1>3. CASE CommitFailed
  BY <1>3 DEF CommitFailed
<1>4. CASE AnswerProbe
  BY <1>4 DEF AnswerProbe
<1>5. CASE AnswerHeard
  BY <1>5 DEF AnswerHeard
<1>6. CASE AnswerFailed
  BY <1>6 DEF AnswerFailed
<1>7. CASE EngineAnswers
  BY <1>7 DEF EngineAnswers
<1>8. CASE EngineFails
  BY <1>8 DEF EngineFails
<1>9. CASE RetryReveal
  BY <1>9 DEF RetryReveal
<1>10. CASE WriteFailsOnce
  BY <1>10 DEF WriteFailsOnce
<1>11. CASE WriteFailsTwice
  BY <1>11 DEF WriteFailsTwice
<1>12. CASE WriteHeard
  BY <1>12 DEF WriteHeard
<1>13. CASE CommitChecks
  BY <1>13 DEF CommitChecks
<1>14. CASE InsertDecision
  BY <1>14 DEF InsertDecision
<1>15. CASE AnswerBegins
  BY <1>15 DEF AnswerBegins
<1>16. CASE AnswerChecks
  BY <1>16 DEF AnswerChecks
<1>17. CASE InsertAnswer
  BY <1>17 DEF InsertAnswer
<1>18. ASSUME NEW d \in RevealCalls, RevealBegins(d) PROVE VerdictIsPayload'
  BY <1>18 DEF RevealBegins
<1>19. ASSUME NEW d \in RevealCalls, ReadAnswers(d) PROVE VerdictIsPayload'
  BY <1>19 DEF ReadAnswers
<1>20. ASSUME NEW d \in RevealCalls, HasReveal(d) PROVE VerdictIsPayload'
  BY <1>20 DEF HasReveal
<1>21. ASSUME NEW d \in RevealCalls, InsertReveal(d) PROVE VerdictIsPayload'
  BY <1>21 DEF InsertReveal
<1>22. ASSUME NEW d \in RevealCalls, ScoreCounterfactual(d) PROVE VerdictIsPayload'
  BY <1>22 DEF ScoreCounterfactual, Written
<1>23. ASSUME NEW d \in RevealCalls, Reread(d) PROVE VerdictIsPayload'
  BY <1>23 DEF Reread
<1>24. ASSUME NEW d \in Calls, StatementFails(d) PROVE VerdictIsPayload'
  BY <1>24 DEF StatementFails, Over
<1>25. CASE UNCHANGED vars
  BY <1>25 DEF vars
<1> QED
  BY <1>0, <1>1, <1>2, <1>3, <1>4, <1>5, <1>6, <1>7, <1>8, <1>9,
     <1>10, <1>11, <1>12, <1>13, <1>14, <1>15, <1>16, <1>17, <1>18, <1>19,
     <1>20, <1>21, <1>22, <1>23, <1>24, <1>25 DEF Next, Page, Server

LEMMA SnapshotStep ==
    ASSUME IInv, [Next]_vars
    PROVE  Snapshot'
<1> USE DEF IInv, Snapshot
<1> USE DEF pageVars, callVars, tables, TypeOK, Steps, Stages, Payloads, Unrecorded, Writing, Bodies, Answered, ScoredMoveIsOnRecord, VerdictIsPayload
<1>0. TypeOK'
  BY TypeStep
<1>1. CASE PressCommit
  BY <1>1 DEF PressCommit
<1>2. CASE CommitHeard
  BY <1>2 DEF CommitHeard
<1>3. CASE CommitFailed
  BY <1>3 DEF CommitFailed
<1>4. CASE AnswerProbe
  BY <1>4 DEF AnswerProbe
<1>5. CASE AnswerHeard
  BY <1>5 DEF AnswerHeard
<1>6. CASE AnswerFailed
  BY <1>6 DEF AnswerFailed
<1>7. CASE EngineAnswers
  BY <1>7 DEF EngineAnswers
<1>8. CASE EngineFails
  BY <1>8 DEF EngineFails
<1>9. CASE RetryReveal
  BY <1>9 DEF RetryReveal
<1>10. CASE WriteFailsOnce
  BY <1>10 DEF WriteFailsOnce
<1>11. CASE WriteFailsTwice
  BY <1>11 DEF WriteFailsTwice
<1>12. CASE WriteHeard
  BY <1>12 DEF WriteHeard
<1>13. CASE CommitChecks
  BY <1>13 DEF CommitChecks
<1>14. CASE InsertDecision
  BY <1>14 DEF InsertDecision
<1>15. CASE AnswerBegins
  BY <1>15 DEF AnswerBegins
<1>16. CASE AnswerChecks
  BY <1>16 DEF AnswerChecks
<1>17. CASE InsertAnswer
  BY <1>17 DEF InsertAnswer
<1>18. ASSUME NEW d \in RevealCalls, RevealBegins(d) PROVE Snapshot'
  BY <1>18 DEF RevealBegins
<1>19. ASSUME NEW d \in RevealCalls, ReadAnswers(d) PROVE Snapshot'
  BY <1>19 DEF ReadAnswers
<1>20. ASSUME NEW d \in RevealCalls, HasReveal(d) PROVE Snapshot'
  BY <1>20 DEF HasReveal
<1>21. ASSUME NEW d \in RevealCalls, InsertReveal(d) PROVE Snapshot'
  BY <1>21 DEF InsertReveal
<1>22. ASSUME NEW d \in RevealCalls, ScoreCounterfactual(d) PROVE Snapshot'
  BY <1>22 DEF ScoreCounterfactual
<1>23. ASSUME NEW d \in RevealCalls, Reread(d) PROVE Snapshot'
  BY <1>23 DEF Reread
<1>24. ASSUME NEW d \in Calls, StatementFails(d) PROVE Snapshot'
  BY <1>24 DEF StatementFails, Over
<1>25. CASE UNCHANGED vars
  BY <1>25 DEF vars
<1> QED
  BY <1>0, <1>1, <1>2, <1>3, <1>4, <1>5, <1>6, <1>7, <1>8, <1>9,
     <1>10, <1>11, <1>12, <1>13, <1>14, <1>15, <1>16, <1>17, <1>18, <1>19,
     <1>20, <1>21, <1>22, <1>23, <1>24, <1>25 DEF Next, Page, Server

LEMMA WrittenStep ==
    ASSUME IInv, [Next]_vars
    PROVE  Written'
<1> USE DEF IInv, Written
<1> USE DEF pageVars, callVars, tables, TypeOK, Steps, Stages, Payloads, Unrecorded, Writing, Bodies, VerdictIsPayload, Snapshot, Answered, ScoredMoveIsOnRecord, Recorded
<1>0. TypeOK'
  BY TypeStep
<1>1. CASE PressCommit
  BY <1>1 DEF PressCommit
<1>2. CASE CommitHeard
  BY <1>2 DEF CommitHeard
<1>3. CASE CommitFailed
  BY <1>3 DEF CommitFailed
<1>4. CASE AnswerProbe
  BY <1>4 DEF AnswerProbe
<1>5. CASE AnswerHeard
  BY <1>5 DEF AnswerHeard
<1>6. CASE AnswerFailed
  BY <1>6 DEF AnswerFailed
<1>7. CASE EngineAnswers
  BY <1>7 DEF EngineAnswers
<1>8. CASE EngineFails
  BY <1>8 DEF EngineFails
<1>9. CASE RetryReveal
  BY <1>9 DEF RetryReveal
<1>10. CASE WriteFailsOnce
  BY <1>10 DEF WriteFailsOnce
<1>11. CASE WriteFailsTwice
  BY <1>11 DEF WriteFailsTwice
<1>12. CASE WriteHeard
  BY <1>12 DEF WriteHeard
<1>13. CASE CommitChecks
  BY <1>13 DEF CommitChecks
<1>14. CASE InsertDecision
  BY <1>14 DEF InsertDecision
<1>15. CASE AnswerBegins
  BY <1>15 DEF AnswerBegins
<1>16. CASE AnswerChecks
  BY <1>16 DEF AnswerChecks
<1>17. CASE InsertAnswer
  BY <1>17 DEF InsertAnswer
<1>18. ASSUME NEW d \in RevealCalls, RevealBegins(d) PROVE Written'
  BY <1>18 DEF RevealBegins
<1>19. ASSUME NEW d \in RevealCalls, ReadAnswers(d) PROVE Written'
  BY <1>19 DEF ReadAnswers
<1>20. ASSUME NEW d \in RevealCalls, HasReveal(d) PROVE Written'
  BY <1>20 DEF HasReveal, FillsPrice
<1>21. ASSUME NEW d \in RevealCalls, InsertReveal(d) PROVE Written'
  BY <1>21 DEF InsertReveal
<1>22. ASSUME NEW d \in RevealCalls, ScoreCounterfactual(d) PROVE Written'
  BY <1>22 DEF ScoreCounterfactual
<1>23. ASSUME NEW d \in RevealCalls, Reread(d) PROVE Written'
  BY <1>23 DEF Reread
<1>24. ASSUME NEW d \in Calls, StatementFails(d) PROVE Written'
  BY <1>24 DEF StatementFails, Over
<1>25. CASE UNCHANGED vars
  BY <1>25 DEF vars
<1> QED
  BY <1>0, <1>1, <1>2, <1>3, <1>4, <1>5, <1>6, <1>7, <1>8, <1>9,
     <1>10, <1>11, <1>12, <1>13, <1>14, <1>15, <1>16, <1>17, <1>18, <1>19,
     <1>20, <1>21, <1>22, <1>23, <1>24, <1>25 DEF Next, Page, Server

-----------------------------------------------------------------------------
LEMMA InitInv == Init => IInv
<1> SUFFICES ASSUME Init PROVE IInv
  OBVIOUS
<1>1. TypeOK
  BY DEF Init, TypeOK, Stages, Steps, Payloads
<1>2. Recorded /\ Answered
  BY DEF Init, Recorded, Answered, ScoredMoveIsOnRecord, Unrecorded
<1>3. Bodies
  BY DEF Init, Bodies, Writing
<1>4. VerdictIsPayload /\ Snapshot /\ Written
  BY DEF Init, VerdictIsPayload, Snapshot, Written
<1> QED
  BY <1>1, <1>2, <1>3, <1>4 DEF IInv

LEMMA InvStep == IInv /\ [Next]_vars => IInv'
BY TypeStep, RecordedStep, AnsweredStep, BodiesStep, VerdictStep, SnapshotStep,
   WrittenStep DEF IInv

LEMMA Inductive == Spec => []IInv
BY InitInv, InvStep, PTL DEF Spec

\* For any moves and any number of searches, however calls are lost, delayed
\* or repeated, the engine runs only for a decision on the record and prices
\* only the alternative on the record.
THEOREM PageFollows == Spec => []PageFollowsTheRecord
<1>1. IInv => PageFollowsTheRecord
  <2> SUFFICES ASSUME IInv PROVE PageFollowsTheRecord
    OBVIOUS
  <2>1. EngineWaitsForTheRecord
    BY DEF IInv, TypeOK, Recorded, EngineWaitsForTheRecord
  <2>2. ScoredMoveIsOnRecord
    BY DEF IInv, Answered
  <2> QED
    BY <2>1, <2>2 DEF PageFollowsTheRecord
<1> QED
  BY <1>1, Inductive, PTL

\* Price and verdict on the record come from one search.
THEOREM PriceIsTheVerdicts == Spec => []PriceFromTheVerdictsSearch
<1>1. IInv => PriceFromTheVerdictsSearch
  BY DEF IInv, VerdictIsPayload, Bodies, PriceFromTheVerdictsSearch
<1> QED
  BY <1>1, Inductive, PTL

\* A reveal that was reported as stored is stored whole.
THEOREM SuccessIsComplete == Spec => []SuccessMeansComplete
<1>1. IInv => SuccessMeansComplete
  BY DEF IInv, VerdictIsPayload, Written, SuccessMeansComplete
<1> QED
  BY <1>1, Inductive, PTL

-----------------------------------------------------------------------------
(* The refinement: inserts map to the record's own steps, everything else  *)
(* to a stutter.                                                           *)

LEMMA RefineInit == Init => Record!Init
BY DEF Init, Record!Init

LEMMA RefineStep ==
    ASSUME IInv, [Next]_vars
    PROVE  [Record!Next]_(Record!recordVars)
<1> USE DEF Record!recordVars, tables, pageVars, callVars
<1>1. CASE Page
  BY <1>1 DEF Page, PressCommit, CommitHeard, CommitFailed, AnswerProbe,
     AnswerHeard, AnswerFailed, EngineAnswers, EngineFails, RetryReveal,
     WriteFailsOnce, WriteFailsTwice, WriteHeard
<1>2. CASE InsertDecision
  <2>1. CASE decision = "absent"
    BY <1>2, <2>1 DEF InsertDecision, Record!Next, Record!Commit
  <2>2. CASE decision = "stored"
    BY <1>2, <2>2 DEF InsertDecision
  <2> QED
    BY <2>1, <2>2 DEF IInv, TypeOK
<1>3. CASE InsertAnswer
  <2>1. CASE answer = NoRow
    BY <1>3, <2>1 DEF InsertAnswer, Record!Next, Record!Answer, IInv, TypeOK, Recorded
  <2>2. CASE answer # NoRow
    BY <1>3, <2>2 DEF InsertAnswer
  <2> QED
    BY <2>1, <2>2
<1>4. ASSUME NEW c \in RevealCalls, InsertReveal(c)
      PROVE  [Record!Next]_(Record!recordVars)
  <2>1. CASE verdict = 0
    <3>1. pc[c] # "idle" /\ body[c] = payload
      BY <1>4 DEF InsertReveal, IInv, Bodies
    <3>2. stage \in Writing
      BY <3>1 DEF IInv, Bodies
    <3>3. payload.search \in 1..MaxSearches
      BY <3>2 DEF IInv, Bodies, TypeOK, Payloads
    <3>4. decision = "stored"
      BY <3>2 DEF IInv, Recorded, Writing, Unrecorded
    <3> QED
      BY <1>4, <2>1, <3>1, <3>3, <3>4 DEF InsertReveal, Record!Next, Record!Reveal
  <2>2. CASE verdict # 0
    BY <1>4, <2>2 DEF InsertReveal
  <2> QED
    BY <2>1, <2>2
<1>5. ASSUME NEW c \in RevealCalls, ScoreCounterfactual(c)
      PROVE  [Record!Next]_(Record!recordVars)
  <2>1. CASE answer \notin Moves
    BY <1>5, <2>1 DEF ScoreCounterfactual
  <2>2. CASE answer \in Moves
    <3>1. body[c].cost = payload.cost /\ payload.cost # 0 /\ verdict # 0
      BY <1>5 DEF ScoreCounterfactual, IInv, Bodies, Written
    <3>2. payload.cost = verdict
      BY <3>1 DEF IInv, Bodies, VerdictIsPayload
    <3>3. price = 0 \/ price = verdict
      BY <3>2 DEF IInv, VerdictIsPayload
    <3>4. price' = verdict
      BY <1>5, <2>2, <3>1, <3>2 DEF ScoreCounterfactual
    <3> QED
      BY <1>5, <2>2, <3>1, <3>3, <3>4 DEF ScoreCounterfactual, Record!Next, Record!Price
  <2> QED
    BY <2>1, <2>2
<1>6. CASE CommitChecks \/ AnswerBegins \/ AnswerChecks
  BY <1>6 DEF CommitChecks, AnswerBegins, AnswerChecks
<1>7. ASSUME NEW c \in RevealCalls,
             RevealBegins(c) \/ ReadAnswers(c) \/ HasReveal(c) \/ Reread(c)
      PROVE  [Record!Next]_(Record!recordVars)
  BY <1>7 DEF RevealBegins, ReadAnswers, HasReveal, Reread
<1>8. ASSUME NEW c \in Calls, StatementFails(c)
      PROVE  [Record!Next]_(Record!recordVars)
  BY <1>8 DEF StatementFails
<1>9. CASE UNCHANGED vars
  BY <1>9 DEF vars
<1> QED
  BY <1>1, <1>2, <1>3, <1>4, <1>5, <1>6, <1>7, <1>8, <1>9 DEF Next, Server

\* The page's calls and the server's statements implement the append-only
\* record of one decision.
THEOREM RevealRefinesRecord == Spec => ImplementsRecord
<1>1. IInv /\ [Next]_vars => [Record!Next]_(Record!recordVars)
  BY RefineStep
<1>2. Spec => Record!Spec
  BY <1>1, RefineInit, Inductive, PTL DEF Spec, Record!Spec
<1> QED
  BY <1>2 DEF ImplementsRecord
=============================================================================
