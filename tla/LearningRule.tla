---------------------------- MODULE LearningRule ----------------------------
(***************************************************************************)
(* How a learning rule is graded (shared/learning-record.ts): a fold over  *)
(* the stored transfer results, from the rule as its player wrote it.      *)
(* Days stand for the calendar days of completed_at; the results of one    *)
(* day are ordered by their transfer, the code's own tie break.            *)
(***************************************************************************)
EXTENDS Naturals, Sequences, FiniteSets

CONSTANTS Intervals,     \* RETRIEVAL_INTERVAL_DAYS
          Created        \* the day the rule was written

ASSUME LadderAssumption == /\ Intervals \in Seq(Nat \ {0})
                           /\ Len(Intervals) > 0
                           /\ Created \in Nat

Ladder == Len(Intervals)

\* next_due_at = null
Never == 0

\* The day a test falls due, from the step it was scheduled on.
Due(day, step) == IF step < Ladder THEN day + Intervals[step + 1] ELSE Never

\* formLearningRule, and where every fold starts.
Authored == [grade |-> "hypothesis", step |-> 0, due |-> Due(Created, 0)]

\* retireLearningRule
Retired(rule) == [rule EXCEPT !.grade = "retired", !.due = Never]

DaysWhen(results, held) == {r.day : r \in {q \in results : q.held = held}}

\* MUTANT: one failed sitting refutes, while replicating needs two days.
ApplyHasty(rule, priors, result) ==
  LET step == IF rule.step < Ladder THEN rule.step + 1 ELSE Ladder
      known == priors \cup {result}
  IN  IF rule.grade = "refuted" THEN rule
      ELSE IF ~result.held
        THEN [grade |-> "refuted", step |-> step, due |-> Never]
        ELSE [grade |-> IF Cardinality(DaysWhen(known, TRUE)) >= 2
                          THEN "replicated" ELSE rule.grade,
              step |-> step, due |-> Due(result.day, step)]

\* MUTANT: a rule that is refuted stays on the schedule.
ApplyRescheduled(rule, priors, result) ==
  LET step == IF rule.step < Ladder THEN rule.step + 1 ELSE Ladder
      known == priors \cup {result}
  IN  IF rule.grade = "refuted" THEN rule
      ELSE [grade |-> IF ~result.held /\ Cardinality(DaysWhen(known, FALSE)) >= 2
                        THEN "refuted"
                      ELSE IF Cardinality(DaysWhen(known, TRUE)) >= 2
                        THEN "replicated" ELSE rule.grade,
            step |-> step, due |-> Due(result.day, step)]

\* applyTransferResult: two failed days refute, for good; two days on which
\* the condition held replicate; every sitting climbs the ladder.
Apply(rule, priors, result) ==
  LET step == IF rule.step < Ladder THEN rule.step + 1 ELSE Ladder
      known == priors \cup {result}
  IN  IF rule.grade = "refuted" THEN rule
      ELSE IF ~result.held /\ Cardinality(DaysWhen(known, FALSE)) >= 2
        THEN [grade |-> "refuted", step |-> step, due |-> Never]
        ELSE [grade |-> IF Cardinality(DaysWhen(known, TRUE)) >= 2
                          THEN "replicated" ELSE rule.grade,
              step |-> step, due |-> Due(result.day, step)]

Before(a, b) == \/ a.day < b.day
                \/ a.day = b.day /\ a.transfer < b.transfer

\* The results that were completed before a given one.
Priors(results, result) == {r \in results : Before(r, result)}

\* gradeLearningRule: a retired rule is left alone, any other is folded from
\* the start, whatever an earlier grading stored.
Fold(results) ==
  LET Nth(n) == CHOOSE r \in results : Cardinality(Priors(results, r)) = n - 1
      folded[n \in 0..Cardinality(results)] ==
        IF n = 0 THEN Authored
        ELSE LET result == Nth(n)
             IN  Apply(folded[n - 1], Priors(results, result), result)
  IN  folded[Cardinality(results)]

GradeLearningRule(rule, results) ==
  IF rule.grade = "retired" THEN rule ELSE Fold(results)
=============================================================================
