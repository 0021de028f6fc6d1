------------------------- MODULE LearningRuleGrades -------------------------
(***************************************************************************)
(* The grade of a rule as its results arrive, in any order and with any    *)
(* outcome: a result may be read late, so a later one may already be       *)
(* there.  The fold is compared with what the comments of                  *)
(* learning-record.ts promise, stated without an order.                    *)
(***************************************************************************)
EXTENDS LearningRule

CONSTANTS MaxResults,    \* bound on the sittings of one rule
          LastSitting    \* bound on the days they fall on

VARIABLE arrived

NothingArrived == arrived = {}

\* One sitting is reported.
Arrives(day, held) ==
  /\ Cardinality(arrived) < MaxResults
  /\ arrived' = arrived \cup {[transfer |-> Cardinality(arrived) + 1,
                               day |-> day, held |-> held]}

SomethingArrives == \E day \in Created..LastSitting, held \in BOOLEAN : Arrives(day, held)

Arrivals == NothingArrived /\ [][SomethingArrives]_arrived

Rule == Fold(arrived)

\* Refuting is as hard as replicating: two days on which the condition failed,
\* or, short of them, two on which it held -- the order of the sittings, and
\* how often they were graded, make no difference.
TwoDaysEitherWay ==
  Rule.grade = IF Cardinality(DaysWhen(arrived, FALSE)) >= 2 THEN "refuted"
               ELSE IF Cardinality(DaysWhen(arrived, TRUE)) >= 2 THEN "replicated"
               ELSE "hypothesis"

\* A rule falls due again exactly while it is neither refuted nor at the end
\* of the ladder, and then later than every sitting.
DueWhileOpen ==
  /\ Rule.step \in 0..Ladder
  /\ Rule.due = Never <=> Rule.grade = "refuted" \/ Rule.step = Ladder
  /\ Rule.due # Never => \A r \in arrived : r.day < Rule.due

=============================================================================
