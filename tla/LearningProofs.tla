---------------------------- MODULE LearningProofs ----------------------------
(***************************************************************************)
(* What the grading of a learning rule computes, for every ladder and any  *)
(* number of results on any days: the grade is the one the comments of     *)
(* learning-record.ts promise, and a rule is due exactly while it is open. *)
(* The fold is over the results in the order of Before, so the proof       *)
(* first shows that a finite set of results has such an order.             *)
(*                                                                         *)
(* And of the tests, for any tabs, boards, positions, transfers and        *)
(* faults: the observations of a transfer fit its positions, the stored    *)
(* grade is a grading of results that are on the record, no test is        *)
(* started on a rule that is closed, and the tests behave like             *)
(* TransferLog.                                                            *)
(***************************************************************************)
EXTENDS LearningTransfer, LearningRuleGrades, WellFoundedInduction, SequenceTheorems, FiniteSetTheorems, TLAPS

-----------------------------------------------------------------------------
(* Induction and iteration, with the cases and the steps as values.        *)

LEMMA LeastNumber ==
  ASSUME NEW S \in SUBSET Nat, S # {}
  PROVE  \E n \in S : \A m \in S : n <= m
<1>1. PICK n \in S : \A m \in S : <<m, n>> \notin OpToRel(<, Nat)
  BY WFMin, NatLessThanWellFounded, Zenon
<1>2. \A m \in S : ~(m < n)
  BY <1>1, Zenon DEF OpToRel
<1> QED
  BY <1>2

LEMMA UpTo ==
  ASSUME NEW N \in Nat, NEW S, 0 \in S, \A n \in 1..N : n - 1 \in S => n \in S
  PROVE  0..N \subseteq S
<1> DEFINE Missing == {n \in 0..N : n \notin S}
<1> SUFFICES ASSUME Missing # {} PROVE FALSE
  OBVIOUS
<1>1. PICK n \in Missing : \A m \in Missing : n <= m
  <2>1. Missing \in SUBSET Nat
    OBVIOUS
  <2> HIDE DEF Missing
  <2> QED
    BY <2>1, LeastNumber
<1>2. n \in 1..N
  OBVIOUS
<1>3. n - 1 \in 0..N /\ n - 1 \notin Missing
  BY <1>1, <1>2
<1> QED
  BY <1>2, <1>3

\* N steps within S, and the values they lead to from a.
Steps(N, S, step) == \A n \in 1..N : \A x \in S : step[n][x] \in S
Iterated(N, S, a, step) ==
  \E f \in [0..N -> S] : f[0] = a /\ \A n \in 1..N : f[n] = step[n][f[n - 1]]

\* A recursive function on 0..N has the values its equation gives it.
LEMMA Iterates ==
  ASSUME NEW N \in Nat, NEW S, NEW a \in S, NEW step, Steps(N, S, step)
  PROVE  Iterated(N, S, a, step)
<1> DEFINE Built(n) == \E f \in [0..n -> S] : /\ f[0] = a
                                              /\ \A k \in 1..n : f[k] = step[k][f[k - 1]]
           Reached == {n \in 0..N : Built(n)}
<1>1. 0 \in Reached
  <2> DEFINE f == [k \in 0..0 |-> a]
  <2>1. f \in [0..0 -> S] /\ f[0] = a /\ \A k \in 1..0 : f[k] = step[k][f[k - 1]]
    OBVIOUS
  <2> HIDE DEF f
  <2>2. Built(0)
    BY <2>1
  <2> QED
    BY <2>2
<1>2. ASSUME NEW n \in 1..N, n - 1 \in Reached
      PROVE  n \in Reached
  <2>1. PICK f \in [0..(n - 1) -> S] : f[0] = a /\ \A k \in 1..(n - 1) : f[k] = step[k][f[k - 1]]
    BY <1>2
  <2> DEFINE last == step[n][f[n - 1]]
             g == [k \in 0..n |-> IF k = n THEN last ELSE f[k]]
  <2>2. last \in S
    <3>1. f[n - 1] \in S
      OBVIOUS
    <3> QED
      BY <3>1 DEF Steps
  <2>3. g \in [0..n -> S] /\ g[0] = a /\ g[n] = last /\ \A k \in 0..(n - 1) : g[k] = f[k]
    <3> HIDE DEF last
    <3> QED
      BY <2>1, <2>2
  <2> HIDE DEF g
  <2>4. \A k \in 1..n : g[k] = step[k][g[k - 1]]
    <3> TAKE k \in 1..n
    <3>1. g[k - 1] = f[k - 1]
      BY <2>3
    <3>2. CASE k = n
      BY <2>3, <3>1, <3>2
    <3>3. CASE k # n
      BY <2>1, <2>3, <3>1, <3>3
    <3> QED
      BY <3>2, <3>3
  <2>5. Built(n)
    BY <2>3, <2>4
  <2> QED
    BY <2>5
<1>3. N \in Reached
  <2> HIDE DEF Reached
  <2>1. 0..N \subseteq Reached
    BY <1>1, <1>2, UpTo
  <2> QED
    BY <2>1
<1> QED
  BY <1>3 DEF Iterated

-----------------------------------------------------------------------------
(* The order of the results.                                               *)

\* A finite set of results of which no two are of the same transfer.
Sittings(known) ==
  /\ IsFiniteSet(known)
  /\ known \subseteq [transfer : Nat, day : Nat, held : BOOLEAN]
  /\ \A r, s \in known : r.transfer = s.transfer => r = s

Rank(known, r) == Cardinality(Priors(known, r))
Nth(known, n) == CHOOSE r \in known : Rank(known, r) = n - 1
First(known, n) == {r \in known : Rank(known, r) < n}

LEMMA BeforeIsTotal ==
  ASSUME NEW known, Sittings(known), NEW r \in known, NEW s \in known
  PROVE  /\ ~Before(r, r)
         /\ r = s \/ Before(r, s) \/ Before(s, r)
         /\ Before(r, s) => r # s /\ ~Before(s, r) /\ r.day <= s.day
         /\ \A t \in known : Before(r, s) /\ Before(s, t) => Before(r, t)
<1>1. \A t \in known : t.transfer \in Nat /\ t.day \in Nat
  BY DEF Sittings
<1>2. r.transfer = s.transfer => r = s
  BY DEF Sittings
<1> QED
  BY <1>1, <1>2 DEF Before

LEMMA PriorsAreFinite ==
  ASSUME NEW known, Sittings(known), NEW r \in known
  PROVE  /\ IsFiniteSet(Priors(known, r)) /\ Rank(known, r) \in Nat
         /\ Rank(known, r) <= Cardinality(known) - 1 /\ Cardinality(known) \in Nat
<1>1. IsFiniteSet(known) /\ Cardinality(known) \in Nat
  BY FS_CardinalityType DEF Sittings
<1>2. IsFiniteSet(known \ {r}) /\ Cardinality(known \ {r}) = Cardinality(known) - 1
  BY <1>1, FS_RemoveElement
<1>3. Priors(known, r) \subseteq known \ {r}
  BY BeforeIsTotal DEF Priors
<1>4. /\ IsFiniteSet(Priors(known, r))
      /\ Cardinality(Priors(known, r)) <= Cardinality(known \ {r})
  BY <1>2, <1>3, FS_Subset
<1>5. Cardinality(Priors(known, r)) \in Nat
  BY <1>4, FS_CardinalityType
<1> QED
  BY <1>1, <1>2, <1>4, <1>5 DEF Rank

LEMMA RanksGrow ==
  ASSUME NEW known, Sittings(known), NEW r \in known, NEW s \in known, Before(r, s)
  PROVE  Rank(known, r) < Rank(known, s)
<1>1. Priors(known, r) \subseteq Priors(known, s) \ {r} /\ r \in Priors(known, s)
  BY BeforeIsTotal DEF Priors
<1>2. IsFiniteSet(Priors(known, s)) /\ Rank(known, r) \in Nat /\ Rank(known, s) \in Nat
  BY PriorsAreFinite
<1>3. /\ IsFiniteSet(Priors(known, s) \ {r})
      /\ Cardinality(Priors(known, s) \ {r}) = Cardinality(Priors(known, s)) - 1
  BY <1>1, <1>2, FS_RemoveElement
<1>4. Cardinality(Priors(known, r)) <= Cardinality(Priors(known, s) \ {r})
  BY <1>1, <1>3, FS_Subset
<1> QED
  BY <1>2, <1>3, <1>4 DEF Rank

\* The ranks of N results are the numbers below N.
LEMMA RanksAreNumbers ==
  ASSUME NEW known, Sittings(known), NEW n \in 1..Cardinality(known)
  PROVE  /\ Nth(known, n) \in known
         /\ \A r \in known : Rank(known, r) = n - 1 <=> r = Nth(known, n)
<1> DEFINE N == Cardinality(known)
           rank == [r \in known |-> Rank(known, r)]
<1>1. IsFiniteSet(known) /\ N \in Nat
  BY FS_CardinalityType DEF Sittings
<1>2. rank \in [known -> 0..(N - 1)]
  BY <1>1, PriorsAreFinite
<1>3. \A r, s \in known : Rank(known, r) = Rank(known, s) => r = s
  <2>1. \A r \in known : Rank(known, r) \in Nat
    BY PriorsAreFinite
  <2> QED
    BY <2>1, BeforeIsTotal, RanksGrow
<1>4. rank \in Injection(known, 0..(N - 1))
  BY <1>2, <1>3 DEF Injection, IsInjective
<1>5. IsFiniteSet(0..(N - 1)) /\ Cardinality(0..(N - 1)) = N
  <2>1. N - 1 \in Int /\ 0 \in Int
    BY <1>1
  <2>2. /\ IsFiniteSet(0..(N - 1))
        /\ Cardinality(0..(N - 1)) = IF 0 > N - 1 THEN 0 ELSE (N - 1) - 0 + 1
    <3> HIDE DEF N
    <3> QED
      BY <2>1, FS_Interval
  <2> QED
    BY <1>1, <2>2
<1>6. rank \in Surjection(known, 0..(N - 1))
  <2> HIDE DEF rank
  <2> QED
    BY <1>4, <1>5, FS_Injection
<1>7. PICK r \in known : Rank(known, r) = n - 1
  <2>1. n - 1 \in 0..(N - 1)
    BY <1>1
  <2>2. \A k \in 0..(N - 1) : \E r \in known : rank[r] = k
    <3> HIDE DEF rank, N
    <3> QED
      BY <1>6 DEF Surjection
  <2> QED
    BY <2>1, <2>2
<1>8. Nth(known, n) \in known /\ Rank(known, Nth(known, n)) = n - 1
  BY <1>7 DEF Nth
<1> QED
  BY <1>3, <1>8

\* The first n results are the first n - 1 and the nth.
LEMMA FirstGrows ==
  ASSUME NEW known, Sittings(known), NEW n \in 1..Cardinality(known)
  PROVE  /\ First(known, n - 1) = Priors(known, Nth(known, n))
         /\ First(known, n) = First(known, n - 1) \cup {Nth(known, n)}
         /\ \A r \in First(known, n) : r.day <= Nth(known, n).day
<1> DEFINE r == Nth(known, n)
<1>1. r \in known /\ Rank(known, r) = n - 1
  BY RanksAreNumbers
<1>2. \A s \in known : Rank(known, s) \in Nat /\ (Rank(known, s) = n - 1 => s = r)
  BY PriorsAreFinite, RanksAreNumbers
<1>3. n \in Nat
  BY PriorsAreFinite, <1>1
<1> HIDE DEF r
<1>4. \A s \in known : Rank(known, s) < n - 1 <=> Before(s, r)
  <2> TAKE s \in known
  <2>1. Before(s, r) => Rank(known, s) < n - 1
    BY <1>1, RanksGrow
  <2>2. Before(r, s) => n - 1 < Rank(known, s)
    BY <1>1, RanksGrow
  <2>3. s = r \/ Before(s, r) \/ Before(r, s)
    BY <1>1, BeforeIsTotal
  <2> QED
    BY <1>1, <1>2, <1>3, <2>1, <2>2, <2>3
<1>5. First(known, n - 1) = Priors(known, r)
  BY <1>4 DEF First, Priors
<1>6. First(known, n) = First(known, n - 1) \cup {r}
  BY <1>1, <1>2, <1>3 DEF First
<1>7. \A s \in First(known, n) : s.day <= r.day
  <2> TAKE s \in First(known, n)
  <2>1. CASE s = r
    BY <1>1, <2>1 DEF Sittings
  <2>2. CASE Before(s, r)
    BY <1>1, <2>2, BeforeIsTotal DEF First
  <2> QED
    BY <1>5, <1>6, <2>1, <2>2 DEF Priors
<1> QED
  BY <1>5, <1>6, <1>7 DEF r

LEMMA FirstAndLast ==
  ASSUME NEW known, Sittings(known)
  PROVE  /\ First(known, 0) = {}
         /\ First(known, Cardinality(known)) = known
         /\ \A n : Sittings(First(known, n))
<1>1. First(known, 0) = {} /\ First(known, Cardinality(known)) = known
  BY PriorsAreFinite DEF First
<1>2. \A n : First(known, n) \subseteq known
  BY DEF First
<1>3. \A n : IsFiniteSet(First(known, n))
  BY <1>2, FS_Subset DEF Sittings
<1> QED
  BY <1>1, <1>2, <1>3 DEF Sittings

-----------------------------------------------------------------------------
(* The fold.                                                               *)

Outcomes == [grade : {"hypothesis", "replicated", "refuted"}, step : 0..Ladder, due : Nat]

LEMMA LadderType == Ladder \in Nat /\ Ladder > 0 /\ Created \in Nat
BY LadderAssumption DEF Ladder

\* A date that was set lies after the day it was set from.
LEMMA DueType ==
  ASSUME NEW day \in Nat, NEW step \in 0..Ladder
  PROVE  /\ Due(day, step) \in Nat
         /\ step < Ladder => Due(day, step) > day
         /\ step = Ladder => Due(day, step) = Never
<1>1. CASE step < Ladder
  <2>1. step + 1 \in 1..Len(Intervals)
    BY <1>1, LadderType DEF Ladder
  <2>2. Intervals[step + 1] \in Nat \ {0}
    BY <2>1, LadderAssumption
  <2> QED
    BY <1>1, <2>2 DEF Due
<1>2. CASE step = Ladder
  BY <1>2, LadderType DEF Due, Never
<1> QED
  BY <1>1, <1>2, LadderType

LEMMA AuthoredType == Authored \in Outcomes
BY LadderType, DueType DEF Authored, Outcomes

LEMMA ApplyType ==
  ASSUME NEW sofar \in Outcomes, NEW priors, NEW result, result.day \in Nat
  PROVE  Apply(sofar, priors, result) \in Outcomes
<1> DEFINE step == IF sofar.step < Ladder THEN sofar.step + 1 ELSE Ladder
<1>1. step \in 0..Ladder
  BY LadderType DEF Outcomes
<1>2. Due(result.day, step) \in Nat
  BY <1>1, DueType
<1> QED
  BY <1>1, <1>2 DEF Apply, Outcomes, Never

\* The fold is the last of the outcomes that the results lead to, one by one.
LEMMA FoldIterates ==
  ASSUME NEW known, Sittings(known)
  PROVE  \E f \in [0..Cardinality(known) -> Outcomes] :
           /\ f[0] = Authored
           /\ \A n \in 1..Cardinality(known) :
                f[n] = Apply(f[n - 1], First(known, n - 1), Nth(known, n))
           /\ Fold(known) = f[Cardinality(known)]
<1> DEFINE N == Cardinality(known)
           step == [n \in 1..N |-> [sofar \in Outcomes |->
                      Apply(sofar, First(known, n - 1), Nth(known, n))]]
           Folds(f) == f = [n \in 0..N |->
                         IF n = 0 THEN Authored
                         ELSE Apply(f[n - 1], Priors(known, Nth(known, n)), Nth(known, n))]
           folded == CHOOSE f : Folds(f)
<1>1. N \in Nat
  BY FS_CardinalityType DEF Sittings
<1>2. \A n \in 1..N : Nth(known, n).day \in Nat
  BY RanksAreNumbers DEF Sittings
<1>3. \A n \in 1..N : \A sofar \in Outcomes : step[n][sofar] \in Outcomes
  BY <1>2, ApplyType
<1>4. PICK f \in [0..N -> Outcomes] : f[0] = Authored /\ \A n \in 1..N : f[n] = step[n][f[n - 1]]
  <2>1. Steps(N, Outcomes, step)
    BY <1>3 DEF Steps
  <2>2. Iterated(N, Outcomes, Authored, step)
    <3> HIDE DEF step, N
    <3> QED
      BY <1>1, <2>1, AuthoredType, Iterates
  <2> QED
    BY <2>2 DEF Iterated
<1>5. \A n \in 1..N : f[n] = Apply(f[n - 1], First(known, n - 1), Nth(known, n))
  <2> TAKE n \in 1..N
  <2>1. f[n - 1] \in Outcomes
    BY <1>1
  <2> QED
    BY <1>4, <2>1
<1>6. Folds(f)
  <2>1. \A n \in 0..N : f[n] = IF n = 0 THEN Authored
                               ELSE Apply(f[n - 1], Priors(known, Nth(known, n)), Nth(known, n))
    <3> TAKE n \in 0..N
    <3>1. CASE n = 0
      BY <1>4, <3>1
    <3>2. CASE n # 0
      <4>1. n \in 1..N
        BY <1>1, <3>2
      <4> QED
        BY <1>5, <3>2, <4>1, FirstGrows
    <3> QED
      BY <3>1, <3>2
  <2> HIDE DEF N
  <2> QED
    BY <2>1
<1>7. Folds(folded)
  <2> HIDE DEF Folds
  <2> QED
    BY <1>6
<1>8. \A n \in 0..N : folded[n] = f[n]
  <2> DEFINE Same == {n \in 0..N : folded[n] = f[n]}
  <2> HIDE DEF folded
  <2>1. 0 \in Same
    BY <1>1, <1>4, <1>7
  <2>2. ASSUME NEW n \in 1..N, n - 1 \in Same PROVE n \in Same
    <3>1. folded[n - 1] = f[n - 1] /\ n \in 0..N /\ n # 0
      BY <1>1, <2>2
    <3>2. folded[n] = Apply(folded[n - 1], Priors(known, Nth(known, n)), Nth(known, n))
      BY <1>7, <3>1
    <3>3. f[n] = Apply(f[n - 1], Priors(known, Nth(known, n)), Nth(known, n))
      BY <1>6, <3>1
    <3> QED
      BY <3>1, <3>2, <3>3
  <2>3. 0..N \subseteq Same
    <3> HIDE DEF Same, N
    <3> QED
      BY <1>1, <2>1, <2>2, UpTo
  <2> QED
    BY <2>3
<1>9. Fold(known) = folded[N]
  BY DEF Fold, Nth, Rank
<1> QED
  BY <1>1, <1>4, <1>5, <1>8, <1>9

-----------------------------------------------------------------------------
(* What the fold comes to.                                                 *)

\* On how many days the rule failed, and on how many it held.
FailedDays(known) == Cardinality(DaysWhen(known, FALSE))
HeldDays(known) == Cardinality(DaysWhen(known, TRUE))

\* The grade the comments promise, and the schedule, of a rule whose known
\* results were folded: stated without the order they were folded in.
Graded(sofar, known) ==
  sofar.grade = IF FailedDays(known) >= 2 THEN "refuted"
               ELSE IF HeldDays(known) >= 2 THEN "replicated"
               ELSE "hypothesis"

Scheduled(sofar, known) ==
  /\ sofar.due = Never <=> sofar.grade = "refuted" \/ sofar.step = Ladder
  /\ sofar.due # Never => \A r \in known : r.day < sofar.due

LEMMA DaysAreFinite ==
  ASSUME NEW known, Sittings(known), NEW held
  PROVE  IsFiniteSet(DaysWhen(known, held)) /\ Cardinality(DaysWhen(known, held)) \in Nat
<1> DEFINE some == {q \in known : q.held = held}
           day == [q \in some |-> q.day]
<1>1. IsFiniteSet(some)
  BY FS_Subset DEF Sittings
<1>2. day \in Surjection(some, DaysWhen(known, held))
  <2>1. \A q \in some : q.day \in DaysWhen(known, held)
    BY DEF DaysWhen
  <2>2. \A d \in DaysWhen(known, held) : \E q \in some : q.day = d
    BY DEF DaysWhen
  <2> HIDE DEF some
  <2> QED
    BY <2>1, <2>2 DEF Surjection
<1>3. IsFiniteSet(DaysWhen(known, held))
  <2> HIDE DEF some, day
  <2> QED
    BY <1>1, <1>2, FS_Surjection
<1> QED
  BY <1>3, FS_CardinalityType

\* A result adds its day to those on which the rule did as it did.
LEMMA DaysGrow ==
  ASSUME NEW older, NEW result, NEW known, known = older \cup {result}, Sittings(known)
  PROVE  /\ FailedDays(older) \in Nat /\ FailedDays(known) \in Nat
         /\ HeldDays(older) \in Nat /\ HeldDays(known) \in Nat
         /\ FailedDays(older) <= FailedDays(known)
         /\ HeldDays(older) <= HeldDays(known)
         /\ result.held => FailedDays(known) = FailedDays(older)
<1> SUFFICES ASSUME NEW held \in BOOLEAN
             PROVE  /\ Cardinality(DaysWhen(older, held)) \in Nat
                    /\ Cardinality(DaysWhen(known, held)) \in Nat
                    /\ Cardinality(DaysWhen(older, held)) <= Cardinality(DaysWhen(known, held))
                    /\ result.held # held => DaysWhen(known, held) = DaysWhen(older, held)
  BY Zenon DEF FailedDays, HeldDays
<1>1. DaysWhen(older, held) \subseteq DaysWhen(known, held)
  BY DEF DaysWhen
<1>2. IsFiniteSet(DaysWhen(known, held)) /\ Cardinality(DaysWhen(known, held)) \in Nat
  BY DaysAreFinite
<1>3. /\ IsFiniteSet(DaysWhen(older, held))
      /\ Cardinality(DaysWhen(older, held)) <= Cardinality(DaysWhen(known, held))
  BY <1>1, <1>2, FS_Subset
<1>4. Cardinality(DaysWhen(older, held)) \in Nat
  BY <1>3, FS_CardinalityType
<1>5. ASSUME result.held # held PROVE DaysWhen(known, held) = DaysWhen(older, held)
  BY <1>5 DEF DaysWhen
<1> QED
  BY <1>2, <1>3, <1>4, <1>5

LEMMA ApplyGrades ==
  ASSUME NEW sofar \in Outcomes, NEW older, NEW result, NEW known,
         known = older \cup {result}, Sittings(known), Graded(sofar, older)
  PROVE  Graded(Apply(sofar, older, result), known)
<1> DEFINE new == Apply(sofar, older, result)
<1>1. new.grade = IF sofar.grade = "refuted" THEN "refuted"
                  ELSE IF ~result.held /\ FailedDays(older \cup {result}) >= 2 THEN "refuted"
                  ELSE IF HeldDays(older \cup {result}) >= 2 THEN "replicated"
                  ELSE sofar.grade
  BY DEF Apply, FailedDays, HeldDays
<1>2. /\ FailedDays(older) \in Nat /\ FailedDays(known) \in Nat
      /\ HeldDays(older) \in Nat /\ HeldDays(known) \in Nat
      /\ FailedDays(older) <= FailedDays(known)
      /\ HeldDays(older) <= HeldDays(known)
      /\ result.held => FailedDays(known) = FailedDays(older)
  BY DaysGrow
<1> HIDE DEF new
<1> QED
  BY <1>1, <1>2 DEF Graded, new

LEMMA ApplySchedules ==
  ASSUME NEW sofar \in Outcomes, NEW older, NEW result, NEW known,
         known = older \cup {result}, Sittings(known),
         Scheduled(sofar, older), \A r \in known : r.day <= result.day
  PROVE  Scheduled(Apply(sofar, older, result), known)
<1> DEFINE new == Apply(sofar, older, result)
           step == IF sofar.step < Ladder THEN sofar.step + 1 ELSE Ladder
           due == Due(result.day, step)
<1>1. \A r \in known : r.day \in Nat
  BY DEF Sittings
<1>2. step \in 0..Ladder
  BY LadderType DEF Outcomes
<1>3. due \in Nat /\ (due = Never <=> step = Ladder) /\ (due # Never => due > result.day)
  <2> HIDE DEF step
  <2> QED
    BY <1>1, <1>2, DueType, LadderType DEF Never
<1>4. CASE sofar.grade = "refuted"
  BY <1>4 DEF Apply, Scheduled
<1>5. CASE new = [grade |-> "refuted", step |-> step, due |-> Never]
  BY <1>5 DEF Scheduled
<1>6. CASE new.grade # "refuted" /\ new.step = step /\ new.due = due
  <2>1. due # Never => \A r \in known : r.day < due
    <3> HIDE DEF due
    <3> QED
      BY <1>1, <1>3
  <2>2. Scheduled(new, known)
    <3> HIDE DEF new, step, due
    <3> QED
      BY <1>3, <1>6, <2>1 DEF Scheduled
  <2> QED
    BY <2>2
<1>7. \/ new = [grade |-> "refuted", step |-> step, due |-> Never]
      \/ new.grade # "refuted" /\ new.step = step /\ new.due = due
      \/ sofar.grade = "refuted"
  BY DEF Apply
<1> QED
  BY <1>4, <1>5, <1>6, <1>7

\* What gradeLearningRule comes to, whatever the results and their order.
THEOREM FoldGrades ==
  ASSUME NEW known, Sittings(known)
  PROVE  Fold(known) \in Outcomes /\ Graded(Fold(known), known) /\ Scheduled(Fold(known), known)
<1> DEFINE N == Cardinality(known)
<1>1. N \in Nat
  BY FS_CardinalityType DEF Sittings
<1>2. PICK f \in [0..N -> Outcomes] :
        /\ f[0] = Authored
        /\ \A n \in 1..N : f[n] = Apply(f[n - 1], First(known, n - 1), Nth(known, n))
        /\ Fold(known) = f[N]
  BY FoldIterates
<1> DEFINE Right == {n \in 0..N : /\ Graded(f[n], First(known, n))
                                  /\ Scheduled(f[n], First(known, n))}
<1>3. 0 \in Right
  <2>1. First(known, 0) = {} /\ 0 \in 0..N
    BY <1>1, FirstAndLast
  <2>2. FailedDays({}) = 0 /\ HeldDays({}) = 0
    <3>1. DaysWhen({}, TRUE) = {} /\ DaysWhen({}, FALSE) = {}
      BY DEF DaysWhen
    <3> QED
      BY <3>1, FS_EmptySet, Zenon DEF FailedDays, HeldDays
  <2>3. Graded(Authored, {})
    BY <2>2 DEF Graded, Authored
  <2>4. Scheduled(Authored, {})
    BY DueType, LadderType DEF Scheduled, Authored, Never
  <2> QED
    BY <1>2, <2>1, <2>3, <2>4
<1>4. ASSUME NEW n \in 1..N, n - 1 \in Right PROVE n \in Right
  <2> DEFINE older == First(known, n - 1)
             result == Nth(known, n)
  <2>1. First(known, n) = older \cup {result} /\ \A r \in First(known, n) : r.day <= result.day
    BY FirstGrows
  <2>2. Sittings(First(known, n))
    BY FirstAndLast
  <2>3. f[n - 1] \in Outcomes /\ f[n] = Apply(f[n - 1], older, result)
    BY <1>1, <1>2
  <2>4. Graded(f[n - 1], older) /\ Scheduled(f[n - 1], older)
    BY <1>4
  <2> HIDE DEF older, result
  <2>5. Graded(f[n], First(known, n))
    BY <2>1, <2>2, <2>3, <2>4, ApplyGrades
  <2>6. Scheduled(f[n], First(known, n))
    BY <2>1, <2>2, <2>3, <2>4, ApplySchedules
  <2> QED
    BY <2>5, <2>6
<1>5. N \in Right
  <2> HIDE DEF Right, N
  <2> QED
    BY <1>1, <1>3, <1>4, UpTo
<1>6. First(known, N) = known
  BY FirstAndLast
<1> QED
  BY <1>1, <1>2, <1>5, <1>6

\* Without results a rule is as it was written.
LEMMA NothingToFold == Fold({}) = Authored
<1>1. Sittings({}) /\ Cardinality({}) = 0
  BY FS_EmptySet DEF Sittings
<1> QED
  BY <1>1, FoldIterates, Zenon

-----------------------------------------------------------------------------
(* The results as they arrive: LearningRuleGrades.                         *)

\* The results are numbered as they are reported, on days from Created on.
Numbered ==
  /\ Sittings(arrived)
  /\ \A r \in arrived : r.transfer \in 1..Cardinality(arrived)

\* Every set of results the reports can lead to is one the fold is about.
THEOREM ResultsAreNumbered == Arrivals => []Numbered
<1>1. NothingArrived => Numbered
  BY FS_EmptySet DEF NothingArrived, Numbered, Sittings
<1>2. Numbered /\ [SomethingArrives]_arrived => Numbered'
  <2> SUFFICES ASSUME Numbered, [SomethingArrives]_arrived PROVE Numbered'
    OBVIOUS
  <2>1. CASE UNCHANGED arrived
    BY <2>1 DEF Numbered, Sittings
  <2>2. CASE SomethingArrives
    <3>1. PICK day \in Created..LastSitting, held \in BOOLEAN : Arrives(day, held)
      BY <2>2 DEF SomethingArrives
    <3> DEFINE n == Cardinality(arrived)
               result == [transfer |-> n + 1, day |-> day, held |-> held]
    <3>2. IsFiniteSet(arrived) /\ n \in Nat
      BY FS_CardinalityType DEF Numbered, Sittings
    <3>3. day \in Nat
      BY LadderType
    <3>4. arrived' = arrived \cup {result}
      BY <3>1 DEF Arrives
    <3>5. result \notin arrived /\ \A r \in arrived : r.transfer # n + 1
      BY <3>2 DEF Numbered
    <3>6. IsFiniteSet(arrived') /\ Cardinality(arrived') = n + 1
      BY <3>2, <3>4, <3>5, FS_AddElement
    <3>7. result \in [transfer : Nat, day : Nat, held : BOOLEAN]
      BY <3>2, <3>3
    <3>8. \A r, s \in arrived' : r.transfer = s.transfer => r = s
      BY <3>4, <3>5 DEF Numbered, Sittings
    <3>9. \A r \in arrived' : r.transfer \in 1..(n + 1)
      BY <3>2, <3>4 DEF Numbered
    <3> QED
      BY <3>4, <3>6, <3>7, <3>8, <3>9 DEF Numbered, Sittings
  <2> QED
    BY <2>1, <2>2
<1> QED
  BY <1>1, <1>2, PTL DEF Arrivals

\* Two failed days refute and two days on which the condition held replicate,
\* for every ladder, every number of results and every order they arrive in.
THEOREM GradeNeedsTwoDays == Arrivals => []TwoDaysEitherWay
<1>1. Numbered => TwoDaysEitherWay
  BY FoldGrades DEF Numbered, TwoDaysEitherWay, Rule, Graded, FailedDays, HeldDays
<1> QED
  BY <1>1, ResultsAreNumbered, PTL

\* A rule is due again exactly while it is open, and after every sitting.
THEOREM ScheduleFollowsGrade == Arrivals => []DueWhileOpen
<1>1. Numbered => DueWhileOpen
  BY FoldGrades DEF Numbered, DueWhileOpen, Rule, Scheduled, Outcomes
<1> QED
  BY <1>1, ResultsAreNumbered, PTL

-----------------------------------------------------------------------------
(* The tests.                                                              *)

USE TransferAssumption, LadderAssumption

-----------------------------------------------------------------------------
(* The inductive invariant.                                                *)

\* Transfers are numbered as they are preregistered.
StartedInOrder == \E n \in 0..MaxTransfers : Started = 1..n

ObservationsFit ==
  \A t \in Transfers : \A i \in DOMAIN obs[t] :
    /\ obs[t][i] \in DOMAIN decided
    /\ i \in DOMAIN fens[t] /\ fens[t][i] = BoardOf(obs[t][i])

ResultsFit ==
  /\ IsFiniteSet(results)
  /\ \A r \in results : r.transfer \in Started
  /\ \A r, s \in results : r.transfer = s.transfer => r = s

\* What may be written as the grade: a grading of stored results, or retired.
IsAGrade(graded) ==
  graded.grade = "retired" \/ \E known \in SUBSET results : graded = Fold(known)

TablesFit ==
  /\ rule \in Rules
  /\ fens \in [Transfers -> Seq(Boards)]
  /\ since \in [Transfers -> Days]
  /\ obs \in [Transfers -> Seq(Decisions)]
  /\ results \subseteq Results
  /\ decided \in Seq([board : Boards, sound : BOOLEAN]) /\ Len(decided) <= MaxDecisions
  /\ StartedInOrder
  /\ \A t \in Started : Len(fens[t]) = PositionCount
  /\ ObservationsFit
  /\ ResultsFit
  /\ IsAGrade(rule)

\* A page that shows a transfer has one, and its index and its count agree.
PageFits(p) ==
  /\ p.at \notin {"queue", "beginning", "retiring"} => p.transfer \in Started
  /\ p.at \in {"briefing", "deciding", "observing"} => p.count = p.index
  /\ p.at = "observing" => p.index < PositionCount
  /\ p.at \in {"revealed", "reporting", "done"} =>
       p.index < PositionCount /\ p.count \in {p.index, p.index + 1}

\* A test may be started: the rule was due, or an orphan is in the way.
MayStart(c) == \/ c.graded.due # Never /\ c.graded.due <= c.day
               \/ c.transfer # 0 /\ BoardsOf(c.transfer) \subseteq DecidedBoards

\* What a call has read is still so: the decision it records is on its
\* transfer, in the slot it found; the transfer it reports is complete; the
\* grade it writes is one; a begin goes on with the grade of the results it
\* has read, which is open, and selects boards only where it may start a test.
CallFits(c) ==
  /\ c.transfer \in Started \cup {0}
  /\ c.op \in {"observe", "finish"} => c.transfer # 0
  /\ c.op = "observe" =>
       /\ c.decision \in DOMAIN decided
       /\ \E i \in DOMAIN fens[c.transfer] : fens[c.transfer][i] = BoardOf(c.decision)
  /\ c.op = "observe" /\ c.pc = "write" =>
       /\ c.observed + 1 \in DOMAIN fens[c.transfer]
       /\ fens[c.transfer][c.observed + 1] = BoardOf(c.decision)
  /\ c.pc = "insert" => Len(c.boards) = PositionCount
  /\ c.op = "finish" /\ c.pc \in {"priors", "report"} => Len(obs[c.transfer]) = PositionCount
  /\ c.results \subseteq results
  /\ c.pc \in {"guard", "upsert"} => IsAGrade(c.graded)
  /\ c.op = "begin" =>
       /\ c.pc \notin Over \cup {"results", "rule"} =>
            c.graded.grade = "retired" \/ c.graded = Fold(c.results)
       /\ c.pc \in {"observed", "decided", "resumed", "select", "insert"} =>
            c.graded.grade \notin {"refuted", "retired"}
       /\ c.pc \in {"decided", "resumed"} => c.transfer # 0
       /\ c.pc \in {"select", "insert"} => MayStart(c)

PagesFit == page \in [Tabs -> PageStates] /\ \A tab \in Tabs : PageFits(page[tab])
CallsFit == call \in [Tabs -> CallStates] /\ \A tab \in Tabs : CallFits(call[tab])
ClockFits == today \in Days /\ faults \in 0..MaxFaults

IInv == TablesFit /\ PagesFit /\ CallsFit /\ ClockFits

-----------------------------------------------------------------------------
(* What the grades are.                                                    *)

LEMMA NumbersAreNat ==
  /\ MaxTransfers \in Nat /\ MaxDecisions \in Nat /\ MaxFaults \in Nat
  /\ PositionCount \in Nat \ {0}
  /\ Created \in Days /\ Days \subseteq Nat /\ Transfers \subseteq Nat
BY DEF Days, Transfers

LEMMA FoldIsARule ==
  ASSUME NEW known \in SUBSET Results, IsFiniteSet(known),
         \A r, s \in known : r.transfer = s.transfer => r = s
  PROVE  Fold(known) \in Rules
<1>1. known \subseteq [transfer : Nat, day : Nat, held : BOOLEAN]
  <2>1. Results \subseteq [transfer : Nat, day : Nat, held : BOOLEAN]
    BY NumbersAreNat, Zenon DEF Results
  <2> QED
    BY <2>1
<1>2. Sittings(known)
  BY <1>1, Zenon DEF Sittings
<1>3. Fold(known) \in Outcomes
  BY <1>2, FoldGrades
<1>4. Outcomes = [grade : {"hypothesis", "replicated", "refuted"}, step : 0..Ladder,
                          due : Nat]
  BY Zenon DEF Outcomes
<1>5. Fold(known) \in [grade : {"hypothesis", "replicated", "refuted"}, step : 0..Ladder, due : Nat]
  BY <1>3, <1>4, Zenon
<1> QED
  BY <1>5 DEF Rules

LEMMA RetiredIsARule == ASSUME NEW r \in Rules PROVE Retired(r) \in Rules /\ Retired(r).grade = "retired"
BY DEF Retired, Rules, Never

LEMMA AuthoredIsARule == Authored \in Rules
BY FoldIsARule, NothingToFold, FS_EmptySet

LEMMA NoCallIsACall ==
  /\ NoCall \in CallStates /\ CallFits(NoCall) /\ CallFits(NoCall)'
  /\ \A pc \in Over : /\ [NoCall EXCEPT !.pc = pc] \in CallStates
                      /\ CallFits([NoCall EXCEPT !.pc = pc])'
<1>1. /\ \A pc \in Over : [NoCall EXCEPT !.pc = pc] \in CallStates
      /\ NoCall \in CallStates
  <2>1. <<>> \in Seq(Boards) /\ {} \in SUBSET Results /\ "done" \in Over
    BY DEF Over
  <2>2. 0 \in 0..MaxTransfers /\ 0 \in 0..MaxDecisions /\ 0 \in 0..PositionCount
    BY NumbersAreNat
  <2>3. NoCall \in CallStates
    BY <2>1, <2>2, AuthoredIsARule, NumbersAreNat DEF NoCall, CallStates
  <2>4. ASSUME NEW pc \in Over PROVE [NoCall EXCEPT !.pc = pc] \in CallStates
    BY <2>3 DEF CallStates
  <2> QED
    BY <2>3, <2>4
<1>2. /\ \A pc \in Over : CallFits([NoCall EXCEPT !.pc = pc])'
      /\ CallFits(NoCall) /\ CallFits(NoCall)'
  BY DEF NoCall, CallFits, Over
<1> QED
  BY <1>1, <1>2

LEMMA NoPageFits == NoPage \in PageStates /\ PageFits(NoPage)
BY NumbersAreNat DEF NoPage, PageStates, PageFits

LEMMA InitInv == Init => IInv
<1> SUFFICES ASSUME Init PROVE IInv
  OBVIOUS
<1>1. Started = {}
  BY DEF Init, Started
<1>2. StartedInOrder
  <2>1. 0 \in 0..MaxTransfers /\ 1..0 = {}
    BY NumbersAreNat
  <2> QED
    BY <1>1, <2>1 DEF StartedInOrder
<1>3. IsAGrade(rule)
  BY NothingToFold, Zenon DEF IsAGrade, Init
<1>4. TablesFit
  <2>1. ResultsFit
    BY FS_EmptySet DEF Init, ResultsFit
  <2>2. ObservationsFit
    BY DEF Init, ObservationsFit
  <2> QED
    BY <1>1, <1>2, <1>3, <2>1, <2>2, AuthoredIsARule, NumbersAreNat DEF Init, TablesFit
<1>5. PagesFit /\ CallsFit
  BY NoCallIsACall, NoPageFits DEF Init, PagesFit, CallsFit
<1>6. ClockFits
  BY NumbersAreNat DEF Init, ClockFits
<1> QED
  BY <1>4, <1>5, <1>6 DEF IInv

-----------------------------------------------------------------------------
(* A step that leaves the tables alone, or only adds to them.              *)

\* What the pages and the calls rely on stays as it is.
Grown ==
  /\ \A t \in Started : t \in Started' /\ fens'[t] = fens[t]
  /\ \A d \in DOMAIN decided : d \in DOMAIN decided' /\ decided'[d] = decided[d]
  /\ results \subseteq results'
  /\ \A t \in Transfers : Len(obs[t]) = PositionCount => Len(obs'[t]) = PositionCount

LEMMA TablesStay ==
  ASSUME TablesFit, UNCHANGED tables
  PROVE  TablesFit' /\ Grown
BY DEF tables, TablesFit, StartedInOrder, Started, ObservationsFit, BoardOf, ResultsFit,
       IsAGrade, Grown

LEMMA StartedAreTransfers ==
  ASSUME TablesFit
  PROVE  /\ Started \subseteq Transfers /\ 0 \notin Started
         /\ \A t \in Started : fens[t] \in Seq(Boards) /\ Len(fens[t]) = PositionCount
BY NumbersAreNat DEF TablesFit, Started, Transfers

LEMMA GradesStay ==
  ASSUME NEW graded, IsAGrade(graded), results \subseteq results'
  PROVE  IsAGrade(graded)'
BY DEF IsAGrade

LEMMA CallKeeps ==
  ASSUME TablesFit, Grown, NEW c \in CallStates, CallFits(c)
  PROVE  CallFits(c)'
<1>1. c.transfer = 0 \/ (c.transfer \in Started /\ c.transfer \in Started'
                         /\ fens'[c.transfer] = fens[c.transfer])
  BY DEF CallFits, Grown
<1>2. c.transfer \in Started' \cup {0}
  BY <1>1
<1>3. c.op = "observe" =>
       /\ c.decision \in DOMAIN decided'
       /\ \E i \in DOMAIN fens'[c.transfer] : fens'[c.transfer][i] = decided'[c.decision].board
  BY <1>1 DEF CallFits, Grown, BoardOf
<1>4. c.op = "observe" /\ c.pc = "write" =>
       /\ c.observed + 1 \in DOMAIN fens'[c.transfer]
       /\ fens'[c.transfer][c.observed + 1] = decided'[c.decision].board
  BY <1>1 DEF CallFits, Grown, BoardOf
<1>5. c.op = "finish" /\ c.pc \in {"priors", "report"} => Len(obs'[c.transfer]) = PositionCount
  BY <1>1, StartedAreTransfers DEF CallFits, Grown
<1>6. c.results \subseteq results' /\ (c.pc \in {"guard", "upsert"} => IsAGrade(c.graded)')
  BY GradesStay DEF CallFits, Grown
<1>7. MayStart(c) => MayStart(c)'
  <2>1. c.transfer # 0 => fens'[c.transfer] = fens[c.transfer]
    BY <1>1
  <2>2. c.transfer # 0 => BoardsOf(c.transfer)' = BoardsOf(c.transfer)
    BY <2>1 DEF BoardsOf
  <2>3. DecidedBoards \subseteq DecidedBoards'
    BY DEF Grown, DecidedBoards
  <2> QED
    BY <2>2, <2>3 DEF MayStart
<1>8. c.op = "begin" =>
       /\ c.pc \notin Over \cup {"results", "rule"} =>
            c.graded.grade = "retired" \/ c.graded = Fold(c.results)
       /\ c.pc \in {"observed", "decided", "resumed", "select", "insert"} =>
            c.graded.grade \notin {"refuted", "retired"}
       /\ c.pc \in {"decided", "resumed"} => c.transfer # 0
       /\ c.pc \in {"select", "insert"} => MayStart(c)'
  BY <1>7, Zenon DEF CallFits
<1> QED
  BY <1>2, <1>3, <1>4, <1>5, <1>6, <1>8 DEF CallFits, BoardOf

LEMMA CallsStay ==
  ASSUME TablesFit, CallsFit, Grown, UNCHANGED call
  PROVE  CallsFit'
<1>1. ASSUME NEW tab \in Tabs PROVE CallFits(call[tab])'
  <2>1. PICK c \in CallStates : c = call[tab]
    BY DEF CallsFit
  <2>2. CallFits(c)'
    BY <2>1, CallKeeps DEF CallsFit
  <2>3. call'[tab] = c
    BY <2>1
  <2> QED
    BY <2>2, <2>3 DEF CallFits
<1> QED
  BY <1>1 DEF CallsFit

LEMMA CallMoves ==
  ASSUME TablesFit, CallsFit, Grown, NEW tab \in Tabs,
         NEW c \in CallStates, CallFits(c)', call' = [call EXCEPT ![tab] = c]
  PROVE  CallsFit'
<1>1. call' \in [Tabs -> CallStates]
  BY DEF CallsFit
<1>2. ASSUME NEW other \in Tabs PROVE CallFits(call[other])'
  <2>1. PICK d \in CallStates : d = call[other]
    BY DEF CallsFit
  <2>2. CallFits(d)'
    BY <2>1, CallKeeps DEF CallsFit
  <2>3. call'[other] = IF other = tab THEN c ELSE d
    BY <2>1 DEF CallsFit
  <2>4. CASE other = tab
    BY <2>3, <2>4 DEF CallFits
  <2>5. CASE other # tab
    BY <2>2, <2>3, <2>5 DEF CallFits
  <2> QED
    BY <2>4, <2>5
<1> QED
  BY <1>1, <1>2 DEF CallsFit

\* A call that is over.
LEMMA CallEnds ==
  ASSUME TablesFit, CallsFit, Grown, NEW tab \in Tabs,
         Heard(tab) \/ \E pc \in Over : Reply(tab, pc)
  PROVE  CallsFit'
<1>1. CASE Heard(tab)
  BY <1>1, NoCallIsACall, CallMoves DEF Heard
<1>2. ASSUME NEW pc \in Over, Reply(tab, pc) PROVE CallsFit'
  <2>1. PICK c : c = [NoCall EXCEPT !.pc = pc]
    OBVIOUS
  <2>2. c \in CallStates /\ CallFits(c)' /\ call' = [call EXCEPT ![tab] = c]
    BY <1>2, <2>1, NoCallIsACall DEF Reply
  <2> QED
    BY <2>2, CallMoves
<1> QED
  BY <1>1, <1>2

LEMMA PageKeeps == ASSUME NEW p, PageFits(p), Grown PROVE PageFits(p)'
BY DEF PageFits, Grown

LEMMA PagesStay ==
  ASSUME PagesFit, Grown, UNCHANGED page
  PROVE  PagesFit'
BY DEF PagesFit, PageFits, Grown

LEMMA PageMoves ==
  ASSUME PagesFit, Grown, NEW tab \in Tabs,
         NEW p \in PageStates, PageFits(p), page' = [page EXCEPT ![tab] = p]
  PROVE  PagesFit'
<1>1. page' \in [Tabs -> PageStates]
  BY DEF PagesFit
<1>2. ASSUME NEW other \in Tabs PROVE PageFits(page[other])'
  <2>1. PageFits(p)'
    BY PageKeeps
  <2>2. page'[other] = IF other = tab THEN p ELSE page[other]
    BY DEF PagesFit
  <2>3. CASE other = tab
    BY <2>1, <2>2, <2>3 DEF PageFits
  <2>4. CASE other # tab
    BY <2>2, <2>4 DEF PagesFit, PageFits, Grown
  <2> QED
    BY <2>3, <2>4
<1> QED
  BY <1>1, <1>2 DEF PagesFit

\* What a page shows next, when it shows the same transfer.
LEMMA PageShows ==
  ASSUME PagesFit, Grown, NEW tab \in Tabs, NEW at \in Awaiting \cup {"queue", "briefing", "deciding", "revealed", "done"},
         Shows(tab, at), PageFits([page[tab] EXCEPT !.at = at])
  PROVE  PagesFit'
<1>1. PICK p : p = [page[tab] EXCEPT !.at = at]
  OBVIOUS
<1>2. p \in PageStates
  <2>1. page[tab] \in PageStates
    BY DEF PagesFit
  <2> QED
    BY <1>1, <2>1 DEF PageStates
<1>3. PageFits(p) /\ page' = [page EXCEPT ![tab] = p]
  BY <1>1 DEF Shows, PageFits
<1> QED
  BY <1>2, <1>3, PageMoves

LEMMA PageLeaves ==
  ASSUME PagesFit, Grown, NEW tab \in Tabs, page' = [page EXCEPT ![tab] = NoPage]
  PROVE  PagesFit'
BY NoPageFits, PageMoves

-----------------------------------------------------------------------------
(* The page's steps.                                                       *)

\* A new call, on a page's own transfer or on none.
LEMMA CallBegins ==
  ASSUME IInv, Grown, NEW tab \in Tabs, NEW c \in CallStates, Calls(tab, c), CallFits(c)'
  PROVE  CallsFit'
BY CallMoves DEF IInv, Calls

LEMMA BeginStep ==
  ASSUME IInv, NEW tab \in Tabs, Begin(tab) \/ Retire(tab)
  PROVE  IInv'
<1> USE DEF IInv
<1>1. TablesFit' /\ Grown /\ ClockFits'
  BY TablesStay DEF Begin, Retire, ClockFits
<1>2. PagesFit'
  <2>1. CASE Begin(tab)
    BY <1>1, <2>1, PageShows DEF Begin, PageFits, Awaiting
  <2>2. CASE Retire(tab)
    BY <1>1, <2>2, PageShows DEF Retire, PageFits, Awaiting
  <2> QED
    BY <2>1, <2>2
<1>3. CallsFit'
  <2>1. PICK c : /\ Calls(tab, c)
                 /\ \/ c = [NoCall EXCEPT !.op = "begin", !.pc = "results", !.day = today]
                    \/ c = [NoCall EXCEPT !.op = "retire", !.pc = "rule", !.day = today]
    BY DEF Begin, Retire
  <2>2. c \in CallStates
    <3>1. today \in Days
      BY DEF ClockFits
    <3>2. CASE c = [NoCall EXCEPT !.op = "begin", !.pc = "results", !.day = today]
      BY <3>1, <3>2, NoCallIsACall DEF CallStates
    <3>3. CASE c = [NoCall EXCEPT !.op = "retire", !.pc = "rule", !.day = today]
      BY <3>1, <3>3, NoCallIsACall DEF CallStates
    <3> QED
      BY <2>1, <3>2, <3>3
  <2>3. /\ c.op \in {"begin", "retire"} /\ c.pc \in {"results", "rule"}
        /\ c.transfer = 0 /\ c.results = {}
    BY <2>1 DEF NoCall
  <2>4. CallFits(c)'
    BY <2>3 DEF CallFits
  <2> QED
    BY <1>1, <2>1, <2>2, <2>4, CallBegins
<1> QED
  BY <1>1, <1>2, <1>3

LEMMA BeginHeardStep ==
  ASSUME IInv, NEW tab \in Tabs, BeginHeard(tab)
  PROVE  IInv'
<1> USE DEF IInv
<1>1. TablesFit' /\ Grown /\ ClockFits' /\ CallsFit'
  <2>1. TablesFit' /\ Grown
    BY TablesStay DEF BeginHeard
  <2> QED
    BY <2>1, CallEnds DEF BeginHeard, ClockFits
<1>2. PagesFit'
  <2>1. call[tab] \in CallStates /\ call[tab].transfer \in Started \cup {0}
    BY DEF CallsFit, CallFits
  <2>2. CASE call[tab].transfer = 0
    BY <1>1, <2>2, PageLeaves DEF BeginHeard
  <2>3. CASE call[tab].transfer # 0
    <3>1. PICK p : p = [at |-> "briefing", transfer |-> call[tab].transfer,
                        index |-> call[tab].observed, count |-> call[tab].observed]
      OBVIOUS
    <3>2. p \in PageStates
      BY <2>1, <3>1 DEF PageStates, CallStates
    <3>3. PageFits(p) /\ page' = [page EXCEPT ![tab] = p]
      BY <2>1, <2>3, <3>1 DEF PageFits, BeginHeard
    <3> QED
      BY <1>1, <3>2, <3>3, PageMoves
  <2> QED
    BY <2>2, <2>3
<1> QED
  BY <1>1, <1>2

\* The steps of a page alone, or with the end of its call.
LEMMA QuietStep ==
  ASSUME IInv, NEW tab \in Tabs,
         \/ StartRun(tab) \/ ObserveHeard(tab) \/ NextPosition(tab) \/ FinishHeard(tab)
         \/ Leave(tab) \/ RetireHeard(tab)
  PROVE  IInv'
<1> USE DEF IInv
<1>1. TablesFit' /\ Grown /\ ClockFits'
  <2>1. UNCHANGED <<tables, today, faults>>
    BY DEF StartRun, ObserveHeard, NextPosition, FinishHeard, Leave, RetireHeard
  <2> QED
    BY <2>1, TablesStay DEF ClockFits
<1>2. CallsFit'
  <2>1. UNCHANGED call \/ Heard(tab)
    BY DEF StartRun, ObserveHeard, NextPosition, FinishHeard, Leave, RetireHeard
  <2> QED
    BY <1>1, <2>1, CallsStay, CallEnds
<1>3. page[tab] \in PageStates /\ PageFits(page[tab])
  BY DEF PagesFit
<1>4. CASE StartRun(tab)
  BY <1>1, <1>2, <1>3, <1>4, PageShows DEF StartRun, PageFits
<1>5. CASE ObserveHeard(tab)
  <2>1. PICK p : p = [page[tab] EXCEPT !.at = "revealed", !.count = page[tab].count + 1]
    OBVIOUS
  <2>2. page' = [page EXCEPT ![tab] = p]
    BY <1>5, <2>1 DEF ObserveHeard, PagesFit
  <2>3. page[tab].at = "observing" /\ page[tab].count < PositionCount
    BY <1>3, <1>5 DEF ObserveHeard, PageFits
  <2>4. p \in PageStates
    <3>1. page[tab].count + 1 \in 0..PositionCount
      BY <1>3, <2>3, NumbersAreNat DEF PageStates
    <3> QED
      BY <1>3, <2>1, <3>1 DEF PageStates
  <2>5. /\ page[tab].transfer \in Started /\ page[tab].index < PositionCount
        /\ page[tab].count = page[tab].index
    BY <1>3, <2>3 DEF PageFits
  <2>6. /\ p.at = "revealed" /\ p.transfer = page[tab].transfer
        /\ p.index = page[tab].index /\ p.count = page[tab].count + 1
    BY <1>3, <2>1 DEF PageStates
  <2>7. PageFits(p)
    BY <2>5, <2>6 DEF PageFits
  <2> QED
    BY <1>1, <1>2, <2>2, <2>4, <2>7, PageMoves
<1>6. CASE NextPosition(tab)
  <2>1. PICK p : p = [page[tab] EXCEPT !.at = "deciding", !.index = page[tab].index + 1]
    OBVIOUS
  <2>2. page' = [page EXCEPT ![tab] = p]
    BY <1>6, <2>1 DEF NextPosition, PagesFit
  <2>3. p \in PageStates /\ PageFits(p)
    BY <1>3, <1>6, <2>1, NumbersAreNat DEF NextPosition, Counted, PageStates, PageFits
  <2> QED
    BY <1>1, <1>2, <2>2, <2>3, PageMoves
<1>7. CASE FinishHeard(tab)
  BY <1>1, <1>2, <1>3, <1>7, PageShows DEF FinishHeard, PageFits
<1>8. CASE Leave(tab) \/ RetireHeard(tab)
  BY <1>1, <1>2, <1>8, PageLeaves DEF Leave, RetireHeard
<1> QED
  BY <1>4, <1>5, <1>6, <1>7, <1>8

LEMMA ErrorStep ==
  ASSUME IInv, NEW tab \in Tabs, CallRefused(tab) \/ AnswerLost(tab) \/ Reload(tab)
  PROVE  IInv'
<1> USE DEF IInv
<1>1. TablesFit' /\ Grown
  BY TablesStay DEF CallRefused, AnswerLost, Reload
<1>2. ClockFits' /\ CallsFit'
  BY <1>1, NumbersAreNat, CallsStay, CallEnds DEF CallRefused, AnswerLost, Reload, ClockFits
<1>3. PagesFit'
  <2>1. CASE page' = [page EXCEPT ![tab] = NoPage]
    BY <1>1, <2>1, PageLeaves
  <2>2. CASE /\ page[tab].at \in {"observing", "reporting"}
             /\ page' = [page EXCEPT ![tab] = [page[tab] EXCEPT !.at = "revealed"]]
    <3>1. page[tab] \in PageStates /\ PageFits(page[tab])
      BY DEF PagesFit
    <3>2. PICK p : p = [page[tab] EXCEPT !.at = "revealed"]
      OBVIOUS
    <3>3. p \in PageStates /\ PageFits(p)
      BY <2>2, <3>1, <3>2, NumbersAreNat DEF PageStates, PageFits
    <3> QED
      BY <1>1, <2>2, <3>2, <3>3, PageMoves
  <2>3. page[tab].at = "beginning" \/ page[tab].at \in {"observing", "reporting"} \/ Reload(tab)
    BY DEF CallRefused, AnswerLost
  <2> QED
    BY <2>1, <2>2, <2>3 DEF CallRefused, AnswerLost, AfterError, Reload
<1> QED
  BY <1>1, <1>2, <1>3

\* A decision on the board of a page's index is added to those taken.
LEMMA CommitGrows ==
  ASSUME IInv, NEW tab \in Tabs, NEW sound \in BOOLEAN, Commits(tab, sound),
         page[tab].at = "deciding", UNCHANGED <<rule, fens, since, obs, results>>
  PROVE  /\ TablesFit' /\ Grown
         /\ Len(decided') \in DOMAIN decided' /\ Len(decided') \in 0..MaxDecisions
         /\ page[tab].transfer \in Started
         /\ page[tab].index + 1 \in DOMAIN fens[page[tab].transfer]
         /\ decided'[Len(decided')].board = fens[page[tab].transfer][page[tab].index + 1]
<1> USE DEF IInv
<1>1. page[tab] \in PageStates /\ page[tab].transfer \in Started
  BY DEF PagesFit, PageFits
<1>2. fens[page[tab].transfer] \in Seq(Boards) /\ Len(fens[page[tab].transfer]) = PositionCount
  BY <1>1, StartedAreTransfers
<1>3. page[tab].index + 1 \in 1..PositionCount
  BY <1>1, NumbersAreNat DEF Commits, PageStates
<1>4. fens[page[tab].transfer][page[tab].index + 1] \in Boards
  BY <1>2, <1>3, ElementOfSeq
<1>5. PICK entry \in [board : Boards, sound : BOOLEAN] :
        /\ decided' = Append(decided, entry)
        /\ entry.board = fens[page[tab].transfer][page[tab].index + 1]
  BY <1>4 DEF Commits
<1>6. /\ decided \in Seq([board : Boards, sound : BOOLEAN]) /\ Len(decided) \in Nat
      /\ Len(decided) < MaxDecisions
  BY DEF TablesFit, Commits
<1>7. /\ decided' \in Seq([board : Boards, sound : BOOLEAN])
      /\ Len(decided') = Len(decided) + 1
      /\ decided'[Len(decided')] = entry
      /\ \A d \in 1..Len(decided) : decided'[d] = decided[d]
  BY <1>5, <1>6, AppendProperties
<1>8. \A d \in DOMAIN decided : d \in DOMAIN decided' /\ decided'[d] = decided[d]
  BY <1>6, <1>7
<1>9. Grown
  BY <1>8 DEF Grown, Started
<1>10. ObservationsFit'
  BY <1>8 DEF TablesFit, ObservationsFit, BoardOf
<1>11. Len(decided') <= MaxDecisions
  BY <1>6, <1>7, NumbersAreNat
<1>12. StartedInOrder' /\ ResultsFit' /\ IsAGrade(rule)'
  BY DEF TablesFit, StartedInOrder, Started, ResultsFit, IsAGrade
<1>13. TablesFit'
  BY <1>7, <1>10, <1>11, <1>12 DEF TablesFit, Started
<1> QED
  BY <1>1, <1>2, <1>3, <1>5, <1>6, <1>7, <1>9, <1>13, NumbersAreNat

LEMMA DecideStep ==
  ASSUME IInv, NEW tab \in Tabs, Decide(tab) \/ RevealFails(tab)
  PROVE  IInv'
<1> USE DEF IInv
<1>1. PICK sound \in BOOLEAN : Commits(tab, sound)
  BY DEF Decide, RevealFails
<1>2. page[tab].at = "deciding" /\ UNCHANGED <<rule, fens, since, obs, results>>
  BY <1>1 DEF Commits, Decide, RevealFails
<1> DEFINE t == page[tab].transfer
           d == Len(decided')
<1>3. /\ TablesFit' /\ Grown
      /\ d \in DOMAIN decided' /\ d \in 0..MaxDecisions
      /\ t \in Started
      /\ page[tab].index + 1 \in DOMAIN fens[t]
      /\ decided'[d].board = fens[t][page[tab].index + 1]
  BY <1>1, <1>2, CommitGrows
<1>4. page[tab] \in PageStates /\ PageFits(page[tab]) /\ page[tab].index < PositionCount
  BY <1>1 DEF PagesFit, Commits
<1>5. PagesFit'
  <2>1. PICK at \in {"observing", "revealed"} : Shows(tab, at)
    BY DEF Decide, RevealFails
  <2>2. PICK p : p = [page[tab] EXCEPT !.at = at]
    OBVIOUS
  <2>3. p \in PageStates /\ PageFits(p)
    BY <1>2, <1>4, <2>1, <2>2, NumbersAreNat DEF PageStates, PageFits, Awaiting
  <2>4. page' = [page EXCEPT ![tab] = p]
    BY <2>1, <2>2 DEF Shows
  <2> QED
    BY <1>3, <2>3, <2>4, PageMoves
<1>6. CallsFit'
  <2>1. CASE RevealFails(tab)
    BY <1>3, <2>1, CallsStay DEF RevealFails
  <2>2. CASE Decide(tab)
    <3>1. PICK c : c = [NoCall EXCEPT !.op = "observe", !.pc = "slots", !.transfer = t,
                                      !.decision = d, !.day = today]
      OBVIOUS
    <3>2. Calls(tab, c)
      BY <2>2, <3>1 DEF Decide
    <3>3. t \in 0..MaxTransfers
      BY <1>4 DEF PageStates
    <3>4. c \in CallStates
      <4> HIDE DEF t, d
      <4> QED
        BY <1>3, <3>1, <3>3, NoCallIsACall DEF CallStates, ClockFits
    <3>5. c.op = "observe" /\ c.pc = "slots" /\ c.transfer = t /\ c.decision = d /\ c.results = {}
      BY <3>1 DEF NoCall
    <3>6. t \in Started' /\ fens' = fens /\ t # 0
      BY <1>2, <1>3, StartedAreTransfers DEF Grown
    <3>7. CallFits(c)'
      <4> HIDE DEF t, d
      <4> QED
        BY <1>3, <3>5, <3>6 DEF CallFits, BoardOf
    <3> QED
      BY <1>3, <3>2, <3>4, <3>7, CallBegins
  <2> QED
    BY <2>1, <2>2
<1>7. ClockFits'
  <2>1. CASE Decide(tab)
    BY <2>1 DEF Decide, ClockFits
  <2>2. CASE RevealFails(tab)
    BY <2>2, NumbersAreNat DEF RevealFails, ClockFits
  <2> QED
    BY <2>1, <2>2
<1> QED
  BY <1>3, <1>5, <1>6, <1>7

LEMMA FinishStep ==
  ASSUME IInv, NEW tab \in Tabs, Finish(tab)
  PROVE  IInv'
<1> USE DEF IInv
<1>1. TablesFit' /\ Grown /\ ClockFits'
  BY TablesStay DEF Finish, ClockFits
<1>2. page[tab] \in PageStates /\ PageFits(page[tab]) /\ page[tab].transfer \in Started
  BY DEF PagesFit, PageFits, Finish
<1>3. PagesFit'
  BY <1>1, <1>2, PageShows DEF Finish, PageFits, Awaiting
<1>4. CallsFit'
  <2>1. PICK c : c = [NoCall EXCEPT !.op = "finish", !.pc = "count",
                                    !.transfer = page[tab].transfer, !.day = today]
    OBVIOUS
  <2>2. Calls(tab, c)
    BY <2>1 DEF Finish
  <2>3. c \in CallStates
    BY <1>2, <2>1, NoCallIsACall DEF CallStates, ClockFits, PageStates
  <2>4. c.op = "finish" /\ c.pc = "count" /\ c.transfer = page[tab].transfer /\ c.results = {}
    BY <2>1 DEF NoCall
  <2>5. c.transfer \in Started' /\ c.transfer # 0
    BY <1>1, <1>2, <2>4, StartedAreTransfers DEF Grown
  <2>6. CallFits(c)'
    BY <2>4, <2>5 DEF CallFits
  <2> QED
    BY <1>1, <2>2, <2>3, <2>6, CallBegins
<1> QED
  BY <1>1, <1>3, <1>4

LEMMA TickStep ==
  ASSUME IInv, Tick
  PROVE  IInv'
<1> USE DEF IInv
<1>1. TablesFit' /\ Grown
  BY TablesStay DEF Tick
<1>2. ClockFits'
  BY NumbersAreNat DEF Tick, ClockFits, Days
<1> QED
  BY <1>1, <1>2, PagesStay, CallsStay DEF Tick

-----------------------------------------------------------------------------
(* The server's steps.                                                     *)

\* A statement that only reads.
LEMMA ReadStep ==
  ASSUME IInv, UNCHANGED <<tables, page, today, faults>>, NEW tab \in Tabs,
         NEW c \in CallStates, CallFits(c), call' = [call EXCEPT ![tab] = c]
  PROVE  IInv'
<1> USE DEF IInv
<1>1. TablesFit' /\ Grown /\ ClockFits'
  BY TablesStay DEF ClockFits
<1>2. CallFits(c)'
  BY <1>1, CallKeeps
<1> QED
  BY <1>1, <1>2, PagesStay, CallMoves

LEMMA ReplyStep ==
  ASSUME IInv, UNCHANGED <<tables, page, today>>, faults' \in 0..MaxFaults,
         NEW tab \in Tabs, NEW pc \in Over, Reply(tab, pc)
  PROVE  IInv'
<1> USE DEF IInv
<1>1. TablesFit' /\ Grown /\ ClockFits'
  BY TablesStay DEF ClockFits
<1> QED
  BY <1>1, PagesStay, CallEnds

LEMMA PcsOver == {"done", "refused", "failed"} \subseteq Over
BY DEF Over

\* A call and what is known of it.
LEMMA CallIsOne ==
  ASSUME IInv, NEW tab \in Tabs
  PROVE  /\ call[tab] \in CallStates /\ CallFits(call[tab])
         /\ faults \in 0..MaxFaults /\ TablesFit
BY DEF IInv, CallsFit, ClockFits

LEMMA GoStep ==
  ASSUME IInv, UNCHANGED <<tables, page, today, faults>>, NEW tab \in Tabs,
         NEW pc \in {"upsert", "decided", "resumed", "select", "priors", "report", "results", "open"},
         Go(tab, pc),
         CallFits([call[tab] EXCEPT !.pc = pc])
  PROVE  IInv'
<1>1. PICK c : c = [call[tab] EXCEPT !.pc = pc]
  OBVIOUS
<1>2. c \in CallStates
  BY <1>1, CallIsOne DEF CallStates
<1>3. CallFits(c) /\ call' = [call EXCEPT ![tab] = c]
  BY <1>1 DEF Go, CallFits
<1> QED
  BY <1>2, <1>3, ReadStep

LEMMA ReadResultsStep ==
  ASSUME IInv, NEW tab \in Tabs, ReadResults(tab)
  PROVE  IInv'
<1>1. PICK c : c = [call[tab] EXCEPT !.results = results, !.pc = "rule"]
  OBVIOUS
<1>2. results \in SUBSET Results
  BY CallIsOne DEF TablesFit
<1>3. c \in CallStates /\ CallFits(c)
  <2>1. c \in CallStates
    BY <1>1, <1>2, CallIsOne DEF CallStates
  <2>2. /\ c.pc = "rule" /\ c.results = results /\ c.transfer = call[tab].transfer
        /\ c.op = call[tab].op /\ c.op \in {"begin", "finish"}
    BY <1>1, CallIsOne DEF CallStates, ReadResults, At
  <2> QED
    BY <2>1, <2>2, CallIsOne DEF CallFits
<1>4. call' = [call EXCEPT ![tab] = c] /\ UNCHANGED <<tables, page, today, faults>>
  BY <1>1, CallIsOne DEF ReadResults, IInv, CallsFit
<1> QED
  BY <1>3, <1>4, ReadStep

\* What NewGrade comes to may be written.
LEMMA NewGradeIsAGrade ==
  ASSUME IInv, NEW tab \in Tabs
  PROVE  NewGrade(tab) \in Rules /\ IsAGrade(NewGrade(tab))
<1>1. rule \in Rules /\ IsAGrade(rule) /\ ResultsFit /\ results \subseteq Results
  BY CallIsOne DEF TablesFit
<1>2. call[tab].results \subseteq results
  BY CallIsOne DEF CallFits
<1>3. Fold(call[tab].results) \in Rules
  <2>1. IsFiniteSet(call[tab].results)
    BY <1>1, <1>2, FS_Subset DEF ResultsFit
  <2> QED
    BY <1>1, <1>2, <2>1, FoldIsARule DEF ResultsFit
<1> QED
  BY <1>1, <1>2, <1>3, RetiredIsARule DEF NewGrade, GradeLearningRule, IsAGrade

\* The grading is over: a begin goes on with the grade.
LEMMA AfterGradingStep ==
  ASSUME IInv, TablesFit', Grown, UNCHANGED <<page, today, faults>>,
         NEW tab \in Tabs, NEW graded \in Rules, AfterGrading(tab, graded),
         call[tab].op \in {"begin", "finish", "retire"},
         call[tab].op = "begin" => graded.grade = "retired" \/ graded = Fold(call[tab].results)
  PROVE  IInv'
<1> USE DEF IInv
<1>1. CASE call[tab].op = "begin"
  <2>1. PICK c : c = [call[tab] EXCEPT !.graded = graded, !.pc = "open"]
    OBVIOUS
  <2>2. c \in CallStates
    BY <2>1, CallIsOne DEF CallStates
  <2>3. /\ c.pc = "open" /\ c.op = "begin" /\ c.transfer = call[tab].transfer
        /\ c.results = call[tab].results /\ c.graded = graded
    BY <1>1, <2>1, CallIsOne DEF CallStates
  <2>4. CallFits(c)
    BY <1>1, <2>3, CallIsOne DEF CallFits
  <2>5. call' = [call EXCEPT ![tab] = c]
    BY <1>1, <2>1, CallIsOne DEF AfterGrading, CallsFit
  <2>6. CallFits(c)'
    BY <2>2, <2>4, CallKeeps
  <2> QED
    BY <2>2, <2>5, <2>6, PagesStay, CallMoves DEF ClockFits
<1>2. CASE call[tab].op # "begin"
  BY <1>2, PcsOver, PagesStay, CallEnds DEF AfterGrading, ClockFits
<1> QED
  BY <1>1, <1>2

LEMMA ReadRuleStep ==
  ASSUME IInv, NEW tab \in Tabs, ReadRule(tab)
  PROVE  IInv'
<1>1. PICK graded \in Rules : graded = NewGrade(tab) /\ IsAGrade(graded)
  BY NewGradeIsAGrade
<1>4. call[tab].op = "begin" => graded.grade = "retired" \/ graded = Fold(call[tab].results)
  BY <1>1 DEF NewGrade, GradeLearningRule
<1>2. CASE AfterGrading(tab, graded)
  <2>1. TablesFit' /\ Grown /\ UNCHANGED <<page, today, faults>>
    BY CallIsOne, TablesStay DEF ReadRule
  <2> QED
    BY <1>2, <1>4, <2>1, AfterGradingStep DEF ReadRule, At
<1>3. CASE call' = [call EXCEPT ![tab] = [call[tab] EXCEPT !.graded = graded, !.pc = "guard"]]
  <2>1. PICK c : c = [call[tab] EXCEPT !.graded = graded, !.pc = "guard"]
    OBVIOUS
  <2>2. c \in CallStates
    BY <2>1, CallIsOne DEF CallStates
  <2>3. /\ c.pc = "guard" /\ c.op = call[tab].op /\ c.transfer = call[tab].transfer
        /\ c.results = call[tab].results /\ c.graded = graded
        /\ c.op \in {"begin", "finish", "retire"}
    BY <2>1, CallIsOne DEF CallStates, ReadRule, At
  <2>4. CallFits(c)
    BY <1>1, <1>4, <2>3, CallIsOne DEF CallFits
  <2> QED
    BY <1>3, <2>1, <2>2, <2>4, ReadStep DEF ReadRule
<1> QED
  BY <1>1, <1>2, <1>3, CallIsOne DEF ReadRule, IInv, CallsFit

LEMMA GuardStep ==
  ASSUME IInv, NEW tab \in Tabs, GuardRule(tab)
  PROVE  IInv'
<1>1. UNCHANGED <<tables, page, today, faults>> /\ faults' \in 0..MaxFaults
  BY CallIsOne DEF GuardRule
<1>2. CASE Reply(tab, "failed")
  BY <1>1, <1>2, PcsOver, ReplyStep
<1>3. CASE Go(tab, "upsert")
  <2>1. CallFits([call[tab] EXCEPT !.pc = "upsert"])
    BY CallIsOne DEF GuardRule, At, CallFits, CallStates, Over
  <2> QED
    BY <1>1, <1>3, <2>1, GoStep
<1> QED
  BY <1>2, <1>3 DEF GuardRule

LEMMA UpsertStep ==
  ASSUME IInv, NEW tab \in Tabs, UpsertRule(tab)
  PROVE  IInv'
<1>1. PICK graded \in Rules : graded = call[tab].graded /\ IsAGrade(graded)
  BY CallIsOne DEF CallStates, CallFits, UpsertRule, At
<1>2. rule' = graded /\ AfterGrading(tab, graded)
  BY <1>1 DEF UpsertRule
<1>3. UNCHANGED <<fens, since, obs, results, decided, page, today, faults>>
  BY DEF UpsertRule
<1>4. TablesFit' /\ Grown
  BY <1>1, <1>2, <1>3, CallIsOne DEF TablesFit, StartedInOrder, Started, ObservationsFit, BoardOf,
     ResultsFit, IsAGrade, Grown
<1>5. call[tab].op = "begin" => graded.grade = "retired" \/ graded = Fold(call[tab].results)
  BY <1>1, CallIsOne DEF CallFits, UpsertRule, At, Over
<1> QED
  BY <1>2, <1>3, <1>4, <1>5, AfterGradingStep DEF UpsertRule, At

LEMMA OpenStep ==
  ASSUME IInv, NEW tab \in Tabs, OpenTransfer(tab)
  PROVE  IInv'
<1>1. UNCHANGED <<tables, page, today, faults>> /\ faults' \in 0..MaxFaults
  BY CallIsOne DEF OpenTransfer
<1>2. CASE Reply(tab, "done")
  BY <1>1, <1>2, PcsOver, ReplyStep
<1>3. CASE LooksUp(tab) /\ call[tab].graded.grade \notin {"refuted", "retired"}
  <2>1. PICK t \in Newest :
          call' = [call EXCEPT ![tab] = [call[tab] EXCEPT !.transfer = t, !.pc = "observed"]]
    BY <1>3, CallIsOne DEF LooksUp, IInv, CallsFit
  <2>2. t \in Started \cup {0} /\ t \in 0..MaxTransfers
    BY CallIsOne, StartedAreTransfers, NumbersAreNat DEF Newest, Open, Transfers
  <2>3. PICK c : c = [call[tab] EXCEPT !.transfer = t, !.pc = "observed"]
    OBVIOUS
  <2>4. c \in CallStates
    BY <2>2, <2>3, CallIsOne DEF CallStates
  <2>5. /\ c.pc = "observed" /\ c.op = "begin" /\ c.transfer = t
        /\ c.results = call[tab].results /\ c.graded = call[tab].graded
        /\ call[tab].op = "begin" /\ call[tab].pc = "open"
    BY <2>3, CallIsOne DEF CallStates, OpenTransfer, At
  <2>6. CallFits(c)
    BY <1>3, <2>2, <2>5, CallIsOne DEF CallFits, Over
  <2> QED
    BY <1>1, <2>1, <2>3, <2>4, <2>6, ReadStep
<1> QED
  BY <1>2, <1>3 DEF OpenTransfer

LEMMA ObservationsAreFew ==
  ASSUME TablesFit, NEW t \in Started
  PROVE  obs[t] \in Seq(Decisions) /\ Len(obs[t]) \in 0..PositionCount
<1>1. t \in Transfers /\ fens[t] \in Seq(Boards) /\ Len(fens[t]) = PositionCount
  BY StartedAreTransfers
<1>2. obs[t] \in Seq(Decisions) /\ Len(obs[t]) \in Nat
  BY <1>1 DEF TablesFit
<1>3. Len(obs[t]) # 0 => Len(obs[t]) \in DOMAIN fens[t]
  BY <1>1, <1>2 DEF TablesFit, ObservationsFit
<1> QED
  BY <1>1, <1>2, <1>3, NumbersAreNat

\* What a begin finds out before it resumes or selects.
LEMMA JudgeStep ==
  ASSUME IInv, NEW tab \in Tabs, CountAnswers(tab) \/ JudgeOrphan(tab)
  PROVE  IInv'
<1>1. /\ UNCHANGED <<tables, page, today, faults>> /\ faults' \in 0..MaxFaults
      /\ call[tab].op = "begin" /\ call[tab].pc \in {"observed", "decided"}
  BY CallIsOne DEF CountAnswers, JudgeOrphan, At
<1>2. CASE Reply(tab, "done")
  BY <1>1, <1>2, PcsOver, ReplyStep
<1>3. ASSUME NEW pc \in {"decided", "resumed", "select"}, Go(tab, pc),
             pc # "select" => call[tab].transfer # 0,
             pc = "select" => MayStart(call[tab])
      PROVE  IInv'
  <2>1. PICK c : c = [call[tab] EXCEPT !.pc = pc]
    OBVIOUS
  <2>2. /\ c.pc = pc /\ c.op = "begin" /\ c.transfer = call[tab].transfer
        /\ c.results = call[tab].results /\ c.graded = call[tab].graded /\ c.day = call[tab].day
    BY <1>1, <2>1, CallIsOne DEF CallStates
  <2>3. CallFits(c)
    BY <1>1, <1>3, <2>2, CallIsOne DEF CallFits, MayStart, Over
  <2>4. CallFits([call[tab] EXCEPT !.pc = pc])
    BY <2>1, <2>3
  <2> QED
    BY <1>1, <1>3, <2>4, GoStep
<1>4. CASE CountAnswers(tab)
  BY <1>2, <1>3, <1>4 DEF CountAnswers, MayStart
<1>5. CASE JudgeOrphan(tab)
  <2>1. call[tab].transfer # 0
    BY <1>5, CallIsOne DEF CallFits, JudgeOrphan, At
  <2> QED
    BY <1>3, <1>5, <2>1 DEF JudgeOrphan, Orphan, MayStart
<1> QED
  BY <1>4, <1>5

LEMMA ResumeStep ==
  ASSUME IInv, NEW tab \in Tabs, Resume(tab)
  PROVE  IInv'
<1> DEFINE t == call[tab].transfer
<1>1. t \in Started /\ t \in 0..MaxTransfers
  BY CallIsOne DEF CallFits, CallStates, Resume, At
<1>2. Len(obs[t]) \in 0..PositionCount
  BY <1>1, CallIsOne, ObservationsAreFew
<1>3. PICK c : c = [NoCall EXCEPT !.transfer = t, !.observed = Len(obs[t])]
  OBVIOUS
<1>4. c \in CallStates
  <2> HIDE DEF t
  <2> QED
    BY <1>1, <1>2, <1>3, NoCallIsACall DEF CallStates
<1>5. c.op = "none" /\ c.pc = "done" /\ c.transfer = t /\ c.results = {}
  BY <1>3 DEF NoCall
<1>6. CallFits(c)
  BY <1>1, <1>5 DEF CallFits
<1> QED
  BY <1>3, <1>4, <1>6, ReadStep DEF Resume, ReplyWith

LEMMA SelectStep ==
  ASSUME IInv, NEW tab \in Tabs, SelectBoards(tab)
  PROVE  IInv'
<1>1. PICK boards \in [1..PositionCount -> Boards \ DecidedBoards] :
        call' = [call EXCEPT ![tab] = [call[tab] EXCEPT !.boards = boards, !.pc = "insert"]]
  BY CallIsOne DEF SelectBoards, IInv, CallsFit
<1>2. boards \in Seq(Boards) /\ Len(boards) = PositionCount
  BY NumbersAreNat
<1>3. PICK c : c = [call[tab] EXCEPT !.boards = boards, !.pc = "insert"]
  OBVIOUS
<1>4. c \in CallStates
  BY <1>2, <1>3, CallIsOne DEF CallStates
<1>5. /\ c.pc = "insert" /\ c.op = "begin" /\ c.transfer = call[tab].transfer
      /\ c.results = call[tab].results /\ c.boards = boards
      /\ c.graded = call[tab].graded /\ c.day = call[tab].day
      /\ call[tab].op = "begin" /\ call[tab].pc = "select"
  BY <1>3, CallIsOne DEF CallStates, SelectBoards, At
<1>6. CallFits(c)
  BY <1>2, <1>5, CallIsOne DEF CallFits, MayStart, Over
<1> QED
  BY <1>1, <1>3, <1>4, <1>6, ReadStep DEF SelectBoards

\* The new transfer takes the next number, which nothing is known of yet.
LEMMA PreregisterGrows ==
  ASSUME IInv, NEW tab \in Tabs, Preregister(tab)
  PROVE  LET t == Cardinality(Started) + 1
         IN  /\ TablesFit' /\ Grown
             /\ t \in Transfers /\ t \notin Started /\ t \in Started'
             /\ fens' = [fens EXCEPT ![t] = call[tab].boards]
             /\ ReplyWith(tab, t, 0)
<1> DEFINE t == Cardinality(Started) + 1
<1>1. PICK n \in 0..MaxTransfers : Started = 1..n
  BY CallIsOne DEF TablesFit, StartedInOrder
<1>2. Cardinality(1..n) = n /\ n \in Nat
  <2>1. n \in Int /\ 1 \in Int
    BY NumbersAreNat
  <2> QED
    BY <2>1, FS_Interval, NumbersAreNat
<1>3. t = n + 1
  BY <1>1, <1>2
<1>4. n < MaxTransfers
  BY <1>1, <1>2 DEF Preregister
<1>5. t \in Transfers /\ t \notin Started
  BY <1>1, <1>2, <1>3, <1>4, NumbersAreNat DEF Transfers
<1>6. call[tab].boards \in Seq(Boards) /\ Len(call[tab].boards) = PositionCount
  BY CallIsOne DEF CallStates, CallFits, Preregister, At
<1>7. fens' = [fens EXCEPT ![t] = call[tab].boards] /\ ReplyWith(tab, t, 0)
      /\ since' = [since EXCEPT ![t] = call[tab].day]
      /\ UNCHANGED <<rule, obs, results, decided>>
  BY DEF Preregister
<1>8. TablesFit /\ call[tab].day \in Days
  BY CallIsOne DEF CallStates
<1> HIDE DEF t
<1>9. /\ fens' \in [Transfers -> Seq(Boards)] /\ since' \in [Transfers -> Days]
      /\ fens'[t] = call[tab].boards /\ fens'[t] # <<>>
      /\ \A u \in Transfers : u # t => fens'[u] = fens[u]
  BY <1>5, <1>6, <1>7, <1>8, NumbersAreNat DEF TablesFit
<1>10. Started' = Started \cup {t}
  BY <1>5, <1>9 DEF Started
<1>11. StartedInOrder'
  <2>1. Started' = 1..(n + 1) /\ n + 1 \in 0..MaxTransfers
    BY <1>1, <1>2, <1>3, <1>4, <1>10, NumbersAreNat
  <2> QED
    BY <2>1 DEF StartedInOrder
<1>12. Grown
  BY <1>5, <1>7, <1>9, <1>10, StartedAreTransfers, <1>8 DEF Grown
<1>13. \A u \in Started' : Len(fens'[u]) = PositionCount
  BY <1>5, <1>6, <1>8, <1>9, <1>10, StartedAreTransfers
<1>14. ObservationsFit'
  <2>1. ASSUME NEW u \in Transfers, NEW i \in DOMAIN obs[u]
        PROVE  /\ obs[u][i] \in DOMAIN decided
               /\ i \in DOMAIN fens'[u] /\ fens'[u][i] = decided[obs[u][i]].board
    <3>1. /\ obs[u][i] \in DOMAIN decided
          /\ i \in DOMAIN fens[u] /\ fens[u][i] = decided[obs[u][i]].board
      BY <1>8 DEF TablesFit, ObservationsFit, BoardOf
    <3>2. u # t
      <4>1. fens[t] = <<>>
        BY <1>5 DEF Started
      <4> QED
        BY <3>1, <4>1
    <3> QED
      BY <1>9, <3>1, <3>2
  <2> QED
    BY <1>7, <2>1 DEF ObservationsFit, BoardOf
<1>15. ResultsFit' /\ IsAGrade(rule)'
  BY <1>7, <1>8, <1>10 DEF TablesFit, ResultsFit, IsAGrade
<1>16. TablesFit'
  BY <1>7, <1>8, <1>9, <1>11, <1>13, <1>14, <1>15 DEF TablesFit
<1> QED
  BY <1>5, <1>7, <1>10, <1>12, <1>16 DEF t

LEMMA PreregisterStep ==
  ASSUME IInv, NEW tab \in Tabs, Preregister(tab)
  PROVE  IInv'
<1>1. PICK t : t = Cardinality(Started) + 1
  OBVIOUS
<1>2. TablesFit' /\ Grown /\ t \in Transfers /\ t \in Started' /\ ReplyWith(tab, t, 0)
  BY <1>1, PreregisterGrows
<1>3. PICK c : c = [NoCall EXCEPT !.transfer = t, !.observed = 0]
  OBVIOUS
<1>4. c \in CallStates
  <2>1. t \in 0..MaxTransfers /\ 0 \in 0..PositionCount
    BY <1>2, NumbersAreNat DEF Transfers
  <2> QED
    BY <1>3, <2>1, NoCallIsACall DEF CallStates
<1>5. c.op = "none" /\ c.pc = "done" /\ c.transfer = t /\ c.results = {}
  BY <1>3 DEF NoCall
<1>6. CallFits(c)'
  BY <1>2, <1>5 DEF CallFits
<1>7. call' = [call EXCEPT ![tab] = c]
  BY <1>2, <1>3 DEF ReplyWith
<1>8. CallsFit'
  BY <1>2, <1>4, <1>6, <1>7, CallMoves DEF IInv
<1>9. PagesFit' /\ ClockFits'
  BY <1>2, PagesStay DEF IInv, Preregister, ClockFits
<1> QED
  BY <1>2, <1>8, <1>9 DEF IInv

LEMMA RefuseStep ==
  ASSUME IInv, NEW tab \in Tabs, NothingToTestOn(tab) \/ Dies(tab)
  PROVE  IInv'
<1>1. UNCHANGED <<tables, page, today>> /\ faults' \in 0..MaxFaults
  BY CallIsOne, NumbersAreNat DEF NothingToTestOn, Dies
<1> QED
  BY <1>1, PcsOver, ReplyStep DEF NothingToTestOn, Dies

LEMMA SlotsStep ==
  ASSUME IInv, NEW tab \in Tabs, ReadSlots(tab)
  PROVE  IInv'
<1> DEFINE t == call[tab].transfer
           d == call[tab].decision
           slot == SlotOf(t, d)
<1>1. UNCHANGED <<tables, page, today, faults>> /\ faults' \in 0..MaxFaults
  BY CallIsOne DEF ReadSlots
<1>2. CASE \E pc \in {"done", "refused"} : Reply(tab, pc)
  BY <1>1, <1>2, PcsOver, ReplyStep
<1>3. /\ t \in Started
      /\ d \in DOMAIN decided /\ \E i \in DOMAIN fens[t] : fens[t][i] = BoardOf(d)
  BY CallIsOne DEF CallFits, ReadSlots, At
<1>4. slot \in DOMAIN fens[t] /\ fens[t][slot] = BoardOf(d)
  BY <1>3 DEF SlotOf
<1>5. Len(obs[t]) \in 0..PositionCount /\ slot \in 1..PositionCount
  BY <1>3, <1>4, CallIsOne, ObservationsAreFew, StartedAreTransfers
<1>6. CASE /\ slot - 1 = Len(obs[t])
           /\ call' = [call EXCEPT ![tab] = [call[tab] EXCEPT !.observed = Len(obs[t]),
                                                              !.pc = "write"]]
  <2>1. PICK c : c = [call[tab] EXCEPT !.observed = Len(obs[t]), !.pc = "write"]
    OBVIOUS
  <2>2. c \in CallStates
    <3> HIDE DEF t
    <3> QED
      BY <1>5, <2>1, CallIsOne DEF CallStates
  <2>3. /\ c.pc = "write" /\ c.op = "observe" /\ c.transfer = t /\ c.decision = d
        /\ c.results = call[tab].results /\ c.observed = Len(obs[t])
    BY <2>1, CallIsOne DEF CallStates, ReadSlots, At
  <2>4. c.observed + 1 = slot
    <3> HIDE DEF slot, t
    <3> QED
      BY <1>5, <1>6, <2>3
  <2>5. call[tab].results \subseteq results
    BY CallIsOne DEF CallFits
  <2>6. CallFits(c)
    <3> HIDE DEF slot, t, d
    <3> QED
      BY <1>3, <1>4, <2>3, <2>4, <2>5, StartedAreTransfers, CallIsOne DEF CallFits
  <2> QED
    BY <1>1, <1>6, <2>1, <2>2, <2>6, ReadStep
<1>7. IF slot - 1 < Len(obs[t]) THEN Reply(tab, "done")
      ELSE IF slot - 1 > Len(obs[t]) THEN Reply(tab, "refused")
      ELSE call' = [call EXCEPT ![tab] = [call[tab] EXCEPT !.observed = Len(obs[t]),
                                                           !.pc = "write"]]
  BY CallIsOne DEF ReadSlots, IInv, CallsFit
<1> HIDE DEF slot
<1>8. slot - 1 < Len(obs[t]) \/ slot - 1 > Len(obs[t]) \/ slot - 1 = Len(obs[t])
  BY <1>5
<1> QED
  BY <1>2, <1>5, <1>6, <1>7, <1>8

\* The observation goes to the next slot of its transfer, the one it was sent for.
LEMMA WriteGrows ==
  ASSUME IInv, NEW tab \in Tabs, WriteObservation(tab),
         Len(obs[call[tab].transfer]) = call[tab].observed
  PROVE  LET t == call[tab].transfer
             d == call[tab].decision
         IN  /\ TablesFit' /\ Grown
             /\ t \in Started /\ Len(obs[t]) + 1 \in DOMAIN fens[t]
             /\ fens[t][Len(obs[t]) + 1] = BoardOf(d)
             /\ obs' = [obs EXCEPT ![t] = Append(obs[t], d)]
             /\ UNCHANGED <<rule, fens, since, results, decided>>
<1> DEFINE t == call[tab].transfer
           d == call[tab].decision
           n == Len(obs[t])
<1>1. /\ t \in Started /\ d \in DOMAIN decided
      /\ n + 1 \in DOMAIN fens[t] /\ fens[t][n + 1] = BoardOf(d)
  BY CallIsOne DEF CallFits, WriteObservation, At
<1>2. /\ TablesFit /\ t \in Transfers /\ obs[t] \in Seq(Decisions) /\ n \in 0..PositionCount
      /\ n + 1 <= PositionCount
  BY <1>1, CallIsOne, ObservationsAreFew, StartedAreTransfers
<1>3. d \in Decisions
  <2>1. Len(decided) \in Nat /\ DOMAIN decided = 1..Len(decided) /\ Len(decided) <= MaxDecisions
    BY <1>2 DEF TablesFit
  <2>2. d \in 1..Len(decided)
    BY <1>1, <2>1
  <2> HIDE DEF d
  <2> QED
    BY <2>1, <2>2, NumbersAreNat DEF Decisions
<1>4. obs' = [obs EXCEPT ![t] = Append(obs[t], d)]
      /\ UNCHANGED <<rule, fens, since, results, decided>>
  BY <1>2 DEF WriteObservation, TablesFit
<1> HIDE DEF t, d
<1>5. /\ obs' \in [Transfers -> Seq(Decisions)]
      /\ obs'[t] = Append(obs[t], d)
      /\ \A u \in Transfers : u # t => obs'[u] = obs[u]
  BY <1>2, <1>3, <1>4 DEF TablesFit
<1>6. Len(obs'[t]) = n + 1 /\ obs'[t][n + 1] = d /\ \A i \in 1..n : obs'[t][i] = obs[t][i]
  BY <1>2, <1>3, <1>5, AppendProperties
<1>7. ObservationsFit'
  <2>1. ASSUME NEW u \in Transfers, NEW i \in DOMAIN obs'[u]
        PROVE  /\ obs'[u][i] \in DOMAIN decided
               /\ i \in DOMAIN fens[u] /\ fens[u][i] = decided[obs'[u][i]].board
    <3>1. CASE u = t /\ i = n + 1
      BY <1>1, <1>6, <3>1 DEF BoardOf
    <3>2. CASE ~(u = t /\ i = n + 1)
      <4>1. i \in DOMAIN obs[u] /\ obs'[u][i] = obs[u][i]
        <5>1. CASE u # t
          BY <1>5, <5>1
        <5>2. CASE u = t
          <6>1. obs'[t] \in Seq(Decisions) /\ DOMAIN obs'[t] = 1..(n + 1)
            BY <1>2, <1>5, <1>6
          <6>2. i \in 1..n /\ DOMAIN obs[t] = 1..n
            BY <1>2, <3>2, <5>2, <6>1
          <6> QED
            BY <1>6, <5>2, <6>2
        <5> QED
          BY <5>1, <5>2
      <4> QED
        BY <1>2, <4>1 DEF TablesFit, ObservationsFit, BoardOf
    <3> QED
      BY <3>1, <3>2
  <2> QED
    BY <1>4, <2>1 DEF ObservationsFit, BoardOf
<1>8. Grown
  BY <1>2, <1>4, <1>5 DEF Grown, Started
<1>9. StartedInOrder' /\ ResultsFit' /\ IsAGrade(rule)'
  BY <1>2, <1>4 DEF TablesFit, StartedInOrder, Started, ResultsFit, IsAGrade
<1>10. TablesFit'
  BY <1>2, <1>4, <1>5, <1>7, <1>9 DEF TablesFit, Started
<1> QED
  BY <1>1, <1>4, <1>8, <1>10 DEF t, d

LEMMA WriteStep ==
  ASSUME IInv, NEW tab \in Tabs, WriteObservation(tab)
  PROVE  IInv'
<1>1. CASE Len(obs[call[tab].transfer]) = call[tab].observed
  <2>1. TablesFit' /\ Grown
    BY <1>1, WriteGrows
  <2>2. CallsFit'
    BY <1>1, <2>1, PcsOver, CallEnds DEF IInv, WriteObservation
  <2> QED
    BY <2>1, <2>2, PagesStay DEF IInv, WriteObservation, ClockFits
<1>2. CASE Len(obs[call[tab].transfer]) # call[tab].observed
  BY <1>2, CallIsOne, PcsOver, ReplyStep DEF WriteObservation, tables
<1> QED
  BY <1>1, <1>2

LEMMA CountStep ==
  ASSUME IInv, NEW tab \in Tabs, CountObservations(tab)
  PROVE  IInv'
<1>1. UNCHANGED <<tables, page, today, faults>> /\ faults' \in 0..MaxFaults
  BY CallIsOne DEF CountObservations
<1>2. CASE Reply(tab, "refused")
  BY <1>1, <1>2, PcsOver, ReplyStep
<1>3. CASE Go(tab, "priors") /\ Len(obs[call[tab].transfer]) = PositionCount
  <2>1. CallFits([call[tab] EXCEPT !.pc = "priors"])
    BY <1>3, CallIsOne DEF CountObservations, At, CallFits, CallStates
  <2> QED
    BY <1>1, <1>3, <2>1, GoStep
<1> QED
  BY <1>2, <1>3 DEF CountObservations

LEMMA PriorsStep ==
  ASSUME IInv, NEW tab \in Tabs, ReadPriors(tab)
  PROVE  IInv'
<1>1. UNCHANGED <<tables, page, today, faults>> /\ faults' \in 0..MaxFaults
  BY CallIsOne DEF ReadPriors
<1>2. CASE Reply(tab, "refused")
  BY <1>1, <1>2, PcsOver, ReplyStep
<1>3. ASSUME NEW pc \in {"results", "report"}, Go(tab, pc)
      PROVE  IInv'
  <2>1. CallFits([call[tab] EXCEPT !.pc = pc])
    BY CallIsOne DEF ReadPriors, At, CallFits, CallStates
  <2> QED
    BY <1>1, <1>3, <2>1, GoStep
<1> QED
  BY <1>2, <1>3 DEF ReadPriors

\* The report of a transfer that is complete and has none yet.
LEMMA SaveGrows ==
  ASSUME IInv, NEW tab \in Tabs, SaveResult(tab), call[tab].transfer \notin Reported
  PROVE  \E r \in Results :
           /\ TablesFit' /\ Grown
           /\ r.transfer = call[tab].transfer /\ r.transfer \in Started
           /\ Len(obs[r.transfer]) = PositionCount
           /\ results' = results \cup {r}
           /\ UNCHANGED <<rule, fens, since, obs, decided>>
<1> DEFINE t == call[tab].transfer
<1>1. t \in Started /\ Len(obs[t]) = PositionCount /\ call[tab].day \in Days
  BY CallIsOne DEF CallFits, CallStates, SaveResult, At
<1>2. TablesFit /\ t \in Transfers
  BY <1>1, CallIsOne, StartedAreTransfers
<1>3. PICK held \in BOOLEAN : held = Held(t)
  <2>1. Held(t) \in BOOLEAN
    BY SMT DEF Held
  <2> QED
    BY <2>1, Zenon
<1>4. PICK r : r = [transfer |-> t, day |-> call[tab].day, held |-> held]
  OBVIOUS
<1>5. r \in Results /\ r.transfer = t
  BY <1>1, <1>2, <1>4 DEF Results
<1>6. results' = results \cup {r} /\ UNCHANGED <<rule, fens, since, obs, decided>>
  BY <1>3, <1>4, Zenon DEF SaveResult
<1>7. ResultsFit'
  <2>1. IsFiniteSet(results')
    BY <1>2, <1>6, FS_AddElement DEF TablesFit, ResultsFit
  <2>2. \A q \in results : q.transfer # t
    BY DEF Reported
  <2> QED
    BY <1>1, <1>2, <1>5, <1>6, <2>1, <2>2 DEF TablesFit, ResultsFit, Started
<1>8. IsAGrade(rule)'
  BY <1>2, <1>6 DEF TablesFit, IsAGrade
<1>9. TablesFit'
  <2>1. results' \subseteq Results
    BY <1>2, <1>5, <1>6 DEF TablesFit
  <2>2. Started' = Started /\ StartedInOrder' /\ ObservationsFit'
    BY <1>2, <1>6 DEF TablesFit, StartedInOrder, Started, ObservationsFit, BoardOf
  <2> QED
    BY <1>2, <1>6, <1>7, <1>8, <2>1, <2>2 DEF TablesFit
<1>10. Grown
  BY <1>6 DEF Grown, Started
<1> QED
  BY <1>1, <1>5, <1>6, <1>9, <1>10

LEMMA SaveStep ==
  ASSUME IInv, NEW tab \in Tabs, SaveResult(tab)
  PROVE  IInv'
<1>1. CASE call[tab].transfer \notin Reported
  <2>1. TablesFit' /\ Grown
    BY <1>1, SaveGrows
  <2>2. PICK c : c = [call[tab] EXCEPT !.pc = "results"]
    OBVIOUS
  <2>3. c \in CallStates /\ call' = [call EXCEPT ![tab] = c]
    BY <1>1, <2>2, CallIsOne DEF CallStates, SaveResult, Go
  <2>4. CallFits(c)
    BY <2>2, CallIsOne DEF CallFits, CallStates, SaveResult, At
  <2>5. CallFits(c)'
    BY <2>1, <2>3, <2>4, CallIsOne, CallKeeps
  <2> QED
    BY <2>1, <2>3, <2>5, PagesStay, CallMoves DEF IInv, SaveResult, ClockFits
<1>2. CASE call[tab].transfer \in Reported
  BY <1>2, CallIsOne, PcsOver, ReplyStep DEF SaveResult, tables
<1> QED
  BY <1>1, <1>2

-----------------------------------------------------------------------------
(* The invariant, and what follows from it.                                *)

LEMMA NextInv == IInv /\ [Next]_vars => IInv'
<1> SUFFICES ASSUME IInv, [Next]_vars PROVE IInv'
  OBVIOUS
<1>1. ASSUME NEW tab \in Tabs, Page(tab) PROVE IInv'
  BY <1>1, BeginStep, BeginHeardStep, QuietStep, DecideStep, FinishStep, ErrorStep DEF Page
<1>2. ASSUME NEW tab \in Tabs, Archive(tab) PROVE IInv'
  BY <1>2, BeginStep, QuietStep DEF Archive
<1>3. ASSUME NEW tab \in Tabs, Server(tab) PROVE IInv'
  BY <1>3, ReadResultsStep, ReadRuleStep, GuardStep, UpsertStep, OpenStep, JudgeStep, ResumeStep,
     SelectStep, PreregisterStep, RefuseStep, SlotsStep, WriteStep, CountStep, PriorsStep,
     SaveStep DEF Server
<1>4. ASSUME NEW tab \in Tabs, Fault(tab) PROVE IInv'
  BY <1>4, DecideStep, ErrorStep, RefuseStep DEF Fault
<1>5. CASE Tick
  BY <1>5, TickStep
<1>6. CASE UNCHANGED vars
  BY <1>6, TablesStay, PagesStay, CallsStay DEF vars, IInv, ClockFits
<1> QED
  BY <1>1, <1>2, <1>3, <1>4, <1>5, <1>6 DEF Next

THEOREM InvariantHolds == Spec => []IInv
BY InitInv, NextInv, PTL DEF Spec

\* Whichever tab recorded an observation, and however often it was sent, it is
\* a decision on the position whose number it has
\* (recordLearningTransferObservation).
THEOREM ObservationsFitAlways == Spec => []ObservationsFitTheirBoards
<1>1. IInv => ObservationsFitTheirBoards
  BY DEF IInv, TablesFit, PagesFit, CallsFit, ClockFits, ObservationsFit,
         ObservationsFitTheirBoards, TypeOK
<1> QED
  BY <1>1, InvariantHolds, PTL

\* Whatever writes of it were lost or overtaken, the stored grade is a grading
\* of results that are on the record (gradeFromRecord).
THEOREM GradeIsAlwaysAFold == Spec => []GradeIsAFold
<1>1. IInv => GradeIsAFold
  BY DEF IInv, TablesFit, IsAGrade, GradeIsAFold
<1> QED
  BY <1>1, InvariantHolds, PTL

\* Positions are only ever put on the record by a begin.
LEMMA StepsKeepBoards ==
  ASSUME [Next]_vars, fens' # fens
  PROVE  \E tab \in Tabs : Preregister(tab)
<1>1. \A tab \in Tabs : Page(tab) => UNCHANGED fens
  BY DEF Page, Begin, BeginHeard, StartRun, Decide, ObserveHeard, NextPosition, Finish,
         FinishHeard, CallRefused, Leave, tables
<1>2. \A tab \in Tabs : Archive(tab) \/ Fault(tab) => UNCHANGED fens
  BY DEF Archive, Fault, Retire, RetireHeard, RevealFails, AnswerLost, Reload, Dies, tables
<1>3. \A tab \in Tabs : Server(tab) => Preregister(tab) \/ UNCHANGED fens
  BY DEF Server, ReadResults, ReadRule, GuardRule, UpsertRule, OpenTransfer, CountAnswers,
         JudgeOrphan, Resume, SelectBoards, NothingToTestOn, ReadSlots, WriteObservation,
         CountObservations, ReadPriors, SaveResult, tables
<1>4. Tick \/ UNCHANGED vars => UNCHANGED fens
  BY DEF Tick, vars, tables
<1> QED
  BY <1>1, <1>2, <1>3, <1>4 DEF Next

\* A test is started on what the call knows, and only a begin starts one.
LEMMA StartsFit ==
  ASSUME IInv, [Next]_vars, NEW tab \in Tabs, Starts(tab)
  PROVE  LET graded == Fold(call[tab].results)
             orphan == call[tab].transfer
         IN  /\ graded.grade # "refuted"
             /\ \/ graded.due # Never /\ graded.due <= call[tab].day
                \/ orphan # 0 /\ BoardsOf(orphan) \subseteq DecidedBoards
<1>1. CallFits(call[tab]) /\ call[tab] \in CallStates
  BY CallIsOne
<1>2. call[tab].pc = "insert"
  BY DEF Starts
<1>3. call[tab].op = "begin"
  <2>1. \E u \in Tabs : Preregister(u)
    BY StepsKeepBoards DEF Starts
  <2>2. PICK u \in Tabs : Preregister(u)
    BY <2>1
  <2>3. \A other \in Tabs : other # u => call'[other] = call[other]
    BY <2>2 DEF Preregister, ReplyWith, IInv, CallsFit
  <2>4. u = tab
    BY <1>2, <2>3 DEF Starts
  <2> QED
    BY <2>2, <2>4 DEF Preregister, At
<1> QED
  BY <1>1, <1>2, <1>3 DEF CallFits, MayStart, Over

\* Whatever tabs, faults and lost writes: a test is started only on a rule that
\* the results read for it leave open, and due unless it takes the place of an
\* orphan (beginLearningTransfer).
THEOREM TestsStartOnOpenRules == Spec => NoTestOnAClosedRule
<1>1. IInv /\ [Next]_vars =>
        [\A tab \in Tabs : Starts(tab) =>
           LET graded == Fold(call[tab].results)
               orphan == call[tab].transfer
           IN  /\ graded.grade # "refuted"
               /\ \/ graded.due # Never /\ graded.due <= call[tab].day
                  \/ orphan # 0 /\ BoardsOf(orphan) \subseteq DecidedBoards]_vars
  BY StartsFit
<1> QED
  BY <1>1, InvariantHolds, PTL DEF Spec, NoTestOnAClosedRule

-----------------------------------------------------------------------------
(* The refinement of TransferLog.                                          *)

Answered == [t \in Transfers |-> [i \in DOMAIN obs[t] |-> BoardOf(obs[t][i])]]
ReportedOn == [t \in Transfers |-> IF t \in Reported
                 THEN (CHOOSE r \in results : r.transfer = t).day ELSE 0]

LEMMA LogInit == Init => Log!Init
<1> SUFFICES ASSUME Init PROVE Log!Init
  OBVIOUS
<1>1. \A t \in Transfers : Answered[t] = <<>>
  BY DEF Init, Answered
<1>2. Answered = [t \in Transfers |-> <<>>]
  BY <1>1 DEF Answered
<1>3. ReportedOn = [t \in Transfers |-> 0]
  BY DEF Init, ReportedOn, Reported
<1> QED
  BY <1>2, <1>3, Zenon DEF Log!Init, Answered, ReportedOn, Init

\* What was answered are the first positions of the transfer.
AnsweredFits ==
  \A t \in Transfers :
    /\ Answered[t] \in Seq(Boards) /\ Len(Answered[t]) = Len(obs[t])
    /\ \A i \in 1..Len(obs[t]) : Answered[t][i] = fens[t][i]

LEMMA AnsweredType == TablesFit => AnsweredFits
<1> SUFFICES ASSUME TablesFit, NEW t \in Transfers
             PROVE  /\ Answered[t] \in Seq(Boards) /\ Len(Answered[t]) = Len(obs[t])
                    /\ \A i \in 1..Len(obs[t]) : Answered[t][i] = fens[t][i]
  BY DEF AnsweredFits
<1>1. obs[t] \in Seq(Decisions) /\ fens[t] \in Seq(Boards) /\ DOMAIN obs[t] = 1..Len(obs[t])
      /\ Len(obs[t]) \in Nat
  BY DEF TablesFit
<1>2. Answered[t] = [i \in 1..Len(obs[t]) |-> BoardOf(obs[t][i])]
  BY <1>1 DEF Answered
<1>3. \A i \in 1..Len(obs[t]) : BoardOf(obs[t][i]) = fens[t][i] /\ fens[t][i] \in Boards
  BY <1>1, ElementOfSeq DEF TablesFit, ObservationsFit
<1> QED
  BY <1>1, <1>2, <1>3

LEMMA AnsweredTypeNext == TablesFit' => AnsweredFits'
BY AnsweredType, PTL

LEMMA AnsweredStays ==
  ASSUME TablesFit, Grown, UNCHANGED obs
  PROVE  UNCHANGED Answered
<1>1. \A t \in Transfers : \A i \in DOMAIN obs[t] : BoardOf(obs[t][i])' = BoardOf(obs[t][i])
  BY DEF TablesFit, ObservationsFit, Grown, BoardOf
<1> QED
  BY <1>1 DEF Answered

LEMMA ReportedStays == ASSUME UNCHANGED results PROVE UNCHANGED ReportedOn
BY DEF ReportedOn, Reported

LEMMA StepStutters ==
  ASSUME TablesFit, Grown, UNCHANGED <<fens, obs, results>>
  PROVE  UNCHANGED <<fens, Answered, ReportedOn>>
BY AnsweredStays, ReportedStays

LEMMA StartIsLogged ==
  ASSUME IInv, NEW tab \in Tabs, Preregister(tab)
  PROVE  Log!Next
<1>1. PICK t : t = Cardinality(Started) + 1
  OBVIOUS
<1>2. /\ Grown /\ t \in Transfers /\ t \notin Started
      /\ fens' = [fens EXCEPT ![t] = call[tab].boards]
  BY <1>1, PreregisterGrows
<1>3. call[tab].boards \in [1..PositionCount -> Boards]
  BY CallIsOne DEF CallStates, CallFits, Preregister, At
<1>4. fens[t] = <<>>
  BY <1>2 DEF Started
<1>5. UNCHANGED <<Answered, ReportedOn>>
  BY <1>2, CallIsOne, AnsweredStays, ReportedStays DEF Preregister
<1>6. Log!Start(t)
  BY <1>2, <1>3, <1>4, <1>5, Zenon DEF Log!Start, Answered, ReportedOn
<1> QED
  BY <1>2, <1>6, Zenon DEF Log!Next

LEMMA ObserveIsLogged ==
  ASSUME IInv, NEW tab \in Tabs, WriteObservation(tab),
         Len(obs[call[tab].transfer]) = call[tab].observed
  PROVE  Log!Next
<1>1. PICK t \in Transfers, d \in Decisions :
        /\ TablesFit /\ TablesFit' /\ Grown
        /\ t \in Started /\ Len(obs[t]) + 1 \in DOMAIN fens[t]
        /\ fens[t][Len(obs[t]) + 1] = BoardOf(d)
        /\ obs' = [obs EXCEPT ![t] = Append(obs[t], d)]
        /\ UNCHANGED <<rule, fens, since, results, decided>>
  <2>1. call[tab].decision \in DOMAIN decided /\ TablesFit
    BY CallIsOne DEF CallFits, WriteObservation, At
  <2>2. call[tab].decision \in Decisions
    BY <2>1, NumbersAreNat DEF TablesFit, Decisions
  <2> QED
    BY <2>1, <2>2, WriteGrows, StartedAreTransfers
<1> DEFINE n == Len(obs[t])
           board == fens[t][n + 1]
<1>2. obs[t] \in Seq(Decisions) /\ n \in Nat
  BY <1>1 DEF TablesFit
<1>3. obs'[t] = Append(obs[t], d) /\ Len(obs'[t]) = n + 1 /\ \A u \in Transfers : u # t => obs'[u] = obs[u]
  BY <1>1, <1>2 DEF TablesFit
<1>4. /\ Answered[t] \in Seq(Boards) /\ Len(Answered[t]) = n
      /\ \A i \in 1..n : Answered[t][i] = fens[t][i]
  BY <1>1, AnsweredType DEF AnsweredFits
<1>5. /\ Answered'[t] \in Seq(Boards) /\ Len(Answered'[t]) = n + 1
      /\ \A i \in 1..(n + 1) : Answered'[t][i] = fens[t][i]
  <2>1. \A u \in Transfers :
          /\ Answered'[u] \in Seq(Boards) /\ Len(Answered'[u]) = Len(obs'[u])
          /\ \A i \in 1..Len(obs'[u]) : Answered'[u][i] = fens'[u][i]
    BY <1>1, AnsweredTypeNext DEF AnsweredFits
  <2> QED
    BY <1>1, <1>3, <2>1
<1>6. board \in Boards
  <2>1. fens[t] \in Seq(Boards)
    BY <1>1 DEF TablesFit
  <2> QED
    BY <1>1, <2>1, ElementOfSeq
<1>7. Answered'[t] = Append(Answered[t], board)
  <2> HIDE DEF board
  <2>1. /\ Append(Answered[t], board) \in Seq(Boards)
        /\ Len(Append(Answered[t], board)) = n + 1
        /\ \A i \in 1..n : Append(Answered[t], board)[i] = Answered[t][i]
        /\ Append(Answered[t], board)[n + 1] = board
    BY <1>4, <1>6, AppendProperties
  <2>2. \A i \in 1..(n + 1) : Append(Answered[t], board)[i] = fens[t][i]
    BY <1>2, <1>4, <2>1 DEF board
  <2>3. \A i \in 1..(n + 1) : Answered'[t][i] = Append(Answered[t], board)[i]
    BY <1>5, <2>2
  <2> QED
    BY <1>5, <2>1, <2>3, SeqEqual
<1>8. \A u \in Transfers : u # t => Answered'[u] = Answered[u]
  BY <1>1, <1>3 DEF Answered, BoardOf
<1>9. Answered' = [Answered EXCEPT ![t] = Append(Answered[t], fens[t][Len(Answered[t]) + 1])]
  <2>1. DOMAIN Answered = Transfers /\ DOMAIN Answered' = Transfers
    BY DEF Answered
  <2> QED
    BY <1>4, <1>7, <1>8, <2>1 DEF Answered
<1>10. UNCHANGED ReportedOn /\ UNCHANGED fens
  BY <1>1, ReportedStays
<1>11. Len(Answered[t]) < Len(fens[t])
  BY <1>1, <1>2, <1>4, StartedAreTransfers, NumbersAreNat
<1>12. Log!Observe(t)
  BY <1>9, <1>10, <1>11 DEF Log!Observe, Answered, ReportedOn
<1> QED
  BY <1>12 DEF Log!Next

LEMMA ReportIsLogged ==
  ASSUME IInv, NEW tab \in Tabs, SaveResult(tab), call[tab].transfer \notin Reported
  PROVE  Log!Next
<1>1. PICK r \in Results :
        /\ TablesFit' /\ Grown
        /\ r.transfer = call[tab].transfer /\ r.transfer \in Started
        /\ Len(obs[r.transfer]) = PositionCount
        /\ results' = results \cup {r}
        /\ UNCHANGED <<rule, fens, since, obs, decided>>
  BY SaveGrows
<1> DEFINE t == r.transfer
<1>2. TablesFit /\ t \in Transfers /\ fens[t] \in Seq(Boards) /\ Len(fens[t]) = PositionCount
  BY <1>1, CallIsOne, StartedAreTransfers
<1>3. fens[t] # <<>>
  BY <1>1 DEF Started
<1>4. Answered[t] = fens[t]
  <2>1. /\ Answered[t] \in Seq(Boards) /\ Len(Answered[t]) = PositionCount
        /\ \A i \in 1..PositionCount : Answered[t][i] = fens[t][i]
    BY <1>1, <1>2, AnsweredType DEF AnsweredFits
  <2> QED
    BY <1>2, <2>1, SeqEqual
<1>5. t \notin Reported /\ r.day \in Days
  BY <1>1 DEF Results
<1>6. Reported' = Reported \cup {t}
  BY <1>1 DEF Reported
<1>7. \A u \in Transfers : u # t => ReportedOn'[u] = ReportedOn[u]
  <2> TAKE u \in Transfers
  <2> SUFFICES ASSUME u # t PROVE ReportedOn'[u] = ReportedOn[u]
    OBVIOUS
  <2>1. CASE u \notin Reported
    BY <1>6, <2>1 DEF ReportedOn
  <2>2. CASE u \in Reported
    <3>1. PICK q \in results : q.transfer = u
      BY <2>2 DEF Reported
    <3>2. (CHOOSE p \in results : p.transfer = u) = q
      BY <1>2, <3>1 DEF TablesFit, ResultsFit
    <3>3. q \in results' /\ \A p \in results' : p.transfer = u => p = q
      BY <1>1, <3>1 DEF TablesFit, ResultsFit
    <3>4. (CHOOSE p \in results' : p.transfer = u) = q
      BY <3>1, <3>3
    <3>5. ReportedOn[u] = q.day
      BY <2>2, <3>2 DEF ReportedOn
    <3>6. ReportedOn'[u] = q.day
      BY <1>6, <2>2, <3>4 DEF ReportedOn
    <3> QED
      BY <3>5, <3>6
  <2> QED
    BY <2>1, <2>2
<1>8. ReportedOn'[t] = r.day
  <2>1. r \in results' /\ \A p \in results' : p.transfer = t => p = r
    BY <1>1 DEF TablesFit, ResultsFit
  <2>2. (CHOOSE p \in results' : p.transfer = t) = r
    BY <2>1
  <2> QED
    BY <1>2, <1>6, <2>2 DEF ReportedOn
<1>9. ReportedOn' = [ReportedOn EXCEPT ![t] = r.day] /\ ReportedOn[t] = 0
  <2>1. DOMAIN ReportedOn = Transfers /\ DOMAIN ReportedOn' = Transfers
    BY DEF ReportedOn
  <2>2. ReportedOn[t] = 0
    BY <1>2, <1>5 DEF ReportedOn
  <2>3. ReportedOn' = [u \in Transfers |-> ReportedOn'[u]]
    BY DEF ReportedOn
  <2>4. ReportedOn = [u \in Transfers |-> ReportedOn[u]]
    BY DEF ReportedOn
  <2> HIDE DEF t
  <2> QED
    BY <1>2, <1>7, <1>8, <2>1, <2>2, <2>3, <2>4
<1>10. UNCHANGED <<fens, Answered>>
  BY <1>1, <1>2, AnsweredStays
<1>11. Log!Report(t)
  <2>1. \E day \in Days : ReportedOn' = [ReportedOn EXCEPT ![t] = day]
    BY <1>5, <1>9
  <2> QED
    BY <1>3, <1>4, <1>9, <1>10, <2>1, Zenon DEF Log!Report, Answered, ReportedOn
<1> QED
  BY <1>2, <1>11, Zenon DEF Log!Next

\* Every step of the tabs and of the server is a step of the log, or none.
LEMMA StepIsLogged == IInv /\ [Next]_vars => [Log!Next]_(Log!logVars)
<1> SUFFICES ASSUME IInv, [Next]_vars
             PROVE  Log!Next \/ UNCHANGED <<fens, Answered, ReportedOn>>
  BY Zenon DEF Log!logVars, Answered, ReportedOn
<1>1. TablesFit
  BY DEF IInv
<1>2. CASE UNCHANGED tables
  BY <1>1, <1>2, TablesStay, StepStutters DEF tables
<1>3. ASSUME NEW tab \in Tabs, Decide(tab) \/ RevealFails(tab)
      PROVE  UNCHANGED <<fens, Answered, ReportedOn>>
  <2>1. PICK sound \in BOOLEAN : Commits(tab, sound)
    BY <1>3 DEF Decide, RevealFails
  <2>2. page[tab].at = "deciding" /\ UNCHANGED <<rule, fens, since, obs, results>>
    BY <1>3, <2>1 DEF Commits, Decide, RevealFails
  <2>3. Grown
    BY <2>1, <2>2, CommitGrows
  <2> QED
    BY <1>1, <2>2, <2>3, StepStutters
<1>4. ASSUME NEW tab \in Tabs, UpsertRule(tab)
      PROVE  UNCHANGED <<fens, Answered, ReportedOn>>
  <2>1. Grown /\ UNCHANGED <<fens, obs, results>>
    BY <1>4 DEF UpsertRule, Grown, Started
  <2> QED
    BY <1>1, <2>1, StepStutters
<1>5. ASSUME NEW tab \in Tabs, Preregister(tab)
      PROVE  Log!Next
  BY <1>5, StartIsLogged
<1>6. ASSUME NEW tab \in Tabs, WriteObservation(tab)
      PROVE  Log!Next \/ UNCHANGED tables
  BY <1>6, ObserveIsLogged DEF WriteObservation, tables
<1>7. ASSUME NEW tab \in Tabs, SaveResult(tab)
      PROVE  Log!Next \/ UNCHANGED tables
  BY <1>7, ReportIsLogged DEF SaveResult, tables
<1>8. ASSUME NEW tab \in Tabs, Page(tab)
      PROVE  Decide(tab) \/ UNCHANGED tables
  BY <1>8 DEF Page, Begin, BeginHeard, StartRun, ObserveHeard, NextPosition, Finish,
              FinishHeard, CallRefused, Leave
<1>9. ASSUME NEW tab \in Tabs, Archive(tab) \/ Fault(tab)
      PROVE  RevealFails(tab) \/ UNCHANGED tables
  BY <1>9 DEF Archive, Fault, Retire, RetireHeard, AnswerLost, Reload, Dies
<1>10. ASSUME NEW tab \in Tabs, Server(tab)
       PROVE  \/ UpsertRule(tab) \/ Preregister(tab) \/ WriteObservation(tab) \/ SaveResult(tab)
              \/ UNCHANGED tables
  BY <1>10 DEF Server, ReadResults, ReadRule, GuardRule, OpenTransfer, CountAnswers, JudgeOrphan,
               Resume, SelectBoards,
               NothingToTestOn, ReadSlots, CountObservations, ReadPriors
<1>11. Tick \/ UNCHANGED vars => UNCHANGED tables
  BY DEF Tick, vars
<1> QED
  BY <1>2, <1>3, <1>4, <1>5, <1>6, <1>7, <1>8, <1>9, <1>10, <1>11 DEF Next

\* The tests of a rule, over any number of tabs and faults, behave like the
\* log: positions in their order, each once, and one report
\* (recordLearningTransferObservation, finishLearningTransfer).
THEOREM TestsAreLogged == Spec => ImplementsLog
<1>1. Init => Log!Init
  BY LogInit
<1>2. IInv /\ [Next]_vars => [Log!Next]_(Log!logVars)
  BY StepIsLogged
<1> QED
  BY <1>1, <1>2, InvariantHolds, PTL DEF Spec, ImplementsLog, Log!Spec
=============================================================================
