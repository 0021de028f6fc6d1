--------------------------- MODULE DrillClaimProofs ---------------------------
(***************************************************************************)
(* For any tabs, boards, lengths and numbers of drills, decisions and      *)
(* faults: a result measures the drill that was registered, a player is    *)
(* told what the record keeps, one denial refutes where the protocol       *)
(* settles the claim, and no tab serves a board twice.                     *)
(***************************************************************************)
EXTENDS DrillClaim, SequenceTheorems, FiniteSetTheorems, WellFoundedInduction, TLAPS

-----------------------------------------------------------------------------
(* The invariant.                                                          *)

\* Drills are numbered as they come, and each has boards, no two alike.
DrillsFit ==
  /\ \E n \in 0..MaxDrills : Stored = 1..n
  /\ \A d \in Stored : /\ Len(fens[d]) \in 1..MaxLength
                       /\ \A i, j \in 1..Len(fens[d]) : fens[d][i] = fens[d][j] => i = j

\* A decision is on a board of its drill, and the boards before it are answered.
Answered(d) == Answers(Bound(d))
RecordFits ==
  /\ Len(decided) <= MaxDecisions
  /\ \A k \in 1..Len(decided) : decided[k].drill \in Stored
  /\ \A d \in Stored : /\ Answered(d) \subseteq BoardsOf(d)
                       /\ \A i \in 1..Len(fens[d]) : \A j \in 1..i :
                            fens[d][i] \in Answered(d) => fens[d][j] \in Answered(d)

\* A result has one decision, with its verdict, for each board of its drill.
Measures(r) ==
  /\ Cardinality(r.decisions) = Len(fens[r.drill])
  /\ Answers(r.decisions) = BoardsOf(r.drill)
  /\ r.decisions \subseteq Measured(Bound(r.drill))

ResultsFit ==
  /\ \A r \in results : r.drill \in Stored /\ Measures(r)
  /\ \A r, s \in results : r.drill = s.drill => r = s

\* What a tab or a call carries of a drill: decisions that were taken in it.
Carries(d, decisions) == d \in Stored /\ decisions \subseteq Bound(d)

\* The boards before the index are the ones the tab has answers for, unless it
\* has them all; and they are answered on the record.
Before(d, index) == {fens[d][i] : i \in 1..index}
InPlace(d, index, decisions) ==
  /\ index < Len(fens[d])
  /\ Before(d, index) \subseteq Answered(d)
  /\ Answers(decisions) \in {Before(d, index), BoardsOf(d)}

\* A grade that some of the results add up to, among them one of this drill.
Told(d, observed, is) ==
  \E known \in SUBSET results : \E r \in known :
    r.drill = d /\ r.observed = observed /\ is = Evaluate(known)

PageFits(p) ==
  /\ p.at \in {"deciding", "answered", "reporting"} => Carries(p.drill, p.decisions)
  /\ p.at = "deciding" => InPlace(p.drill, p.index, p.decisions)
  /\ p.at = "verdict" => Told(p.drill, p.observed, p.grade)

CallFits(c) ==
  /\ c.pc = "measure" => Carries(c.drill, c.decisions)
  /\ c.pc = "report" => c.drill \in Stored /\ c.result.drill = c.drill /\ Measures(c.result)
  /\ c.pc \in {"results", "grade"} => c.result \in results /\ c.result.drill = c.drill
  /\ c.pc = "grade" => \E known \in SUBSET results : /\ c.result \in known
                                                     /\ c.grade = Evaluate(known)

PagesFit == \A tab \in Tabs : PageFits(page[tab])
CallsFit == \A tab \in Tabs : CallFits(call[tab])

\* The reports there are, stored or on their way, have a last one.
TimesFit ==
  \E top \in Nat : /\ \A r \in results : r.at <= top
                   /\ \A tab \in Tabs : call[tab].result.at <= top

IInv == TypeOK /\ DrillsFit /\ RecordFits /\ ResultsFit /\ PagesFit /\ CallsFit /\ TimesFit

-----------------------------------------------------------------------------
(* Numbers, and recursion over the subsets of a finite set.                *)

LEMMA LeastNumber ==
  ASSUME NEW S \in SUBSET Nat, S # {}
  PROVE  \E n \in S : \A m \in S : n <= m
<1>1. PICK n \in S : \A m \in S : <<m, n>> \notin OpToRel(<, Nat)
  BY WFMin, NatLessThanWellFounded, Zenon
<1>2. \A m \in S : ~(m < n)
  BY <1>1, Zenon DEF OpToRel
<1> QED
  BY <1>2

LEMMA GreatestNumber ==
  ASSUME NEW S \in SUBSET Nat, S # {}, NEW top \in Nat, \A n \in S : n <= top
  PROVE  \E n \in S : \A m \in S : m <= n
<1> DEFINE Bounds == {b \in Nat : \A m \in S : m <= b}
<1>1. PICK b \in Bounds : \A c \in Bounds : b <= c
  <2>1. Bounds \in SUBSET Nat /\ top \in Bounds
    OBVIOUS
  <2> HIDE DEF Bounds
  <2> QED
    BY <2>1, LeastNumber
<1>2. b \in S
  <2> SUFFICES ASSUME b \notin S PROVE FALSE
    OBVIOUS
  <2>1. \A m \in S : m <= b /\ m # b
    OBVIOUS
  <2>2. PICK m \in S : m \in Nat /\ m <= b /\ m # b
    BY <2>1
  <2>3. b - 1 \in Bounds
    BY <2>1, <2>2
  <2> QED
    BY <1>1, <2>3
<1> QED
  BY <1>2

LEMMA UpTo ==
  ASSUME NEW N \in Nat, NEW S, 0 \in S, \A n \in 1..N : n - 1 \in S => n \in S
  PROVE  N \in S
<1> DEFINE Missing == {n \in 0..N : n \notin S}
<1> SUFFICES ASSUME Missing # {} PROVE FALSE
  OBVIOUS
<1>1. PICK n \in Missing : \A m \in Missing : n <= m
  <2>1. Missing \in SUBSET Nat
    OBVIOUS
  <2> HIDE DEF Missing
  <2> QED
    BY <2>1, LeastNumber
<1>2. n \in 1..N
  OBVIOUS
<1>3. n - 1 \in 0..N /\ n - 1 \notin Missing
  BY <1>1, <1>2
<1> QED
  BY <1>2, <1>3

\* Of a finite set there is a part of each element less.
LEMMA OneLess ==
  ASSUME NEW S, IsFiniteSet(S), NEW T \in SUBSET S, NEW x \in T
  PROVE  /\ IsFiniteSet(T) /\ Cardinality(T) \in Nat \ {0}
         /\ T \ {x} \in SUBSET S /\ Cardinality(T \ {x}) = Cardinality(T) - 1
<1>1. IsFiniteSet(T)
  BY FS_Subset
<1>2. Cardinality(T) \in Nat /\ Cardinality(T) # 0
  BY <1>1, FS_CardinalityType, FS_EmptySet
<1>3. Cardinality(T \ {x}) = Cardinality(T) - 1
  BY <1>1, FS_RemoveElement
<1> QED
  BY <1>1, <1>2, <1>3

\* A recursive function exists if each argument but the first is reduced to one
\* of smaller size.
Reduces(P, e, size, less, G, step) ==
  \A x \in P : x # e => /\ less[x] \in P /\ size[less[x]] < size[x]
                        /\ \A g \in G : step[x][g] \in G
Recurses(P, e, less, G, a, step) ==
  \E f \in [P -> G] : f[e] = a /\ \A x \in P : x # e => f[x] = step[x][f[less[x]]]

LEMMA Recursion ==
  ASSUME NEW N \in Nat, NEW P, NEW e \in P, NEW size \in [P -> 0..N], NEW less,
         NEW G, NEW a \in G, NEW step, Reduces(P, e, size, less, G, step)
  PROVE  Recurses(P, e, less, G, a, step)
<1> DEFINE Solves(f, n) == /\ f[e] = a
                           /\ \A x \in P : x # e /\ size[x] <= n => f[x] = step[x][f[less[x]]]
           Reached == {n \in 0..N : \E f \in [P -> G] : Solves(f, n)}
<1>1. \A x \in P : x # e => /\ less[x] \in P /\ size[less[x]] < size[x]
                            /\ \A g \in G : step[x][g] \in G
  BY DEF Reduces
<1>2. 0 \in Reached
  <2> DEFINE f == [x \in P |-> a]
  <2>1. f \in [P -> G] /\ f[e] = a
    OBVIOUS
  <2> HIDE DEF f
  <2>2. Solves(f, 0)
    BY <1>1, <2>1
  <2> QED
    BY <2>1, <2>2
<1>3. ASSUME NEW n \in 1..N, n - 1 \in Reached
      PROVE  n \in Reached
  <2>1. PICK f \in [P -> G] : Solves(f, n - 1)
    BY <1>3
  <2> DEFINE g == [x \in P |-> IF x # e /\ size[x] = n THEN step[x][f[less[x]]] ELSE f[x]]
  <2>2. g \in [P -> G]
    BY <1>1
  <2>3. \A x \in P : g[x] = IF x # e /\ size[x] = n THEN step[x][f[less[x]]] ELSE f[x]
    OBVIOUS
  <2> HIDE DEF g
  <2>4. g[e] = a
    BY <2>1, <2>3
  <2>5. ASSUME NEW x \in P, x # e, size[x] <= n
        PROVE  g[x] = step[x][g[less[x]]]
    <3>1. g[less[x]] = f[less[x]]
      BY <1>1, <2>3, <2>5
    <3>2. CASE size[x] = n
      BY <2>3, <2>5, <3>1, <3>2
    <3>3. CASE size[x] # n
      <4>1. size[x] <= n - 1
        BY <2>5, <3>3
      <4> QED
        BY <2>1, <2>3, <2>5, <3>1, <3>3, <4>1
    <3> QED
      BY <3>2, <3>3
  <2> QED
    BY <2>2, <2>4, <2>5
<1>4. N \in Reached
  <2> HIDE DEF Reached
  <2> QED
    BY <1>2, <1>3, UpTo
<1>5. PICK f \in [P -> G] : Solves(f, N)
  BY <1>4
<1> QED
  BY <1>5 DEF Recurses

-----------------------------------------------------------------------------
(* The fold of the results.                                                *)

\* Results of different drills, with a last time among them.
Reports(known) ==
  /\ IsFiniteSet(known) /\ known \subseteq Results
  /\ \A r, s \in known : r.drill = s.drill => r = s
  /\ \E top \in Nat : \A r \in known : r.at <= top

LEMMA LastIsLast ==
  ASSUME NEW known, Reports(known), NEW some \in SUBSET known, some # {}
  PROVE  Last(some) \in some
<1>1. PICK top \in Nat : \A r \in known : r.at <= top
  BY DEF Reports
<1>2. \A r \in some : r.at \in Nat /\ r.at <= top /\ r.drill \in 0..MaxDrills /\ r.drill <= MaxDrills
  BY <1>1, DrillAssumption DEF Reports, Results
<1> DEFINE times == {r.at : r \in some}
<1>3. PICK at \in times : \A t \in times : t <= at
  <2>1. times \in SUBSET Nat /\ times # {} /\ \A t \in times : t <= top
    BY <1>2
  <2> HIDE DEF times
  <2> QED
    BY <2>1, GreatestNumber
<1> DEFINE drills == {r.drill : r \in {s \in some : s.at = at}}
<1>4. PICK drill \in drills : \A d \in drills : d <= drill
  <2>1. drills \in SUBSET Nat /\ drills # {} /\ \A d \in drills : d <= MaxDrills
    BY <1>2
  <2> HIDE DEF drills
  <2> QED
    BY <2>1, DrillAssumption, GreatestNumber
<1>5. PICK r \in some : r.at = at /\ r.drill = drill
  OBVIOUS
<1>6. ASSUME NEW s \in some \ {r} PROVE Earlier(s, r)
  <2>1. s.at <= at /\ (s.at = at => s.drill <= drill) /\ s.drill # r.drill
    BY <1>3, <1>4, <1>5 DEF Reports
  <2>2. s.at \in Nat /\ r.at \in Nat /\ s.drill \in Nat /\ r.drill \in Nat
    BY <1>2
  <2> QED
    BY <1>5, <2>1, <2>2 DEF Earlier
<1> QED
  BY <1>5, <1>6 DEF Last

LEMMA ApplyGrades ==
  ASSUME NEW was, NEW result
  PROVE  Apply(was, result) \in Grades
BY DEF Apply, Grades

\* The grade is reached by applying the results one by one.
LEMMA EvaluateFolds ==
  ASSUME NEW known, Reports(known)
  PROVE  \E f : /\ Evaluate(known) = f[known]
                /\ f[{}] = "hypothesis"
                /\ \A some \in SUBSET known : some # {} =>
                     f[some] = Apply(f[some \ {Last(some)}], Last(some))
<1> DEFINE P == SUBSET known
           N == Cardinality(known)
           size == [some \in P |-> Cardinality(some)]
           less == [some \in P |-> some \ {Last(some)}]
           step == [some \in P |-> [g \in Grades |-> Apply(g, Last(some))]]
           Solves(f) == f = [some \in SUBSET known |->
                          IF some = {} THEN "hypothesis"
                          ELSE Apply(f[some \ {Last(some)}], Last(some))]
           folded == CHOOSE f : Solves(f)
<1>1. N \in Nat /\ \A some \in P : Cardinality(some) \in 0..N
  <2>1. IsFiniteSet(known) /\ N \in Nat
    BY FS_CardinalityType DEF Reports
  <2>2. ASSUME NEW some \in P PROVE Cardinality(some) \in 0..N
    <3>1. IsFiniteSet(some) /\ Cardinality(some) <= N
      BY <2>1, FS_Subset
    <3>2. Cardinality(some) \in Nat
      BY <3>1, FS_CardinalityType
    <3> QED
      BY <2>1, <3>1, <3>2
  <2> QED
    BY <2>1, <2>2
<1>2. ASSUME NEW some \in P, some # {}
      PROVE  /\ Cardinality(some \ {Last(some)}) < Cardinality(some)
             /\ some \ {Last(some)} \in P
  <2>1. Last(some) \in some
    BY <1>2, LastIsLast
  <2>2. /\ Cardinality(some) \in Nat \ {0}
        /\ Cardinality(some \ {Last(some)}) = Cardinality(some) - 1
    BY <1>2, <2>1, OneLess DEF Reports
  <2> QED
    BY <2>1, <2>2
<1>3. Reduces(P, {}, size, less, Grades, step)
  <2> SUFFICES ASSUME NEW some \in P, some # {}
               PROVE  /\ less[some] \in P /\ size[less[some]] < size[some]
                      /\ \A g \in Grades : step[some][g] \in Grades
    BY DEF Reduces
  <2>1. less[some] = some \ {Last(some)} /\ less[some] \in P
    BY <1>2
  <2>2. size[less[some]] = Cardinality(less[some]) /\ size[some] = Cardinality(some)
    BY <2>1
  <2>3. \A g \in Grades : step[some][g] = Apply(g, Last(some))
    OBVIOUS
  <2> HIDE DEF less, size, step
  <2>4. size[less[some]] < size[some]
    BY <1>2, <2>1, <2>2
  <2> QED
    BY <2>1, <2>3, <2>4, ApplyGrades
<1>4. PICK f \in [P -> Grades] :
        f[{}] = "hypothesis" /\ \A some \in P : some # {} => f[some] = step[some][f[less[some]]]
  <2>1. size \in [P -> 0..N]
    BY <1>1
  <2>2. {} \in P /\ "hypothesis" \in Grades
    BY DEF Grades
  <2>3. N \in Nat
    BY <1>1
  <2>4. Recurses(P, {}, less, Grades, "hypothesis", step)
    <3> HIDE DEF size, less, step, N, P
    <3> QED
      BY <1>3, <2>1, <2>2, <2>3, Recursion
  <2> QED
    BY <2>4, Zenon DEF Recurses
<1>5. \A some \in P : some # {} => f[some] = Apply(f[some \ {Last(some)}], Last(some))
  <2> SUFFICES ASSUME NEW some \in P, some # {}
               PROVE  f[some] = Apply(f[some \ {Last(some)}], Last(some))
    OBVIOUS
  <2>1. f[some] = step[some][f[less[some]]]
    BY <1>4
  <2>2. less[some] = some \ {Last(some)} /\ less[some] \in P
    BY <1>2
  <2>3. f[less[some]] \in Grades
    BY <2>2
  <2>4. step[some][f[less[some]]] = Apply(f[less[some]], Last(some))
    BY <2>3
  <2> QED
    BY <2>1, <2>2, <2>4
<1> HIDE DEF step, less, size
<1>6. Solves(f)
  <2>1. \A some \in P : f[some] = IF some = {} THEN "hypothesis"
                                  ELSE Apply(f[some \ {Last(some)}], Last(some))
    BY <1>4, <1>5
  <2> QED
    BY <2>1
<1>7. Solves(folded)
  <2> HIDE DEF Solves
  <2> QED
    BY <1>6
<1>8. Evaluate(known) = folded[known]
  BY DEF Evaluate
<1> HIDE DEF folded
<1>9. \A some \in SUBSET known : folded[some] =
        IF some = {} THEN "hypothesis" ELSE Apply(folded[some \ {Last(some)}], Last(some))
  BY <1>7
<1> HIDE DEF Solves
<1>10. folded[{}] = "hypothesis"
  BY <1>9
<1> QED
  BY <1>8, <1>9, <1>10

LEMMA EvaluateGrades ==
  ASSUME NEW known, Reports(known)
  PROVE  Evaluate(known) \in Grades
<1>1. PICK f : /\ Evaluate(known) = f[known]
               /\ f[{}] = "hypothesis"
               /\ \A some \in SUBSET known : some # {} =>
                    f[some] = Apply(f[some \ {Last(some)}], Last(some))
  BY EvaluateFolds
<1>2. CASE known = {}
  BY <1>1, <1>2 DEF Grades
<1>3. CASE known # {}
  BY <1>1, <1>3, ApplyGrades
<1> QED
  BY <1>2, <1>3

\* Where the protocol settles the claim a result that denied it refutes it,
\* wherever it stands in the order.
LEMMA OneDenialIsEnough ==
  ASSUME NEW known, Reports(known), settles, NEW denial \in known, ~denial.observed
  PROVE  Evaluate(known) = "refuted"
<1>1. PICK f : /\ Evaluate(known) = f[known]
               /\ f[{}] = "hypothesis"
               /\ \A some \in SUBSET known : some # {} =>
                    f[some] = Apply(f[some \ {Last(some)}], Last(some))
  BY EvaluateFolds
<1> DEFINE N == Cardinality(known)
           Refutes(n) == \A some \in SUBSET known :
                           Cardinality(some) = n /\ denial \in some => f[some] = "refuted"
           Good == {n \in 0..N : Refutes(n)}
<1>2. N \in Nat
  BY FS_CardinalityType DEF Reports
<1>3. 0 \in Good
  <2>1. \A some \in SUBSET known : denial \in some => Cardinality(some) # 0
    BY OneLess DEF Reports
  <2> QED
    BY <1>2, <2>1
<1>4. ASSUME NEW n \in 1..N, n - 1 \in Good
      PROVE  n \in Good
  <2> SUFFICES ASSUME NEW some \in SUBSET known, Cardinality(some) = n, denial \in some
               PROVE  f[some] = "refuted"
    OBVIOUS
  <2> DEFINE rest == some \ {Last(some)}
  <2>1. f[some] = Apply(f[rest], Last(some))
    BY <1>1
  <2>2. rest \in SUBSET known /\ Cardinality(rest) = n - 1
    <3>1. Last(some) \in some
      BY LastIsLast
    <3> QED
      BY <3>1, OneLess DEF Reports
  <2>3. denial = Last(some) \/ denial \in rest
    OBVIOUS
  <2> HIDE DEF rest
  <2>4. CASE denial = Last(some)
    BY <2>1, <2>4 DEF Apply
  <2>5. CASE denial \in rest
    <3>1. f[rest] = "refuted"
      BY <1>4, <2>2, <2>5
    <3> QED
      BY <2>1, <3>1 DEF Apply
  <2> QED
    BY <2>3, <2>4, <2>5
<1>5. N \in Good
  <2> HIDE DEF Good, N
  <2> QED
    BY <1>2, <1>3, <1>4, UpTo
<1> QED
  BY <1>1, <1>5

-----------------------------------------------------------------------------
(* The record is only added to.                                            *)

TablesFit ==
  /\ settles \in BOOLEAN /\ grade \in Grades
  /\ fens \in [Drills -> Seq(Boards)] /\ abandoned \in SUBSET Drills
  /\ results \subseteq Results /\ decided \in Seq(DecisionStates)

Kept ==
  /\ settles' = settles
  /\ \A d \in Stored : d \in Stored' /\ fens'[d] = fens[d]
  /\ Len(decided) <= Len(decided')
  /\ \A k \in 1..Len(decided) : decided'[k] = decided[k]
  /\ results \subseteq results'

LEMMA EvaluateStays ==
  ASSUME settles' = settles, NEW known
  PROVE  Evaluate(known)' = Evaluate(known)
<1> DEFINE By(was, result, s) ==
             IF was = "refuted" /\ s THEN was
             ELSE IF result.observed THEN "replicated" ELSE "refuted"
           EvaluatedBy(s) ==
             LET folded[some \in SUBSET known] ==
                   IF some = {} THEN "hypothesis"
                   ELSE By(folded[some \ {Last(some)}], Last(some), s)
             IN  folded[known]
<1>1. Evaluate(known) = EvaluatedBy(settles)
  BY Zenon DEF Evaluate, Apply
<1>2. Evaluate(known)' = EvaluatedBy(settles')
  BY Zenon DEF Evaluate, Apply
<1> HIDE DEF EvaluatedBy
<1> QED
  BY <1>1, <1>2

\* The decisions a list names stay what they were.
LEMMA DecisionsStay ==
  ASSUME TablesFit, TablesFit', Kept, NEW decisions \in SUBSET (1..Len(decided))
  PROVE  /\ decisions \subseteq 1..Len(decided')
         /\ Answers(decisions)' = Answers(decisions)
         /\ Measured(decisions)' = Measured(decisions)
         /\ \A d : decisions \subseteq Bound(d) => decisions \subseteq Bound(d)'
         /\ \A d : decisions \subseteq Measured(Bound(d)) => decisions \subseteq Measured(Bound(d))'
<1>1. /\ Len(decided) \in Nat /\ Len(decided') \in Nat
      /\ DOMAIN decided = 1..Len(decided) /\ DOMAIN decided' = 1..Len(decided')
  BY DEF TablesFit
<1>2. \A k \in decisions : k \in 1..Len(decided) /\ k \in 1..Len(decided') /\ decided'[k] = decided[k]
  BY <1>1 DEF Kept
<1>3. Answers(decisions)' = Answers(decisions)
  BY <1>2 DEF Answers
<1>4. Measured(decisions)' = Measured(decisions)
  BY <1>2 DEF Measured
<1>5. \A d : decisions \subseteq Bound(d) => decisions \subseteq Bound(d)'
  BY <1>1, <1>2 DEF Bound
<1>6. \A d : decisions \subseteq Measured(Bound(d)) => decisions \subseteq Measured(Bound(d))'
  BY <1>1, <1>2 DEF Bound, Measured
<1> QED
  BY <1>2, <1>3, <1>4, <1>5, <1>6

LEMMA BoundIsDecided ==
  ASSUME TablesFit, NEW d
  PROVE  Bound(d) \subseteq 1..Len(decided) /\ Measured(Bound(d)) \subseteq 1..Len(decided)
BY DEF TablesFit, Bound, Measured

\* The boards of a drill stay, and those that are answered are.
LEMMA DrillStays ==
  ASSUME TablesFit, TablesFit', Kept, NEW d \in Stored
  PROVE  /\ d \in Stored' /\ fens'[d] = fens[d] /\ BoardsOf(d)' = BoardsOf(d)
         /\ Answered(d) \subseteq Answered(d)'
         /\ \A index : Before(d, index)' = Before(d, index)
<1>1. d \in Stored' /\ fens'[d] = fens[d]
  BY DEF Kept
<1>2. BoardsOf(d)' = BoardsOf(d) /\ \A index : Before(d, index)' = Before(d, index)
  BY <1>1 DEF BoardsOf, Before
<1>3. Answered(d) \subseteq Answered(d)'
  <2> DEFINE bound == Bound(d)
  <2>1. bound \in SUBSET (1..Len(decided))
    BY BoundIsDecided
  <2>2. PICK some : some = bound
    OBVIOUS
  <2>3. Answers(some)' = Answers(some) /\ some \subseteq Bound(d)'
    BY <2>1, <2>2, DecisionsStay
  <2>4. \A k \in some : decided'[k].board \in Answered(d)'
    BY <2>3 DEF Answered, Answers
  <2>5. \A k \in some : decided'[k] = decided[k]
    BY <2>1, <2>2 DEF Kept
  <2> QED
    BY <2>2, <2>4, <2>5 DEF Answered, Answers
<1> QED
  BY <1>1, <1>2, <1>3

LEMMA CarriesStays ==
  ASSUME TablesFit, TablesFit', Kept, NEW d, NEW decisions, Carries(d, decisions)
  PROVE  Carries(d, decisions)'
<1>1. decisions \in SUBSET (1..Len(decided))
  BY BoundIsDecided DEF Carries
<1>2. decisions \subseteq Bound(d)'
  BY <1>1, DecisionsStay DEF Carries
<1>3. d \in Stored'
  BY DEF Kept, Carries
<1> QED
  BY <1>2, <1>3 DEF Carries

LEMMA MeasuresStays ==
  ASSUME TablesFit, TablesFit', Kept, NEW r, r.drill \in Stored, Measures(r)
  PROVE  r.drill \in Stored' /\ Measures(r)'
<1>1. PICK d, decisions : d = r.drill /\ decisions = r.decisions
  OBVIOUS
<1>2. decisions \in SUBSET (1..Len(decided)) /\ d \in Stored
  BY <1>1, BoundIsDecided DEF Measures
<1>3. Answers(decisions)' = Answers(decisions) /\ decisions \subseteq Measured(Bound(d))'
  BY <1>1, <1>2, DecisionsStay DEF Measures
<1>4. d \in Stored' /\ fens'[d] = fens[d] /\ BoardsOf(d)' = BoardsOf(d)
  BY <1>2, DrillStays
<1>5. Measures(r)'
  <2>1. Cardinality(decisions) = Len(fens'[d]) /\ Answers(decisions)' = BoardsOf(d)'
    BY <1>1, <1>3, <1>4 DEF Measures
  <2> QED
    BY <1>1, <1>3, <2>1 DEF Measures
<1> QED
  BY <1>1, <1>4, <1>5

\* What a tab believes and what a call carries stays true.
LEMMA ToldStays ==
  ASSUME Kept, NEW d, NEW observed, NEW is, Told(d, observed, is)
  PROVE  Told(d, observed, is)'
<1>1. PICK known \in SUBSET results : \E r \in known :
        r.drill = d /\ r.observed = observed /\ is = Evaluate(known)
  BY DEF Told
<1>2. Evaluate(known)' = Evaluate(known)
  BY EvaluateStays DEF Kept
<1>3. known \in SUBSET results'
  BY DEF Kept
<1> QED
  BY <1>1, <1>2, <1>3 DEF Told

LEMMA PageStays ==
  ASSUME TablesFit, TablesFit', Kept, DrillsFit, NEW p \in PageStates, PageFits(p)
  PROVE  PageFits(p)'
<1> USE DEF PageFits
<1>1. p.at \in {"deciding", "answered", "reporting"} => Carries(p.drill, p.decisions)'
  <2> SUFFICES ASSUME Carries(p.drill, p.decisions) PROVE Carries(p.drill, p.decisions)'
    OBVIOUS
  <2>1. PICK d, decisions : d = p.drill /\ decisions = p.decisions
    OBVIOUS
  <2>2. Carries(d, decisions)'
    BY <2>1, CarriesStays
  <2> QED
    BY <2>1, <2>2
<1>2. p.at = "deciding" => InPlace(p.drill, p.index, p.decisions)'
  <2> SUFFICES ASSUME p.at = "deciding" PROVE InPlace(p.drill, p.index, p.decisions)'
    OBVIOUS
  <2>1. PICK d, index, decisions : d = p.drill /\ index = p.index /\ decisions = p.decisions
    OBVIOUS
  <2>2. Carries(d, decisions) /\ InPlace(d, index, decisions)
    BY <2>1
  <2>3. /\ d \in Stored' /\ fens'[d] = fens[d] /\ BoardsOf(d)' = BoardsOf(d)
        /\ Answered(d) \subseteq Answered(d)' /\ Before(d, index)' = Before(d, index)
    BY <2>2, DrillStays DEF Carries
  <2>4. Answers(decisions)' = Answers(decisions)
    <3>1. decisions \in SUBSET (1..Len(decided))
      BY <2>2, BoundIsDecided DEF Carries
    <3> QED
      BY <3>1, DecisionsStay
  <2>5. InPlace(d, index, decisions)'
    BY <2>2, <2>3, <2>4 DEF InPlace
  <2> QED
    BY <2>1, <2>5
<1>3. p.at = "verdict" => Told(p.drill, p.observed, p.grade)'
  <2> SUFFICES ASSUME p.at = "verdict" PROVE Told(p.drill, p.observed, p.grade)'
    OBVIOUS
  <2>1. PICK d, observed, is : d = p.drill /\ observed = p.observed /\ is = p.grade
    OBVIOUS
  <2>2. Told(d, observed, is)'
    BY <2>1, ToldStays
  <2> QED
    BY <2>1, <2>2
<1> QED
  BY <1>1, <1>2, <1>3

LEMMA CallStays ==
  ASSUME TablesFit, TablesFit', Kept, NEW c \in CallStates, CallFits(c)
  PROVE  CallFits(c)'
<1> USE DEF CallFits
<1>1. c.pc = "measure" => Carries(c.drill, c.decisions)'
  <2> SUFFICES ASSUME Carries(c.drill, c.decisions) PROVE Carries(c.drill, c.decisions)'
    OBVIOUS
  <2>1. PICK d, decisions : d = c.drill /\ decisions = c.decisions
    OBVIOUS
  <2>2. Carries(d, decisions)'
    BY <2>1, CarriesStays
  <2> QED
    BY <2>1, <2>2
<1>2. c.pc = "report" => c.drill \in Stored' /\ c.result.drill = c.drill /\ Measures(c.result)'
  <2> SUFFICES ASSUME c.pc = "report" PROVE c.drill \in Stored' /\ Measures(c.result)'
    OBVIOUS
  <2>1. PICK r : r = c.result
    OBVIOUS
  <2>2. r.drill \in Stored' /\ Measures(r)'
    BY <2>1, MeasuresStays
  <2> QED
    BY <2>1, <2>2
<1>3. c.pc \in {"results", "grade"} => c.result \in results' /\ c.result.drill = c.drill
  BY DEF Kept
<1>4. c.pc = "grade" => \E known \in SUBSET results' : /\ c.result \in known
                                                       /\ c.grade = Evaluate(known)'
  <2> SUFFICES ASSUME c.pc = "grade"
               PROVE  \E known \in SUBSET results' : c.result \in known /\ c.grade = Evaluate(known)'
    OBVIOUS
  <2>1. PICK known \in SUBSET results : c.result \in known /\ c.grade = Evaluate(known)
    OBVIOUS
  <2>2. Evaluate(known)' = Evaluate(known)
    BY EvaluateStays DEF Kept
  <2> QED
    BY <2>1, <2>2 DEF Kept
<1> QED
  BY <1>1, <1>2, <1>3, <1>4

-----------------------------------------------------------------------------
(* A step of one tab.                                                      *)

LEMMA TypesAndTables == TypeOK => TablesFit /\ page \in [Tabs -> PageStates]
                                  /\ call \in [Tabs -> CallStates] /\ faults \in 0..MaxFaults
BY DEF TypeOK, TablesFit

\* The tables keep what they have and fit; of the tab only its page and its call
\* change, and the new ones fit as well; a report is stored as it was carried.
LEMMA TabStep ==
  ASSUME IInv, TablesFit', DrillsFit', RecordFits', ResultsFit', Kept,
         NEW tab \in Tabs, NEW p \in PageStates, NEW c \in CallStates,
         page' = [page EXCEPT ![tab] = p], call' = [call EXCEPT ![tab] = c],
         PageFits(p)', CallFits(c)', faults' \in 0..MaxFaults,
         results' \subseteq results \cup {call[tab].result}
  PROVE  IInv'
<1>1. TablesFit /\ page \in [Tabs -> PageStates] /\ call \in [Tabs -> CallStates]
  BY TypesAndTables DEF IInv
<1>2. TypeOK'
  BY <1>1 DEF TypeOK, TablesFit
<1>3. \A other \in Tabs : /\ page'[other] = IF other = tab THEN p ELSE page[other]
                          /\ call'[other] = IF other = tab THEN c ELSE call[other]
  BY <1>1
<1>4. PagesFit'
  <2> SUFFICES ASSUME NEW other \in Tabs PROVE PageFits(page[other])'
    BY DEF PagesFit
  <2>1. PICK q : q = page'[other]
    OBVIOUS
  <2>2. PageFits(q)'
    <3>1. CASE other = tab
      BY <1>3, <2>1, <3>1
    <3>2. CASE other # tab
      <4>1. q = page[other] /\ q \in PageStates
        BY <1>1, <1>3, <2>1, <3>2
      <4>2. PageFits(q)
        BY <4>1 DEF IInv, PagesFit
      <4> QED
        BY <1>1, <4>1, <4>2, PageStays DEF IInv
    <3> QED
      BY <3>1, <3>2
  <2> QED
    BY <2>1, <2>2
<1>5. CallsFit'
  <2> SUFFICES ASSUME NEW other \in Tabs PROVE CallFits(call[other])'
    BY DEF CallsFit
  <2>1. PICK q : q = call'[other]
    OBVIOUS
  <2>2. CallFits(q)'
    <3>1. CASE other = tab
      BY <1>3, <2>1, <3>1
    <3>2. CASE other # tab
      <4>1. q = call[other] /\ q \in CallStates
        BY <1>1, <1>3, <2>1, <3>2
      <4>2. CallFits(q)
        BY <4>1 DEF IInv, CallsFit
      <4> QED
        BY <1>1, <4>1, <4>2, CallStays DEF IInv
    <3> QED
      BY <3>1, <3>2
  <2> QED
    BY <2>1, <2>2
<1>6. TimesFit'
  <2>1. PICK top \in Nat : /\ \A r \in results : r.at <= top
                           /\ \A other \in Tabs : call[other].result.at <= top
    BY DEF IInv, TimesFit
  <2>2. c.result.at \in Nat
    BY DEF CallStates, Results
  <2> DEFINE next == IF c.result.at <= top THEN top ELSE c.result.at
  <2>3. next \in Nat /\ top <= next /\ c.result.at <= next
    BY <2>2
  <2>4. \A r \in results : r.at \in Nat
    BY <1>1 DEF TablesFit, Results
  <2>5. \A other \in Tabs : call[other].result.at \in Nat
    BY <1>1 DEF CallStates, Results
  <2> HIDE DEF next
  <2>6. \A r \in results' : r.at <= next
    BY <2>1, <2>3, <2>4, <2>5
  <2>7. \A other \in Tabs : call'[other].result.at <= next
    BY <1>3, <2>1, <2>2, <2>3, <2>5
  <2> QED
    BY <2>3, <2>6, <2>7 DEF TimesFit
<1> QED
  BY <1>2, <1>4, <1>5, <1>6 DEF IInv

\* A step that leaves the drills, the decisions and the results alone.
LEMMA QuietStep ==
  ASSUME IInv, UNCHANGED <<settles, fens, results, decided>>,
         grade' \in Grades, abandoned' \in SUBSET Drills,
         NEW tab \in Tabs, NEW p \in PageStates, NEW c \in CallStates,
         page' = [page EXCEPT ![tab] = p], call' = [call EXCEPT ![tab] = c],
         PageFits(p), CallFits(c), faults' \in 0..MaxFaults
  PROVE  IInv'
<1>1. TablesFit /\ TablesFit'
  BY TypesAndTables DEF IInv, TablesFit
<1>2. Stored' = Stored
  BY DEF Stored
<1>3. Kept
  <2>1. Len(decided) \in Nat
    BY <1>1 DEF TablesFit
  <2> QED
    BY <1>2, <2>1 DEF Kept
<1>4. \A d : Bound(d)' = Bound(d) /\ Answered(d)' = Answered(d) /\ BoardsOf(d)' = BoardsOf(d)
  BY DEF Bound, Answered, Answers, BoardsOf
<1>5. DrillsFit' /\ RecordFits'
  BY <1>2, <1>4 DEF IInv, DrillsFit, RecordFits
<1>6. ResultsFit'
  <2> SUFFICES ASSUME NEW r \in results PROVE r.drill \in Stored' /\ Measures(r)'
    BY DEF ResultsFit, IInv
  <2>1. r.drill \in Stored /\ Measures(r)
    BY DEF IInv, ResultsFit
  <2> QED
    BY <1>1, <1>3, <2>1, MeasuresStays
<1>7. PageFits(p)' /\ CallFits(c)'
  BY <1>1, <1>3, PageStays, CallStays DEF IInv
<1>8. results' \subseteq results \cup {call[tab].result}
  OBVIOUS
<1> QED
  BY <1>1, <1>3, <1>5, <1>6, <1>7, <1>8, TabStep

LEMMA NothingFits ==
  /\ NoPage \in PageStates /\ PageFits(NoPage) /\ NoPage.at = "record"
  /\ NoCall \in CallStates /\ CallFits(NoCall) /\ NoCall.pc = "none"
  /\ NoResult \in Results
<1> USE DrillAssumption
<1>1. NoPage \in PageStates
  <2>1. 0 \in 0..MaxDrills /\ 0 \in 0..MaxLength
    OBVIOUS
  <2> QED
    BY <2>1 DEF NoPage, PageStates, Grades
<1>2. NoResult \in Results
  <2>1. 0 \in 0..MaxDrills
    OBVIOUS
  <2> QED
    BY <2>1 DEF NoResult, Results
<1>3. NoCall \in CallStates
  <2>1. 0 \in 0..MaxDrills
    OBVIOUS
  <2> QED
    BY <1>2, <2>1 DEF NoCall, CallStates, Grades
<1>4. NoPage.at = "record" /\ NoCall.pc = "none"
  BY DEF NoPage, NoCall
<1> QED
  BY <1>1, <1>2, <1>3, <1>4 DEF PageFits, CallFits

\* What one tab has.
LEMMA TabTypes ==
  ASSUME IInv, NEW tab \in Tabs
  PROVE  /\ page[tab] \in PageStates /\ call[tab] \in CallStates
         /\ PageFits(page[tab]) /\ CallFits(call[tab])
         /\ page = [page EXCEPT ![tab] = page[tab]] /\ call = [call EXCEPT ![tab] = call[tab]]
         /\ faults \in 0..MaxFaults /\ grade \in Grades /\ abandoned \in SUBSET Drills
<1>1. /\ page \in [Tabs -> PageStates] /\ call \in [Tabs -> CallStates]
      /\ faults \in 0..MaxFaults /\ grade \in Grades /\ abandoned \in SUBSET Drills
  BY DEF IInv, TypeOK
<1> QED
  BY <1>1 DEF IInv, PagesFit, CallsFit

\* A report is taken in after every other that is there or on its way.
LEMMA LatestIsANumber ==
  ASSUME IInv, NEW tab \in Tabs
  PROVE  Latest(Times(tab)) \in Nat
<1>1. PICK top \in Nat : /\ \A r \in results : r.at <= top
                         /\ \A other \in Tabs : call[other].result.at <= top
  BY DEF IInv, TimesFit
<1>2. \A r \in results : r.at \in Nat
  BY DEF IInv, TypeOK, Results
<1>3. \A other \in Tabs : call[other].result.at \in Nat
  BY DEF IInv, TypeOK, CallStates, Results
<1>4. Times(tab) \in SUBSET Nat /\ Times(tab) # {} /\ \A t \in Times(tab) : t <= top
  BY <1>1, <1>2, <1>3 DEF Times
<1>5. \E t \in Times(tab) : \A u \in Times(tab) : u <= t
  BY <1>4, GreatestNumber
<1>6. Latest(Times(tab)) \in Times(tab)
  BY <1>5 DEF Latest
<1> QED
  BY <1>4, <1>6

LEMMA ReportFits ==
  ASSUME IInv, NEW tab \in Tabs, Carries(page[tab].drill, page[tab].decisions)
  PROVE  Report(tab) \in CallStates /\ CallFits(Report(tab)) /\ Report(tab).pc = "measure"
<1>1. page[tab] \in PageStates
  BY TabTypes
<1> DEFINE result == [NoResult EXCEPT !.at = 1 + Latest(Times(tab))]
           d == page[tab].drill
           decisions == page[tab].decisions
<1>2. result \in Results
  BY LatestIsANumber, NothingFits DEF Results
<1>3. d \in 0..MaxDrills /\ decisions \in SUBSET Decisions
  BY <1>1 DEF PageStates
<1>4. Report(tab) = [NoCall EXCEPT !.pc = "measure", !.drill = d, !.decisions = decisions,
                                   !.result = result]
  BY DEF Report
<1> HIDE DEF result, d, decisions
<1>5. /\ Report(tab) \in CallStates /\ Report(tab).pc = "measure"
      /\ Report(tab).drill = d /\ Report(tab).decisions = decisions
  BY <1>2, <1>3, <1>4, NothingFits DEF CallStates
<1>6. Carries(d, decisions)
  BY DEF d, decisions
<1> QED
  BY <1>5, <1>6 DEF CallFits

\* What is left of a tab whose call fails.
LEMMA RefuseFits ==
  ASSUME IInv, NEW tab \in Tabs, Refuse(tab)
  PROVE  \E p \in PageStates, c \in CallStates :
           /\ page' = [page EXCEPT ![tab] = p] /\ call' = [call EXCEPT ![tab] = c]
           /\ PageFits(p) /\ CallFits(c)
<1> USE TabTypes, NothingFits
<1>1. CASE page[tab].at = "reporting"
  <2> DEFINE p == [page[tab] EXCEPT !.at = "retrying"]
             c == Report(tab)
  <2>1. page' = [page EXCEPT ![tab] = p] /\ call' = [call EXCEPT ![tab] = c]
    BY <1>1 DEF Refuse
  <2>2. p \in PageStates /\ p.at = "retrying"
    BY DEF PageStates
  <2>3. Carries(page[tab].drill, page[tab].decisions)
    BY <1>1 DEF PageFits
  <2>4. c \in CallStates /\ CallFits(c)
    BY <2>3, ReportFits
  <2>5. PageFits(p)
    BY <2>2 DEF PageFits
  <2> HIDE DEF p, c
  <2> QED
    BY <2>1, <2>2, <2>4, <2>5
<1>2. CASE page[tab].at = "retrying"
  <2>1. page' = [page EXCEPT ![tab] = NoPage] /\ call' = [call EXCEPT ![tab] = NoCall]
    BY <1>2 DEF Refuse
  <2> QED
    BY <2>1
<1>3. CASE page[tab].at \notin {"reporting", "retrying"}
  <2>1. page' = [page EXCEPT ![tab] = page[tab]] /\ call' = [call EXCEPT ![tab] = NoCall]
    BY <1>3 DEF Refuse
  <2> QED
    BY <2>1
<1> QED
  BY <1>1, <1>2, <1>3

-----------------------------------------------------------------------------
(* The steps that leave the drills, the decisions and the results alone.   *)

\* A call fails.
LEMMA RefusalStep ==
  ASSUME IInv, NEW tab \in Tabs, Refuse(tab), UNCHANGED <<settles, fens, abandoned, results, decided>>,
         grade' \in Grades, faults' \in 0..MaxFaults
  PROVE  IInv'
<1>1. PICK p \in PageStates, c \in CallStates :
        /\ page' = [page EXCEPT ![tab] = p] /\ call' = [call EXCEPT ![tab] = c]
        /\ PageFits(p) /\ CallFits(c)
  BY RefuseFits
<1>2. abandoned' \in SUBSET Drills
  BY TabTypes
<1> QED
  BY <1>1, <1>2, QuietStep

\* A tab goes on and its call does not, ...
LEMMA PageStep ==
  ASSUME IInv, NEW tab \in Tabs, NEW p \in PageStates, PageFits(p),
         page' = [page EXCEPT ![tab] = p], call' = call,
         UNCHANGED <<settles, grade, fens, results, decided>>,
         abandoned' \in SUBSET Drills, faults' \in 0..MaxFaults
  PROVE  IInv'
<1>1. PICK c \in CallStates : c = call[tab]
  BY TabTypes
<1>2. call' = [call EXCEPT ![tab] = c] /\ CallFits(c) /\ grade' \in Grades
  BY <1>1, TabTypes
<1> QED
  BY <1>2, QuietStep

\* ... or its call and not the tab.
LEMMA CallStep ==
  ASSUME IInv, NEW tab \in Tabs, NEW c \in CallStates, CallFits(c), Go(tab, c),
         UNCHANGED <<tables, page, faults>>
  PROVE  IInv'
<1>1. PICK p \in PageStates : p = page[tab]
  BY TabTypes
<1>2. /\ page' = [page EXCEPT ![tab] = p] /\ call' = [call EXCEPT ![tab] = c] /\ PageFits(p)
      /\ grade' \in Grades /\ abandoned' \in SUBSET Drills /\ faults' \in 0..MaxFaults
  BY <1>1, TabTypes DEF Go, tables
<1> QED
  BY <1>2, QuietStep DEF tables

LEMMA FailsCounts == faults \in 0..MaxFaults /\ Fails => faults' \in 0..MaxFaults
BY DrillAssumption DEF Fails

\* Where a drill is taken up nothing before is open, and nothing after answered.
LEMMA CursorInPlace ==
  ASSUME IInv, NEW d \in Stored
  PROVE  Cursor(d) \in 0..(Len(fens[d]) - 1) /\ InPlace(d, Cursor(d), Bound(d))
<1> DEFINE n == Len(fens[d])
           open == {i \in 0..(n - 1) : Open(d, i)}
<1>1. n \in Nat \ {0} /\ DOMAIN fens[d] = 1..n
  <2>1. n \in 1..MaxLength
    BY DEF IInv, DrillsFit
  <2>2. fens[d] \in Seq(Boards)
    BY DEF IInv, TypeOK, Stored
  <2> QED
    BY <2>1, <2>2
<1>2. PICK i \in open : \A j \in open : i <= j
  <2>1. n - 1 \in open
    BY <1>1 DEF Open
  <2>2. open \in SUBSET Nat /\ open # {}
    BY <1>1, <2>1
  <2> HIDE DEF open
  <2> QED
    BY <2>2, LeastNumber
<1>3. i \in 0..(n - 1) /\ Open(d, i) /\ \A j \in 0..(i - 1) : ~Open(d, j)
  BY <1>1, <1>2
<1>4. /\ Cursor(d) \in 0..(n - 1) /\ Open(d, Cursor(d))
      /\ \A j \in 0..(Cursor(d) - 1) : ~Open(d, j)
  BY <1>3 DEF Cursor
<1> DEFINE k == Cursor(d)
<1> HIDE DEF k
<1>5. k \in 0..(n - 1) /\ Open(d, k) /\ \A j \in 0..(k - 1) : ~Open(d, j)
  BY <1>4 DEF k
<1>6. \A i1 \in 1..k : fens[d][i1] \in Answered(d)
  <2> TAKE m \in 1..k
  <2>1. m - 1 \in 0..(k - 1) /\ (m - 1) + 1 = m
    BY <1>1, <1>5
  <2>2. ~Open(d, m - 1)
    BY <1>5, <2>1
  <2> QED
    BY <2>1, <2>2 DEF Open, Answered
<1>7. Before(d, k) \subseteq Answered(d)
  BY <1>6 DEF Before
<1>8. Answered(d) \subseteq BoardsOf(d)
  BY DEF IInv, RecordFits
<1>9. Answered(d) \in {Before(d, k), BoardsOf(d)}
  <2>1. CASE fens[d][k + 1] \notin Answered(d)
    <3>1. ASSUME NEW m \in 1..n, fens[d][m] \in Answered(d) PROVE m \in 1..k
      <4>1. k + 1 \in 1..n
        BY <1>1, <1>5
      <4>2. CASE m \in 1..k
        BY <4>2
      <4>3. CASE m \notin 1..k
        <5>1. k + 1 \in 1..m
          BY <1>1, <1>5, <4>3
        <5>2. fens[d][k + 1] \in Answered(d)
          BY <3>1, <5>1 DEF IInv, RecordFits
        <5> QED
          BY <2>1, <5>2
      <4> QED
        BY <4>2, <4>3
    <3>2. Answered(d) \subseteq Before(d, k)
      BY <1>1, <1>8, <3>1 DEF BoardsOf, Before
    <3> QED
      BY <1>7, <3>2
  <2>2. CASE fens[d][k + 1] \in Answered(d)
    <3>1. k + 1 = n
      BY <1>5, <2>2 DEF Open, Answered
    <3>2. BoardsOf(d) \subseteq Answered(d)
      <4>1. \A m \in 1..n : m \in 1..k \/ m = k + 1
        BY <1>1, <1>5, <3>1
      <4> QED
        BY <1>1, <1>6, <2>2, <4>1 DEF BoardsOf
    <3> QED
      BY <1>8, <3>2
  <2> QED
    BY <2>1, <2>2
<1>10. k < n
  BY <1>1, <1>5
<1> QED
  BY <1>5, <1>7, <1>9, <1>10 DEF InPlace, Answered, k

LEMMA ResumeStep ==
  ASSUME IInv, NEW tab \in Tabs, Resume(tab)
  PROVE  IInv'
<1>1. PICK d \in Stored \ abandoned :
        page' = [page EXCEPT ![tab] = [NoPage EXCEPT !.at = "deciding", !.drill = d,
                                         !.index = Cursor(d), !.decisions = Bound(d)]]
  BY DEF Resume
<1> DEFINE p == [NoPage EXCEPT !.at = "deciding", !.drill = d,
                               !.index = Cursor(d), !.decisions = Bound(d)]
<1>2. Cursor(d) \in 0..(Len(fens[d]) - 1) /\ InPlace(d, Cursor(d), Bound(d))
  BY CursorInPlace
<1>3. Cursor(d) \in 0..MaxLength
  <2>1. Len(fens[d]) \in 1..MaxLength
    BY DEF IInv, DrillsFit
  <2> QED
    BY <1>2, <2>1, DrillAssumption
<1>4. Bound(d) \in SUBSET Decisions
  <2>1. Bound(d) \subseteq 1..Len(decided)
    BY TypesAndTables, BoundIsDecided DEF IInv
  <2>2. Len(decided) \in Nat /\ Len(decided) <= MaxDecisions
    BY DEF IInv, TypeOK, RecordFits
  <2> QED
    BY <2>1, <2>2, DrillAssumption DEF Decisions
<1>5. d \in 0..MaxDrills
  BY DrillAssumption DEF Stored, Drills
<1>6. /\ p \in PageStates /\ p.at = "deciding" /\ p.drill = d
      /\ p.index = Cursor(d) /\ p.decisions = Bound(d)
  BY <1>3, <1>4, <1>5, NothingFits DEF PageStates
<1>7. PageFits(p)
  <2> HIDE DEF p
  <2> QED
    BY <1>2, <1>6 DEF PageFits, Carries
<1>8. page' = [page EXCEPT ![tab] = p]
  BY <1>1
<1> HIDE DEF p
<1> QED
  BY <1>6, <1>7, <1>8, PageStep, TabTypes DEF Resume, tables

LEMMA FinishStep ==
  ASSUME IInv, NEW tab \in Tabs, Finish(tab)
  PROVE  IInv'
<1>1. page[tab].at = "answered" /\ call' = [call EXCEPT ![tab] = Report(tab)]
      /\ UNCHANGED <<tables, faults>>
  BY DEF Finish
<1> DEFINE p == [page[tab] EXCEPT !.at = "reporting"]
<1>2. page' = [page EXCEPT ![tab] = p]
  BY DEF Finish
<1>3. Carries(page[tab].drill, page[tab].decisions)
  BY <1>1, TabTypes DEF PageFits
<1>4. PICK c \in CallStates : c = Report(tab) /\ CallFits(c)
  BY <1>3, ReportFits
<1>5. /\ p \in PageStates /\ p.at = "reporting"
      /\ p.drill = page[tab].drill /\ p.decisions = page[tab].decisions
  BY TabTypes DEF PageStates
<1>6. PageFits(p)
  BY <1>3, <1>5 DEF PageFits
<1> HIDE DEF p
<1>7. UNCHANGED <<settles, fens, results, decided>> /\ grade' \in Grades
      /\ abandoned' \in SUBSET Drills /\ faults' \in 0..MaxFaults
  BY <1>1, TabTypes DEF tables
<1> QED
  BY <1>1, <1>2, <1>4, <1>5, <1>6, <1>7, QuietStep

LEMMA CloseStep ==
  ASSUME IInv, NEW tab \in Tabs, Close(tab)
  PROVE  IInv'
<1>1. page[tab].drill \in Drills
  <2>1. page[tab].at \in {"deciding", "answered"} => page[tab].drill \in Stored
    BY TabTypes DEF PageFits, Carries
  <2>2. page[tab].at = "verdict" => page[tab].drill \in Stored
    BY TabTypes DEF PageFits, Told, IInv, ResultsFit
  <2> QED
    BY <2>1, <2>2 DEF Close, Stored
<1>2. abandoned' \in SUBSET Drills
  BY <1>1, TabTypes DEF Close
<1> QED
  BY <1>2, PageStep, TabTypes, NothingFits DEF Close

LEMMA AlreadyReportedStep ==
  ASSUME IInv, NEW tab \in Tabs, AlreadyReported(tab)
  PROVE  IInv'
<1> DEFINE d == call[tab].drill
           c == [NoCall EXCEPT !.pc = "results", !.drill = d, !.result = ResultOf(d)]
<1>1. ResultOf(d) \in results /\ ResultOf(d).drill = d
  BY DEF AlreadyReported, Reported, ResultOf
<1>2. ResultOf(d) \in Results /\ d \in 0..MaxDrills
  <2>1. results \subseteq Results
    BY DEF IInv, TypeOK
  <2> QED
    BY <1>1, <2>1, TabTypes DEF CallStates
<1>3. Go(tab, c) /\ UNCHANGED <<tables, page, faults>>
  BY DEF AlreadyReported
<1> HIDE DEF d
<1>4. c \in CallStates /\ c.pc = "results" /\ c.drill = d /\ c.result = ResultOf(d)
  BY <1>2, NothingFits DEF CallStates
<1> HIDE DEF c
<1>5. CallFits(c)
  BY <1>1, <1>4 DEF CallFits
<1> QED
  BY <1>3, <1>4, <1>5, CallStep

LEMMA MeasureStep ==
  ASSUME IInv, NEW tab \in Tabs, Measure(tab)
  PROVE  IInv'
<1> DEFINE d == call[tab].drill
           scored == Measured(call[tab].decisions)
<1>1. call[tab].pc = "measure" /\ Complete(d, scored)
  BY DEF Measure
<1>2. PICK observed \in BOOLEAN :
        Go(tab, [NoCall EXCEPT !.pc = "report", !.drill = d,
                   !.result = [drill |-> d, at |-> call[tab].result.at,
                               observed |-> observed, decisions |-> scored]])
  BY DEF Measure
<1> DEFINE result == [drill |-> d, at |-> call[tab].result.at,
                      observed |-> observed, decisions |-> scored]
           c == [NoCall EXCEPT !.pc = "report", !.drill = d, !.result = result]
<1>3. d \in Stored /\ call[tab].decisions \subseteq Bound(d)
  BY <1>1, TabTypes DEF CallFits, Carries
<1>4. scored \subseteq Measured(Bound(d)) /\ scored \subseteq call[tab].decisions
  BY <1>3 DEF Measured
<1>5. d \in 0..MaxDrills /\ scored \in SUBSET Decisions /\ call[tab].result.at \in Nat
  BY <1>4, TabTypes DEF CallStates, Results
<1>6. UNCHANGED <<tables, page, faults>>
  BY DEF Measure
<1> HIDE DEF d, scored
<1>7. result \in Results /\ result.drill = d /\ result.decisions = scored
  BY <1>5 DEF Results
<1>8. Measures(result)
  BY <1>1, <1>4, <1>7 DEF Measures, Complete
<1>9. Go(tab, c)
  BY <1>2 DEF d, scored
<1> HIDE DEF result
<1>10. c \in CallStates /\ c.pc = "report" /\ c.drill = d /\ c.result = result
  BY <1>5, <1>7, NothingFits DEF CallStates
<1> HIDE DEF c
<1>11. CallFits(c)
  BY <1>3, <1>7, <1>8, <1>10 DEF CallFits, d
<1> QED
  BY <1>6, <1>9, <1>10, <1>11, CallStep

LEMMA RefusedStep ==
  ASSUME IInv, NEW tab \in Tabs,
         MeasureRefused(tab) \/ SaveResultRefused(tab) \/ AnswerLost(tab) \/ Dies(tab)
  PROVE  IInv'
<1>1. CASE MeasureRefused(tab) \/ SaveResultRefused(tab)
  BY <1>1, RefusalStep, TabTypes DEF MeasureRefused, SaveResultRefused, tables
<1>2. CASE AnswerLost(tab)
  <2>1. call[tab].grade \in Grades
    BY TabTypes DEF CallStates
  <2> QED
    BY <1>2, <2>1, RefusalStep, TabTypes, FailsCounts DEF AnswerLost
<1>3. CASE Dies(tab)
  BY <1>3, RefusalStep, TabTypes, FailsCounts DEF Dies, tables
<1> QED
  BY <1>1, <1>2, <1>3

LEMMA ReloadStep ==
  ASSUME IInv, NEW tab \in Tabs, Reload(tab)
  PROVE  IInv'
BY PageStep, TabTypes, NothingFits, FailsCounts DEF Reload, tables

LEMMA ResultedDrills ==
  ASSUME IInv
  PROVE  IsFiniteSet(Reported)
<1>1. Reported \subseteq 0..MaxDrills
  BY DEF IInv, TypeOK, Reported, Results
<1>2. IsFiniteSet(0..MaxDrills)
  BY DrillAssumption, FS_Interval
<1> QED
  BY <1>1, <1>2, FS_Subset

\* The results there are are of different drills, and so are some of them.
LEMMA ResultsReport ==
  ASSUME IInv
  PROVE  \A known \in SUBSET results : Reports(known)
<1>1. results \subseteq Results
  BY DEF IInv, TypeOK
<1>2. IsFiniteSet(Reported)
  BY ResultedDrills
<1>3. IsFiniteSet(results)
  <2> DEFINE f == [d \in Reported |-> ResultOf(d)]
  <2>1. \A r \in results : r.drill \in Reported /\ ResultOf(r.drill) = r
    BY DEF Reported, ResultOf, IInv, ResultsFit
  <2>2. \A d \in Reported : ResultOf(d) \in results
    BY <2>1 DEF Reported
  <2>3. f \in Surjection(Reported, results)
    BY <2>1, <2>2 DEF Surjection
  <2> HIDE DEF f
  <2> QED
    BY <1>2, <2>3, FS_Surjection
<1>4. PICK top \in Nat : \A r \in results : r.at <= top
  BY DEF IInv, TimesFit
<1> TAKE known \in SUBSET results
<1>5. IsFiniteSet(known)
  BY <1>3, FS_Subset
<1> QED
  BY <1>1, <1>4, <1>5 DEF Reports, IInv, ResultsFit

LEMMA ReadClaimStep ==
  ASSUME IInv, NEW tab \in Tabs, ReadClaim(tab)
  PROVE  IInv'
<1> DEFINE c == [call[tab] EXCEPT !.pc = "grade", !.grade = Evaluate(results)]
<1>1. Evaluate(results) \in Grades
  BY ResultsReport, EvaluateGrades
<1>2. call[tab].pc = "results" /\ Go(tab, c) /\ UNCHANGED <<tables, page, faults>>
  BY DEF ReadClaim
<1>3. call[tab].result \in results /\ call[tab].result.drill = call[tab].drill
  BY <1>2, TabTypes DEF CallFits
<1>4. /\ c \in CallStates /\ c.pc = "grade" /\ c.grade = Evaluate(results)
      /\ c.drill = call[tab].drill /\ c.result = call[tab].result
  BY <1>1, TabTypes DEF CallStates
<1> HIDE DEF c
<1>5. CallFits(c)
  BY <1>3, <1>4 DEF CallFits
<1> QED
  BY <1>2, <1>4, <1>5, CallStep

LEMMA SaveClaimStep ==
  ASSUME IInv, NEW tab \in Tabs, SaveClaim(tab)
  PROVE  IInv'
<1> DEFINE c == call[tab]
           told == [NoPage EXCEPT !.at = "verdict", !.drill = c.drill,
                                  !.observed = c.result.observed, !.grade = c.grade]
<1>1. c.pc = "grade" /\ grade' = c.grade /\ call' = [call EXCEPT ![tab] = NoCall]
      /\ UNCHANGED <<settles, fens, abandoned, results, decided, faults>>
  BY DEF SaveClaim
<1>2. c.drill \in 0..MaxDrills /\ c.result.observed \in BOOLEAN /\ c.grade \in Grades
  BY TabTypes DEF CallStates, Results
<1>3. /\ told \in PageStates /\ told.at = "verdict" /\ told.drill = c.drill
      /\ told.observed = c.result.observed /\ told.grade = c.grade
  <2> HIDE DEF c
  <2> QED
    BY <1>2, NothingFits DEF PageStates
<1>4. PageFits(told)
  <2>1. /\ c.result.drill = c.drill
        /\ \E known \in SUBSET results : c.result \in known /\ c.grade = Evaluate(known)
    BY <1>1, TabTypes DEF CallFits
  <2>2. Told(c.drill, c.result.observed, c.grade)
    BY <2>1 DEF Told
  <2> HIDE DEF told, c
  <2> QED
    BY <1>3, <2>2 DEF PageFits
<1>5. PICK p \in PageStates : PageFits(p) /\ page' = [page EXCEPT ![tab] = p]
  <2>1. CASE Waits(tab)
    <3>1. page' = [page EXCEPT ![tab] = told]
      BY <1>1, <2>1 DEF SaveClaim
    <3> HIDE DEF told
    <3> QED
      BY <1>3, <1>4, <3>1
  <2>2. CASE ~Waits(tab)
    <3>1. page' = [page EXCEPT ![tab] = page[tab]]
      BY <2>2 DEF SaveClaim
    <3> QED
      BY <3>1, TabTypes
  <2> QED
    BY <2>1, <2>2
<1>6. abandoned' \in SUBSET Drills /\ faults' \in 0..MaxFaults
  BY <1>1, TabTypes
<1> HIDE DEF c
<1> QED
  BY <1>1, <1>2, <1>5, <1>6, NothingFits, QuietStep

-----------------------------------------------------------------------------
(* The steps that add to the record.                                       *)

LEMMA SaveResultStep ==
  ASSUME IInv, NEW tab \in Tabs, SaveResult(tab)
  PROVE  IInv'
<1>1. PICK r, d : r = call[tab].result /\ d = call[tab].drill
  OBVIOUS
<1>2. /\ call[tab].pc = "report" /\ d \notin Reported /\ results' = results \cup {r}
      /\ UNCHANGED <<settles, grade, fens, abandoned, decided, page, faults>>
  BY <1>1 DEF SaveResult, Insert
<1>3. d \in Stored /\ r.drill = d /\ Measures(r) /\ r \in Results
  BY <1>1, <1>2, TabTypes DEF CallFits, CallStates
<1>4. TablesFit /\ TablesFit' /\ Stored' = Stored
  BY <1>2, <1>3, TypesAndTables DEF IInv, TablesFit, Stored
<1>5. Kept
  <2>1. Len(decided) \in Nat
    BY <1>4 DEF TablesFit
  <2> QED
    BY <1>2, <1>4, <2>1 DEF Kept
<1>6. DrillsFit' /\ RecordFits'
  <2>1. \A e : Answered(e)' = Answered(e) /\ BoardsOf(e)' = BoardsOf(e)
    BY <1>2 DEF Bound, Answered, Answers, BoardsOf
  <2> QED
    BY <1>2, <1>4, <2>1 DEF IInv, DrillsFit, RecordFits
<1>7. ResultsFit'
  <2>1. ASSUME NEW s \in results' PROVE s.drill \in Stored' /\ Measures(s)'
    <3>1. s.drill \in Stored /\ Measures(s)
      BY <1>2, <1>3 DEF IInv, ResultsFit
    <3> QED
      BY <1>4, <1>5, <3>1, MeasuresStays
  <2>2. \A s \in results : s.drill # r.drill
    BY <1>2, <1>3 DEF Reported
  <2> QED
    BY <1>2, <2>1, <2>2 DEF IInv, ResultsFit
<1>8. PICK c \in CallStates : /\ call' = [call EXCEPT ![tab] = c]
                              /\ c.pc = "results" /\ c.result = r /\ c.drill = d
  <2> DEFINE c == [call[tab] EXCEPT !.pc = "results"]
  <2>1. c \in CallStates /\ c.pc = "results" /\ c.result = r /\ c.drill = d
    BY <1>1, TabTypes DEF CallStates
  <2>2. call' = [call EXCEPT ![tab] = c]
    BY DEF SaveResult, Go
  <2> HIDE DEF c
  <2> QED
    BY <2>1, <2>2
<1>9. CallFits(c)'
  BY <1>2, <1>3, <1>8 DEF CallFits
<1>10. PICK p \in PageStates : p = page[tab] /\ PageFits(p)
  BY TabTypes
<1>11. PageFits(p)' /\ page' = [page EXCEPT ![tab] = p]
  BY <1>2, <1>4, <1>5, <1>10, PageStays, TabTypes DEF IInv
<1>12. faults' \in 0..MaxFaults /\ results' \subseteq results \cup {call[tab].result}
  BY <1>1, <1>2, TabTypes
<1> QED
  BY <1>4, <1>5, <1>6, <1>7, <1>8, <1>9, <1>11, <1>12, TabStep

\* What a commit adds: one decision, on the board the tab shows.
LEMMA CommitAdds ==
  ASSUME IInv, NEW tab \in Tabs, NEW measured \in BOOLEAN, Commits(tab, measured),
         NEW d, NEW index, d = page[tab].drill, index = page[tab].index
  PROVE  /\ d \in Stored /\ index \in Nat /\ InPlace(d, index, page[tab].decisions)
         /\ page[tab].decisions \subseteq Bound(d)
         /\ TablesFit' /\ Kept /\ fens' = fens
         /\ Len(decided') = Len(decided) + 1 /\ Len(decided') \in Decisions
         /\ decided'[Len(decided')].drill = d
         /\ decided'[Len(decided')].board = fens[d][index + 1]
<1>1. page[tab].at = "deciding" /\ page[tab] \in PageStates /\ PageFits(page[tab])
  BY TabTypes DEF Commits
<1>2. /\ d \in Stored /\ index \in Nat /\ InPlace(d, index, page[tab].decisions)
      /\ page[tab].decisions \subseteq Bound(d)
  BY <1>1, DrillAssumption DEF PageFits, Carries, PageStates
<1>3. TablesFit
  BY TypesAndTables DEF IInv
<1> DEFINE new == [drill |-> d, board |-> fens[d][index + 1], measured |-> measured]
<1>4. decided' = Append(decided, new) /\ Len(decided) < MaxDecisions
      /\ UNCHANGED <<settles, grade, fens, abandoned, results, call>>
  BY DEF Commits
<1>5. new \in DecisionStates
  <2>1. fens[d] \in Seq(Boards)
    BY <1>2, <1>3 DEF TablesFit, Stored
  <2>2. index + 1 \in 1..Len(fens[d])
    BY <1>2, <2>1 DEF InPlace
  <2> QED
    BY <1>2, <2>1, <2>2, ElementOfSeq DEF DecisionStates, Stored
<1>6. decided \in Seq(DecisionStates) /\ Len(decided) \in Nat
  BY <1>3 DEF TablesFit
<1>7. /\ decided' \in Seq(DecisionStates) /\ Len(decided') = Len(decided) + 1
      /\ decided'[Len(decided')] = new
      /\ \A k \in 1..Len(decided) : decided'[k] = decided[k]
  <2> HIDE DEF new
  <2> QED
    BY <1>4, <1>5, <1>6, AppendProperties
<1>8. Len(decided') \in Decisions
  BY <1>4, <1>6, <1>7, DrillAssumption DEF Decisions
<1>9. TablesFit'
  BY <1>3, <1>4, <1>7 DEF TablesFit
<1>10. Kept
  BY <1>4, <1>6, <1>7 DEF Kept, Stored
<1>11. new.drill = d /\ new.board = fens[d][index + 1]
  OBVIOUS
<1> HIDE DEF new
<1> QED
  BY <1>2, <1>4, <1>7, <1>8, <1>9, <1>10, <1>11

\* What is answered then.
LEMMA CommitAnswers ==
  ASSUME IInv, NEW tab \in Tabs, NEW measured \in BOOLEAN, Commits(tab, measured),
         NEW d, NEW index, d = page[tab].drill, index = page[tab].index,
         NEW k, k = Len(decided')
  PROVE  /\ Bound(d)' = Bound(d) \cup {k}
         /\ Answered(d)' = Answered(d) \cup {fens[d][index + 1]}
         /\ \A e : e # d => Answered(e)' = Answered(e)
<1>1. /\ Kept /\ k = Len(decided) + 1 /\ decided'[k].drill = d
      /\ decided'[k].board = fens[d][index + 1]
  BY CommitAdds
<1>2. /\ Len(decided) \in Nat /\ DOMAIN decided = 1..Len(decided)
      /\ DOMAIN decided' = 1..k
  <2>1. TablesFit /\ TablesFit'
    BY CommitAdds, TypesAndTables DEF IInv
  <2> QED
    BY <2>1 DEF TablesFit
<1>3. \A j \in 1..Len(decided) : decided'[j] = decided[j]
  BY <1>1 DEF Kept
<1>4. \A j \in 1..k : j \in 1..Len(decided) \/ j = k
  BY <1>1, <1>2
<1>5. k \in 1..k /\ \A j \in 1..Len(decided) : j \in 1..k
  BY <1>1, <1>2
<1>6. Bound(d)' = Bound(d) \cup {k}
  BY <1>1, <1>2, <1>3, <1>4, <1>5 DEF Bound
<1>7. \A e : e # d => Bound(e)' = Bound(e)
  BY <1>1, <1>2, <1>3, <1>4, <1>5 DEF Bound
<1>8. \A e : Bound(e) \subseteq 1..Len(decided)
  BY <1>2 DEF Bound
<1>9. ASSUME NEW some \in SUBSET (1..Len(decided))
      PROVE  /\ Answers(some)' = Answers(some)
             /\ Answers(some \cup {k})' = Answers(some) \cup {fens[d][index + 1]}
  <2>1. Answers(some)' = Answers(some)
    BY <1>3 DEF Answers
  <2>2. Answers(some \cup {k})' = Answers(some)' \cup {decided'[k].board}
    BY DEF Answers
  <2> QED
    BY <1>1, <2>1, <2>2
<1>11. Answered(d)' = Answered(d) \cup {fens[d][index + 1]}
  <2>1. PICK some \in SUBSET (1..Len(decided)) : some = Bound(d)
    BY <1>8
  <2>2. Answers(some \cup {k})' = Answers(some) \cup {fens[d][index + 1]}
    BY <1>9
  <2>3. Answered(d)' = {decided'[j].board : j \in some \cup {k}}
    BY <1>6, <2>1 DEF Answered, Answers
  <2> QED
    BY <2>1, <2>2, <2>3 DEF Answered, Answers
<1>12. \A e : e # d => Answered(e)' = Answered(e)
  <2> SUFFICES ASSUME NEW e, e # d PROVE Answered(e)' = Answered(e)
    OBVIOUS
  <2>1. PICK some \in SUBSET (1..Len(decided)) : some = Bound(e)
    BY <1>8
  <2>2. Answers(some)' = Answers(some) /\ Bound(e)' = some
    BY <1>7, <1>9, <2>1
  <2> QED
    BY <2>1, <2>2 DEF Answered, Answers
<1> QED
  BY <1>6, <1>11, <1>12

\* The list of the tab answers that board as well.
LEMMA CommitMore ==
  ASSUME IInv, NEW tab \in Tabs, NEW measured \in BOOLEAN, Commits(tab, measured),
         NEW d, NEW index, d = page[tab].drill, index = page[tab].index,
         NEW k, k = Len(decided'), NEW some, some \subseteq Bound(d), NEW more, more = some \cup {k}
  PROVE  Answers(more)' = Answers(some) \cup {fens[d][index + 1]}
<1>1. Kept /\ decided'[k].board = fens[d][index + 1]
  BY CommitAdds
<1>2. \A j \in some : decided'[j] = decided[j]
  <2>1. some \subseteq 1..Len(decided)
    BY TypesAndTables, BoundIsDecided DEF IInv
  <2> QED
    BY <1>1, <2>1 DEF Kept
<1> QED
  BY <1>1, <1>2 DEF Answers

\* The boards are answered in their turn also then.
LEMMA CommitFits ==
  ASSUME IInv, NEW tab \in Tabs, NEW measured \in BOOLEAN, Commits(tab, measured)
  PROVE  DrillsFit' /\ RecordFits' /\ ResultsFit'
<1>1. PICK d, index, k : d = page[tab].drill /\ index = page[tab].index /\ k = Len(decided')
  OBVIOUS
<1>2. /\ d \in Stored /\ index \in Nat /\ InPlace(d, index, page[tab].decisions)
      /\ TablesFit /\ TablesFit' /\ Kept /\ fens' = fens /\ results' = results
      /\ k = Len(decided) + 1 /\ k \in Decisions /\ decided'[k].drill = d
  BY <1>1, CommitAdds, TypesAndTables DEF Commits, IInv
<1>3. /\ Answered(d)' = Answered(d) \cup {fens[d][index + 1]}
      /\ \A e : e # d => Answered(e)' = Answered(e)
  BY <1>1, CommitAnswers
<1>4. Stored' = Stored /\ \A e : BoardsOf(e)' = BoardsOf(e)
  BY <1>2 DEF Stored, BoardsOf
<1>5. DrillsFit'
  BY <1>2, <1>4 DEF IInv, DrillsFit
<1>6. ResultsFit'
  <2>1. ASSUME NEW r \in results PROVE r.drill \in Stored' /\ Measures(r)'
    BY <1>2, MeasuresStays DEF IInv, ResultsFit
  <2> QED
    BY <1>2, <2>1 DEF IInv, ResultsFit
<1>7. Len(decided') <= MaxDecisions
  BY <1>1, <1>2, DrillAssumption DEF Decisions
<1>8. \A j \in 1..Len(decided') : decided'[j].drill \in Stored'
  <2>1. Len(decided) \in Nat
    BY <1>2 DEF TablesFit
  <2>2. \A j \in 1..Len(decided') : j \in 1..Len(decided) \/ j = k
    BY <1>1, <1>2, <2>1
  <2>3. \A j \in 1..Len(decided) : decided'[j] = decided[j] /\ decided[j].drill \in Stored
    BY <1>2 DEF Kept, IInv, RecordFits
  <2> QED
    BY <1>2, <1>4, <2>2, <2>3
<1>9. /\ Len(fens[d]) \in Nat /\ index + 1 \in 1..Len(fens[d]) /\ DOMAIN fens[d] = 1..Len(fens[d])
      /\ \A i, j \in 1..Len(fens[d]) : fens[d][i] = fens[d][j] => i = j
  <2>1. fens[d] \in Seq(Boards)
    BY <1>2 DEF TablesFit, Stored
  <2> QED
    BY <1>2, <2>1 DEF InPlace, IInv, DrillsFit
<1>10. ASSUME NEW e \in Stored
       PROVE  /\ Answered(e)' \subseteq BoardsOf(e)
              /\ \A i \in 1..Len(fens[e]) : \A j \in 1..i :
                   fens[e][i] \in Answered(e)' => fens[e][j] \in Answered(e)'
  <2>1. /\ Answered(e) \subseteq BoardsOf(e)
        /\ \A i \in 1..Len(fens[e]) : \A j \in 1..i :
             fens[e][i] \in Answered(e) => fens[e][j] \in Answered(e)
    BY DEF IInv, RecordFits
  <2>2. CASE e # d
    <3>1. Answered(e)' = Answered(e)
      BY <1>3, <2>2
    <3> QED
      BY <2>1, <3>1
  <2>3. CASE e = d
    <3>1. fens[d][index + 1] \in BoardsOf(d)
      BY <1>9 DEF BoardsOf
    <3>2. ASSUME NEW i \in 1..Len(fens[d]), NEW j \in 1..i, fens[d][i] \in Answered(d)'
          PROVE  fens[d][j] \in Answered(d)'
      <4>1. CASE fens[d][i] \in Answered(d)
        BY <1>3, <2>1, <2>3, <4>1
      <4>2. CASE fens[d][i] = fens[d][index + 1]
        <5>1. i = index + 1
          BY <1>9, <4>2
        <5>2. j \in 1..index \/ j = index + 1
          BY <1>2, <5>1
        <5>3. \A m \in 1..index : fens[d][m] \in Answered(d)
          BY <1>2 DEF InPlace, Before
        <5> QED
          BY <1>3, <5>2, <5>3
      <4> QED
        BY <1>3, <3>2, <4>1, <4>2
    <3> QED
      BY <1>3, <2>1, <2>3, <3>1, <3>2
  <2> QED
    BY <2>2, <2>3
<1>11. RecordFits'
  <2>1. \A e \in Stored' : /\ Answered(e)' \subseteq BoardsOf(e)'
                           /\ \A i \in 1..Len(fens'[e]) : \A j \in 1..i :
                                fens'[e][i] \in Answered(e)' => fens'[e][j] \in Answered(e)'
    BY <1>2, <1>4, <1>10
  <2> QED
    BY <1>7, <1>8, <2>1 DEF RecordFits
<1> QED
  BY <1>5, <1>6, <1>11

LEMMA CommitLostStep ==
  ASSUME IInv, NEW tab \in Tabs, CommitLost(tab)
  PROVE  IInv'
<1>1. Commits(tab, FALSE) /\ page' = page /\ call' = call /\ results' = results
      /\ faults' \in 0..MaxFaults
  BY TabTypes, FailsCounts DEF CommitLost, Commits
<1>2. DrillsFit' /\ RecordFits' /\ ResultsFit'
  BY <1>1, CommitFits
<1>3. TablesFit /\ TablesFit' /\ Kept
  BY <1>1, CommitAdds, TypesAndTables DEF IInv
<1>4. PICK p \in PageStates, c \in CallStates : p = page[tab] /\ c = call[tab]
  BY TabTypes
<1>5. PageFits(p)' /\ CallFits(c)'
  BY <1>3, <1>4, PageStays, CallStays, TabTypes DEF IInv
<1>6. /\ page' = [page EXCEPT ![tab] = p] /\ call' = [call EXCEPT ![tab] = c]
      /\ results' \subseteq results \cup {call[tab].result}
  BY <1>1, <1>4, TabTypes
<1> QED
  BY <1>1, <1>2, <1>3, <1>5, <1>6, TabStep

\* The tab goes on to the next board, or to the report.
LEMMA ListedStep ==
  ASSUME IInv, NEW tab \in Tabs, NEW measured \in BOOLEAN, Commits(tab, measured), Listed(tab),
         faults' \in 0..MaxFaults
  PROVE  IInv'
<1>1. PICK d, index, k, some, more :
        /\ d = page[tab].drill /\ index = page[tab].index /\ k = Len(decided')
        /\ some = page[tab].decisions /\ more = some \cup {k}
  OBVIOUS
<1>2. /\ d \in Stored /\ index \in Nat /\ InPlace(d, index, some)
      /\ some \subseteq Bound(d)
      /\ TablesFit /\ TablesFit' /\ Kept /\ fens' = fens
      /\ k \in Decisions
  BY <1>1, CommitAdds, TypesAndTables DEF IInv
<1>3. /\ Bound(d)' = Bound(d) \cup {k}
      /\ Answered(d)' = Answered(d) \cup {fens[d][index + 1]}
      /\ Answers(more)' = Answers(some) \cup {fens[d][index + 1]}
  <2>1. Bound(d)' = Bound(d) \cup {k}
    BY <1>1, CommitAnswers
  <2>2. Answered(d)' = Answered(d) \cup {fens[d][index + 1]}
    BY <1>1, CommitAnswers
  <2>3. Answers(more)' = Answers(some) \cup {fens[d][index + 1]}
    BY <1>1, <1>2, CommitMore
  <2> QED
    BY <2>1, <2>2, <2>3
<1>4. DrillsFit' /\ RecordFits' /\ ResultsFit'
  BY CommitFits
<1>5. /\ page[tab] \in PageStates /\ page[tab].at = "deciding"
      /\ call' = call /\ results' = results
  BY TabTypes DEF Commits
<1>6. Len(fens[d]) \in 1..MaxLength /\ DOMAIN fens[d] = 1..Len(fens[d])
  <2>1. fens[d] \in Seq(Boards)
    BY <1>2 DEF TablesFit, Stored
  <2> QED
    BY <1>2, <2>1 DEF IInv, DrillsFit
<1>7. PICK p \in PageStates :
        /\ page' = [page EXCEPT ![tab] = p]
        /\ p.drill = d /\ p.decisions = more
        /\ \/ index + 1 = Len(fens[d]) /\ p.at = "answered"
           \/ index + 1 # Len(fens[d]) /\ p.at = "deciding" /\ p.index = index + 1
  <2> DEFINE q == [page[tab] EXCEPT !.decisions = @ \cup {Len(decided')},
                                    !.index = IF IsLast(tab) THEN @ ELSE @ + 1,
                                    !.at = IF IsLast(tab) THEN "answered" ELSE @]
  <2>1. page' = [page EXCEPT ![tab] = q]
    BY DEF Listed
  <2>2. IsLast(tab) <=> index + 1 = Len(fens[d])
    BY <1>1 DEF IsLast
  <2>3. index < Len(fens[d]) /\ MaxLength \in Nat
    BY <1>2, DrillAssumption DEF InPlace
  <2>4. ~IsLast(tab) => index + 1 \in 0..MaxLength
    BY <1>2, <1>6, <2>2, <2>3
  <2>5. more \in SUBSET Decisions
    BY <1>1, <1>2, <1>5 DEF PageStates
  <2>6. CASE IsLast(tab)
    <3>1. q = [page[tab] EXCEPT !.decisions = more, !.at = "answered"]
      BY <1>1, <1>5, <2>6 DEF PageStates
    <3> HIDE DEF q
    <3>2. q \in PageStates /\ q.drill = d /\ q.decisions = more /\ q.at = "answered"
      BY <1>1, <1>5, <2>5, <3>1 DEF PageStates
    <3> QED
      BY <2>1, <2>2, <2>6, <3>2
  <2>7. CASE ~IsLast(tab)
    <3>1. q = [page[tab] EXCEPT !.decisions = more, !.index = index + 1]
      BY <1>1, <1>5, <2>7 DEF PageStates
    <3> HIDE DEF q
    <3>2. /\ q \in PageStates /\ q.drill = d /\ q.decisions = more
          /\ q.at = "deciding" /\ q.index = index + 1
      BY <1>1, <1>5, <2>4, <2>5, <2>7, <3>1 DEF PageStates
    <3> QED
      BY <2>1, <2>2, <2>7, <3>2
  <2> QED
    BY <2>6, <2>7
<1>8. Carries(d, more)'
  BY <1>1, <1>2, <1>3 DEF Carries, Kept
<1>9. index + 1 # Len(fens[d]) => InPlace(d, index + 1, more)'
  <2> SUFFICES ASSUME index + 1 # Len(fens[d]) PROVE InPlace(d, index + 1, more)'
    OBVIOUS
  <2>1. index < Len(fens[d]) /\ Before(d, index) \subseteq Answered(d)
        /\ Answers(some) \in {Before(d, index), BoardsOf(d)}
    BY <1>2 DEF InPlace
  <2>2. index + 1 < Len(fens[d])
    BY <1>2, <1>6, <2>1
  <2>3. /\ Before(d, index + 1)' = Before(d, index) \cup {fens[d][index + 1]}
        /\ BoardsOf(d)' = BoardsOf(d)
    <3>1. 1..(index + 1) = 1..index \cup {index + 1}
      BY <1>2
    <3> QED
      BY <1>2, <3>1 DEF Before, BoardsOf
  <2>4. fens[d][index + 1] \in BoardsOf(d)
    BY <1>2, <1>6, <2>1 DEF BoardsOf
  <2>5. Before(d, index + 1)' \subseteq Answered(d)'
    BY <1>3, <2>1, <2>3
  <2>6. Answers(more)' \in {Before(d, index + 1)', BoardsOf(d)'}
    BY <1>3, <2>1, <2>3, <2>4
  <2> QED
    BY <1>2, <2>2, <2>5, <2>6 DEF InPlace
<1>10. PageFits(p)'
  BY <1>7, <1>8, <1>9 DEF PageFits
<1>11. PICK c \in CallStates : c = call[tab] /\ CallFits(c)
  BY TabTypes
<1>12. CallFits(c)' /\ call' = [call EXCEPT ![tab] = c] /\ results' \subseteq results \cup {call[tab].result}
  BY <1>2, <1>5, <1>11, CallStays, TabTypes
<1> QED
  BY <1>2, <1>4, <1>7, <1>10, <1>12, TabStep

LEMMA DecideStep ==
  ASSUME IInv, NEW tab \in Tabs, Decide(tab) \/ RevealFails(tab)
  PROVE  IInv'
<1>1. PICK measured \in BOOLEAN : Commits(tab, measured)
  BY DEF Decide, RevealFails
<1>2. Listed(tab) /\ faults' \in 0..MaxFaults
  BY TabTypes, FailsCounts DEF Decide, RevealFails
<1> QED
  BY <1>1, <1>2, ListedStep

\* A drill that begins has none of its boards answered.
LEMMA BeginStep ==
  ASSUME IInv, NEW tab \in Tabs, Begin(tab)
  PROVE  IInv'
<1> DEFINE fresh == Boards \ Answers(DOMAIN decided)
<1>1. PICK d : d = Cardinality(Stored) + 1
  OBVIOUS
<1>2. PICK n \in 1..MaxLength : \E list \in [1..n -> fresh] :
        /\ FirstOf(list, fresh)
        /\ fens' = [fens EXCEPT ![d] = list]
        /\ page' = [page EXCEPT ![tab] = [NoPage EXCEPT !.at = "deciding", !.drill = d]]
  BY <1>1 DEF Begin
<1>3. PICK list \in [1..n -> fresh] :
        /\ FirstOf(list, fresh)
        /\ fens' = [fens EXCEPT ![d] = list]
        /\ page' = [page EXCEPT ![tab] = [NoPage EXCEPT !.at = "deciding", !.drill = d]]
  BY <1>2
<1>4. /\ Stored # Drills
      /\ UNCHANGED <<settles, grade, abandoned, results, decided, call, faults>>
  BY DEF Begin
<1>5. PICK m \in 0..MaxDrills : Stored = 1..m
  BY DEF IInv, DrillsFit
<1>6. d = m + 1 /\ d \in Drills /\ d \notin Stored /\ Stored \cup {d} = 1..d
  <2>1. Cardinality(Stored) = m
    BY <1>5, DrillAssumption, FS_Interval
  <2>2. m # MaxDrills
    BY <1>4, <1>5 DEF Drills
  <2> QED
    BY <1>1, <1>5, <2>1, <2>2, DrillAssumption DEF Drills
<1>7. /\ list \in Seq(Boards) /\ Len(list) = n /\ DOMAIN list = 1..n /\ list # <<>>
      /\ \A i, j \in 1..n : list[i] = list[j] => i = j
  <2>1. n \in Nat \ {0}
    BY DrillAssumption
  <2>2. \A i \in 1..n : list[i] \in Boards
    OBVIOUS
  <2> HIDE DEF fresh
  <2>3. list \in Seq(Boards) /\ Len(list) = n /\ DOMAIN list = 1..n
    BY <2>1, <2>2, <1>3
  <2>4. \A i, j \in 1..n : i < j => list[i] < list[j]
    BY <1>3, <2>3 DEF FirstOf
  <2>5. \A i \in 1..n : list[i] \in Nat
    BY <2>2, DrillAssumption
  <2>6. ASSUME NEW i \in 1..n, NEW j \in 1..n, list[i] = list[j] PROVE i = j
    BY <2>4, <2>5, <2>6
  <2>7. list # <<>>
    BY <2>1, <2>3
  <2> QED
    BY <2>3, <2>6, <2>7
<1> HIDE DEF fresh
<1>8. TablesFit
  BY TypesAndTables DEF IInv
<1>9. /\ fens' \in [Drills -> Seq(Boards)] /\ fens'[d] = list
      /\ \A e : e # d => fens'[e] = fens[e]
  BY <1>3, <1>6, <1>7, <1>8 DEF TablesFit
<1>10. TablesFit'
  BY <1>4, <1>8, <1>9 DEF TablesFit
<1>11. Stored' = Stored \cup {d}
  BY <1>6, <1>7, <1>9 DEF Stored
<1>12. Kept
  <2>1. Len(decided) \in Nat
    BY <1>8 DEF TablesFit
  <2> QED
    BY <1>4, <1>6, <1>9, <1>11, <2>1 DEF Kept
<1>13. DrillsFit'
  <2>1. d \in 0..MaxDrills /\ Stored' = 1..d
    BY <1>6, <1>11, DrillAssumption DEF Drills
  <2>2. ASSUME NEW e \in Stored'
        PROVE  /\ Len(fens'[e]) \in 1..MaxLength
               /\ \A i, j \in 1..Len(fens'[e]) : fens'[e][i] = fens'[e][j] => i = j
    <3>1. CASE e = d
      BY <1>7, <1>9, <3>1
    <3>2. CASE e # d
      <4>1. e \in Stored /\ fens'[e] = fens[e]
        BY <1>9, <1>11, <3>2
      <4> QED
        BY <4>1 DEF IInv, DrillsFit
    <3> QED
      BY <3>1, <3>2
  <2> QED
    BY <2>1, <2>2 DEF DrillsFit
<1>14. /\ \A e : Bound(e)' = Bound(e) /\ Answered(e)' = Answered(e)
       /\ Bound(d) = {} /\ Answered(d) = {}
  <2>1. \A k \in DOMAIN decided : decided[k].drill # d
    BY <1>6, <1>8 DEF TablesFit, IInv, RecordFits
  <2> QED
    BY <1>4, <2>1 DEF Bound, Answered, Answers
<1>15. RecordFits'
  <2>1. \A k \in 1..Len(decided') : decided'[k].drill \in Stored'
    BY <1>4, <1>11 DEF IInv, RecordFits
  <2>2. ASSUME NEW e \in Stored'
        PROVE  /\ Answered(e)' \subseteq BoardsOf(e)'
               /\ \A i \in 1..Len(fens'[e]) : \A j \in 1..i :
                    fens'[e][i] \in Answered(e)' => fens'[e][j] \in Answered(e)'
    <3>1. CASE e = d
      BY <1>14, <3>1
    <3>2. CASE e # d
      <4>1. e \in Stored /\ fens'[e] = fens[e] /\ BoardsOf(e)' = BoardsOf(e)
        BY <1>9, <1>11, <3>2 DEF BoardsOf
      <4> QED
        BY <1>14, <4>1 DEF IInv, RecordFits
    <3> QED
      BY <3>1, <3>2
  <2> QED
    BY <1>4, <2>1, <2>2 DEF IInv, RecordFits
<1>16. ResultsFit'
  <2>1. ASSUME NEW r \in results PROVE r.drill \in Stored' /\ Measures(r)'
    BY <1>8, <1>10, <1>12, MeasuresStays DEF IInv, ResultsFit
  <2> QED
    BY <1>4, <2>1 DEF IInv, ResultsFit
<1>17. PICK p \in PageStates : /\ page' = [page EXCEPT ![tab] = p]
                               /\ p.at = "deciding" /\ p.drill = d
                               /\ p.index = 0 /\ p.decisions = {}
  <2> DEFINE p == [NoPage EXCEPT !.at = "deciding", !.drill = d]
  <2>1. NoPage.index = 0 /\ NoPage.decisions = {}
    BY DEF NoPage
  <2>2. d \in 0..MaxDrills
    BY <1>6, DrillAssumption DEF Drills
  <2>3. p \in PageStates /\ p.at = "deciding" /\ p.drill = d /\ p.index = 0 /\ p.decisions = {}
    BY <2>1, <2>2, NothingFits DEF PageStates
  <2>4. page' = [page EXCEPT ![tab] = p]
    BY <1>3
  <2> HIDE DEF p
  <2> QED
    BY <2>3, <2>4
<1>18. PageFits(p)'
  <2>1. PICK index, some : index = 0 /\ some = {}
    OBVIOUS
  <2>2. Carries(d, some)'
    BY <1>11, <2>1 DEF Carries
  <2>3. InPlace(d, index, some)'
    <3>1. index < Len(fens'[d])
      BY <1>7, <1>9, <2>1, DrillAssumption
    <3>2. Before(d, index)' = {} /\ Answers(some)' = {}
      BY <2>1 DEF Before, Answers
    <3> QED
      BY <3>1, <3>2 DEF InPlace
  <2> QED
    BY <1>17, <2>1, <2>2, <2>3 DEF PageFits
<1>19. PICK c \in CallStates : c = call[tab] /\ CallFits(c)
  BY TabTypes
<1>20. /\ CallFits(c)' /\ call' = [call EXCEPT ![tab] = c]
       /\ faults' \in 0..MaxFaults /\ results' \subseteq results \cup {call[tab].result}
  BY <1>4, <1>8, <1>10, <1>12, <1>19, CallStays, TabTypes
<1> QED
  BY <1>10, <1>12, <1>13, <1>15, <1>16, <1>17, <1>18, <1>20, TabStep

-----------------------------------------------------------------------------
(* The invariant holds.                                                    *)

LEMMA InitInv == Init => IInv
<1> SUFFICES ASSUME Init PROVE IInv
  OBVIOUS
<1>1. /\ fens = [d \in Drills |-> <<>>] /\ abandoned = {} /\ results = {} /\ decided = <<>>
      /\ page = [tab \in Tabs |-> NoPage] /\ call = [tab \in Tabs |-> NoCall]
      /\ settles \in BOOLEAN /\ grade = "hypothesis" /\ faults = 0
  BY DEF Init
<1>2. Stored = {}
  BY <1>1 DEF Stored
<1>3. TypeOK
  <2>1. fens \in [Drills -> Seq(Boards)] /\ decided \in Seq(DecisionStates)
    BY <1>1
  <2>2. page \in [Tabs -> PageStates] /\ call \in [Tabs -> CallStates]
    BY <1>1, NothingFits
  <2> QED
    BY <1>1, <2>1, <2>2, DrillAssumption DEF TypeOK, Grades
<1>4. DrillsFit
  <2>1. 0 \in 0..MaxDrills /\ 1..0 = {}
    BY DrillAssumption
  <2> QED
    BY <1>2, <2>1 DEF DrillsFit
<1>5. RecordFits /\ ResultsFit
  BY <1>1, <1>2, DrillAssumption DEF RecordFits, ResultsFit
<1>6. PagesFit /\ CallsFit
  BY <1>1, NothingFits DEF PagesFit, CallsFit
<1>7. TimesFit
  <2>1. \A tab \in Tabs : call[tab].result.at = 0
    BY <1>1 DEF NoCall, NoResult
  <2> QED
    BY <1>1, <2>1 DEF TimesFit
<1> QED
  BY <1>3, <1>4, <1>5, <1>6, <1>7 DEF IInv

LEMMA StutterStep == IInv /\ UNCHANGED vars => IInv'
<1> SUFFICES ASSUME IInv, UNCHANGED vars PROVE IInv'
  OBVIOUS
<1>1. UNCHANGED <<settles, grade, fens, abandoned, results, decided, page, call, faults>>
  BY DEF vars, tables
<1>2. TypeOK' /\ TablesFit /\ TablesFit'
  BY <1>1, TypesAndTables DEF IInv, TypeOK, TablesFit
<1>3. /\ Stored' = Stored
      /\ \A d : Bound(d)' = Bound(d) /\ Answered(d)' = Answered(d) /\ BoardsOf(d)' = BoardsOf(d)
  BY <1>1 DEF Stored, Bound, Answered, Answers, BoardsOf
<1>4. Kept
  <2>1. Len(decided) \in Nat
    BY <1>2 DEF TablesFit
  <2> QED
    BY <1>1, <1>3, <2>1 DEF Kept
<1>5. DrillsFit' /\ RecordFits'
  BY <1>1, <1>3 DEF IInv, DrillsFit, RecordFits
<1>6. ResultsFit'
  <2>1. ASSUME NEW r \in results PROVE r.drill \in Stored' /\ Measures(r)'
    BY <1>2, <1>4, MeasuresStays DEF IInv, ResultsFit
  <2> QED
    BY <1>1, <2>1 DEF IInv, ResultsFit
<1>7. ASSUME NEW tab \in Tabs
      PROVE  PageFits(page[tab])' /\ CallFits(call[tab])'
  <2>1. PICK p \in PageStates, c \in CallStates : p = page[tab] /\ c = call[tab]
    BY TabTypes
  <2>2. PageFits(p)' /\ CallFits(c)'
    BY <1>2, <1>4, <2>1, TabTypes, PageStays, CallStays DEF IInv
  <2> QED
    BY <1>1, <2>1, <2>2
<1>8. PagesFit' /\ CallsFit' /\ TimesFit'
  BY <1>1, <1>7 DEF PagesFit, CallsFit, IInv, TimesFit
<1> QED
  BY <1>2, <1>5, <1>6, <1>8 DEF IInv

LEMMA NextInv == IInv /\ [Next]_vars => IInv'
<1> SUFFICES ASSUME IInv, [Next]_vars PROVE IInv'
  OBVIOUS
<1>1. CASE Next
  <2>1. PICK tab \in Tabs : Page(tab) \/ Server(tab) \/ Fault(tab)
    BY <1>1 DEF Next
  <2>2. CASE Page(tab)
    BY <2>2, BeginStep, ResumeStep, DecideStep, FinishStep, CloseStep DEF Page
  <2>3. CASE Server(tab)
    BY <2>3, AlreadyReportedStep, MeasureStep, RefusedStep, SaveResultStep, ReadClaimStep,
       SaveClaimStep DEF Server
  <2>4. CASE Fault(tab)
    BY <2>4, DecideStep, CommitLostStep, RefusedStep, ReloadStep DEF Fault
  <2> QED
    BY <2>1, <2>2, <2>3, <2>4
<1>2. CASE UNCHANGED vars
  BY <1>2, StutterStep
<1> QED
  BY <1>1, <1>2

LEMMA InvariantHolds == Spec => []IInv
BY InitInv, NextInv, PTL DEF Spec

-----------------------------------------------------------------------------
(* The properties.                                                         *)

LEMMA MeasuresTheDrill == IInv => ResultMeasuresTheDrill
<1> SUFFICES ASSUME IInv PROVE ResultMeasuresTheDrill
  OBVIOUS
<1>1. Cardinality(results) = Cardinality(Reported)
  <2> DEFINE f == [d \in Reported |-> ResultOf(d)]
  <2>1. IsFiniteSet(Reported)
    BY ResultedDrills
  <2>2. \A r \in results : r.drill \in Reported /\ ResultOf(r.drill) = r
    BY DEF Reported, ResultOf, IInv, ResultsFit
  <2>3. \A d \in Reported : ResultOf(d) \in results /\ ResultOf(d).drill = d
    BY <2>2 DEF Reported
  <2>4. f \in Bijection(Reported, results)
    BY <2>2, <2>3 DEF Bijection, Injection, IsInjective, Surjection
  <2> HIDE DEF f
  <2>5. ExistsBijection(Reported, results)
    BY <2>4 DEF ExistsBijection
  <2> QED
    BY <2>1, <2>5, FS_Bijection
<1>2. ASSUME NEW r \in results
      PROVE  /\ Cardinality(r.decisions) = Len(fens[r.drill])
             /\ Answers(r.decisions) = BoardsOf(r.drill)
             /\ Measured(r.decisions \cap Bound(r.drill)) = r.decisions
  <2>1. Measures(r)
    BY DEF IInv, ResultsFit
  <2>2. Measured(r.decisions \cap Bound(r.drill)) = r.decisions
    BY <2>1 DEF Measures, Measured
  <2> QED
    BY <2>1, <2>2 DEF Measures
<1> QED
  BY <1>1, <1>2 DEF ResultMeasuresTheDrill, IInv

LEMMA RecordHasIt == IInv => VerdictIsOnRecord
<1> SUFFICES ASSUME IInv, NEW tab \in Tabs, page[tab].at = "verdict"
             PROVE  \E known \in SUBSET results : \E r \in known :
                      /\ r.drill = page[tab].drill
                      /\ r.observed = page[tab].observed
                      /\ page[tab].grade = Evaluate(known)
  BY DEF VerdictIsOnRecord
<1> QED
  BY TabTypes DEF PageFits, Told

LEMMA DenialRefutes == IInv => OneDenialRefutes
<1> SUFFICES ASSUME IInv, settles, NEW r \in results, ~r.observed
             PROVE  Evaluate(results) = "refuted"
  BY DEF OneDenialRefutes
<1>1. Reports(results)
  BY ResultsReport
<1> QED
  BY <1>1, OneDenialIsEnough

LEMMA BoardIsOpen == IInv => ServesAnOpenBoard
<1> SUFFICES ASSUME IInv, NEW tab \in Tabs, page[tab].at = "deciding"
             PROVE  LET d == page[tab].drill
                        had == Answers(page[tab].decisions)
                    IN  had = BoardsOf(d) \/ fens[d][page[tab].index + 1] \notin had
  BY DEF ServesAnOpenBoard
<1>1. PICK d, index, had : /\ d = page[tab].drill /\ index = page[tab].index
                           /\ had = Answers(page[tab].decisions)
  OBVIOUS
<1>2. d \in Stored /\ index \in Nat /\ InPlace(d, index, page[tab].decisions)
  BY <1>1, TabTypes, DrillAssumption DEF PageFits, Carries, PageStates
<1>3. index < Len(fens[d]) /\ had \in {Before(d, index), BoardsOf(d)}
  BY <1>1, <1>2 DEF InPlace
<1>4. CASE had = Before(d, index)
  <2>1. ASSUME NEW i \in 1..index PROVE fens[d][i] # fens[d][index + 1]
    <3>1. Len(fens[d]) \in Nat
      <4>1. fens[d] \in Seq(Boards)
        BY <1>2 DEF IInv, TypeOK, Stored
      <4> QED
        BY <4>1
    <3>2. i \in 1..Len(fens[d]) /\ index + 1 \in 1..Len(fens[d]) /\ i # index + 1
      BY <1>2, <1>3, <3>1
    <3> QED
      BY <1>2, <3>2 DEF IInv, DrillsFit
  <2> QED
    BY <1>1, <1>4, <2>1 DEF Before
<1> QED
  BY <1>1, <1>3, <1>4

\* For any tabs, boards, lengths and bounds a drill has one result at most, and
\* that result measures the drill that was registered: one decision for each of
\* its positions, taken in it and with a stored verdict, whatever was lost,
\* reloaded or resumed on the way (finishDrill, use-drill-run.ts).
THEOREM ResultsMeasureTheirDrill == Spec => []ResultMeasuresTheDrill
BY InvariantHolds, MeasuresTheDrill, PTL

\* For any tabs and bounds what a player is told of a drill is on the record,
\* and the claim they are shown was graded with it, whichever tab reports in
\* between (gradeClaimFromRecord).
THEOREM VerdictsAreOnRecord == Spec => []VerdictIsOnRecord
BY InvariantHolds, RecordHasIt, PTL

\* Where the protocol settles the claim one drill that denied it refutes it for
\* good, whenever it was reported and however many drills there are: the fold
\* gives the same in every order (applyDrillResult, evaluateClaim).
THEOREM OneDenialAlwaysRefutes == Spec => []OneDenialRefutes
BY InvariantHolds, DenialRefutes, PTL

\* For any tabs and bounds no tab serves a board it has the player's decision
\* for, unless it has one for every board of the drill (restoreDrillRun,
\* advanceDrill).
THEOREM BoardsAreOpen == Spec => []ServesAnOpenBoard
BY InvariantHolds, BoardIsOpen, PTL
=============================================================================
