----------------------------- MODULE DrillClaim -----------------------------
(***************************************************************************)
(* The drills of one claim: several tabs of the page (use-drill-run.ts)    *)
(* over the record service and the server's store.  What a page does with  *)
(* an answer is taken together with the statement it answers, because no   *)
(* other tab can see the difference; statements of one call that another   *)
(* tab can come between are steps of their own.  The statistics of a drill *)
(* are abstracted to their outcome: it confirms, it denies, or it cannot   *)
(* be read.  Committing a decision and storing its verdict is              *)
(* RecordReveal's subject and one step here.                               *)
(***************************************************************************)
EXTENDS Naturals, Sequences, FiniteSets

CONSTANTS Tabs,
          Boards,          \* positions of the loaded game, in its order
          MaxLength,       \* most positions of a drill
          MaxDrills,       \* bound: drills registered
          MaxDecisions,    \* bound: decisions taken in them
          MaxFaults        \* bound: lost answers, failures, reloads

ASSUME DrillAssumption == /\ Boards \subseteq Nat
                          /\ MaxLength \in Nat \ {0}
                          /\ MaxDrills \in Nat
                          /\ MaxDecisions \in Nat
                          /\ MaxFaults \in Nat

Drills == 1..MaxDrills
Decisions == 1..MaxDecisions

VARIABLES
  settles,       \* whether a position drill may settle a claim of this kind
  grade,         \* claims.grade
  fens,          \* drills: the positions, <<>> if not there
  abandoned,     \* drills.abandoned_at
  results,       \* drill_results
  decided,       \* the decisions taken: drill, board, whether the verdict is stored
  page,          \* the tabs
  call,          \* the call each has on the server
  faults

tables == <<settles, grade, fens, abandoned, results, decided>>
vars == <<tables, page, call, faults>>

Grades == {"hypothesis", "replicated", "refuted"}
Results == [drill : 0..MaxDrills, at : Nat, observed : BOOLEAN, decisions : SUBSET Decisions]
Reported == {r.drill : r \in results}
NoResult == [drill |-> 0, at |-> 0, observed |-> FALSE, decisions |-> {}]

NoPage == [at |-> "record", drill |-> 0, index |-> 0, decisions |-> {},
           observed |-> FALSE, grade |-> "hypothesis"]
NoCall == [pc |-> "none", drill |-> 0, decisions |-> {},
           result |-> NoResult, grade |-> "hypothesis"]

DecisionStates == [drill : Drills, board : Boards, measured : BOOLEAN]
PageStates == [at : {"record", "deciding", "answered", "reporting", "retrying", "verdict"},
               drill : 0..MaxDrills, index : 0..MaxLength, decisions : SUBSET Decisions,
               observed : BOOLEAN, grade : Grades]
CallStates == [pc : {"none", "measure", "report", "results", "grade"}, drill : 0..MaxDrills,
               decisions : SUBSET Decisions, result : Results, grade : Grades]

TypeOK ==
  /\ settles \in BOOLEAN
  /\ grade \in Grades
  /\ fens \in [Drills -> Seq(Boards)]
  /\ abandoned \in SUBSET Drills
  /\ results \subseteq Results
  /\ decided \in Seq(DecisionStates)
  /\ page \in [Tabs -> PageStates]
  /\ call \in [Tabs -> CallStates]
  /\ faults \in 0..MaxFaults

Init ==
  /\ settles \in BOOLEAN
  /\ grade = "hypothesis"
  /\ fens = [d \in Drills |-> <<>>]
  /\ abandoned = {}
  /\ results = {}
  /\ decided = <<>>
  /\ page = [tab \in Tabs |-> NoPage]
  /\ call = [tab \in Tabs |-> NoCall]
  /\ faults = 0

-----------------------------------------------------------------------------
(* The record.                                                             *)

Stored == {d \in Drills : fens[d] # <<>>}
ResultOf(d) == CHOOSE r \in results : r.drill = d
BoardsOf(d) == {fens[d][i] : i \in DOMAIN fens[d]}
\* The decisions that carry the drill's id, and the boards they answer.
Bound(d) == {i \in DOMAIN decided : decided[i].drill = d}
Answers(decisions) == {decided[i].board : i \in decisions}
Measured(decisions) == {i \in decisions : decided[i].measured}

\* MUTANT: the last drill has the last word.
ApplyLast(was, result) == IF result.observed THEN "replicated" ELSE "refuted"

\* applyDrillResult: a refutation is terminal where the protocol settles the
\* claim; otherwise a drill that survived replicates it and one that did not
\* refutes it.
Apply(was, result) ==
  IF was = "refuted" /\ settles THEN was
  ELSE IF result.observed THEN "replicated" ELSE "refuted"

\* evaluateClaim: folded from the hypothesis, in the order of the reports.
Earlier(r, s) == r.at < s.at \/ (r.at = s.at /\ r.drill < s.drill)
Last(some) == CHOOSE r \in some : \A s \in some \ {r} : Earlier(s, r)
Evaluate(known) ==
  LET folded[some \in SUBSET known] ==
        IF some = {} THEN "hypothesis" ELSE Apply(folded[some \ {Last(some)}], Last(some))
  IN  folded[known]

-----------------------------------------------------------------------------
(* The page.                                                               *)

\* The first boards of a set, in their order.
FirstOf(list, boards) ==
  \A i \in DOMAIN list : /\ \A j \in DOMAIN list : i < j => list[i] < list[j]
                         /\ \A b \in boards : b < list[i] => \E j \in DOMAIN list : list[j] = b

\* beginDrill: a refuted claim is not tested again; the positions are the first
\* boards without a decision of the game the page has loaded, which may stop
\* early; and the drill is on the record before its first position is shown.
\* (A drill has five to eight positions; here, one to MaxLength.)
Begin(tab) ==
  /\ page[tab].at = "record"
  /\ grade # "refuted"
  /\ Stored # Drills
  /\ LET d == Cardinality(Stored) + 1
         fresh == Boards \ Answers(DOMAIN decided)
     IN  \E n \in 1..MaxLength : \E list \in [1..n -> fresh] :
           /\ FirstOf(list, fresh)
           /\ fens' = [fens EXCEPT ![d] = list]
           /\ page' = [page EXCEPT ![tab] = [NoPage EXCEPT !.at = "deciding", !.drill = d]]
  /\ UNCHANGED <<settles, grade, abandoned, results, decided, call, faults>>

\* MUTANT: the drill is taken up at its first board.
CursorAtStart(d) == 0

\* The first board without an answer, and the last one if there is none.
Open(d, i) == fens[d][i + 1] \notin Answers(Bound(d)) \/ i + 1 = Len(fens[d])
Cursor(d) == CHOOSE i \in 0..(Len(fens[d]) - 1) : Open(d, i) /\ \A j \in 0..(i - 1) : ~Open(d, j)

\* resumeDrill and restoreDrillRun, from a list that may be stale: any drill
\* that was ever there.  One that was closed, or that cannot tell what was
\* answered, is refused; another goes on with the decisions bound to it.
Resume(tab) ==
  /\ page[tab].at = "record"
  /\ \E d \in Stored \ abandoned :
       /\ Cardinality(Bound(d)) = Cardinality(Answers(Bound(d)))
       /\ page' = [page EXCEPT ![tab] = [NoPage EXCEPT !.at = "deciding", !.drill = d,
                     !.index = Cursor(d), !.decisions = Bound(d)]]
  /\ UNCHANGED <<tables, call, faults>>

\* A decision on the board shown is stored under the drill's id.
Commits(tab, measured) ==
  /\ page[tab].at = "deciding"
  /\ Len(decided) < MaxDecisions
  /\ decided' = Append(decided, [drill |-> page[tab].drill,
                                 board |-> fens[page[tab].drill][page[tab].index + 1],
                                 measured |-> measured])
  /\ UNCHANGED <<settles, grade, fens, abandoned, results, call>>

IsLast(tab) == page[tab].index + 1 = Len(fens[page[tab].drill])

\* runReveal puts the decision on the list before the engine is asked, and
\* advanceDrill leads on to the next position, or to the report.
Listed(tab) ==
  LET shown == page[tab]
  IN  page' = [page EXCEPT ![tab] =
        [shown EXCEPT !.decisions = shown.decisions \cup {Len(decided')},
                      !.index = IF IsLast(tab) THEN shown.index ELSE shown.index + 1,
                      !.at = IF IsLast(tab) THEN "answered" ELSE shown.at]]

Decide(tab) ==
  /\ Commits(tab, TRUE)
  /\ Listed(tab)
  /\ UNCHANGED faults

\* The report carries the list the page kept; recorded_at is taken as the
\* request comes in, after every report that is there or on its way.
Latest(times) == CHOOSE t \in times : \A u \in times : u <= t
Times(tab) == {0} \cup {r.at : r \in results} \cup {call[other].result.at : other \in Tabs \ {tab}}
Report(tab) ==
  [NoCall EXCEPT !.pc = "measure", !.drill = page[tab].drill, !.decisions = page[tab].decisions,
                 !.result = [NoResult EXCEPT !.at = 1 + Latest(Times(tab))]]

\* A tab has one call at a time; one it gave up may still be on the server.
Finish(tab) ==
  /\ page[tab].at = "answered"
  /\ call[tab] = NoCall
  /\ call' = [call EXCEPT ![tab] = Report(tab)]
  /\ page' = [page EXCEPT ![tab].at = "reporting"]
  /\ UNCHANGED <<tables, faults>>

\* The call fails.  retryOnce sends the report once more; nothing on the screen
\* leads on from one that failed twice, and the player reloads.
Refuse(tab) ==
  LET again == page[tab].at = "reporting"
  IN  /\ call' = [call EXCEPT ![tab] = IF again THEN Report(tab) ELSE NoCall]
      /\ page' = [page EXCEPT ![tab] = CASE again -> [@ EXCEPT !.at = "retrying"]
                                         [] @.at = "retrying" -> NoPage
                                         [] OTHER -> @]

\* closeDrill: the record is told (abandonDrill: not a drill that is reported),
\* and the page does not wait for it.  A closing that lands late is that of
\* another tab in the same drill: finishDrill does not look at abandoned_at.
Close(tab) ==
  /\ page[tab].at \in {"deciding", "answered", "verdict"}
  /\ page' = [page EXCEPT ![tab] = NoPage]
  /\ abandoned' = abandoned \cup ({page[tab].drill} \ Reported)
  /\ UNCHANGED <<settles, grade, fens, results, decided, call, faults>>

-----------------------------------------------------------------------------
(* The server.                                                             *)

Go(tab, what) == call' = [call EXCEPT ![tab] = what]

\* finishDrill: a drill that is already reported is only graded again, with
\* what was reported first.
AlreadyReported(tab) ==
  /\ call[tab].pc = "measure"
  /\ call[tab].drill \in Reported
  /\ Go(tab, [NoCall EXCEPT !.pc = "results", !.drill = call[tab].drill,
                            !.result = ResultOf(call[tab].drill)])
  /\ UNCHANGED <<tables, page, faults>>

\* MUTANT: whatever survived is measured.
CompleteSurvivors(d, scored) == scored # {}

\* As many decisions as positions, and a position for each of them.
Complete(d, scored) ==
  Cardinality(scored) = Len(fens[d]) /\ Answers(scored) = BoardsOf(d)

\* The decisions that have a verdict are measured against the rest of the
\* record ...
Measure(tab) ==
  LET d == call[tab].drill
      scored == Measured(call[tab].decisions)
  IN  /\ call[tab].pc = "measure"
      /\ d \notin Reported
      /\ Complete(d, scored)
      /\ \E observed \in BOOLEAN :
           Go(tab, [NoCall EXCEPT !.pc = "report", !.drill = d,
                      !.result = [drill |-> d, at |-> call[tab].result.at,
                                  observed |-> observed, decisions |-> scored]])
      /\ UNCHANGED <<tables, page, faults>>

\* ... unless a position is missing, a decision is out of the claim's scope, or
\* they do not vary.
MeasureRefused(tab) ==
  /\ call[tab].pc = "measure"
  /\ call[tab].drill \notin Reported
  /\ Refuse(tab)
  /\ UNCHANGED <<tables, faults>>

\* MUTANT: a second report is dropped without a word.
InsertIgnored(tab) ==
  results' = IF call[tab].drill \in Reported THEN results ELSE results \cup {call[tab].result}

\* saveDrillResult: drill_results is keyed by the drill.
Insert(tab) ==
  /\ call[tab].drill \notin Reported
  /\ results' = results \cup {call[tab].result}

SaveResult(tab) ==
  /\ call[tab].pc = "report"
  /\ Insert(tab)
  /\ Go(tab, [call[tab] EXCEPT !.pc = "results"])
  /\ UNCHANGED <<settles, grade, fens, abandoned, decided, page, faults>>

SaveResultRefused(tab) ==
  /\ call[tab].pc = "report"
  /\ call[tab].drill \in Reported
  /\ Refuse(tab)
  /\ UNCHANGED <<tables, faults>>

\* gradeClaimFromRecord: the claim is read again, with every result ...
ReadClaim(tab) ==
  /\ call[tab].pc = "results"
  /\ Go(tab, [call[tab] EXCEPT !.pc = "grade", !.grade = Evaluate(results)])
  /\ UNCHANGED <<tables, page, faults>>

\* An answer nobody waits for any more is dropped.
Waits(tab) == page[tab].at \in {"reporting", "retrying"}

\* ... and the grade they add up to is written, whatever is stored by now.
SaveClaim(tab) ==
  /\ call[tab].pc = "grade"
  /\ grade' = call[tab].grade
  /\ call' = [call EXCEPT ![tab] = NoCall]
  /\ page' = [page EXCEPT ![tab] =
       IF Waits(tab)
         THEN [NoPage EXCEPT !.at = "verdict", !.drill = call[tab].drill,
                 !.observed = call[tab].result.observed, !.grade = grade']
         ELSE @]
  /\ UNCHANGED <<settles, fens, abandoned, results, decided, faults>>

-----------------------------------------------------------------------------
(* What goes wrong.                                                        *)

Fails == faults < MaxFaults /\ faults' = faults + 1

\* The verdict is not stored; the way on leads to the next position all the
\* same.
RevealFails(tab) == Fails /\ Commits(tab, FALSE) /\ Listed(tab)

\* The answer to the commit is lost: the page believes nothing was stored.
CommitLost(tab) == Fails /\ Commits(tab, FALSE) /\ UNCHANGED page

\* The grade is written and the answer is lost.
AnswerLost(tab) ==
  /\ call[tab].pc = "grade"
  /\ Fails
  /\ grade' = call[tab].grade
  /\ Refuse(tab)
  /\ UNCHANGED <<settles, fens, abandoned, results, decided>>

\* The tab is closed in the middle of something, or its closing of a drill lost.
Reload(tab) ==
  /\ page[tab].at # "record"
  /\ Fails
  /\ page' = [page EXCEPT ![tab] = NoPage]
  /\ UNCHANGED <<tables, call>>

\* A statement fails or the process dies; what was written stays.
Dies(tab) ==
  /\ call[tab] # NoCall
  /\ Fails
  /\ Refuse(tab)
  /\ UNCHANGED <<tables>>

-----------------------------------------------------------------------------
Page(tab) ==
  \/ Begin(tab) \/ Resume(tab) \/ Decide(tab)
  \/ Finish(tab) \/ Close(tab)

Server(tab) ==
  \/ AlreadyReported(tab) \/ Measure(tab) \/ MeasureRefused(tab)
  \/ SaveResult(tab) \/ SaveResultRefused(tab) \/ ReadClaim(tab) \/ SaveClaim(tab)

Fault(tab) == RevealFails(tab) \/ CommitLost(tab) \/ AnswerLost(tab) \/ Reload(tab) \/ Dies(tab)

Next == \E tab \in Tabs : Page(tab) \/ Server(tab) \/ Fault(tab)

Spec == Init /\ [][Next]_vars

-----------------------------------------------------------------------------
(* Properties.                                                             *)

\* The state has its shape, a drill has one result at most, and that result
\* measures the test that was registered: one decision for each of
\* its positions, taken inside the drill, with a stored verdict -- whatever
\* was lost, reloaded or resumed on the way, in whichever tab (finishDrill).
ResultMeasuresTheDrill ==
  /\ TypeOK
  /\ Cardinality(results) = Cardinality(Reported)
  /\ \A r \in results : /\ Cardinality(r.decisions) = Len(fens[r.drill])
                        /\ Answers(r.decisions) = BoardsOf(r.drill)
                        /\ Measured(r.decisions \cap Bound(r.drill)) = r.decisions

\* What a player is told of a drill is what the record keeps of it, and the
\* claim they are shown was graded with it, also when another tab reports the
\* same drill, or another one, in between (finishDrill, gradeClaimFromRecord).
VerdictIsOnRecord ==
  \A tab \in Tabs : page[tab].at = "verdict" =>
    \E known \in SUBSET results : \E r \in known :
      /\ r.drill = page[tab].drill
      /\ r.observed = page[tab].observed
      /\ page[tab].grade = Evaluate(known)

\* Where the protocol settles the claim, one drill that denied it is enough
\* and for good, in whatever order the reports came in (evaluateClaim).
OneDenialRefutes ==
  settles /\ (\E r \in results : ~r.observed) => Evaluate(results) = "refuted"

\* A tab never serves a board it already has the player's decision for, unless
\* the drill has no other (restoreDrillRun, advanceDrill).
ServesAnOpenBoard ==
  \A tab \in Tabs : page[tab].at = "deciding" =>
    LET d == page[tab].drill
        had == Answers(page[tab].decisions)
    IN  had = BoardsOf(d) \/ fens[d][page[tab].index + 1] \notin had
=============================================================================
