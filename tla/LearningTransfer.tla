-------------------------- MODULE LearningTransfer --------------------------
(***************************************************************************)
(* The transfer tests of one learning rule: several tabs of the page       *)
(* (Home.tsx) over the record service and the server's store, one database *)
(* statement per step.  Committing a decision and storing its verdict is   *)
(* RecordReveal's subject and one step here.                               *)
(***************************************************************************)
EXTENDS LearningRule

LOCAL INSTANCE Functions

CONSTANTS Tabs,
          Boards,          \* positions a test may be drawn from
          PositionCount,   \* TRANSFER_POSITION_COUNT
          Successes,       \* TRANSFER_MINIMUM_SUCCESSES
          MaxTransfers,    \* bound: preregistered transfers
          MaxDecisions,    \* bound: decisions taken in them
          MaxFaults,       \* bound: lost answers, failures, reloads
          LastDay          \* bound: days that pass

ASSUME TransferAssumption == /\ PositionCount \in Nat \ {0}
                             /\ Successes \in 0..PositionCount
                             /\ MaxTransfers \in Nat
                             /\ MaxDecisions \in Nat
                             /\ MaxFaults \in Nat
                             /\ LastDay \in Nat /\ Created <= LastDay

Transfers == 1..MaxTransfers
Decisions == 1..MaxDecisions
Days == Created..LastDay

VARIABLES
  \* the tables
  rule,          \* the grade, step and due date stored with the rule
  fens,          \* learning_transfers: the positions, <<>> if not there
  since,         \* started_at, as far as it tells two of them apart
  obs,           \* learning_transfer_observations: decisions, by position
  results,       \* learning_transfer_results
  decided,       \* the decisions taken: board, and whether it was a success
  \* the tabs, the call each has on the server, and the world
  page, call, today, faults

tables == <<rule, fens, since, obs, results, decided>>
vars == <<tables, page, call, today, faults>>

Results == [transfer : Transfers, day : Days, held : BOOLEAN]
Rules == [grade : {"hypothesis", "replicated", "refuted", "retired"},
          step : 0..Ladder, due : Nat]

NoPage == [at |-> "queue", transfer |-> 0, index |-> 0, count |-> 0]
\* No call, or one that is over.
NoCall == [op |-> "none", pc |-> "done", transfer |-> 0, decision |-> 0,
           observed |-> 0, results |-> {}, graded |-> Authored, boards |-> <<>>,
           day |-> Created]

Awaiting == {"beginning", "observing", "reporting", "retiring"}
Over == {"done", "refused", "failed"}

PageStates ==
  [at : Awaiting \cup {"queue", "briefing", "deciding", "revealed", "done"},
   transfer : 0..MaxTransfers, index : 0..PositionCount, count : 0..PositionCount]

CallStates ==
  [op : {"none", "begin", "observe", "finish", "retire"},
   pc : Over \cup {"results", "rule", "guard", "upsert", "open", "observed", "decided",
                   "resumed", "select", "insert", "slots", "write", "count", "priors", "report"},
   transfer : 0..MaxTransfers, decision : 0..MaxDecisions, observed : 0..PositionCount,
   results : SUBSET Results, graded : Rules, boards : Seq(Boards), day : Days]

TypeOK ==
  /\ rule \in Rules
  /\ fens \in [Transfers -> Seq(Boards)]
  /\ since \in [Transfers -> Days]
  /\ obs \in [Transfers -> Seq(Decisions)]
  /\ results \subseteq Results
  /\ decided \in Seq([board : Boards, sound : BOOLEAN])
  /\ page \in [Tabs -> PageStates]
  /\ call \in [Tabs -> CallStates]
  /\ today \in Days
  /\ faults \in 0..MaxFaults

Init ==
  /\ rule = Authored
  /\ fens = [t \in Transfers |-> <<>>]
  /\ since = [t \in Transfers |-> Created]
  /\ obs = [t \in Transfers |-> <<>>]
  /\ results = {}
  /\ decided = <<>>
  /\ page = [tab \in Tabs |-> NoPage]
  /\ call = [tab \in Tabs |-> NoCall]
  /\ today = Created
  /\ faults = 0

-----------------------------------------------------------------------------
(* The record.                                                             *)

Started == {t \in Transfers : fens[t] # <<>>}
Reported == {r.transfer : r \in results}
Open == Started \ Reported
Newest == IF Open = {} THEN {0} ELSE {t \in Open : \A u \in Open : since[u] <= since[t]}
BoardOf(d) == decided[d].board
DecidedBoards == {decided[d].board : d \in DOMAIN decided}
BoardsOf(t) == {fens[t][i] : i \in DOMAIN fens[t]}
DecisionsOf(t) == {obs[t][i] : i \in DOMAIN obs[t]}

\* findIndex over the transfer's positions (its boards are distinct).
SlotOf(t, d) == CHOOSE i \in DOMAIN fens[t] : fens[t][i] = BoardOf(d)

\* The condition written down in advance, on the decisions recorded.
Held(t) == Cardinality({i \in DOMAIN obs[t] : decided[obs[t][i]].sound}) >= Successes

-----------------------------------------------------------------------------
(* The page.                                                               *)

Shows(tab, at) == page' = [page EXCEPT ![tab].at = at]

\* A tab has one call at a time; one it gave up may still be on the server.
Calls(tab, what) ==
  /\ call[tab].pc \in Over
  /\ call' = [call EXCEPT ![tab] = what]

Heard(tab) == call' = [call EXCEPT ![tab] = NoCall]

Begin(tab) ==
  /\ page[tab].at = "queue"
  /\ Shows(tab, "beginning")
  /\ Calls(tab, [NoCall EXCEPT !.op = "begin", !.pc = "results", !.day = today])
  /\ UNCHANGED <<tables, today, faults>>

\* beginLearningTransfer in Home.tsx: resume where the record is.
BeginHeard(tab) ==
  /\ page[tab].at = "beginning"
  /\ call[tab].pc = "done"
  /\ page' = [page EXCEPT ![tab] =
       IF call[tab].transfer = 0 THEN NoPage
       ELSE [at |-> "briefing", transfer |-> call[tab].transfer,
             index |-> call[tab].observed, count |-> call[tab].observed]]
  /\ Heard(tab)
  /\ UNCHANGED <<tables, today, faults>>

StartRun(tab) ==
  /\ page[tab].at = "briefing"
  /\ Shows(tab, "deciding")
  /\ UNCHANGED <<tables, call, today, faults>>

\* The board of the index is decided; past the last one the page shows the
\* opening position, which commitDecision refuses for this transfer.
Commits(tab, sound) ==
  /\ page[tab].at = "deciding"
  /\ page[tab].index < PositionCount
  /\ Len(decided) < MaxDecisions
  /\ decided' = Append(decided, [board |-> fens[page[tab].transfer][page[tab].index + 1],
                                 sound |-> sound])

\* Its verdict is stored, and the observation is sent.
Decide(tab) ==
  /\ \E sound \in BOOLEAN : Commits(tab, sound)
  /\ Shows(tab, "observing")
  /\ Calls(tab, [NoCall EXCEPT !.op = "observe", !.pc = "slots",
                               !.transfer = page[tab].transfer,
                               !.decision = Len(decided'), !.day = today])
  /\ UNCHANGED <<rule, fens, since, obs, results, today, faults>>

\* The verdict is not stored: the decision stays, the position is not counted.
RevealFails(tab) ==
  /\ faults < MaxFaults
  /\ Commits(tab, FALSE)
  /\ faults' = faults + 1
  /\ Shows(tab, "revealed")
  /\ UNCHANGED <<rule, fens, since, obs, results, call, today>>

ObserveHeard(tab) ==
  /\ page[tab].at = "observing"
  /\ call[tab].pc = "done"
  /\ page' = [page EXCEPT ![tab].at = "revealed", ![tab].count = @ + 1]
  /\ Heard(tab)
  /\ UNCHANGED <<tables, today, faults>>

\* advanceLearningTransfer
Counted(tab) == page[tab].count = page[tab].index + 1

NextPosition(tab) ==
  /\ page[tab].at = "revealed"
  /\ Counted(tab)
  /\ page[tab].index + 1 < PositionCount
  /\ page' = [page EXCEPT ![tab].at = "deciding", ![tab].index = @ + 1]
  /\ UNCHANGED <<tables, call, today, faults>>

Finish(tab) ==
  /\ page[tab].at = "revealed"
  /\ Counted(tab)
  /\ page[tab].index + 1 = PositionCount
  /\ Shows(tab, "reporting")
  /\ Calls(tab, [NoCall EXCEPT !.op = "finish", !.pc = "count",
                               !.transfer = page[tab].transfer, !.day = today])
  /\ UNCHANGED <<tables, today, faults>>

FinishHeard(tab) ==
  /\ page[tab].at = "reporting"
  /\ call[tab].pc = "done"
  /\ Shows(tab, "done")
  /\ Heard(tab)
  /\ UNCHANGED <<tables, today, faults>>

\* The archive button of the queue.
Retire(tab) ==
  /\ page[tab].at = "queue"
  /\ rule.grade # "retired"
  /\ Shows(tab, "retiring")
  /\ Calls(tab, [NoCall EXCEPT !.op = "retire", !.pc = "rule", !.day = today])
  /\ UNCHANGED <<tables, today, faults>>

RetireHeard(tab) ==
  /\ page[tab].at = "retiring"
  /\ call[tab].pc \in Over
  /\ page' = [page EXCEPT ![tab] = NoPage]
  /\ Heard(tab)
  /\ UNCHANGED <<tables, today, faults>>

\* What the page does when its call failed: a refused begin leaves the queue,
\* an observation that was not stored leaves the count, a report may be tried
\* again.
AfterError(tab) ==
  page' = [page EXCEPT ![tab] =
    IF page[tab].at = "beginning" THEN NoPage ELSE [@ EXCEPT !.at = "revealed"]]

CallRefused(tab) ==
  /\ page[tab].at \in {"beginning", "observing", "reporting"}
  /\ call[tab].pc \in {"refused", "failed"}
  /\ AfterError(tab)
  /\ Heard(tab)
  /\ UNCHANGED <<tables, today, faults>>

\* The answer is lost; the server carries on.
AnswerLost(tab) ==
  /\ page[tab].at \in {"beginning", "observing", "reporting"}
  /\ faults < MaxFaults
  /\ faults' = faults + 1
  /\ AfterError(tab)
  /\ UNCHANGED <<tables, call, today>>

\* Nothing on the screen leads on: the position was not counted, or the run
\* was resumed past its last one.
Stuck(tab) == \/ page[tab].at = "revealed" /\ ~Counted(tab)
              \/ page[tab].at = "deciding" /\ page[tab].index = PositionCount

\* closeLearningTransfer after the report, or a reload when nothing leads on.
Leave(tab) ==
  /\ page[tab].at = "done" \/ Stuck(tab)
  /\ page' = [page EXCEPT ![tab] = NoPage]
  /\ UNCHANGED <<tables, call, today, faults>>

\* The tab is closed in the middle of something.
Reload(tab) ==
  /\ page[tab].at \notin {"queue", "done"}
  /\ faults < MaxFaults
  /\ faults' = faults + 1
  /\ page' = [page EXCEPT ![tab] = NoPage]
  /\ UNCHANGED <<tables, call, today>>

Tick == /\ today < LastDay
        /\ today' = today + 1
        /\ UNCHANGED <<tables, page, call, faults>>

-----------------------------------------------------------------------------
(* The server.                                                             *)

At(tab, op, pc) == call[tab].op \in op /\ call[tab].pc = pc
Go(tab, pc) == call' = [call EXCEPT ![tab].pc = pc]
Reply(tab, pc) == call' = [call EXCEPT ![tab] = [NoCall EXCEPT !.pc = pc]]
ReplyWith(tab, t, n) ==
  call' = [call EXCEPT ![tab] = [NoCall EXCEPT !.transfer = t, !.observed = n]]

\* A begin goes on once the rule is graded; the other calls return.
AfterGrading(tab, graded) ==
  IF call[tab].op = "begin"
    THEN call' = [call EXCEPT ![tab] = [@ EXCEPT !.graded = graded, !.pc = "open"]]
    ELSE Reply(tab, "done")

\* gradeFromRecord: the results first ...
ReadResults(tab) ==
  /\ At(tab, {"begin", "finish"}, "results")
  /\ call' = [call EXCEPT ![tab] = [@ EXCEPT !.results = results, !.pc = "rule"]]
  /\ UNCHANGED <<tables, page, today, faults>>

\* MUTANT: a result is accumulated onto the stored grade.
NewGradeAccumulated(tab) ==
  LET own == {r \in call[tab].results : r.transfer = call[tab].transfer}
  IN  IF call[tab].op = "retire" THEN Retired(rule)
      ELSE IF rule.grade = "retired" \/ own = {} THEN rule
      ELSE LET r == CHOOSE r \in own : TRUE
           IN  Apply(rule, call[tab].results \ {r}, r)

\* MUTANT: begin decides on the grade as it is stored.
NewGradeStored(tab) == IF call[tab].op = "retire" THEN Retired(rule)
                       ELSE IF call[tab].op = "begin" THEN rule
                       ELSE GradeLearningRule(rule, call[tab].results)

\* The grade a call is going to write.
NewGrade(tab) == IF call[tab].op = "retire" THEN Retired(rule)
                 ELSE GradeLearningRule(rule, call[tab].results)

\* ... then the rule; it is written only when the fold changes it.
ReadRule(tab) ==
  /\ At(tab, {"begin", "finish", "retire"}, "rule")
  /\ LET graded == NewGrade(tab)
     IN  IF graded = rule /\ call[tab].op # "retire"
           THEN AfterGrading(tab, graded)
           ELSE call' = [call EXCEPT ![tab] = [@ EXCEPT !.graded = graded, !.pc = "guard"]]
  /\ UNCHANGED <<tables, page, today, faults>>

\* saveLearningRule: the stored row is read and its guard decided ...
GuardRule(tab) ==
  /\ At(tab, {"begin", "finish", "retire"}, "guard")
  /\ IF rule.grade = "retired" /\ call[tab].graded.grade # "retired"
       THEN Reply(tab, "failed") ELSE Go(tab, "upsert")
  /\ UNCHANGED <<tables, page, today, faults>>

\* ... and the row is updated, whatever has become of it.
UpsertRule(tab) ==
  /\ At(tab, {"begin", "finish", "retire"}, "upsert")
  /\ rule' = call[tab].graded
  /\ AfterGrading(tab, rule')
  /\ UNCHANGED <<fens, since, obs, results, decided, page, today, faults>>

\* getOpenLearningTransfer: the newest, and any one of several with the same
\* started_at.
LooksUp(tab) ==
  \E t \in Newest :
    call' = [call EXCEPT ![tab] = [@ EXCEPT !.transfer = t, !.pc = "observed"]]

\* beginLearningTransfer: a closed rule is not tested, not even by a transfer
\* in flight; otherwise the newest open transfer is looked up.
OpenTransfer(tab) ==
  /\ At(tab, {"begin"}, "open")
  /\ IF call[tab].graded.grade \in {"refuted", "retired"}
       THEN Reply(tab, "done") ELSE LooksUp(tab)
  /\ UNCHANGED <<tables, page, today, faults>>

\* Its observations are counted; without an open transfer the rule has to be
\* due.
CountAnswers(tab) ==
  /\ At(tab, {"begin"}, "observed")
  /\ LET t == call[tab].transfer
         due == call[tab].graded.due
     IN  IF t # 0 THEN Go(tab, IF obs[t] = <<>> THEN "decided" ELSE "resumed")
         ELSE IF due # Never /\ due <= call[tab].day THEN Go(tab, "select")
         ELSE Reply(tab, "done")
  /\ UNCHANGED <<tables, page, today, faults>>

\* MUTANT: one decided board is enough to give a transfer up.
OrphanHasty(t) == BoardsOf(t) \cap DecidedBoards # {}

\* An open transfer that nobody began is an orphan when its boards are all
\* decided.
Orphan(t) == BoardsOf(t) \subseteq DecidedBoards

\* The orphan is replaced, whether the rule is due or not ...
JudgeOrphan(tab) ==
  /\ At(tab, {"begin"}, "decided")
  /\ Go(tab, IF Orphan(call[tab].transfer) THEN "select" ELSE "resumed")
  /\ UNCHANGED <<tables, page, today, faults>>

\* ... and any other open transfer resumed, with its observations counted anew.
Resume(tab) ==
  /\ At(tab, {"begin"}, "resumed")
  /\ ReplyWith(tab, call[tab].transfer, Len(obs[call[tab].transfer]))
  /\ UNCHANGED <<tables, page, today, faults>>

\* preregisterFreshTransfer: undecided boards out of what the page offers ...
SelectBoards(tab) ==
  /\ At(tab, {"begin"}, "select")
  /\ \E boards \in [1..PositionCount -> Boards \ DecidedBoards] :
       /\ IsInjective(boards)
       /\ call' = [call EXCEPT ![tab] = [@ EXCEPT !.boards = boards, !.pc = "insert"]]
  /\ UNCHANGED <<tables, page, today, faults>>

\* ... and the transfer is on the record before its first position is shown.
Preregister(tab) ==
  /\ At(tab, {"begin"}, "insert")
  /\ Cardinality(Started) < MaxTransfers
  /\ LET t == Cardinality(Started) + 1
     IN  /\ fens' = [fens EXCEPT ![t] = call[tab].boards]
         /\ since' = [since EXCEPT ![t] = call[tab].day]
         /\ ReplyWith(tab, t, 0)
  /\ UNCHANGED <<rule, obs, results, decided, page, today, faults>>

\* Too few boards are left (or the bound on transfers is reached).
NothingToTestOn(tab) ==
  /\ At(tab, {"begin"}, call[tab].pc)
  /\ \/ call[tab].pc = "select" /\ Cardinality(Boards \ DecidedBoards) < PositionCount
     \/ call[tab].pc \in {"select", "insert"} /\ Cardinality(Started) = MaxTransfers
  /\ Reply(tab, "done")
  /\ UNCHANGED <<tables, page, today, faults>>

\* MUTANT: the slot is the number of observations, whatever the board.
ReadSlotsCounted(tab) ==
  /\ At(tab, {"observe"}, "slots")
  /\ LET already == Len(obs[call[tab].transfer])
     IN  IF already = PositionCount THEN Reply(tab, "refused")
         ELSE call' = [call EXCEPT ![tab] = [@ EXCEPT !.observed = already, !.pc = "write"]]
  /\ UNCHANGED <<tables, page, today, faults>>

\* recordLearningTransferObservation: the slot comes from the board; one that
\* is already answered is a replay, one out of order is refused.
ReadSlots(tab) ==
  /\ At(tab, {"observe"}, "slots")
  /\ LET t == call[tab].transfer
         position == SlotOf(t, call[tab].decision) - 1
         already == Len(obs[t])
     IN  IF position < already THEN Reply(tab, "done")
         ELSE IF position > already THEN Reply(tab, "refused")
         ELSE call' = [call EXCEPT ![tab] = [@ EXCEPT !.observed = already, !.pc = "write"]]
  /\ UNCHANGED <<tables, page, today, faults>>

\* MUTANT: the insert without its key.
WriteObservationUnkeyed(tab) ==
  /\ At(tab, {"observe"}, "write")
  /\ obs' = [obs EXCEPT ![call[tab].transfer] = Append(@, call[tab].decision)]
  /\ Reply(tab, "done")
  /\ UNCHANGED <<rule, fens, since, results, decided, page, today, faults>>

\* The insert, under the key (transfer_id, position).
WriteObservation(tab) ==
  /\ At(tab, {"observe"}, "write")
  /\ LET t == call[tab].transfer
     IN  IF Len(obs[t]) = call[tab].observed
           THEN /\ obs' = [obs EXCEPT ![t] = Append(@, call[tab].decision)]
                /\ Reply(tab, "done")
           ELSE UNCHANGED obs /\ Reply(tab, "failed")
  /\ UNCHANGED <<rule, fens, since, results, decided, page, today, faults>>

\* finishLearningTransfer: every position has its observation ...
CountObservations(tab) ==
  /\ At(tab, {"finish"}, "count")
  /\ IF Len(obs[call[tab].transfer]) = PositionCount
       THEN Go(tab, "priors") ELSE Reply(tab, "refused")
  /\ UNCHANGED <<tables, page, today, faults>>

\* ... a transfer that is already reported is only graded again, and no
\* decision of an earlier report counts twice.
ReadPriors(tab) ==
  /\ At(tab, {"finish"}, "priors")
  /\ LET t == call[tab].transfer
     IN  IF t \in Reported THEN Go(tab, "results")
         ELSE IF \E u \in Reported : DecisionsOf(t) \cap DecisionsOf(u) # {}
           THEN Reply(tab, "refused")
         ELSE Go(tab, "report")
  /\ UNCHANGED <<tables, page, today, faults>>

\* saveLearningTransferResult: an insert under the transfer's key.
SaveResult(tab) ==
  /\ At(tab, {"finish"}, "report")
  /\ LET t == call[tab].transfer
     IN  IF t \notin Reported
           THEN /\ results' = results \cup {[transfer |-> t, day |-> call[tab].day,
                                             held |-> Held(t)]}
                /\ Go(tab, "results")
           ELSE UNCHANGED results /\ Reply(tab, "failed")
  /\ UNCHANGED <<rule, fens, since, obs, decided, page, today, faults>>

\* A statement fails or the process dies; what was written stays.
Dies(tab) ==
  /\ call[tab].pc \notin Over
  /\ faults < MaxFaults
  /\ faults' = faults + 1
  /\ Reply(tab, "failed")
  /\ UNCHANGED <<tables, page, today>>

-----------------------------------------------------------------------------
Page(tab) ==
  \/ Begin(tab) \/ BeginHeard(tab) \/ StartRun(tab)
  \/ Decide(tab) \/ ObserveHeard(tab) \/ NextPosition(tab)
  \/ Finish(tab) \/ FinishHeard(tab) \/ CallRefused(tab) \/ Leave(tab)

Archive(tab) == Retire(tab) \/ RetireHeard(tab)

Server(tab) ==
  \/ ReadResults(tab) \/ ReadRule(tab) \/ GuardRule(tab) \/ UpsertRule(tab)
  \/ OpenTransfer(tab) \/ CountAnswers(tab) \/ JudgeOrphan(tab) \/ Resume(tab)
  \/ SelectBoards(tab) \/ Preregister(tab) \/ NothingToTestOn(tab)
  \/ ReadSlots(tab) \/ WriteObservation(tab)
  \/ CountObservations(tab) \/ ReadPriors(tab) \/ SaveResult(tab)

Fault(tab) == RevealFails(tab) \/ AnswerLost(tab) \/ Reload(tab) \/ Dies(tab)

Next == \/ \E tab \in Tabs : Page(tab) \/ Archive(tab) \/ Server(tab) \/ Fault(tab)
        \/ Tick

Spec == Init /\ [][Next]_vars

\* A player who keeps going, days that pass, and a server that answers; faults
\* and the archive button may come at any time or never.
LiveSpec == /\ Spec
            /\ \A tab \in Tabs : WF_vars(Page(tab)) /\ WF_vars(Server(tab)) /\ WF_vars(RetireHeard(tab))
            /\ WF_vars(Tick)

-----------------------------------------------------------------------------
(* Properties.                                                             *)

\* This step puts a new test of this call's on the record.
Starts(tab) == call[tab].pc = "insert" /\ fens' # fens /\ call'[tab].pc = "done"

\* The state has its shape, and observation i of a transfer is a decision on
\* its position i, whichever tab recorded it and however often it was sent
\* (recordLearningTransferObservation).
ObservationsFitTheirBoards ==
  /\ TypeOK
  /\ \A t \in Transfers : \A i \in DOMAIN obs[t] :
       i \in DOMAIN fens[t] /\ fens[t][i] = BoardOf(obs[t][i])

\* The stored grade is a reading of results that are on the record, never an
\* accumulation: whatever writes were lost or overtaken, grading some of the
\* results gives exactly it (gradeFromRecord).
GradeIsAFold ==
  rule.grade = "retired" \/ \E known \in SUBSET results : rule = Fold(known)

\* A test is never started on a rule that the results read for it refute, even
\* when the write of that grade was lost; nor on one that they leave not due,
\* except in the place of an open test nobody began whose boards have all been
\* decided since (beginLearningTransfer).
NoTestOnAClosedRule ==
  [][\A tab \in Tabs : Starts(tab) =>
       LET graded == Fold(call[tab].results)
           orphan == call[tab].transfer
       IN  /\ graded.grade # "refuted"
           /\ \/ graded.due # Never /\ graded.due <= call[tab].day
              \/ orphan # 0 /\ BoardsOf(orphan) \subseteq DecidedBoards]_vars

\* The tests of a rule behave like the log: positions in order, each once, one
\* report.
Log == INSTANCE TransferLog WITH
         answered <- [t \in Transfers |-> [i \in DOMAIN obs[t] |-> BoardOf(obs[t][i])]],
         reported <- [t \in Transfers |-> IF t \in Reported
                        THEN (CHOOSE r \in results : r.transfer = t).day ELSE 0],
         NotReported <- 0
ImplementsLog == Log!Spec

\* A run that was begun gets an answer for every position, whatever answers
\* were lost on the way, unless its rule is closed before.
BegunRunIsAnswered ==
  \A t \in Transfers :
    fens[t] # <<>>
      ~> (Len(obs[t]) = PositionCount \/ rule.grade \in {"refuted", "retired"})

-----------------------------------------------------------------------------
(* What the source says and the code does not do.                          *)

\* Nothing takes a rule off "retired".
RetiredIsTerminal == [][rule.grade = "retired" => rule'.grade = "retired"]_vars

\* A run whose positions were all answered is reported in the end, unless its
\* rule is closed before.
CompletedRunIsReported ==
  \A t \in Transfers :
    (fens[t] # <<>> /\ Len(obs[t]) = PositionCount)
      ~> (t \in Reported \/ rule.grade \in {"refuted", "retired"})

\* A test is started only on a rule whose date has come ("NULL IS THE END OF
\* THE SCHEDULE, NOT PERMISSION").
StartedTestIsDue ==
  [][\A tab \in Tabs : Starts(tab) =>
       LET graded == Fold(call[tab].results)
       IN  graded.due # Never /\ graded.due <= call[tab].day]_vars
=============================================================================
