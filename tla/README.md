# Decision Lab: a formal model

Decision Lab (`src/`) is a chess trainer built around one rule: the player
commits a decision (candidate moves, a reading of the position, a confidence)
*before* the engine speaks. Everything it later says about the player is derived
from that record, so the record has to be append-only, the engine has to be
silent until the commitment is stored, an engine answer has to belong to the
position it is shown against, and a rule, a drill or a claim has to be graded on
the observations it was registered for and no others.

## 1. Inventory

| Component | Source | State | Operations |
| --- | --- | --- | --- |
| Engine client | `client/src/lib/stockfish.ts`, `engine-line.ts` | the worker, the ready promise and its resolvers, `current`, `owedBestMoves`, `lines`, two kinds of timers | `start`, `search`, `handleMessage`, `stopCurrent`, `fail`, `dispose` |
| Page and the shared engine | `pages/Home.tsx`, `ImportGames.tsx`, `batch-analysis.ts`, `import-run.ts`, `retry-once.ts` | `engineRef`, the reveal's inputs and failure, `answeredFen`, the review's scores, the import panel | reveal, retry, the opponent's reply, analyse, review a game, scan imported games, browse, load, leave |
| Record service | `shared/record-service.ts` | none of its own: every operation reads and writes a `RecordStore` | commit a decision, store the counterfactual, reveal, feedback, learning rules and transfers, drills, claims, blitz games, hypotheses, readings |
| Server store | `server/record.ts`, `drizzle/schema.ts` | tables (MySQL) | the `RecordStore` interface, one or a few statements per operation |
| Local record store | `client/src/lib/local-record-store.ts` | one JSON blob per identity (localStorage), the tab's copy in memory when storage refuses, Web Locks | read and write under a lock, switch identity, import, export, delete |
| Record API | `client/src/lib/record-api.ts`, `server/recordRouter.ts` | the probe of the server, two latches (`confirmedServerRecords`, `keptLocalRecords`), the query cache | where a write goes, one call per record operation |
| Learning rules | `shared/learning-record.ts` | status, step on the retrieval ladder, due date | fold the stored results into a grade |
| Drills and claims | `shared/drill*.ts`, `claim*.ts`, `client/src/lib/use-drill-run.ts` | a drill bound to positions and a refutation condition, a claim with a grade | begin, resume, report, abandon, grade |
| Evidence policy | `shared/prereg.ts`, `evidence-policy.ts`, `detector.ts` | none; a stored hypothesis carries a cut (`decisions_before`) | detect, register, narrow, read |
| Decision session | `client/src/lib/decision-session.ts`, `pages/Home.tsx` | the draft, the stage, touch order | touch, commit, reveal, continue |
| Blitz play | `shared/blitz-game-core.ts`, `blitz-instrument.ts`, `blitz-record.ts`, `pages/Blitz.tsx` | clocks by marks, the game, the question session, the opponent's search, the pending write | start, move, observe the clock, answer or dismiss a question, reply, resign, save |
| Blitz record and analysis | `blitz-analysis-runner.ts`, `blitz-analysis-queue.ts`, `use-blitz-analysis.ts`, `attachBlitzAnalysis` | the pass in flight, its engine, the games given up, provenance and scores in the store | scan, evaluate, attach, time out, refetch |
| Server shell | `server/app.ts`, `server/_core/` | sessions, configuration, owner | authenticate, route, report |
| Lichess import | `server/lichess.ts` | none | fetch and page through games |

Components interact in three ways: screens await the record service, which
awaits one of three stores whose operations are not one transaction; screens and
the analysis loops share an engine client, which talks to a Web Worker by
untagged text messages; and several tabs (or a tab and a lost response that is
retried) work on the same stored record.

### What is hard here

* UCI tags nothing: late answers, timeouts, crashes and restarts of the worker
  all have to be told apart by one counter (`owedBestMoves`).
* Every record operation is a read, a decision and one or more writes, each
  behind an `await`; two tabs, a double click or a retry can interleave them.
* Two-step writes (reveal then score, rule then links, result then grade) can
  stop half way; the operations are meant to be replayable.
* "Terminal" states (refuted, retired, reported, abandoned) must survive a
  concurrent grade.
* Prefixes of the record (`decisions_before`) are used as cut points for what a
  claim may be graded on.

### What makes each part correct

| Part | Correct when |
| --- | --- |
| Engine client | an answer belongs to the search it is given to; nothing is lost, everybody is told |
| Commit and reveal | nothing of the engine is stored before the decision; verdict and price come from one search; rows are written once |
| Learning rules | the stored grade is the fold of the stored results; a retired rule stays retired; a begun test can be finished |
| Drills and claims | a result measures exactly the registered positions; a refutation is final; a verdict shown is a verdict stored |
| Blitz | the two readings of a clock agree; one analysis per game, complete or pending |
| Local store | no write of one tab undoes another's; what a tab was told is kept stays; a row goes to the identity it was written for (it does not, section 6); a record does not change its place under a page |
| Page | a verdict is of the position of its decision; a decision that waits has somebody at work on it; a kept reading covers its games |
| Evidence policy | a claim is tested only on decisions after its registration, as far as a second tells them apart; its evidence is one population and never replaced |

## 2. Plan

Ordered by how much of what a player is told depends on it.

| Step | Modules | State |
| --- | --- | --- |
| 1. Engine client | `SearchService` (abstract), `EngineClient`, `EngineClientProofs` | modelled, checked, proved |
| 2. Commit and reveal of one decision | `DecisionRecord` (abstract), `RecordReveal`, `RecordRevealProofs` | modelled, checked, proved |
| 3. Learning rules and their transfer tests | `LearningRule`, `LearningRuleGrades`, `TransferLog` (abstract), `LearningTransfer`, `LearningProofs` | modelled, checked, proved |
| 4. Drills of a claim | `DrillClaim`, `DrillClaimProofs` | modelled, checked, proved |
| 5. Blitz | `BlitzGame`, `BlitzAnalysis`, `BlitzProofs` | modelled, checked, proved |
| 6. Local store and the choice of a store | `RecordLog` (abstract), `LocalStore`, `RecordMode`, `RecordModeProofs` | modelled, checked, proved |
| 7. Evidence policy | `ClaimSearch`, `ClaimSearchProofs` | modelled, checked, proved |
| 8. Pure algorithms | `keepTouchOrder`, position selection, against reference definitions | to do |
| 9. The decision page over one engine | `PageEngine` over what `SearchService` promises, `PageEngineProofs` | modelled, checked, proved |

No module that carries a theorem, and none it uses, declares a RECURSIVE
operator: the folds that are reasoned about are recursive functions on the
subsets of a set or on 0..N, or `CHOOSE` of a least number.

## 3. The modules

### SearchService, EngineClient, EngineClientProofs

`EngineClient` is `StockfishClient`. One variable per field
(`readyPromise`, `resolver` for `resolveReady`/`rejectReady`, `current`, `owed`,
`lines`), one action per entry point: `Search` is the synchronous half of
`search()` (up to `await this.start()`), `Begin` the half after it, `UciOk`,
`ReadyOk`, `Info` and `BestMove` are the branches of `handleMessage`. The worker
is outside `src/`; what it still has to say is the queue `owing` of searches
that were given a `go`. `Drained` says that continuations run before the next
message or timer, as the event loop guarantees.

`SearchService` is what the screens rely on: one holder at a time, each search
settled at most once, by its own answer. `EngineClientProofs` proves, for any
set of searches and any number of restarts, type correctness, that an answered
search got its own bestmove and its own lines, and that `EngineClient`
implements `SearchService`.

The liveness run uses `LiveSpec`: weak fairness of the two kinds of timers and of
the continuations of `search()`, which the browser runs unless the page is gone.
Nothing is assumed of the worker, which may stay silent for ever, nor of the
callers. `EverySearchSettles` excepts the callers that are `Stranded`: those that
await a ready promise whose resolvers a later `start()` has overwritten, which
takes a client that was disposed of while it was loading and is searched again.
The page can do that (section 6), so it is an exception and not an assumption.

### DecisionRecord, RecordReveal, RecordRevealProofs

One decision, from the press of the commit button to the stored verdict. The
page's half (`onCommit`, `onAnswerProbe`, `runReveal`, `retryReveal` of
`Home.tsx`) is the variables `stage`, `arm`, `named`, `alternative`, `runs`,
`payload`; the server's half is one step counter per call
(commit, answer, first and second reveal) over the three tables, one SQL
statement per action. The answer to a call may be lost at any time, after which
the server carries on, later or never; a statement may fail. Rows of different
decisions never meet in a statement, so one decision is enough.

`DecisionRecord` is the append-only record: a decision, then at most one answer
to the probe, then at most one reveal. `RecordRevealProofs` proves the type
invariant, the safety invariants of the run, and that `RecordReveal` implements
`DecisionRecord`, for any set of moves and any number of searches.

### LearningRule, LearningRuleGrades

`LearningRule` is `gradeLearningRule` as a function of the stored results: the
retrieval ladder, the due date, supported and refuted after two days that agree.
`LearningRuleGrades` adds one result at a time, in an order that need not be that
of the days, and compares the fold with an order-free statement of the grade.
`LearningProofs` proves the comparison for any ladder and any results.

### TransferLog, LearningTransfer, LearningProofs

`LearningTransfer` extends `LearningRule` by the tests: the tabs' transfer runs
(`Home.tsx`, `LearningQueue.tsx`) and the service calls
`beginLearningTransfer`, `recordLearningTransferObservation`,
`finishLearningTransfer`, `retireLearningRule`, with `gradeFromRecord` and the
guard and upsert of `saveLearningRule`, one statement per step. Tabs interleave
freely; a tab may be reloaded, an answer lost, a statement fail. A begin that finds
a test open reads its answers (`CountAnswers`), then whether its boards have been
decided meanwhile (`JudgeOrphan`: a test without answers whose boards are all decided is
replaced), then the counts it hands back (`Resume`), each a step of its own. `TransferLog` is
what the tables promise: observations of a transfer are appended once per slot,
a transfer is reported once, and only when it is complete.

Fairness (`LiveSpec`): the player goes on with what the page offers, the server
finishes the calls it was sent, days pass. A player who never comes back, or a
server that is down for good, refutes nothing about the code. Closing, reloading
and failing carry no fairness and are bounded by `MaxFaults`.

### DrillClaim, DrillClaimProofs

The drills of one claim. `page` is the state of `useDrillRun` per tab, `call` the
report a tab has on the server, and the tables are `claims` (the grade),
`drills`, `drill_results` and the decisions bound to drills. `Begin`, `Resume`,
`Decide`, `Finish`, `Close` are the page's operations; `AlreadyReported`,
`Measure`, `MeasureRefused`, `SaveResult`, `SaveResultRefused`, `ReadClaim`,
`SaveClaim` are `finishDrill` and `gradeClaimFromRecord` statement by statement;
`Refuse` is what `retryOnce` makes of a failure. `Evaluate` folds the results in
the order of their reports, ties by drill, as `evaluateClaim` sorts them: the
fold of a set is that of the set without its `Last`, and then `Last`.
`Report`'s time comes after every other that is there or on its way (`Times`).
`settles` is `decidesClaim`: for
claims about the clock a position drill does not settle the question.

### BlitzGame, BlitzProofs

A timed game on its page. `blitz-game-core.ts` keeps no running clock: it keeps
what each side had when the turn started and the reading of `performance.now()`
at that moment, and `commit`, `observe` and the display each subtract. `now`
counts half milliseconds so that the rounding in `commit` is visible; positions
are what they do to the game (it goes on, mate, draw). `questions` and `open` are
the instrument's session, `reply` the opponent's search, `calls` and `stored` the
writes of finished games, which may fail, answer late or be repeated, also after
the next game has begun. `MovesOf` and `Spent` are recursive functions where TLA+
has `SelectSeq` and a fold, because proofs can unfold the one and not the others.

### BlitzAnalysis, BlitzProofs

Several tabs analyse one record. `Mount`, `Scan`, `Reread` and `Refetch` are
`useBlitzAnalysis` and its two lists; `Run`, `BuildEngine`, `NextGame`,
`Evaluate`, `Timeout`, `Aborted` the pass of `blitz-analysis-runner.ts`; `Check`,
`Attach`, `Write` the attach, on the server two statements of which only the
first looks at the state, in the browser one section under the lock. A tab stands for the engine
build it carries. `LiveSpec`: promises run, the store answers, the timer of an
evaluation fires, lists are fetched again, and the player opens screens again;
nothing is assumed of the worker (`Hang`). Its specification is `AnalysisSpec`, so
that one module of proofs can speak of both parts of blitz.

### RecordLog, LocalStore, RecordMode, RecordModeProofs

`LocalStore` is the record in the browser: a blob per identity (`disk`), an
exclusive Web Lock per key, and per tab a copy in memory once the storage has
refused a write or a blob could not be read. A write is `Request` (the lock's
name is computed here), `Enter` (the lock is granted, the blob is read) and
`Write`, `WriteRefused`, `Erase` or `Throw`; tabs run their sections in parallel, a
tab may be reloaded inside one, and a newer build may take a blob over
(`Upgrade`). `RecordLog` is what it promises: rows are appended and never lost,
except that the player erases a record or restores a file into an empty one.

`RecordMode` composes it with `record-api.ts`: a page's probe of the server, the
two latches, and where each write goes.

A tab takes up another identity whenever its session query says so, also while a
write of it waits for its lock (`SwitchIdentity`): the lock is named after the
identity of the request, the blob after that of the moment the lock is granted.
Such a write is let at a record whose lock it does not hold, and may write over
what another tab has just been told is kept. `strayed` is a history of the
records this has happened to. What the code keeps of its promise is stated by
it: what is read and told is safe until a stray write is let at the record, and in the
memory of a tab always; `RecordLog` has `Stray` and `Overwrite` for the records it
happened to, and only for them. What the code does not keep is stated without
it, and violated (`WritesWhereAsked`, `NothingKeptIsLost`, section 6).

### ClaimSearch, ClaimSearchProofs

`currentClaim` and `registerHypothesis`: `ListAtoms`, `Search`, `SaveClaim`,
`CountDecisions` and `SaveHypothesis` are their reads and writes, between which
other tabs commit, reveal, register and search. `Admitted`, `Stratum`, `Chosen`
and `Scored` are the path of `evidence-policy.ts` and `scoring.ts` from a list to
the population that is searched; `Since` is the cut a hypothesis makes. Whether
a phase separates from the rest is a choice; that it needs `MinBucketN` decisions
on either side, or `PreMinBucketN` under a hypothesis, is not. The server orders
decisions by `createdAt`, to the second, and then by an id that is drawn at random:
`Commit` puts a decision anywhere among those of its `second`. So the list a query
searched and the list it takes the ids from may differ in their last second, and
the cut of a hypothesis may run through one. `TestedOnTheFuture` and
`SupportIsOnePopulation` say what is left: for each decision a claim names, that
one, or another of its second, is what the claim says it is. `PerSecond` and
`MaxSearches` are bounds of the run and nothing in a property or a proof.

### PageEngine, PageEngineProofs

`Home.tsx` and the parts of it that use the engine. Each async function the page
starts and does not wait for (commit, reveal, opponent, analysis, review, import scan,
the warm-up) is an entry of `runs`, with what its closure holds: the decision,
position or list it is about, the client it goes on with, how far it is and what
its answers so far are of. A commit is out from its press (`Commit`) until its
write is stored (`CommitStored`, which makes it the reveal of its decision) or
refused (`CommitFails`), at any time and whatever the page shows by then: a game
may have been loaded, another commit pressed and answered first, the page left. A reveal
that has its searches awaits the count of decisions (`RevealEnds`), and only then
tells (`RevealTells`). The import of the engine may be refused (`ModuleFails`).
`clients` is what the functions see of a `StockfishClient`, as `SearchService` promises
it. The board, the game, the
shown reveal, its failure and the import panel are the page's state, which moves
on while runs are out. The same loop (`LoopGoesOn`, `LoopEnds`) serves the review and
the scan, as `analyzePositions` does. `PageEngineProofs` proves the four
properties for any number of runs, clients, failures, lists and positions.

## 4. What the runs show

| Run | Bounds | Shows |
| --- | --- | --- |
| `engine_client` | 3 searches, 3 starts, `LiveSpec` | own answers, the debt is covered, one holder, `SearchService`; every search settles by the client's own timers |
| `reveal_safety` | 3 moves, 3 searches with different findings | nothing before the commit, verdict and price of one search, complete success, `DecisionRecord` |
| `rule_grades` | 5 results, 4 days | the fold against its order-free statement; a late result undoes nothing |
| `transfer_safety` | 2 tabs, 2 transfers of 2 positions, 3 decisions, 1 fault | slots, grades, `TransferLog` |
| `transfer_live` | 1 tab, 2 transfers, 6 decisions, 2 faults, `LiveSpec` | a begun run is answered; a lost grade is repaired before the next test, which is never of a refuted rule, nor early but in the place of an orphan |
| `drill_safety` | 2 tabs, 2 drills of 1 or 2 positions, 3 decisions, 1 fault | a result measures its drill, once; verdicts shown are stored; refutation is final |
| `blitz_game` | 2 games of up to 4 and 1 moves, clocks of 2 ms + 1 ms, 6 half milliseconds, 1 failed write | clocks add up over a game, a question keeps the opponent waiting, what is stored is the game |
| `blitz_analysis` | 2 tabs, 2 games, 2 faults, both stores, `LiveSpec` | one engine per game for good, no good game given up, no engine left behind, every game scored |
| `record_store` | 2 tabs, 2 identities, 2 decisions, 2 writes asked for, 1 fault | sections read what is current and what a tab was told stays, in memory always and in a record until a stray write is let at it; `RecordLog`; no page starts in the browser the record of an account it has put on the server |
| `claim_search` | 2 callers, 4 decisions of 2 regimes and 2 phases (1 open at a time), floors 2 and 1, 1 hypothesis, up to 3 decisions a second, 1 list read and not yet searched | to the second, a hypothesis is tested on what came after it and a claim's evidence is one population; it is final |
| `page_engine` | lists of 2 positions, games under review of 1, 3 runs, 1 list, 1 failure, 3 positions | verdicts, readings and replies belong to what they are stored or played under; nobody waits for nobody |
| `page_carried` | lists and reviews of 1 position, 4 runs, 2 lists, 2 positions | *violated*: nothing is carried forward from the decision before |

Why the bounds are enough to be interesting. Three searches are a holder, one
that was superseded and still owes, and one that comes later or waits in
`start()`; three starts let a timer or a resolver outlive two workers. The
second of two tabs is every other tab: a race of the code is between a read and
a write of one call and one write of another. Two drills or transfers let one
report come between the statements of another; one fault breaks any of the two-step writes
once, with `transfer_live` adding a fault during the repair. Two positions are
the least that have an order, a cursor and a missing one. Three decisions let a
two-position test be answered with one decision too many.

A blitz game of four moves gives each side a move after an increment; 2 ms with
half-millisecond readings reach a flag in the middle of a move and the last half
millisecond. Two games and two tabs let a pass find another tab's write between
its two reads. Two identities are the signed-out reader and an account. Four
decisions with floors 2 and 1 are the least for which both the whole search (two
inside a phase, two outside) and the narrowed one find something, and three in one
second leave one outside it, before or after. Three runs are a reveal, one that takes its engine, and a retry
or a second reveal; `SomebodyIsAtWork` has also been simulated with seven runs
and three dead workers.

The bounds `MaxAttempts`, `MaxSearches`, `MaxResults`, `MaxTransfers`, `MaxDrills`,
`MaxDecisions`, `MaxFaults`, `MaxMishaps`, `LastDay`, `MaxGames`, `MaxPly`, `MaxTime`,
`MaxRequests`, `MaxHypotheses`, `PerSecond`, `MaxOpen`, `MaxRuns`, `MaxLists`, `MaxFailures`
and `MaxPositions` are guards of the actions that would pass
them; because these end a history, deadlock is not checked, except in
`blitz_analysis`, where opening a screen is always possible. Tabs (callers, phases, searches
and boards where nothing orders them) are symmetric in the safety runs, never in
the runs with fairness.

`Results`' `at` in `DrillClaim` is not bounded by a guard: it grows by one per
report, of which there are finitely many.

## 5. What is proved

`EngineClientProofs`: `TypeCorrect`, `AnswersAreOwn`, `DebtIsCovered`,
`EngineHasOneHolder`, `ClientRefinesService`. The inductive invariant is type correctness, `OwnAnswer`,
`DebtCovered`, `HolderIsLast`, `SearchingHolds` and "a worker that is gone owes
nothing". `DebtCovered` alone does not carry `OwnAnswer`: when the count is zero
and one bestmove is owed, that bestmove belongs to the current search only because
the holder is the *last* one the worker was given, which `HolderIsLast` adds. No
assumption on `Searches`; `MaxAttempts` is any positive number.

`RecordRevealProofs`: `TypeCorrect`, `PageFollows`, `PriceIsTheVerdicts`,
`SuccessIsComplete` and `RevealRefinesRecord`. Its inductive invariant follows a
call through its statements: `Recorded`
(beyond the commit, the decision is stored), `Answered` (the answer the page
heard is the row), `Bodies` and `VerdictIsPayload` (every reveal on its way, and
the one stored, carries the one payload the page built), `Snapshot` (what a call
has read ahead is still true when it decides on it) and `Written` (what a call has
behind it is in the tables). Without `Snapshot` a call that read the decision
before the first attempt stored its price could take its replay for complete.
The assumption is `RevealAssumption`: the chosen
move is a move, the two markers are not, `Says` covers the searches.

`BlitzProofs`, of a game: `ClocksAlwaysAddUp`, `OpponentAlwaysWaits` and
`StoredIsAlwaysTheGame`, for any time control, games, moves and times. The clocks
add up also while a game is idle (`ClocksFit`), which needs what the two recursive
functions do with one more move (`MovesGrow`, `SpentGrows`): each is shown to exist,
and to agree on a longer record with itself on the shorter one. The opponent's half
of `QuestionsFit` needs `ReplyFits`: a search under way means that its turn is on and
that no question is open, since opening one or answering it cancels the search. A
record, on its way or stored, belongs to an earlier game or to the one that
has come to its end (`RecordsFit`), which is why a write that comes back when the
next game is on the page can repeat only what it carried before.

`BlitzProofs`, of the analysis: `AnalysisTypeCorrect`, `LocalScoresMatch`, `GoodGamesStay`,
`EnginesEnd`, `FirstEngineStays`, for any tabs and games. The invariant adds two
facts to the properties: a pass looks for the decisions only of games that were
stored before it looked (`ListsAreStored`), and so it gives nobody up
(`NobodyGivesUp`). The order of the two reads is what carries it.

`RecordModeProofs`: `ReadsStayCurrent`, `KeptStaysSeen`, `StoreRefinesLog`,
`TypeCorrect` and `RecordStaysOnServer`, for any tabs, identities and rows, and
whenever identities switch. The invariant says that nobody shares a
lock (`Mutex`), that whoever holds one holds that of the record it is going to
write and has read that record, unless the record is `strayed` (`Inside`; memory is
excepted from the exception, since a tab is alone with it), and that nothing was
promised to a tab that has still to find a newer blob (`Unread`). `Mutex` is about
names of locks and would not keep two tabs apart that are at one record under
different names; `Alone` says that this takes a stray write. The actions of
`RecordMode` are shown to be steps of `LocalStore` or to leave it alone
(`ModeStepsAreStoreSteps`), so the store is proved once. `RecordStaysOnServer`
needs that a page sends rows only of accounts it has seen the server hold
(`Known`): then, unless it had marked the account as kept here before, such an account
is either on the server path or lost.

`ClaimSearchProofs`: `HypothesesLookForward`, `ClaimsNameOnePopulation` and
`EvidenceStays`, for any callers, phases, regimes, floors and numbers of decisions
in a second. The invariant says that the list is sorted by second, that its
numbers are 1 to its length, and that the numbers agree with the seconds
(`InOrder`); that an earlier list has at each position a decision of the second the
record has there (`Earlier`, `ListsAreOld`): a later decision moves others only within
its second; and that what a caller has found, saved or not, looks forward and is of one
population, to the second (`FoundIsBorne`, `ClaimsAreBorne`). So the ids, read after
the decisions, are ids of the same seconds. `OfOneSecond` is the step from positions
to times: the first n positions cannot hold n of the first n decisions and leave
one of them behind, so a decision behind the cut that was there before it was
counted has one beside it, of its second, that was not.

`LearningProofs`, of the fold: `GradeNeedsTwoDays` and `ScheduleFollowsGrade` for every
ladder of positive intervals (`LadderAssumption`, which the constant of the
source satisfies) and any number of results. `FoldGrades`, on which they rest, says
what the fold computes. A finite set of results is put in its order by rank (as
many as come before it), the recursive function on 0..N is shown to exist and to
have the values its equation gives, and the order-free statement is carried along
the ranks. Induction over the numbers is the library's well-founded minimum applied
to the *set* of cases that fail, so that no operator has to be instantiated.

`LearningProofs`, of the tests: `ObservationsFitAlways`, `GradeIsAlwaysAFold`,
`TestsStartOnOpenRules` and `TestsAreLogged` (the refinement of `TransferLog`), for any tabs, positions,
transfers, decisions and faults. The invariant says what a call has read and
still holds when it writes (`CallFits`): its decision is on a board of its
transfer, the slot it is about to fill is that of the board, a transfer about to be
reported is complete, and the grade about to be stored is the fold of results
that are on the record. Under the refinement each insertion is a step of
the log and everything else stutters; the second insertion of a retried call is
the case that needs the slot. That a fold is a rule follows from `FoldGrades`.
`TestsStartOnOpenRules` rests on what a call knows of the results it has read from its
first step on (`MayStart`): that they leave the rule open and due, or that the call has
found an orphan, of whose date the code does not ask.

`DrillClaimProofs`: `ResultsMeasureTheirDrill`, `VerdictsAreOnRecord`,
`OneDenialAlwaysRefutes` and `BoardsAreOpen`, for any tabs, boards, lengths and
numbers of drills, decisions and faults. The invariant, on top of the types: the drills are numbered
as they came and have no board twice (`DrillsFit`); a decision is on a board of
its drill, and the boards of a drill are answered in their turn (`RecordFits`);
a tab's or a call's list names decisions of its drill (`Carries`), and a tab has
answers for the boards before the one it shows, or for all (`InPlace`); a measurement on its way
already measures its drill (`Measures`); and what a tab was told is the fold of
some of the results (`Told`). `InPlace` is not inductive without `RecordFits`: a
tab that takes a drill up counts the answers of every tab, and goes to the first
board that is open, which is the place of the answers only because the answered
boards are a prefix. The tables only grow (`Kept`), which
carries what one tab holds through the steps of the others (`TabStep`,
`QuietStep`). `OneDenialIsEnough` is induction over the size of the sets the
fold goes through: a denial in a set is its last, or is in what is left, and
`Apply` keeps a refutation. It says nothing about the order, and so the order
cannot matter.

`PageEngineProofs`: `VerdictsAreAlwaysTheirOwn`, `KeptAlwaysCoversItsGames`,
`SomebodyIsAlwaysAtWork` and `RepliesAlwaysFitTheBoard`, for any number of runs,
clients, failures, lists and positions. The parts of the invariant: a run has an
answer of each position before the one it asks for, all of what it is about
(`RunsFit`), so that the last answer completes a verdict or a reading; a client
and the search that holds it point at each other (`HoldersFit`), so that taking or
disposing of a client rejects one search and no other; the decision on screen is
the last one taken (`RevealFits`), which is why `retryReveal`, which asks about the
last, asks about the one on screen; an opponent still wanted was asked about the
board there is, by the page that is there, and is the only one (`OpponentFits`),
so that a reply that is played cannot change the board under another. `AtWork`
strengthens `SomebodyIsAtWork`: if the reveal waits for a client, that client is being started.
Without this it is not inductive, since a client that is started anew
forgets those that wait for its earlier start (`Orphaned`).

Only model-checked: everything under fairness (`EverySearchSettles`,
`EveryGameIsScored`, `BegunRunIsAnswered`), which is out of the prover's reach.

## 6. Disagreements

Places where the code does not do what a comment of it says. One has a run of
its own among those of section 4, `page_carried`; each of the others named here
has a configuration beside the modules that TLC finds violated.

| Property | Configuration | Where |
| --- | --- | --- |
| `NothingIsCarriedForward` | `MCPageCarried` | `Home.tsx:1053`: a reveal that ends after a game was loaded is shown over the next decision |
| `FailsForItself`, `OneEngine`, `OpponentIsAtWork`, `ReadingIsOfTheGames` | `MCPageSharing` (one at a time) | see below |
| `DebtExact` | `MCEngineDebt` | `stockfish.ts:365`: terminating a worker does not reset the count of bestmoves it owed, so the next worker's first answer is thrown away |
| `OnlyThisAttempt` | `MCEngineTimer` | `stockfish.ts:157`: the 60 s timer of a failed attempt is never cleared and gives up the next attempt |
| `ConflictMeansDifferent` | `MCRevealConflict` | `record-service.ts:542`: a retry that overlaps its first attempt is refused as a conflict although its payload is identical |
| `StartedTestIsDue` | `MCTransferOrphan` | `record-service.ts:848`: a test that nobody began and whose boards have been decided since is replaced without a look at the due date, so a new test starts days early; `:877` says "NULL IS THE END OF THE SCHEDULE, NOT PERMISSION" |
| `RetiredIsTerminal` | `MCTransferRetired` | `server/record.ts:835`: the guard of an archived rule is a select followed by an unconditional upsert; `:829` says of the race "Here it cannot be lost, whichever caller the write came from" |
| `CompletedRunIsReported` | `MCTransferReport` | `Home.tsx:1454`: a transfer closed between its last observation and its report can never be reported and is handed back for ever |
| `ScoresAreItsEngines` | `MCBlitzPooled` | `server/record.ts:683`: only the first of the two statements of an attach looks at the state; `:676` says "THE STATE IS PART OF THE PREDICATE, so two attaches racing cannot both win", and the loser's scores stay under the winner's engine |
| `OneHome` | `MCRecordHome` | `record-api.ts:232`: an account whose rows were kept here and whose server then answers is in both latches; `lost` is asked first, so when the session has ended and come back, and the probe has no answer yet, the next write goes to the server, away from the rows kept here; `:237` says "AND A RECORD THIS SESSION WROTE HERE STAYS HERE" |
| `WritesWhereAsked` | `MCRecordHome` | `local-record-store.ts:569`: the lock is named when it is asked for, the blob when it is granted, and the identity may change in between, so a row written for one account lands in the record of another; `:71` says "What it can do is stop merging the ones it WAS given" |
| `NothingKeptIsLost` | `MCRecordHome` | the same write holds a lock that protects neither record: it may overwrite a row another tab has just been told is kept, or be overwritten; `:561` says "THE READ IS INSIDE THE LOCK" |
| `PrefixIsExact` | `MCClaimOrder` | `record-service.ts:1788`: "the prefix is exactly what existed then"; the list is ordered by `createdAt`, to the second, and by id, so a decision stored before the registration may be listed after the cut |
| `WideStaysWide` | `MCClaimWide` | `record-service.ts:1777`: a hypothesis "shortens the silence and then gets out of the way"; the whole search counts the largest stratum, and decisions that are not revealed yet can make another one the largest, so the hypothesis narrows again |

On the page:

* A retried or late reveal writes `revealFailure` whatever is on screen, so a
  failure may be shown of another decision (`FailsForItself`).
* Two calls of `ensureEngine` that overlap build two clients (`Home.tsx:569`),
  although `batch-analysis.ts:96` says "The page holds ONE engine" (`OneEngine`).
* The timeline can be used while the opponent thinks. Browsing cleans up the
  effect that asked, and `answeredFen` stops it from being asked again on the
  way back: nobody moves (`OpponentIsAtWork`). The same happens when a scan takes
  the engine from the opponent.
* A second search for games changes the list under a scan, whose reading is then
  shown, and registered, with the other list's number of games (`ReadingIsOfTheGames`).
* A scan goes on after its panel is closed, with no control that stops it, and
  after the page is left it restarts the client that was disposed of. A review
  goes on with the client of a reveal that was retried. Either can strand callers
  (`Stranded`).
* A reveal and a scan retry what was taken from them, and so can fail each other.
* A position of a scan whose search timed out is scored 0.
* The scores of a review stay when another game is loaded.

In the engine client and the record:

* When the worker cannot be built, the rejected ready promise stays handed out
  and refuses every later search (`stockfish.ts:137`).
* A client disposed of while loading, and searched again, overwrites resolvers a
  caller still awaits (`stockfish.ts:285`).
* The answer to the probe may be inserted after the reveal, its check having
  passed before (`server/record.ts:363`). A commit whose answer was lost is
  pressed again under a new `decision_id`.
* Two overlapping begins over the same boards are both sat and both reported: one set of
  boards counts twice (`record-service.ts:849`).
* `createLearningRule` is two writes, and the second can fail alone (`:688`).
* A drill whose last decision is stored and whose report never went out is taken up at
  its last board again. Only one more decision leads to the report, which then
  has one id too many and is refused; afterwards the drill is ambiguous and cannot be
  taken up. `drill-restore.ts:163` says "the run is complete and belongs at its
  last position, reporting", `use-drill-run.ts:225` that "a run that could be continued and never
  reported would leave a claim frozen with no path that could test it".
* A drill may be both abandoned and reported: `finishDrill` does not look at
  `abandoned_at`, and `abandonDrill` checks before it writes
  (`server/record.ts:764`: "would leave the record holding two endings for one
  pre-registered test").
* Two drills reported in overlap: the earlier reading of the results may be
  written last, so a claim with a refutation on record reads "replicated" until
  it is graded again (`record-service.ts:1585`).
* `currentClaim` looks for the claim and saves it in two steps (`:1852`). A drill
  that grades the claim in between loses its grade to the fresh one, although
  `:1834` says "a claim already graded by a past drill must keep that grade".
  `ClaimSearch` leaves the grade to `DrillClaim` and does not state this.
* A drill goes on past a position whose verdict was not stored, and then cannot
  be reported (`Home.tsx:913`).
* Two tabs that begin before either decides register the same boards; the second
  drill is not a forward test (`record-service.ts:1325`).

In blitz:

* A pawn of the opponent that promotes is handed to the board without its piece,
  is refused, and the opponent sits until its flag falls.
* A confidence stated after the game has ended is not stored (`AnswersAreStored`).
* The opponent's clock runs while a question about the player's move is open.
* Threefold repetition is never recognised.
* A write of the last game that fails resets the marker of the next one.
* A game is flagged up to half a millisecond early.
* A game saved during a pass is looked at when the next screen is opened.

In the browser's record:

* Blitz games and learning rules kept here are not marked as kept
  (`markKeptLocally`), so a page that has only these moves to the server.
* The copy in memory is dropped when the identity changes.
* A single value of a record that cannot be read is dropped, and lost with the next
  write; a whole blob that cannot be read is left as it is (`refuse`, `:366`), and
  the tab goes on in memory.

## 7. Abstractions, and what is not modelled

* Positions, moves, lines and scores are members of small sets; a board is
  compared as `samePosition` compares it. What an engine finds is an input
  (`Says`); whether a decision succeeded, whether a drill confirmed, whether a
  phase separates, is a choice.
* Days stand for timestamps in the learning rules. The order in which two tests
  were begun is kept (`since`), ties included.
* In `DrillClaim`, `beginDrill` and `restoreDrillRun` are one step each: what can
  come between their reads is a decision or a closing, which leaves the same
  drills as when it comes just after. `recorded_at` is taken to tell any two
  reports apart; two that are stored within one second are ordered by drill id.
  A reveal that fails is not retried (a retry is `Decide`, later). A closing
  that lands late is another tab's `Close`.
* A tab has one call of a component on the server; the overlap of a call with
  its own retry is in `RecordReveal`, and elsewhere between tabs.
* In `LearningTransfer`, the opening position is never a board of a test, rules
  that cannot be scored and `last_evaluated_at` are left out, and a failed engine
  is folded into `RevealFails`.
* In `ClaimSearch`, every decision was asked for a confidence, by an engine that
  can be read, and has a bucket; the reads of the ids, the hypothesis and the
  claim are one step, which what could come between them does not tell apart;
  the server's tables are meant, not the browser's, whose `saveClaim` replaces
  the row (the mutant of `EvidenceIsFinal`).
* In `LocalStore` a blob is a set of rows, of which those of a decision, its
  answer and its reveal are kept apart; the other mutators go through the same
  `update()`.
* `PageEngine` leaves out the deferred reveal, the probe, drills and transfers,
  and the writes of a reveal, which `RecordReveal` has; whether a score was
  measured is kept for a reveal and not for the loops; no liveness is stated of
  it, since what a run waits for in the end is `EverySearchSettles`.
* Not modelled, with the reason in `PROJECT.json`: the statistics (real
  arithmetic), imports from the chess sites and the server shell (input and
  output without shared state), telemetry, wording, screens. Planned: the touch
  order and the saved session of a decision, the selection of positions
  (section 2).
