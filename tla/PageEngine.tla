----------------------------- MODULE PageEngine -----------------------------
(***************************************************************************)
(* The decision page (Home.tsx) and the engine its parts share: the        *)
(* reveal, the opponent, the analysis button, the review of a whole game   *)
(* and the scan of imported games (ImportGames.tsx over import-run.ts and  *)
(* batch-analysis.ts).  Each is an async function the page starts and does *)
(* not wait for; it goes on after the screen has moved to something else.  *)
(*                                                                         *)
(* An engine client does what SearchService promises: one search holds it, *)
(* the next one takes it away, and an answer is of the position asked.     *)
(* Continuations run before the next event, as in EngineClient.            *)
(***************************************************************************)
EXTENDS Naturals, Sequences

CONSTANTS
    ScanLength,    \* positions of the games of one list
    ReviewLength,  \* positions of the game under review
    MaxRuns,       \* bound: async functions started
    MaxLists,      \* bound: lists of games fetched
    MaxFailures,   \* bound: workers that die or do not load
    MaxPositions   \* bound: positions the board shows

ASSUME PageAssumption ==
    /\ {ScanLength, ReviewLength, MaxRuns, MaxLists, MaxPositions} \subseteq Nat \ {0}
    /\ MaxFailures \in Nat

VARIABLES
    mounted,    \* the page is there
    engineRef,  \* the page's client, or 0 for null
    clients,    \* the clients built: its readyPromise and the run whose search it is at
    failures,   \* how many workers have died or not loaded
    runs,       \* the async functions, in the order they were started
    stage,      \* deciding, committing or revealed
    decision,   \* the decision that is revealed (committedDraft, revealAt), or 0
    shown,      \* revealInputs: the decision they are of, or 0
    failure,    \* revealFailure: the decision whose search failed, or 0
    decidedAt,  \* the position each decision was taken in; the newest is lastRevealRun
    board,      \* the position on the board (activeFen), numbered as they come
    game,       \* history: the positions of the game, in order
    turns,      \* whose move it is in each position
    answered,   \* answeredFen: the position the opponent was last asked about
    reviewed,   \* whether there are reviewScores
    panel,      \* the import panel: its list, its scan, its diagnostic
    lists,      \* the lists fetched
    sent,       \* the verdict last sent to the record
    kept        \* the reading last sent to the record

engineVars == <<engineRef, clients, failures>>
revealVars == <<stage, decision, shown, failure, decidedAt>>
gameVars == <<board, game, turns>>
boardVars == <<gameVars, answered>>
panelVars == <<panel, lists>>
recordVars == <<sent, kept>>
vars == <<mounted, engineVars, runs, revealVars, boardVars, reviewed, panelVars, recordVars>>

\* A commit becomes the reveal of its decision when it is answered.
Kinds == {"warm", "commit", "reveal", "opponent", "analysis", "review", "import"}
Loops == {"review", "import"}
States == {"storing", "again", "module", "loading", "searching", "superseded", "broken",
           "orphaned", "counting", "over"}
Sides == {"player", "opponent"}
NoPanel == [list |-> 0, scan |-> 0, reading |-> 0]
Nothing == [of |-> 0, got |-> <<>>]

Runs == DOMAIN runs
Clients == DOMAIN clients
Positions == {game[k] : k \in DOMAIN game}

\* An async function at its start; a commit starts with its write, the others
\* ask the engine.  of: the decision, position or list it is
\* about; at: the position of it that is asked next; got: what the answers so
\* far are of; measured: whether a line came with each (hasEvaluation).
Fresh(kind, of) == [kind |-> kind, of |-> of, client |-> 0, at |-> 1, tries |-> 0,
                    st |-> IF kind = "commit" THEN "storing" ELSE "again",
                    got |-> <<>>, measured |-> TRUE, wanted |-> TRUE]
\* Of one that is over only what the opponent was asked about and whether it
\* was still wanted then is kept.
Over(r) == [Fresh(r.kind, IF r.kind = "opponent" THEN r.of ELSE 0)
              EXCEPT !.st = "over", !.wanted = r.wanted]

To(i, st) == runs' = [runs EXCEPT ![i].st = st]
Ends(i) == runs' = [runs EXCEPT ![i] = Over(@)]
Starts(kind, of) == Append(runs, Fresh(kind, of))
Length(r) == IF r.kind = "import" THEN ScanLength ELSE ReviewLength

\* The cleanup of the opponent's effect: what is under way is not played.
Cancelled(rs) == [i \in DOMAIN rs |->
    IF rs[i].kind = "opponent" /\ rs[i].st # "over" THEN [rs[i] EXCEPT !.wanted = FALSE] ELSE rs[i]]

Init ==
    /\ mounted = TRUE
    /\ engineRef = 0
    /\ clients = <<>>
    /\ failures = 0
    /\ runs = <<Fresh("warm", 0)>>
    /\ stage = "deciding"
    /\ decision = 0 /\ shown = 0 /\ failure = 0 /\ decidedAt = <<>>
    /\ board = 1 /\ game = <<1>>
    /\ turns \in [{1} -> Sides]
    /\ answered = 0
    /\ reviewed = FALSE
    /\ panel = NoPanel /\ lists = 0
    /\ sent = Nothing /\ kept = Nothing

-----------------------------------------------------------------------------
(* Asking the engine.                                                      *)

\* start() of client c: the promise there is, or a new worker with new
\* resolvers, of which those that wait for an earlier start hear nothing.
Started(cs, c) == IF cs[c].promise = "none" THEN [cs EXCEPT ![c].promise = "pending"] ELSE cs
Waiting(rs, c) == {i \in DOMAIN rs : rs[i].st = "loading" /\ rs[i].client = c}
Orphaned(rs, cs, c) == [i \in DOMAIN rs |->
    IF cs[c].promise = "none" /\ i \in Waiting(rs, c)
      THEN [rs[i] EXCEPT !.st = "orphaned"] ELSE rs[i]]

\* Run i awaits client c; warming up does no more than that.
Awaits(i, cs, c) ==
    /\ clients' = Started(cs, c)
    /\ runs' = [Orphaned(runs, cs, c) EXCEPT ![i] =
                  IF @.kind = "warm" THEN Over(@)
                  ELSE [@ EXCEPT !.st = "loading", !.client = c]]

\* The scan's analyze prop calls ensureEngine for each position; the others
\* go on with the client they were given.
ClientOf(r) == IF r.client # 0 /\ r.kind # "import" THEN r.client ELSE engineRef

\* A search is asked for, of the client at hand; without one, ensureEngine
\* imports the module.
Ask(i) ==
    /\ runs[i].st = "again"
    /\ IF ClientOf(runs[i]) # 0
         THEN Awaits(i, clients, ClientOf(runs[i]))
         ELSE To(i, "module") /\ UNCHANGED clients
    /\ UNCHANGED <<mounted, engineRef, failures, revealVars, boardVars, reviewed, panelVars, recordVars>>

\* search() after its await: whoever held the client is rejected.
Ready(i) == runs[i].st = "loading" /\ clients[runs[i].client].promise = "ready"
Take(i) ==
    LET c == runs[i].client
    IN  /\ Ready(i)
        /\ clients' = [clients EXCEPT ![c].holder = i]
        /\ runs' = [j \in Runs |->
                      IF j = i THEN [runs[j] EXCEPT !.st = "searching"]
                      ELSE IF j = clients[c].holder THEN [runs[j] EXCEPT !.st = "superseded"]
                      ELSE runs[j]]
        /\ UNCHANGED <<mounted, engineRef, failures, revealVars, boardVars, reviewed, panelVars, recordVars>>

\* scoreOne: a search that was taken away is asked again, once.
AskAgain(i) ==
    /\ runs[i].st = "superseded"
    /\ runs[i].kind \in Loops
    /\ runs[i].tries = 0
    /\ runs' = [runs EXCEPT ![i].st = "again", ![i].tries = 1]
    /\ UNCHANGED <<mounted, engineVars, revealVars, boardVars, reviewed, panelVars, recordVars>>

\* The panel that started the scan hears of its end; one opened since has no
\* part in it.
ScanEnds(i, reading) ==
    panel' = IF panel.scan = i THEN [panel EXCEPT !.scan = 0, !.reading = reading] ELSE panel

\* A loop that was refused, or interrupted twice at one position, throws.
LoopFails(i) ==
    /\ runs[i].kind \in Loops
    /\ runs[i].st = "broken" \/ (runs[i].st = "superseded" /\ runs[i].tries = 1)
    /\ Ends(i)
    /\ ScanEnds(i, 0)
    /\ UNCHANGED <<mounted, engineVars, revealVars, boardVars, reviewed, lists, recordVars>>

\* Mutant: a search that was taken away is not a failure, as in runAnalysis.
RevealCatchesQuietly(i) ==
    /\ runs[i].kind = "reveal"
    /\ runs[i].st \in {"superseded", "broken"}
    /\ Ends(i)
    /\ failure' = IF runs[i].st = "broken" THEN runs[i].of ELSE failure
    /\ UNCHANGED <<mounted, engineVars, stage, decision, shown, decidedAt, boardVars, reviewed,
                   panelVars, recordVars>>

\* The catch of runReveal: the engine is said to have failed, whichever
\* decision is on screen by now.
RevealCatches(i) ==
    /\ runs[i].kind = "reveal"
    /\ runs[i].st \in {"superseded", "broken"}
    /\ Ends(i)
    /\ failure' = runs[i].of
    /\ UNCHANGED <<mounted, engineVars, stage, decision, shown, decidedAt, boardVars, reviewed,
                   panelVars, recordVars>>

\* The opponent says that it did not move; the analysis button says nothing.
OthersCatch(i) ==
    /\ runs[i].kind \in {"opponent", "analysis", "warm"}
    /\ runs[i].st \in {"superseded", "broken"}
    /\ Ends(i)
    /\ UNCHANGED <<mounted, engineVars, revealVars, boardVars, reviewed, panelVars, recordVars>>

Continues(i) ==
    Ask(i) \/ Take(i) \/ AskAgain(i) \/ LoopFails(i) \/ RevealCatches(i) \/ OthersCatch(i)

\* Nobody has a continuation to run.
Drained == \A i \in Runs : runs[i].st \notin {"again", "superseded", "broken"} /\ ~Ready(i)

-----------------------------------------------------------------------------
(* What the browser and the engine answer.                                 *)

\* The dynamic import of ensureEngine: whoever comes back from it builds a
\* client, also when another one has built one in between.
ModuleLoads(i) ==
    LET c == Len(clients) + 1
    IN  /\ Drained
        /\ runs[i].st = "module"
        /\ engineRef' = c
        /\ Awaits(i, Append(clients, [promise |-> "none", holder |-> 0]), c)
        /\ UNCHANGED <<mounted, failures, revealVars, boardVars, reviewed, panelVars, recordVars>>

\* The import is refused, as a client that does not start would be.
ModuleFails(i) ==
    /\ Drained
    /\ runs[i].st = "module"
    /\ failures < MaxFailures
    /\ failures' = failures + 1
    /\ To(i, "broken")
    /\ UNCHANGED <<mounted, engineRef, clients, revealVars, boardVars, reviewed, panelVars,
                   recordVars>>

\* readyok.
EngineReady(c) ==
    /\ Drained
    /\ clients[c].promise = "pending"
    /\ clients' = [clients EXCEPT ![c].promise = "ready"]
    /\ UNCHANGED <<mounted, engineRef, failures, runs, revealVars, boardVars, reviewed, panelVars, recordVars>>

\* fail(): those that wait are refused, the search under way is left to its own
\* timer.
Fails(c) ==
    /\ Drained
    /\ clients' = [clients EXCEPT ![c].promise = "none"]
    /\ runs' = [i \in Runs |->
                  IF i \in Waiting(runs, c) THEN [runs[i] EXCEPT !.st = "broken"] ELSE runs[i]]
    /\ UNCHANGED <<mounted, engineRef, revealVars, boardVars, reviewed, panelVars, recordVars>>

\* The worker dies or does not load.
EngineFails(c) ==
    /\ clients[c].promise # "none"
    /\ failures < MaxFailures
    /\ failures' = failures + 1
    /\ Fails(c)

\* The timer of a start that was disposed of.
StaleTimer(c) ==
    /\ clients[c].promise = "none" /\ Waiting(runs, c) # {}
    /\ UNCHANGED failures
    /\ Fails(c)

\* The search of i ends, by its bestmove or by its timer, with a line of its
\* position (measured) or with emptyLine.
SearchEnds(i) ==
    /\ Drained
    /\ runs[i].st = "searching"
    /\ clients' = [clients EXCEPT ![runs[i].client].holder = 0]
Scores(r) == Append(r.got, [of |-> r.of, at |-> r.at])

\* Mutant: what is kept does not ask whether the scan was stopped.
LoopEndsKeptAnyway(i) ==
    /\ SearchEnds(i)
    /\ runs[i].kind \in Loops
    /\ runs[i].at = Length(runs[i]) \/ ~runs[i].wanted
    /\ kept' = IF runs[i].kind = "import" THEN [of |-> runs[i].of, got |-> Scores(runs[i])] ELSE kept
    /\ reviewed' = (reviewed \/ runs[i].kind = "review")
    /\ ScanEnds(i, runs[i].of)
    /\ Ends(i)
    /\ UNCHANGED <<mounted, engineRef, failures, revealVars, boardVars, lists, sent>>

\* analyzePositions: the score is pushed, measured or not, and the next
\* position asked unless the run was stopped.
LoopGoesOn(i) ==
    /\ SearchEnds(i)
    /\ runs[i].kind \in Loops
    /\ runs[i].at < Length(runs[i]) /\ runs[i].wanted
    /\ runs' = [runs EXCEPT ![i].got = Scores(runs[i]), ![i].at = @ + 1, ![i].tries = 0,
                            ![i].st = "again"]
    /\ UNCHANGED <<mounted, engineRef, failures, revealVars, boardVars, reviewed, panelVars, recordVars>>

\* The last position, or the first after a stop: a review is shown, a scan is
\* shown and, unless it was stopped, kept.
LoopEnds(i) ==
    /\ SearchEnds(i)
    /\ runs[i].kind \in Loops
    /\ runs[i].at = Length(runs[i]) \/ ~runs[i].wanted
    /\ kept' = IF runs[i].kind = "import" /\ runs[i].wanted
                 THEN [of |-> runs[i].of, got |-> Scores(runs[i])] ELSE kept
    /\ reviewed' = (reviewed \/ runs[i].kind = "review")
    /\ ScanEnds(i, runs[i].of)
    /\ Ends(i)
    /\ UNCHANGED <<mounted, engineRef, failures, revealVars, boardVars, lists, sent>>

\* The move is not among the lines of the root: one more search, of the
\* position after it.
RevealGoesOn(i) ==
    /\ SearchEnds(i)
    /\ runs[i].kind = "reveal" /\ runs[i].at = 1
    /\ \E measured \in BOOLEAN :
         runs' = [runs EXCEPT ![i].got = Scores(runs[i]), ![i].at = 2, ![i].st = "again",
                              ![i].measured = measured]
    /\ UNCHANGED <<mounted, engineRef, failures, revealVars, boardVars, reviewed, panelVars, recordVars>>

\* The last answer of a reveal: what remains is the number of decisions on
\* record, which is read anew; with a position nothing measured the run throws
\* instead.
RevealEnds(i) ==
    /\ SearchEnds(i)
    /\ runs[i].kind = "reveal"
    /\ \/ /\ runs[i].measured
          /\ runs' = [runs EXCEPT ![i].got = Scores(runs[i]), ![i].at = @ + 1,
                                  ![i].st = "counting"]
       \/ To(i, "broken")
    /\ UNCHANGED <<mounted, engineRef, failures, revealVars, boardVars, reviewed, panelVars, recordVars>>

\* Mutant: the verdict goes to the decision on screen.
RevealTellsOnScreen(i) ==
    /\ Drained
    /\ runs[i].st = "counting"
    /\ shown' = runs[i].of
    /\ sent' = [of |-> decision, got |-> runs[i].got]
    /\ Ends(i)
    /\ UNCHANGED <<mounted, engineVars, stage, decision, failure, decidedAt, boardVars, reviewed,
                   panelVars, kept>>

\* forReveal() answers, in any case and at any time: the verdict is shown, and
\* sent to the record under the decision the run was started for.
RevealTells(i) ==
    /\ Drained
    /\ runs[i].st = "counting"
    /\ shown' = runs[i].of
    /\ sent' = [of |-> runs[i].of, got |-> runs[i].got]
    /\ Ends(i)
    /\ UNCHANGED <<mounted, engineVars, stage, decision, failure, decidedAt, boardVars, reviewed,
                   panelVars, kept>>

\* A move played at the k-th position of the game: what followed it there is
\* cut off.
IndexOf(p) == CHOOSE k \in DOMAIN game : game[k] = p
PlaysAt(k, side) ==
    LET new == Len(turns) + 1
    IN  /\ new <= MaxPositions
        /\ board' = new
        /\ game' = Append(SubSeq(game, 1, k), new)
        /\ turns' = Append(turns, side)

\* Mutant: the reply is played although its effect was cleaned up.
OpponentEndsAnyway(i) ==
    /\ SearchEnds(i)
    /\ runs[i].kind = "opponent"
    /\ PlaysAt(IndexOf(board), "player")
    /\ Ends(i)
    /\ UNCHANGED <<mounted, engineRef, failures, revealVars, answered, reviewed, panelVars, recordVars>>

\* The opponent's move is played, unless its effect was cleaned up or there is
\* no move.
OpponentEnds(i) ==
    /\ SearchEnds(i)
    /\ runs[i].kind = "opponent"
    /\ \/ /\ runs[i].wanted
          /\ PlaysAt(IndexOf(board), "player")
       \/ UNCHANGED gameVars
    /\ Ends(i)
    /\ UNCHANGED <<mounted, engineRef, failures, revealVars, answered, reviewed, panelVars, recordVars>>

\* runAnalysis: the line carries its own position, so it cannot be shown for
\* another.
AnalysisEnds(i) ==
    /\ SearchEnds(i)
    /\ runs[i].kind = "analysis"
    /\ Ends(i)
    /\ UNCHANGED <<mounted, engineRef, failures, revealVars, boardVars, reviewed, panelVars, recordVars>>

Answered(i) == \/ LoopGoesOn(i) \/ LoopEnds(i) \/ RevealGoesOn(i) \/ RevealEnds(i)
               \/ RevealTells(i) \/ OpponentEnds(i) \/ AnalysisEnds(i)

-----------------------------------------------------------------------------
(* What the player does.                                                   *)

Pressed == mounted /\ Drained
Room == Len(runs) < MaxRuns

\* Coming to deciding warms a client up, the one there is or a new one; rs: the
\* runs by then.
Warms(rs) ==
    \/ /\ stage = "deciding"
       /\ runs' = rs /\ UNCHANGED clients
    \/ /\ stage # "deciding" /\ engineRef = 0 /\ Room
       /\ runs' = Append(rs, Fresh("warm", 0)) /\ UNCHANGED clients
    \/ /\ stage # "deciding" /\ engineRef # 0
       /\ runs' = Orphaned(rs, clients, engineRef)
       /\ clients' = Started(clients, engineRef)

\* resetDecision: back to deciding with nothing of the last decision.
BackToDeciding ==
    /\ stage' = "deciding"
    /\ decision' = 0 /\ shown' = 0 /\ failure' = 0
    /\ Warms(Cancelled(runs))

\* onCommit: the decision is sent to the record.
Commit ==
    /\ Pressed /\ Room
    /\ stage = "deciding"
    /\ stage' = "committing"
    /\ runs' = Cancelled(Starts("commit", board))
    /\ UNCHANGED <<mounted, engineVars, decision, shown, failure, decidedAt, boardVars, reviewed,
                   panelVars, recordVars>>

\* It is stored, and runReveal starts, whatever the page shows by now; what is
\* shown of a decision is not cleared.
CommitStored(i) ==
    LET n == Len(decidedAt) + 1
    IN  /\ Drained
        /\ runs[i].st = "storing"
        /\ stage' = "revealed"
        /\ decidedAt' = Append(decidedAt, runs[i].of)
        /\ decision' = n
        /\ failure' = 0
        /\ runs' = Cancelled([runs EXCEPT ![i] = Fresh("reveal", n)])
        /\ UNCHANGED <<mounted, engineVars, shown, boardVars, reviewed, panelVars, recordVars>>

\* It is refused: the page goes back to deciding, whatever it shows by now, and
\* clears nothing.
CommitFails(i) ==
    /\ Drained
    /\ runs[i].st = "storing"
    /\ stage' = "deciding"
    /\ Warms([runs EXCEPT ![i] = Over(@)])
    /\ UNCHANGED <<mounted, engineRef, failures, decision, shown, failure, decidedAt, boardVars,
                   reviewed, panelVars, recordVars>>

\* dispose(): the holder is rejected, the client will start anew.
Disposes(c, rs) ==
    /\ clients' = [clients EXCEPT ![c] = [promise |-> "none", holder |-> 0]]
    /\ runs' = [i \in DOMAIN rs |->
                  IF i = clients[c].holder THEN [rs[i] EXCEPT !.st = "superseded"] ELSE rs[i]]

\* retryReveal: the engine is put away, whoever uses it, and the same decision
\* asked about on a new one.
RetryReveal ==
    /\ Pressed /\ Room
    /\ stage = "revealed" /\ failure # 0
    /\ IF engineRef = 0
         THEN runs' = Starts("reveal", Len(decidedAt)) /\ UNCHANGED clients
         ELSE Disposes(engineRef, Starts("reveal", Len(decidedAt)))
    /\ engineRef' = 0 /\ UNCHANGED failures
    /\ decision' = Len(decidedAt) /\ failure' = 0
    /\ UNCHANGED <<mounted, stage, shown, decidedAt, boardVars, reviewed, panelVars, recordVars>>

\* nextDecision: the committed move is played in the position it was taken in,
\* or a loaded game goes on along itself.  Both go by the ply of the decision,
\* which is of another game when one was loaded before the commit was answered.
NextDecision ==
    /\ Pressed
    /\ stage = "revealed"
    /\ shown # 0 \/ failure # 0
    /\ \E k \in DOMAIN game :
         /\ decidedAt[decision] \in Positions => k = IndexOf(decidedAt[decision])
         /\ \/ \E side \in Sides : PlaysAt(k, side)
            \/ /\ k < Len(game)
               /\ board' = game[k + 1]
               /\ UNCHANGED <<game, turns>>
    /\ BackToDeciding
    /\ UNCHANGED <<mounted, engineRef, failures, decidedAt, answered, reviewed, panelVars, recordVars>>

\* newGame, importPgn, loadLichessGame: offered while a reveal is on screen,
\* finished or not, and by the import panel as long as it is open.
LoadGame ==
    LET new == Len(turns) + 1
    IN  /\ Pressed
        /\ stage = "revealed" \/ panel # NoPanel
        /\ new <= MaxPositions
        /\ board' = new /\ game' = <<new>>
        /\ \E side \in Sides : turns' = Append(turns, side)
        /\ answered' = 0
        /\ panel' = NoPanel
        /\ BackToDeciding
        /\ UNCHANGED <<mounted, engineRef, failures, decidedAt, reviewed, lists, recordVars>>

\* The timeline, live at every stage: the effect of the opponent is cleaned up.
Browse ==
    /\ Pressed
    /\ board' \in Positions \ {board}
    /\ runs' = Cancelled(runs)
    /\ UNCHANGED <<mounted, engineVars, revealVars, game, turns, answered, reviewed, panelVars,
                   recordVars>>

\* The effect of the opponent, for a position it was not asked about last.
OpponentIsAsked ==
    /\ Pressed /\ Room
    /\ stage = "deciding"
    /\ turns[board] = "opponent" /\ answered # board
    /\ answered' = board
    /\ runs' = Starts("opponent", board)
    /\ UNCHANGED <<mounted, engineVars, revealVars, gameVars, reviewed, panelVars, recordVars>>

\* runAnalysis.
Analyse ==
    /\ Pressed /\ Room
    /\ stage = "revealed"
    /\ runs' = Starts("analysis", board)
    /\ UNCHANGED <<mounted, engineVars, revealVars, boardVars, reviewed, panelVars, recordVars>>

\* runGameReview: offered while there is neither a review nor one under way.
Review ==
    /\ Pressed /\ Room
    /\ stage = "revealed"
    /\ ~reviewed
    /\ ~ \E i \in Runs : runs[i].kind = "review" /\ runs[i].st # "over"
    /\ runs' = Starts("review", board)
    /\ UNCHANGED <<mounted, engineVars, revealVars, boardVars, reviewed, panelVars, recordVars>>

\* search() of the import panel: another list, whatever scan is under way.
SearchGames ==
    /\ Pressed
    /\ stage = "revealed" \/ panel # NoPanel
    /\ lists < MaxLists
    /\ lists' = lists + 1
    /\ panel' = [panel EXCEPT !.list = lists + 1, !.reading = 0]
    /\ UNCHANGED <<mounted, engineVars, runs, revealVars, boardVars, reviewed, recordVars>>

\* Closing the panel forgets its state and stops nothing.
ClosePanel ==
    /\ Pressed
    /\ panel # NoPanel
    /\ panel' = NoPanel
    /\ UNCHANGED <<mounted, engineVars, runs, revealVars, boardVars, reviewed, lists, recordVars>>

\* scan(): of the list on screen, when no scan of this panel is under way.
Scan ==
    /\ Pressed /\ Room
    /\ panel.list # 0 /\ panel.scan = 0 /\ panel.reading = 0
    /\ runs' = Starts("import", panel.list)
    /\ panel' = [panel EXCEPT !.scan = Len(runs) + 1]
    /\ UNCHANGED <<mounted, engineVars, revealVars, boardVars, reviewed, lists, recordVars>>
StopScan ==
    /\ Pressed
    /\ panel.scan # 0 /\ runs[panel.scan].wanted
    /\ runs' = [runs EXCEPT ![panel.scan].wanted = FALSE]
    /\ UNCHANGED <<mounted, engineVars, revealVars, boardVars, reviewed, panelVars, recordVars>>

\* The page is left: its client is disposed of and stays in engineRef; what is
\* under way goes on.
Leave ==
    /\ Pressed
    /\ mounted' = FALSE
    /\ panel' = NoPanel
    /\ IF engineRef = 0
         THEN runs' = Cancelled(runs) /\ UNCHANGED clients
         ELSE Disposes(engineRef, Cancelled(runs))
    /\ UNCHANGED <<engineRef, failures, revealVars, boardVars, reviewed, lists, recordVars>>

Next ==
    \/ \E i \in Runs : Continues(i) \/ ModuleLoads(i) \/ ModuleFails(i) \/ Answered(i)
                       \/ CommitStored(i) \/ CommitFails(i)
    \/ \E c \in Clients : EngineReady(c) \/ EngineFails(c) \/ StaleTimer(c)
    \/ Commit \/ RetryReveal \/ NextDecision \/ LoadGame \/ Browse \/ OpponentIsAsked
    \/ Analyse \/ Review \/ SearchGames \/ ClosePanel \/ Scan \/ StopScan \/ Leave

Spec == Init /\ [][Next]_vars

-----------------------------------------------------------------------------
(* What holds.                                                             *)

TypeOK ==
    /\ mounted \in BOOLEAN /\ reviewed \in BOOLEAN
    /\ engineRef \in 0..Len(clients)
    /\ \A c \in Clients : /\ clients[c].promise \in {"none", "pending", "ready"}
                          /\ clients[c].holder \in 0..Len(runs)
    /\ \A i \in Runs : /\ runs[i].kind \in Kinds /\ runs[i].st \in States
                       /\ runs[i].client \in 0..Len(clients)
    /\ stage \in {"deciding", "committing", "revealed"}
    /\ {decision, shown, failure} \subseteq 0..Len(decidedAt)
    /\ stage = "revealed" => decision # 0
    /\ board \in Positions /\ Positions \subseteq DOMAIN turns
    /\ panel.scan \in 0..Len(runs)

\* A search and its holder point at each other.
OneSearchEach == \A i \in Runs :
    runs[i].st = "searching" <=> \E c \in Clients : clients[c].holder = i /\ runs[i].client = c

\* The state has its shape, and the verdict that goes to the record was measured
\* in the position of the decision it is sent under, root and played move,
\* whatever the screen has come to show and whoever took the engine on the way
\* (runReveal, submitReveal).
VerdictsAreTheirOwn ==
    /\ TypeOK /\ OneSearchEach
    /\ \A k \in DOMAIN sent.got : sent.got[k] = [of |-> sent.of, at |-> k]

\* A reading that is kept has every position of its games once and in order,
\* whatever interrupted the scan (scoreOne, analyzePositions, scan).
KeptCoversItsGames ==
    kept # Nothing => kept.got = [p \in 1..ScanLength |-> [of |-> kept.of, at |-> p]]

\* The opponent's reply is played in the position it was asked for, while the
\* player decides and the move is the opponent's, however long the search took
\* (the effect of the opponent and its cleanup).
RepliesFitTheBoard ==
    [][\A i \in Runs :
         runs[i].kind = "opponent" /\ runs[i].st = "searching"
         /\ runs'[i].st = "over" /\ board' # board
           => /\ mounted /\ stage = "deciding"
              /\ board = runs[i].of /\ turns[board] = "opponent"]_vars

\* A decision that is waited for has a reveal under way, which is refused or
\* answered in the end: the screen never waits with nobody at work (runReveal,
\* "no control that advances").
SomebodyIsAtWork ==
    mounted /\ stage = "revealed" /\ shown = 0 /\ failure = 0 =>
      \E i \in Runs : runs[i].kind = "reveal" /\ runs[i].of = decision
                     /\ runs[i].st \notin {"over", "orphaned"}

-----------------------------------------------------------------------------
(* What the source says and the code does not do.                          *)

\* What is shown of a decision is of that decision (resetDecision, "carrying
\* nothing forward from the decision just finished").
NothingIsCarriedForward == stage = "revealed" /\ shown # 0 => shown = decision

\* The failure on screen is of the decision on screen (retryReveal, "the failure
\* it answers is a wasm that never loaded or a worker that died").
FailsForItself == stage = "revealed" /\ failure # 0 => failure = decision

\* "The page holds ONE engine" (scoreOne).
OneEngine == Len(clients) <= 1

\* An opponent that is to move has been asked and is thinking, or has said that
\* it does not move (the comment on ensureEngine, "someone has to play the other
\* side").
OpponentIsAtWork ==
    mounted /\ stage = "deciding" /\ turns[board] = "opponent" /\ answered = board =>
      \E i \in Runs : runs[i].kind = "opponent" /\ runs[i].of = board /\ runs[i].wanted

\* The reading on screen is of the games listed above it (scan).
ReadingIsOfTheGames == panel.reading # 0 /\ panel.list # 0 => panel.reading = panel.list
=============================================================================
