--------------------------- MODULE BlitzAnalysis ---------------------------
(***************************************************************************)
(* The analysis of stored blitz games: the hook that starts a pass         *)
(* (use-blitz-analysis.ts), the pass (blitz-analysis-runner.ts,            *)
(* blitz-analysis-queue.ts) and its write (attachBlitzAnalysis of          *)
(* record-service.ts, server/record.ts and local-record-store.ts).         *)
(* Several tabs run passes over one record.  A tab stands for the engine   *)
(* build it carries, and for the scores that build finds.                  *)
(***************************************************************************)
EXTENDS Naturals, FiniteSets

CONSTANTS Tabs, Games,
          NoTab,        \* no provenance, no score
          NoGame,       \* no game in hand
          MaxMishaps    \* bound: hung engines, failed writes, reloads

ASSUME AnalysisAssumption == NoTab \notin Tabs /\ NoGame \notin Games /\ MaxMishaps \in Nat

VARIABLES
  store,      \* which RecordStore: "server" or "local"
  recorded,   \* the stored games; the others have not been played
  by,         \* provenance of a game, NoTab while it is pending
  score,      \* per game: whose scores the decision rows carry
  known,      \* tabs that have last rendered hasPending
  step,       \* how far the tab's pass is, "idle" if none is in flight
  listed,     \* pending games the pass was told of
  ready,      \* games it still has to score, the one in hand included
  game,       \* the game in hand, one of ready
  givenUp,    \* the runner's unscoreable games
  engine,     \* the pass's engine: none, good, hung
  mishaps

record == <<store, recorded, by, score>>
pass == <<step, listed, ready, game, engine>>
analysisVars == <<record, known, pass, givenUp, mishaps>>

Held == {"scoring", "reread", "check", "write"}
Steps == {"idle", "games", "decisions", "engine"} \cup Held

AnalysisTypeOK ==
  /\ store \in {"server", "local"}
  /\ recorded \subseteq Games
  /\ by \in [Games -> Tabs \cup {NoTab}]
  /\ score \in [Games -> Tabs \cup {NoTab}]
  /\ known \subseteq Tabs
  /\ step \in [Tabs -> Steps]
  /\ listed \in [Tabs -> SUBSET Games]
  /\ ready \in [Tabs -> SUBSET Games]
  /\ game \in [Tabs -> Games \cup {NoGame}]
  /\ \A t \in Tabs : step[t] \in Held => game[t] \in ready[t]
  /\ givenUp \in [Tabs -> SUBSET Games]
  /\ engine \in [Tabs -> {"none", "good", "hung"}]
  /\ mishaps \in 0..MaxMishaps

AnalysisInit ==
  /\ store \in {"server", "local"}
  /\ recorded = {}
  /\ by = [g \in Games |-> NoTab] /\ score = [g \in Games |-> NoTab]
  /\ known = {}
  /\ step = [t \in Tabs |-> "idle"]
  /\ listed = [t \in Tabs |-> {}] /\ ready = [t \in Tabs |-> {}]
  /\ game = [t \in Tabs |-> NoGame]
  /\ givenUp = [t \in Tabs |-> {}]
  /\ engine = [t \in Tabs |-> "none"]
  /\ mishaps = 0

Unanalysed == {g \in recorded : by[g] = NoTab}

\* The game and its decisions are one transaction.
SaveGame(g) ==
  /\ g \notin recorded
  /\ recorded' = recorded \cup {g}
  /\ UNCHANGED <<store, by, score, known, pass, givenUp, mishaps>>

-----------------------------------------------------------------------------
(* The hook.                                                               *)

\* run(): a caller joins the pass in flight.
Run(t) == step' = [step EXCEPT ![t] = IF @ = "idle" THEN "games" ELSE @]

\* The list of games is fetched again; the effect depends on hasPending alone.
Refetch(t) ==
  /\ known' = IF Unanalysed # {} THEN known \cup {t} ELSE known \ {t}
  /\ IF t \in known' \ known THEN Run(t) ELSE UNCHANGED step
  /\ UNCHANGED <<record, listed, ready, game, givenUp, engine, mishaps>>

\* A screen with the hook is opened while the page's list has a pending game.
Mount(t) ==
  /\ t \in known
  /\ Run(t)
  /\ UNCHANGED <<record, known, listed, ready, game, givenUp, engine, mishaps>>

-----------------------------------------------------------------------------
(* A pass.                                                                 *)

\* pendingAnalyses: a pending game without decisions is given up.  When there
\* is nothing to score, no engine is built.
Found(t, games, withRows) ==
  LET work == (games \cap withRows) \ givenUp[t] IN
  /\ givenUp' = [givenUp EXCEPT ![t] = @ \cup (games \ withRows)]
  /\ ready' = [ready EXCEPT ![t] = work]
  /\ step' = [step EXCEPT ![t] = IF work = {} THEN "idle" ELSE "engine"]
  /\ listed' = [listed EXCEPT ![t] = {}]
  /\ UNCHANGED <<record, known, game, engine, mishaps>>

Listed(t, games) ==
  /\ listed' = [listed EXCEPT ![t] = games]
  /\ step' = [step EXCEPT ![t] = "decisions"]
  /\ UNCHANGED <<record, known, ready, game, givenUp, engine, mishaps>>

\* Mutant: the decisions are read before the games.
ScanDecisionsFirst(t) ==
  \/ step[t] = "games" /\ Listed(t, recorded)
  \/ step[t] = "decisions" /\ Found(t, Unanalysed, listed[t])

\* listPending: two reads, the games and then the decisions.
Scan(t) ==
  \/ step[t] = "games" /\ Listed(t, Unanalysed)
  \/ step[t] = "decisions" /\ Found(t, listed[t], recorded)

BuildEngine(t) ==
  /\ step[t] = "engine"
  /\ engine' = [engine EXCEPT ![t] = "good"]
  /\ step' = [step EXCEPT ![t] = "scoring"]
  /\ \E g \in ready[t] : game' = [game EXCEPT ![t] = g]
  /\ UNCHANGED <<record, known, listed, ready, givenUp, mishaps>>

\* scorePending: every position of the game is evaluated.
Evaluate(t) ==
  /\ step[t] = "scoring" /\ engine[t] = "good"
  /\ step' = [step EXCEPT ![t] = "reread"]
  /\ UNCHANGED <<record, known, listed, ready, game, givenUp, engine, mishaps>>

\* The worker stops answering.
Hang(t) ==
  /\ step[t] = "scoring" /\ engine[t] = "good"
  /\ mishaps < MaxMishaps /\ mishaps' = mishaps + 1
  /\ engine' = [engine EXCEPT ![t] = "hung"]
  /\ UNCHANGED <<record, known, step, listed, ready, game, givenUp>>

\* Mutant: a pass that throws stays the one in flight.
AbortedStays(t) ==
  /\ engine' = [engine EXCEPT ![t] = "none"]
  /\ step' = [step EXCEPT ![t] = "thrown"]
  /\ ready' = [ready EXCEPT ![t] = {}] /\ game' = [game EXCEPT ![t] = NoGame]

\* Mutant: no finally.
AbortedKeepsEngine(t) ==
  /\ step' = [step EXCEPT ![t] = "idle"]
  /\ ready' = [ready EXCEPT ![t] = {}] /\ game' = [game EXCEPT ![t] = NoGame]
  /\ UNCHANGED engine

\* The pass throws: its engine is disposed of, and none is in flight.
Aborted(t) ==
  /\ engine' = [engine EXCEPT ![t] = "none"]
  /\ step' = [step EXCEPT ![t] = "idle"]
  /\ ready' = [ready EXCEPT ![t] = {}] /\ game' = [game EXCEPT ![t] = NoGame]

\* withTimeout.  An engine that still works is given thirty seconds, and is
\* taken to answer within them.
Timeout(t) ==
  /\ step[t] = "scoring" /\ engine[t] = "hung"
  /\ Aborted(t)
  /\ UNCHANGED <<record, known, listed, givenUp, mishaps>>

\* On to the next game, or the end of the pass.
NextGame(t) ==
  LET left == ready[t] \ {game[t]} IN
  IF left = {} THEN Aborted(t)
  ELSE /\ ready' = [ready EXCEPT ![t] = left]
       /\ \E g \in left : game' = [game EXCEPT ![t] = g]
       /\ step' = [step EXCEPT ![t] = "scoring"]
       /\ UNCHANGED engine

\* recordFor and attachAnalysis: the stored game, now with this tab's scores.
Reread(t) ==
  /\ step[t] = "reread"
  /\ step' = [step EXCEPT ![t] = "check"]
  /\ UNCHANGED <<record, known, listed, ready, game, givenUp, engine, mishaps>>

-----------------------------------------------------------------------------
(* The write: the service reads the state of the game, the store writes.   *)

Check(t) ==
  /\ step[t] = "check"
  /\ IF by[game[t]] = NoTab
     THEN /\ step' = [step EXCEPT ![t] = "write"]
          /\ UNCHANGED <<ready, game, engine>>
     ELSE NextGame(t)
  /\ UNCHANGED <<record, known, listed, givenUp, mishaps>>

\* Mutant: the game row is updated whatever its state.
AttachUnguarded(t) ==
  /\ by' = [by EXCEPT ![game[t]] = t]
  /\ score' = [score EXCEPT ![game[t]] = t]

\* Mutant: the local store does not ask again either.
AttachUnasked(t) ==
  /\ by' = [by EXCEPT ![game[t]] = IF @ = NoTab THEN t ELSE @]
  /\ score' = [score EXCEPT ![game[t]] = t]

\* The server's update asks for a pending game row and writes the decision
\* rows in any case; the local store returns when the game is not pending.
Attach(t) ==
  /\ by' = [by EXCEPT ![game[t]] = IF @ = NoTab THEN t ELSE @]
  /\ score' = [score EXCEPT ![game[t]] = IF by[game[t]] = NoTab \/ store = "server" THEN t ELSE @]

Write(t) ==
  /\ step[t] = "write"
  /\ Attach(t)
  /\ NextGame(t)
  /\ UNCHANGED <<store, recorded, known, listed, givenUp, mishaps>>

\* A call is lost on its way, or its answer is: the pass throws.
WriteFails(t) ==
  /\ step[t] = "write"
  /\ mishaps < MaxMishaps /\ mishaps' = mishaps + 1
  /\ Attach(t) \/ UNCHANGED <<by, score>>
  /\ Aborted(t)
  /\ UNCHANGED <<store, recorded, known, listed, givenUp>>

ReadFails(t) ==
  /\ step[t] \in Steps \ {"idle", "scoring", "write"}
  /\ mishaps < MaxMishaps /\ mishaps' = mishaps + 1
  /\ Aborted(t)
  /\ listed' = [listed EXCEPT ![t] = {}]
  /\ UNCHANGED <<record, known, givenUp>>

\* The tab is reloaded: a new page, a new runner.
Reload(t) ==
  /\ mishaps < MaxMishaps /\ mishaps' = mishaps + 1
  /\ Aborted(t)
  /\ known' = known \ {t}
  /\ listed' = [listed EXCEPT ![t] = {}]
  /\ givenUp' = [givenUp EXCEPT ![t] = {}]
  /\ UNCHANGED record

-----------------------------------------------------------------------------

AnalysisNext ==
  \/ \E g \in Games : SaveGame(g)
  \/ \E t \in Tabs :
       \/ Refetch(t) \/ Mount(t)
       \/ Scan(t) \/ BuildEngine(t) \/ Evaluate(t) \/ Hang(t) \/ Timeout(t)
       \/ Reread(t) \/ Check(t) \/ Write(t) \/ WriteFails(t) \/ ReadFails(t)
       \/ Reload(t)

AnalysisSpec == AnalysisInit /\ [][AnalysisNext]_analysisVars

\* The page runs its promises, the store answers, the timer fires; lists are
\* fetched again after every write and pass; and the player keeps opening
\* screens.  Nothing is assumed of the worker.
LiveSpec ==
  /\ AnalysisSpec
  /\ \A t \in Tabs :
       /\ WF_analysisVars(Scan(t)) /\ WF_analysisVars(BuildEngine(t))
       /\ WF_analysisVars(Evaluate(t) \/ Timeout(t))
       /\ WF_analysisVars(Reread(t)) /\ WF_analysisVars(Check(t)) /\ WF_analysisVars(Write(t))
       /\ WF_analysisVars(Refetch(t)) /\ WF_analysisVars(Mount(t))

-----------------------------------------------------------------------------
(* Properties.                                                             *)

\* A game that is scored once keeps the engine it names, whatever a second
\* tab or a late write still does.
ProvenanceIsFinal ==
  [][\A g \in Games : by[g] # NoTab => by'[g] = by[g]]_by

\* A game of the local record carries the scores of the engine it names.
LocalScoresAreItsEngines ==
  store = "local" => score = by

\* The same of any record (server/record.ts:676, blitz-strata.ts).
ScoresAreItsEngines == score = by

\* No game is given up that has its decisions on record: the two reads of a
\* scan are two moments, and a game may be saved between them.
NothingGoodIsGivenUp == \A t \in Tabs : givenUp[t] \cap recorded = {}

\* An engine lives inside a pass and no longer, however the pass ends.
EngineEndsWithThePass ==
  \A t \in Tabs : engine[t] # "none" => step[t] \in Held

\* Every stored game is scored in the end, also when engines hang and writes
\* are lost, as long as somebody goes on opening screens.
EveryGameIsScored == \A g \in Games : g \in recorded ~> by[g] # NoTab
=============================================================================
