----------------------------- MODULE BlitzGame -----------------------------
(***************************************************************************)
(* A timed game on its page: the pure core with its clocks                 *)
(* (blitz-game-core.ts), the question put after a move                     *)
(* (blitz-instrument.ts), the opponent's search and the write of the       *)
(* finished game (Blitz.tsx, saveBlitzGame).  Clocks hold whole            *)
(* milliseconds; `now`, which performance.now() reads, counts half         *)
(* milliseconds, so that rounding is visible.  Of a position only what it  *)
(* does to the game is kept: it goes on, it is mate, it is a draw.         *)
(***************************************************************************)
EXTENDS Integers, Sequences

CONSTANTS Initial,      \* milliseconds each side starts with
          Increment,    \* milliseconds added by a move
          MaxGames,     \* bound: games played on the page
          MaxPly,       \* bound: moves of each game
          MaxTime,      \* bound: half milliseconds
          MaxFaults     \* bound: writes that fail

ASSUME BlitzAssumption == /\ Initial \in Nat \ {0} /\ Increment \in Nat
                          /\ MaxGames \in Nat /\ MaxPly \in [1..MaxGames -> Nat]
                          /\ MaxTime \in Nat /\ MaxFaults \in Nat

Side == {"w", "b"}
Player == "w"
Other(side) == IF side = "w" THEN "b" ELSE "w"
GameIds == 1..MaxGames

VARIABLES
  now,          \* the monotonic reading, counted from the start of the game
  phase,        \* idle, running, finished
  outcome,      \* of a finished game
  active,       \* whose turn it is
  clock,        \* clocksAtTurnStart
  mark,         \* turnStartedAtMs
  decisions,    \* the committed moves
  questions,    \* the instrument's session: one entry per move of the player
  open,         \* the entry whose question is on screen, 0 if none
  reply,        \* the opponent's search: none, thinking, spent
  gameId,       \* played.current: the game on the page
  saved,        \* played.current.saved: the pending write has gone out
  calls,        \* saveBlitzGame calls the store has not handled
  stored,       \* the store: a record per game
  faults

core == <<phase, outcome, active, clock, mark, decisions>>
instrument == <<questions, open>>
write == <<saved, calls, stored, faults>>
vars == <<now, core, instrument, reply, gameId, write>>

Outcomes == [kind : {"flag", "checkmate", "resignation"}, loser : Side]
            \cup {[kind |-> "draw", loser |-> "none"], [kind |-> "none", loser |-> "none"]}
NoOutcome == [kind |-> "none", loser |-> "none"]
Decision == [ply : Nat, side : Side, think : Nat, before : Int, opponent : Int]
Question == [ply : Nat, asked : BOOLEAN, answered : BOOLEAN]
NoRecord == [outcome |-> NoOutcome, rows |-> <<>>]
Row == [decision : Decision, asked : BOOLEAN, answered : BOOLEAN]
Record == [outcome : Outcomes, rows : Seq(Row)]

TypeOK ==
  /\ now \in 0..MaxTime
  /\ phase \in {"idle", "running", "finished"}
  /\ outcome \in Outcomes /\ (phase = "finished") = (outcome # NoOutcome)
  /\ active \in Side
  /\ clock \in [Side -> Int]
  /\ mark \in 0..now
  /\ decisions \in Seq(Decision)
  /\ questions \in Seq(Question)
  /\ open \in 0..Len(questions)
  /\ reply \in {"none", "thinking", "spent"}
  /\ gameId \in 0..MaxGames
  /\ saved \in BOOLEAN
  /\ \A c \in calls : c.game \in GameIds /\ c.record \in Record
  /\ stored \in [GameIds -> Record]
  /\ faults \in 0..MaxFaults

Init ==
  /\ now = 0
  /\ phase = "idle" /\ outcome = NoOutcome /\ active = "w"
  /\ clock = [side \in Side |-> Initial] /\ mark = 0
  /\ decisions = <<>>
  /\ questions = <<>> /\ open = 0
  /\ reply = "none"
  /\ gameId = 0
  /\ saved = FALSE /\ calls = {} /\ stored = [g \in GameIds |-> NoRecord]
  /\ faults = 0

-----------------------------------------------------------------------------
(* The clock.                                                              *)

\* durationMs: Math.round of a number of half milliseconds, up at one half.
Duration(from, to) == (to - from + 1) \div 2

\* remainingMs of the side to move, in half milliseconds.
Remaining == 2 * clock[active] - (now - mark)
HasFlagged == phase = "running" /\ Remaining <= 0
\* What commit tests: the same clock after rounding the time of the move.
CommitFlags == clock[active] - Duration(mark, now) <= 0

Tick ==
  /\ phase # "idle" /\ now < MaxTime
  /\ now' = now + 1
  /\ UNCHANGED <<core, instrument, reply, gameId, write>>

Finish(how) ==
  /\ phase' = "finished"
  /\ outcome' = how
  /\ UNCHANGED <<active, clock, mark, decisions>>

-----------------------------------------------------------------------------
(* The game.                                                               *)

\* Mutant: the id of the page's first game is kept.
StartGameSameId ==
  /\ phase = "idle"
  /\ phase' = "running"
  /\ questions' = <<>> /\ open' = 0
  /\ gameId' = 1 /\ saved' = FALSE
  /\ UNCHANGED <<now, outcome, active, clock, mark, decisions, reply, calls, stored, faults>>

StartGame ==
  /\ phase = "idle" /\ gameId < MaxGames
  /\ phase' = "running"
  /\ questions' = <<>> /\ open' = 0
  /\ gameId' = gameId + 1 /\ saved' = FALSE
  /\ UNCHANGED <<now, outcome, active, clock, mark, decisions, reply, calls, stored, faults>>

PlayAgain ==
  /\ phase = "finished" /\ stored[gameId] # NoRecord
  /\ phase' = "idle" /\ outcome' = NoOutcome /\ active' = "w"
  /\ clock' = [side \in Side |-> Initial] /\ mark' = 0 /\ now' = 0
  /\ decisions' = <<>>
  /\ UNCHANGED <<instrument, reply, gameId, write>>

\* outcomeOf, asked of the position after the move.
After(position) ==
  CASE position = "on"   -> NoOutcome
    [] position = "mate" -> [kind |-> "checkmate", loser |-> Other(active)]
    [] position = "draw" -> [kind |-> "draw", loser |-> "none"]

\* Mutant: the increment goes to the side that is to move next.
CommitIncrementsNext(position) ==
  /\ Len(decisions) < MaxPly[gameId]
  /\ decisions' = Append(decisions,
       [ply |-> Len(decisions) + 1, side |-> active, think |-> Duration(mark, now),
        before |-> clock[active], opponent |-> clock[Other(active)]])
  /\ clock' = [side \in Side |-> IF side = active THEN clock[side] - Duration(mark, now)
                                ELSE clock[side] + Increment]
  /\ active' = Other(active)
  /\ mark' = now
  /\ outcome' = After(position)
  /\ phase' = IF After(position) = NoOutcome THEN "running" ELSE "finished"

\* commit, of a move that is legal in the position.
Commit(position) ==
  /\ Len(decisions) < MaxPly[gameId]
  /\ decisions' = Append(decisions,
       [ply |-> Len(decisions) + 1, side |-> active, think |-> Duration(mark, now),
        before |-> clock[active], opponent |-> clock[Other(active)]])
  /\ clock' = [clock EXCEPT ![active] = @ - Duration(mark, now) + Increment]
  /\ active' = Other(active)
  /\ mark' = now
  /\ outcome' = After(position)
  /\ phase' = IF After(position) = NoOutcome THEN "running" ELSE "finished"

\* commit, when the mover's time had run out.
CommitTooLate ==
  /\ CommitFlags
  /\ Finish([kind |-> "flag", loser |-> active])

\* recordCommitted: the sampler decides whether the move just made is asked about.
RecordCommitted(ask) ==
  /\ questions' = Append(questions, [ply |-> Len(decisions) + 1, asked |-> ask, answered |-> FALSE])
  /\ open' = IF ask THEN Len(questions) + 1 ELSE 0

PlayersTurn == phase = "running" /\ active = Player /\ open = 0

\* onMove.
PlayerMoves(position, ask) ==
  /\ PlayersTurn
  /\ ~CommitFlags /\ Commit(position)
  /\ RecordCommitted(ask)
  /\ reply' = "none"
  /\ UNCHANGED <<now, gameId, write>>

PlayerMovesTooLate ==
  /\ PlayersTurn
  /\ CommitTooLate
  /\ reply' = "none"
  /\ UNCHANGED <<now, instrument, gameId, write>>

Answer ==
  /\ open # 0
  /\ questions' = [questions EXCEPT ![open].answered = TRUE]
  /\ open' = 0
  /\ reply' = "none"
  /\ UNCHANGED <<now, core, gameId, write>>

Resign ==
  /\ phase = "running"
  /\ Finish([kind |-> "resignation", loser |-> Player])
  /\ reply' = "none"
  /\ UNCHANGED <<now, instrument, gameId, write>>

\* The effect that looks at the clock, whenever the page is painted.
Observe ==
  /\ HasFlagged
  /\ Finish([kind |-> "flag", loser |-> active])
  /\ reply' = "none"
  /\ UNCHANGED <<now, instrument, gameId, write>>

-----------------------------------------------------------------------------
(* The opponent.  A change of the game or of the session cancels its       *)
(* search; without one, a search is not started again.                     *)

\* Mutant: the opponent does not wait.
MayRevealAlways == TRUE
MayReveal == open = 0

OpponentThinks ==
  /\ phase = "running" /\ active # Player /\ MayReveal
  /\ reply = "none"
  /\ reply' = "thinking"
  /\ UNCHANGED <<now, core, instrument, gameId, write>>

OpponentMoves(position) ==
  /\ reply = "thinking"
  /\ ~CommitFlags /\ Commit(position)
  /\ reply' = "none"
  /\ UNCHANGED <<now, instrument, gameId, write>>

OpponentMovesTooLate ==
  /\ reply = "thinking"
  /\ CommitTooLate
  /\ reply' = "none"
  /\ UNCHANGED <<now, instrument, gameId, write>>

\* The engine fails or finds nothing, or its move is a promotion: the page
\* hands commit no piece to promote to, and the move is refused.
OpponentFails ==
  /\ reply = "thinking"
  /\ reply' = "spent"
  /\ UNCHANGED <<now, core, instrument, gameId, write>>

-----------------------------------------------------------------------------
(* The record of the game.                                                 *)

\* decisions.filter by side, as a recursive function: no prover knows SelectSeq.
MovesOf(side, moves) ==
  LET found[n \in 0..Len(moves)] ==
        IF n = 0 THEN <<>>
        ELSE IF moves[n].side = side THEN Append(found[n - 1], moves[n]) ELSE found[n - 1]
  IN  found[Len(moves)]

\* toPendingRecord: the player's moves, each joined with its question.
Mine == MovesOf(Player, decisions)
Joins == /\ Len(Mine) > 0
         /\ Len(Mine) = Len(questions)
         /\ \A i \in DOMAIN Mine : Mine[i].ply = questions[i].ply
Pending ==
  [outcome |-> outcome,
   rows |-> [i \in DOMAIN Mine |->
              [decision |-> Mine[i], asked |-> questions[i].asked, answered |-> questions[i].answered]]]

Save ==
  /\ phase = "finished" /\ ~saved
  /\ Joins
  /\ saved' = TRUE
  /\ calls' = calls \cup {[game |-> gameId, record |-> Pending]}
  /\ UNCHANGED <<now, core, instrument, reply, gameId, stored, faults>>

\* saveBlitzGame: a game that is on record is left as it is.
Keep(call) == IF stored[call.game] = NoRecord THEN [stored EXCEPT ![call.game] = call.record] ELSE stored

SaveLands(call) ==
  /\ stored' = Keep(call)
  /\ calls' = calls \ {call}
  /\ UNCHANGED <<now, core, instrument, reply, gameId, saved, faults>>

\* The write fails, or it is done and its answer lost: the page, which may
\* show another game by now, takes its write for undone.
SaveFails(call) ==
  /\ faults < MaxFaults /\ faults' = faults + 1
  /\ stored' \in {stored, Keep(call)}
  /\ calls' = calls \ {call}
  /\ saved' = FALSE
  /\ UNCHANGED <<now, core, instrument, reply, gameId>>

-----------------------------------------------------------------------------

Next ==
  \/ Tick \/ StartGame \/ PlayAgain \/ PlayerMovesTooLate
  \/ Answer \/ Resign \/ Observe
  \/ OpponentThinks \/ OpponentMovesTooLate \/ OpponentFails \/ Save
  \/ \E position \in {"on", "mate", "draw"} :
       \/ OpponentMoves(position)
       \/ \E ask \in BOOLEAN : PlayerMoves(position, ask)
  \/ \E call \in calls : SaveLands(call) \/ SaveFails(call)

Spec == Init /\ [][Next]_vars

-----------------------------------------------------------------------------
(* Properties.                                                             *)

By(side) == MovesOf(side, decisions)
Spent(moves) ==
  LET sum[n \in 0..Len(moves)] == IF n = 0 THEN 0 ELSE sum[n - 1] + moves[n].think
  IN  sum[Len(moves)]

\* The state has its shape.  Over a whole game a clock is what it started with,
\* plus its increments, less the times recorded for its own moves: waiting,
\* looking at the clock, a question on screen or the other side's move cost it
\* nothing, and those times miss what passed by half a millisecond a move at
\* most.  So whoever lost on time had none left, to the half millisecond
\* (commit, observe, hasFlagged).
ClocksAddUp ==
  /\ TypeOK
  /\ phase # "idle" =>
       /\ \A side \in Side :
            clock[side] = Initial + Increment * Len(By(side)) - Spent(By(side))
       /\ 2 * Spent(decisions) - mark \in 0..Len(decisions)
  /\ outcome.kind = "flag" => outcome.loser = active /\ Remaining <= 1

\* The opponent's move never reaches the board behind an open question: the
\* move that is asked about is the last one played.
OpponentWaitsForTheAnswer ==
  open # 0 /\ phase # "idle" =>
    /\ decisions[Len(decisions)].side = Player
    /\ questions[open].ply = Len(decisions)

\* A finished game in which the player moved can be stored: the core and the
\* instrument, which nothing but the page holds together, name the same moves.
\* And what is stored of the game on the page is that game: its outcome, its
\* moves, their times and clocks, and which of them were asked about.
StoredIsTheGame ==
  phase = "finished" =>
    /\ Len(Mine) > 0 => Joins
    /\ stored[gameId] # NoRecord =>
         /\ stored[gameId].outcome = outcome
         /\ Len(stored[gameId].rows) = Len(Mine)
         /\ \A i \in DOMAIN Mine : /\ stored[gameId].rows[i].decision = Mine[i]
                                   /\ stored[gameId].rows[i].asked = questions[i].asked

\* A confidence somebody stated is on the record.
AnswersAreStored ==
  phase = "finished" /\ stored[gameId] # NoRecord =>
    \A i \in DOMAIN questions : questions[i].answered => stored[gameId].rows[i].answered
=============================================================================
