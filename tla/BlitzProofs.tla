----------------------------- MODULE BlitzProofs -----------------------------
(***************************************************************************)
(* Blitz, for any clocks, increments, games and moves: the clocks of a     *)
(* game add up to its record, the opponent waits for the answer, and what  *)
(* is stored is the game.                                                  *)
(*                                                                         *)
(* And of its analysis, for any number of tabs and games, and any number   *)
(* of hung engines, lost writes and reloads: a game keeps the engine it    *)
(* first named, the local record carries that engine's scores, no pass     *)
(* gives up a game it should score, and no engine is left behind.          *)
(***************************************************************************)
EXTENDS BlitzGame, BlitzAnalysis, WellFoundedInduction, SequenceTheorems, TLAPS

-----------------------------------------------------------------------------
(* Induction and iteration, with the cases and the steps as values.        *)

LEMMA LeastNumber ==
  ASSUME NEW S \in SUBSET Nat, S # {}
  PROVE  \E n \in S : \A m \in S : n <= m
<1>1. PICK n \in S : \A m \in S : <<m, n>> \notin OpToRel(<, Nat)
  BY WFMin, NatLessThanWellFounded, Zenon
<1>2. \A m \in S : ~(m < n)
  BY <1>1, Zenon DEF OpToRel
<1> QED
  BY <1>2

LEMMA UpTo ==
  ASSUME NEW N \in Nat, NEW S, 0 \in S, \A n \in 1..N : n - 1 \in S => n \in S
  PROVE  0..N \subseteq S
<1> DEFINE Missing == {n \in 0..N : n \notin S}
<1> SUFFICES ASSUME Missing # {} PROVE FALSE
  OBVIOUS
<1>1. PICK n \in Missing : \A m \in Missing : n <= m
  <2>1. Missing \in SUBSET Nat
    OBVIOUS
  <2> HIDE DEF Missing
  <2> QED
    BY <2>1, LeastNumber
<1>2. n \in 1..N
  OBVIOUS
<1>3. n - 1 \in 0..N /\ n - 1 \notin Missing
  BY <1>1, <1>2
<1> QED
  BY <1>2, <1>3

\* N steps within S, and the values they lead to from a.
StaysIn(N, S, next) == \A n \in 1..N : \A x \in S : next[n][x] \in S
Iterated(N, S, a, next) ==
  \E f \in [0..N -> S] : f[0] = a /\ \A n \in 1..N : f[n] = next[n][f[n - 1]]

\* A recursive function on 0..N has the values its equation gives it.
LEMMA Iterates ==
  ASSUME NEW N \in Nat, NEW S, NEW a \in S, NEW next, StaysIn(N, S, next)
  PROVE  Iterated(N, S, a, next)
<1> DEFINE Built(n) == \E f \in [0..n -> S] : /\ f[0] = a
                                              /\ \A k \in 1..n : f[k] = next[k][f[k - 1]]
           Reached == {n \in 0..N : Built(n)}
<1>1. 0 \in Reached
  <2> DEFINE f == [k \in 0..0 |-> a]
  <2>1. f \in [0..0 -> S] /\ f[0] = a /\ \A k \in 1..0 : f[k] = next[k][f[k - 1]]
    OBVIOUS
  <2> HIDE DEF f
  <2>2. Built(0)
    BY <2>1
  <2> QED
    BY <2>2
<1>2. ASSUME NEW n \in 1..N, n - 1 \in Reached
      PROVE  n \in Reached
  <2>1. PICK f \in [0..(n - 1) -> S] : f[0] = a /\ \A k \in 1..(n - 1) : f[k] = next[k][f[k - 1]]
    BY <1>2
  <2> DEFINE last == next[n][f[n - 1]]
             g == [k \in 0..n |-> IF k = n THEN last ELSE f[k]]
  <2>2. last \in S
    <3>1. f[n - 1] \in S
      OBVIOUS
    <3> QED
      BY <3>1 DEF StaysIn
  <2>3. g \in [0..n -> S] /\ g[0] = a /\ g[n] = last /\ \A k \in 0..(n - 1) : g[k] = f[k]
    <3> HIDE DEF last
    <3> QED
      BY <2>1, <2>2
  <2> HIDE DEF g
  <2>4. \A k \in 1..n : g[k] = next[k][g[k - 1]]
    <3> TAKE k \in 1..n
    <3>1. g[k - 1] = f[k - 1]
      BY <2>3
    <3>2. CASE k = n
      BY <2>3, <3>1, <3>2
    <3>3. CASE k # n
      BY <2>1, <2>3, <3>1, <3>3
    <3> QED
      BY <3>2, <3>3
  <2>5. Built(n)
    BY <2>3, <2>4
  <2> QED
    BY <2>5
<1>3. N \in Reached
  <2> HIDE DEF Reached
  <2>1. 0..N \subseteq Reached
    BY <1>1, <1>2, UpTo
  <2> QED
    BY <2>1
<1> QED
  BY <1>3 DEF Iterated

-----------------------------------------------------------------------------
(* The moves of a side, and the time spent on moves.                       *)

MovesSoFar(side, moves, f) ==
  f = [n \in 0..Len(moves) |->
        IF n = 0 THEN <<>>
        ELSE IF moves[n].side = side THEN Append(f[n - 1], moves[n]) ELSE f[n - 1]]
SpentSoFar(moves, f) ==
  f = [n \in 0..Len(moves) |-> IF n = 0 THEN 0 ELSE f[n - 1] + moves[n].think]

LEMMA MovesExist ==
  ASSUME NEW side, NEW moves \in Seq(Decision)
  PROVE  \E f \in [0..Len(moves) -> Seq(Decision)] :
           MovesSoFar(side, moves, f) /\ MovesOf(side, moves) = f[Len(moves)]
<1> DEFINE N == Len(moves)
           S == Seq(Decision)
           next == [n \in 1..N |-> [found \in S |->
                      IF moves[n].side = side THEN Append(found, moves[n]) ELSE found]]
           chosen == CHOOSE f : MovesSoFar(side, moves, f)
<1>1. N \in Nat /\ \A n \in 1..N : moves[n] \in Decision
  OBVIOUS
<1>2. <<>> \in S
  OBVIOUS
<1>3. StaysIn(N, S, next)
  <2> SUFFICES ASSUME NEW n \in 1..N, NEW found \in S PROVE next[n][found] \in S
    BY DEF StaysIn
  <2>1. next[n][found] = IF moves[n].side = side THEN Append(found, moves[n]) ELSE found
    OBVIOUS
  <2>2. Append(found, moves[n]) \in S
    BY <1>1
  <2> HIDE DEF S, next
  <2> QED
    BY <2>1, <2>2
<1>4. Iterated(N, S, <<>>, next)
  <2> HIDE DEF N, S, next
  <2> QED
    BY <1>1, <1>2, <1>3, Iterates
<1>5. PICK f \in [0..N -> S] : f[0] = <<>> /\ \A n \in 1..N : f[n] = next[n][f[n - 1]]
  BY <1>4 DEF Iterated
<1>6. MovesSoFar(side, moves, f)
  <2>1. ASSUME NEW n \in 1..N
        PROVE  f[n] = IF moves[n].side = side THEN Append(f[n - 1], moves[n]) ELSE f[n - 1]
    <3>1. f[n - 1] \in S
      BY <1>1, <1>5
    <3>2. f[n] = next[n][f[n - 1]]
      BY <1>5
    <3> QED
      BY <3>1, <3>2
  <2>2. f = [n \in 0..N |-> f[n]]
    BY <1>5
  <2>3. \A n \in 0..N : n = 0 \/ n \in 1..N
    BY <1>1
  <2> HIDE DEF N
  <2>4. \A n \in 0..N :
          f[n] = IF n = 0 THEN <<>>
                 ELSE IF moves[n].side = side THEN Append(f[n - 1], moves[n]) ELSE f[n - 1]
    BY <1>1, <1>5, <2>1, <2>3
  <2> QED
    BY <2>2, <2>4 DEF MovesSoFar, N
<1>7. MovesSoFar(side, moves, chosen)
  BY <1>6
<1>8. MovesOf(side, moves) = chosen[N]
  BY DEF MovesOf, MovesSoFar
<1> HIDE DEF chosen
<1>9. \A n \in 0..N : chosen[n] = f[n]
  <2> DEFINE Same == {n \in 0..N : chosen[n] = f[n]}
  <2>1. 0 \in Same
    BY <1>1, <1>6, <1>7 DEF MovesSoFar
  <2>2. ASSUME NEW n \in 1..N, n - 1 \in Same PROVE n \in Same
    <3>1. n \in 0..N /\ n # 0 /\ chosen[n - 1] = f[n - 1]
      BY <1>1, <2>2
    <3>2. f[n] = IF moves[n].side = side THEN Append(f[n - 1], moves[n]) ELSE f[n - 1]
      BY <1>6, <3>1 DEF MovesSoFar
    <3>3. chosen[n] = IF moves[n].side = side THEN Append(chosen[n - 1], moves[n])
                      ELSE chosen[n - 1]
      BY <1>7, <3>1 DEF MovesSoFar
    <3>4. chosen[n] = f[n]
      BY <3>1, <3>2, <3>3
    <3> HIDE DEF next
    <3> QED
      BY <3>1, <3>4
  <2> HIDE DEF Same, N
  <2>3. 0..N \subseteq Same
    BY <1>1, <2>1, <2>2, UpTo
  <2> QED
    BY <2>3 DEF Same
<1>10. chosen[N] = f[N]
  BY <1>1, <1>9
<1> QED
  BY <1>6, <1>8, <1>10

LEMMA MovesGrow ==
  ASSUME NEW side, NEW moves \in Seq(Decision), NEW d \in Decision
  PROVE  /\ MovesOf(side, moves) \in Seq(Decision)
         /\ MovesOf(side, Append(moves, d)) =
              IF d.side = side THEN Append(MovesOf(side, moves), d) ELSE MovesOf(side, moves)
<1> DEFINE N == Len(moves)
           more == Append(moves, d)
<1>1. N \in Nat /\ more \in Seq(Decision) /\ Len(more) = N + 1 /\ more[N + 1] = d
      /\ \A n \in 1..N : more[n] = moves[n]
  OBVIOUS
<1>2. PICK f \in [0..N -> Seq(Decision)] : MovesSoFar(side, moves, f) /\ MovesOf(side, moves) = f[N]
  BY MovesExist
<1>3. PICK g \in [0..(N + 1) -> Seq(Decision)] :
        MovesSoFar(side, more, g) /\ MovesOf(side, more) = g[N + 1]
  <2> HIDE DEF N, more
  <2> QED
    BY <1>1, MovesExist
<1> HIDE DEF more, N
<1>4. f[0] = <<>> /\ \A n \in 1..N :
        f[n] = IF moves[n].side = side THEN Append(f[n - 1], moves[n]) ELSE f[n - 1]
  <2>1. 0 \in 0..Len(moves) /\ \A n \in 1..N : n \in 0..Len(moves) /\ n # 0
    BY <1>1 DEF N
  <2> QED
    BY <1>2, <2>1 DEF MovesSoFar
<1>5. g[0] = <<>> /\ \A n \in 1..(N + 1) :
        g[n] = IF more[n].side = side THEN Append(g[n - 1], more[n]) ELSE g[n - 1]
  <2>1. 0 \in 0..Len(more) /\ \A n \in 1..(N + 1) : n \in 0..Len(more) /\ n # 0
    BY <1>1
  <2> QED
    BY <1>3, <2>1 DEF MovesSoFar
<1>6. f[N] = g[N]
  <2> DEFINE Same == {n \in 0..N : f[n] = g[n]}
  <2>1. 0 \in Same
    BY <1>1, <1>4, <1>5
  <2>2. ASSUME NEW n \in 1..N, n - 1 \in Same PROVE n \in Same
    <3>1. n \in 1..(N + 1) /\ more[n] = moves[n] /\ f[n - 1] = g[n - 1] /\ n \in 0..N
      BY <1>1, <2>2
    <3> QED
      BY <1>4, <1>5, <3>1
  <2> HIDE DEF Same
  <2>3. 0..N \subseteq Same
    BY <1>1, <2>1, <2>2, UpTo
  <2> QED
    BY <1>1, <2>3 DEF Same
<1>7. g[N + 1] = IF d.side = side THEN Append(g[N], d) ELSE g[N]
  <2>1. N + 1 \in 1..(N + 1) /\ (N + 1) - 1 = N
    BY <1>1
  <2> QED
    BY <1>1, <1>5, <2>1
<1>8. f[N] \in Seq(Decision)
  BY <1>1, <1>2
<1> QED
  BY <1>2, <1>3, <1>6, <1>7, <1>8 DEF more

LEMMA SpentExists ==
  ASSUME NEW moves \in Seq(Decision)
  PROVE  \E f \in [0..Len(moves) -> Nat] : SpentSoFar(moves, f) /\ Spent(moves) = f[Len(moves)]
<1> DEFINE N == Len(moves)
           next == [n \in 1..N |-> [sum \in Nat |-> sum + moves[n].think]]
           chosen == CHOOSE f : SpentSoFar(moves, f)
<1>1. N \in Nat /\ \A n \in 1..N : moves[n].think \in Nat
  <2>1. N \in Nat /\ \A n \in 1..N : moves[n] \in Decision
    OBVIOUS
  <2>2. \A d \in Decision : d.think \in Nat
    BY DEF Decision
  <2> QED
    BY <2>1, <2>2
<1>2. StaysIn(N, Nat, next)
  BY <1>1 DEF StaysIn
<1>3. Iterated(N, Nat, 0, next)
  <2> HIDE DEF N, next
  <2> QED
    BY <1>1, <1>2, Iterates
<1>4. PICK f \in [0..N -> Nat] : f[0] = 0 /\ \A n \in 1..N : f[n] = next[n][f[n - 1]]
  BY <1>3 DEF Iterated
<1>5. SpentSoFar(moves, f)
  <2>1. ASSUME NEW n \in 1..N PROVE f[n] = f[n - 1] + moves[n].think
    <3>1. f[n - 1] \in Nat
      BY <1>1, <1>4
    <3>2. f[n] = next[n][f[n - 1]]
      BY <1>4
    <3> QED
      BY <3>1, <3>2
  <2>2. f = [n \in 0..N |-> f[n]]
    BY <1>4
  <2>3. \A n \in 0..N : n = 0 \/ n \in 1..N
    BY <1>1
  <2> HIDE DEF N
  <2>4. \A n \in 0..N : f[n] = IF n = 0 THEN 0 ELSE f[n - 1] + moves[n].think
    BY <1>1, <1>4, <2>1, <2>3
  <2> QED
    BY <2>2, <2>4 DEF SpentSoFar, N
<1>6. SpentSoFar(moves, chosen)
  BY <1>5
<1>7. Spent(moves) = chosen[N]
  BY DEF Spent, SpentSoFar
<1> HIDE DEF chosen
<1>8. \A n \in 0..N : chosen[n] = f[n]
  <2> DEFINE Same == {n \in 0..N : chosen[n] = f[n]}
  <2>1. 0 \in Same
    BY <1>1, <1>5, <1>6 DEF SpentSoFar
  <2>2. ASSUME NEW n \in 1..N, n - 1 \in Same PROVE n \in Same
    <3>1. n \in 0..N /\ n # 0 /\ chosen[n - 1] = f[n - 1]
      BY <1>1, <2>2
    <3>2. f[n] = f[n - 1] + moves[n].think
      BY <1>5, <3>1 DEF SpentSoFar
    <3>3. chosen[n] = chosen[n - 1] + moves[n].think
      BY <1>6, <3>1 DEF SpentSoFar
    <3>4. chosen[n] = f[n]
      BY <3>1, <3>2, <3>3
    <3> HIDE DEF next
    <3> QED
      BY <3>1, <3>4
  <2> HIDE DEF Same, N
  <2>3. 0..N \subseteq Same
    BY <1>1, <2>1, <2>2, UpTo
  <2> QED
    BY <2>3 DEF Same
<1>9. chosen[N] = f[N]
  BY <1>1, <1>8
<1> QED
  BY <1>5, <1>7, <1>9

LEMMA SpentGrows ==
  ASSUME NEW moves \in Seq(Decision), NEW d \in Decision
  PROVE  Spent(moves) \in Nat /\ Spent(Append(moves, d)) = Spent(moves) + d.think
<1> DEFINE N == Len(moves)
           more == Append(moves, d)
<1>1. N \in Nat /\ more \in Seq(Decision) /\ Len(more) = N + 1 /\ more[N + 1] = d
      /\ \A n \in 1..N : more[n] = moves[n]
  OBVIOUS
<1>2. PICK f \in [0..N -> Nat] : SpentSoFar(moves, f) /\ Spent(moves) = f[N]
  BY SpentExists
<1>3. PICK g \in [0..(N + 1) -> Nat] : SpentSoFar(more, g) /\ Spent(more) = g[N + 1]
  <2> HIDE DEF N, more
  <2> QED
    BY <1>1, SpentExists
<1> HIDE DEF more, N
<1>4. f[0] = 0 /\ \A n \in 1..N : f[n] = f[n - 1] + moves[n].think
  BY <1>1, <1>2 DEF SpentSoFar, N
<1>5. g[0] = 0 /\ \A n \in 1..(N + 1) : g[n] = g[n - 1] + more[n].think
  BY <1>1, <1>3 DEF SpentSoFar
<1>6. f[N] = g[N]
  <2> DEFINE Same == {n \in 0..N : f[n] = g[n]}
  <2>1. 0 \in Same
    BY <1>1, <1>4, <1>5
  <2>2. ASSUME NEW n \in 1..N, n - 1 \in Same PROVE n \in Same
    <3>1. n \in 1..(N + 1) /\ more[n] = moves[n] /\ f[n - 1] = g[n - 1] /\ n \in 0..N
      BY <1>1, <2>2
    <3> QED
      BY <1>4, <1>5, <3>1
  <2> HIDE DEF Same
  <2>3. 0..N \subseteq Same
    BY <1>1, <2>1, <2>2, UpTo
  <2> QED
    BY <1>1, <2>3 DEF Same
<1>7. g[N + 1] = g[N] + d.think
  <2>1. N + 1 \in 1..(N + 1) /\ (N + 1) - 1 = N
    BY <1>1
  <2> QED
    BY <1>1, <1>5, <2>1
<1>8. f[N] \in Nat
  BY <1>1, <1>2
<1> QED
  BY <1>2, <1>3, <1>6, <1>7, <1>8 DEF more

LEMMA NothingSpent ==
  ASSUME NEW side
  PROVE  MovesOf(side, <<>>) = <<>> /\ Spent(<<>>) = 0
<1>1. <<>> \in Seq(Decision) /\ Len(<<>>) = 0
  OBVIOUS
<1>2. PICK f \in [0..Len(<<>>) -> Seq(Decision)] :
        MovesSoFar(side, <<>>, f) /\ MovesOf(side, <<>>) = f[Len(<<>>)]
  BY <1>1, MovesExist
<1>3. PICK g \in [0..Len(<<>>) -> Nat] : SpentSoFar(<<>>, g) /\ Spent(<<>>) = g[Len(<<>>)]
  BY <1>1, SpentExists
<1>4. f[0] = <<>> /\ g[0] = 0
  BY <1>1, <1>2, <1>3 DEF MovesSoFar, SpentSoFar
<1> QED
  BY <1>1, <1>2, <1>3, <1>4

-----------------------------------------------------------------------------
(* The inductive invariant of a game.                                      *)

IdleFits == phase = "idle" => decisions = <<>>
PlayingFits == phase # "idle" => gameId \in GameIds

\* A clock is what its moves have left of it, also while a game is idle.
ClocksFit ==
  /\ \A side \in Side : clock[side] = Initial + Increment * Len(By(side)) - Spent(By(side))
  /\ 2 * Spent(decisions) - mark \in 0..Len(decisions)
  /\ outcome.kind = "flag" => outcome.loser = active /\ Remaining <= 1

\* The session has an entry for each move of the player, and asks about the
\* last move there is.
QuestionsFit ==
  phase # "idle" =>
    /\ Len(Mine) = Len(questions)
    /\ \A i \in DOMAIN Mine : Mine[i].ply = questions[i].ply
    /\ open # 0 => /\ decisions # <<>> /\ decisions[Len(decisions)].side = Player
                   /\ questions[open].ply = Len(decisions)
ReplyFits == reply = "thinking" => phase = "running" /\ active # Player /\ open = 0

IsTheGame(r) ==
  /\ r.outcome = outcome
  /\ Len(r.rows) = Len(Mine)
  /\ \A i \in DOMAIN Mine :
       r.rows[i].decision = Mine[i] /\ r.rows[i].asked = questions[i].asked

\* A record, on its way or stored, is of an earlier game or is that of the game
\* on the page, which then has come to its end.
Follows(g, r) ==
  /\ g <= gameId
  /\ g = gameId => phase # "running" /\ (phase = "finished" => IsTheGame(r))
RecordsFit ==
  /\ \A c \in calls : Follows(c.game, c.record)
  /\ \A g \in GameIds : stored[g] # NoRecord => Follows(g, stored[g])

IInv == TypeOK /\ IdleFits /\ PlayingFits /\ ClocksFit /\ QuestionsFit /\ ReplyFits /\ RecordsFit

-----------------------------------------------------------------------------
(* The steps of a game.                                                    *)

LEMMA BlitzConstants ==
  /\ Initial \in Nat \ {0} /\ Increment \in Nat /\ MaxGames \in Nat /\ MaxTime \in Nat
  /\ MaxFaults \in Nat /\ GameIds = 1..MaxGames /\ Player \in Side
BY BlitzAssumption DEF GameIds, Player, Side

LEMMA MovesType ==
  ASSUME TypeOK
  PROVE  /\ Spent(decisions) \in Nat
         /\ \A side : By(side) \in Seq(Decision) /\ Spent(By(side)) \in Nat
         /\ Mine \in Seq(Decision) /\ Mine = By(Player)
<1>1. decisions \in Seq(Decision)
  BY DEF TypeOK
<1>2. PICK d : d \in Decision
  <2>1. [ply |-> 0, side |-> "w", think |-> 0, before |-> 0, opponent |-> 0] \in Decision
    BY DEF Decision, Side
  <2> QED
    BY <2>1
<1>3. \A side : MovesOf(side, decisions) \in Seq(Decision)
  BY <1>1, <1>2, MovesGrow
<1> QED
  BY <1>1, <1>2, <1>3, SpentGrows DEF By, Mine

LEMMA DurationFits ==
  ASSUME NEW from \in Nat, NEW to \in Nat, from <= to
  PROVE  /\ Duration(from, to) \in Nat
         /\ 2 * Duration(from, to) - (to - from) \in {0, 1}
BY DEF Duration

\* One more move is rounded, by half a millisecond at most.
LEMMA RoundingAdds ==
  ASSUME NEW s \in Nat, NEW u \in Nat, NEW m \in Nat, NEW n \in Nat, NEW k \in Nat,
         2 * s - m \in 0..k, 2 * u - (n - m) \in {0, 1}
  PROVE  2 * (s + u) - n \in 0..(k + 1)
OBVIOUS

LEMMA InitHolds == Init => IInv
<1> SUFFICES ASSUME Init PROVE IInv
  OBVIOUS
<1> USE DEF Init
<1>1. /\ MovesOf("w", <<>>) = <<>> /\ MovesOf("b", <<>>) = <<>> /\ Spent(<<>>) = 0
      /\ \A side \in Side : By(side) = <<>>
  BY NothingSpent DEF By, Side
<1>2. TypeOK
  <2>1. NoRecord \in Record /\ NoOutcome \in Outcomes
    BY DEF NoRecord, Record, NoOutcome, Outcomes
  <2>2. <<>> \in Seq(Decision) /\ <<>> \in Seq(Question) /\ Len(<<>>) = 0
    OBVIOUS
  <2>3. clock \in [Side -> Int] /\ stored \in [GameIds -> Record]
    BY <2>1, BlitzConstants
  <2>4. now \in 0..MaxTime /\ mark \in 0..now /\ faults \in 0..MaxFaults /\ gameId \in 0..MaxGames
    BY BlitzConstants
  <2>5. decisions \in Seq(Decision) /\ questions \in Seq(Question) /\ open \in 0..Len(questions)
    BY <2>2
  <2>6. outcome \in Outcomes /\ (phase = "finished") = (outcome # NoOutcome) /\ active \in Side
    BY <2>1 DEF Side
  <2> QED
    BY <2>3, <2>4, <2>5, <2>6 DEF TypeOK
<1>3. ClocksFit
  <2>1. \A side \in Side : clock[side] = Initial + Increment * Len(By(side)) - Spent(By(side))
    BY <1>1, BlitzConstants
  <2>2. 2 * Spent(decisions) - mark \in 0..Len(decisions) /\ outcome.kind # "flag"
    BY <1>1 DEF NoOutcome
  <2> QED
    BY <2>1, <2>2 DEF ClocksFit
<1> QED
  BY <1>2, <1>3 DEF IInv, IdleFits, PlayingFits, QuestionsFit, ReplyFits, RecordsFit

\* What a game does while it runs concerns no record there is.
LEMMA RunningRecords ==
  ASSUME IInv, phase = "running", UNCHANGED <<gameId, calls, stored>>
  PROVE  RecordsFit'
<1>1. gameId \in Nat /\ GameIds \subseteq Nat
  BY BlitzConstants DEF IInv, TypeOK
<1>2. ASSUME NEW c \in calls PROVE Follows(c.game, c.record)'
  <2>1. c.game <= gameId /\ c.game # gameId
    BY DEF IInv, RecordsFit, Follows
  <2> QED
    BY <2>1 DEF Follows
<1>3. ASSUME NEW g \in GameIds, stored[g] # NoRecord PROVE Follows(g, stored[g])'
  <2>1. g <= gameId /\ g # gameId
    BY <1>3 DEF IInv, RecordsFit, Follows
  <2> QED
    BY <2>1 DEF Follows
<1> QED
  BY <1>2, <1>3 DEF RecordsFit

\* As long as the game is what it was, what is recorded of it is too.
LEMMA SameGame ==
  ASSUME IInv, UNCHANGED <<phase, outcome, decisions, gameId>>,
         \A i \in DOMAIN Mine : phase # "idle" => questions'[i].asked = questions[i].asked,
         NEW g, NEW r, Follows(g, r)
  PROVE  Follows(g, r)'
<1>1. Mine' = Mine
  BY DEF Mine
<1>2. phase = "finished" /\ IsTheGame(r) => IsTheGame(r)'
  BY <1>1 DEF IsTheGame
<1> QED
  BY <1>2 DEF Follows

LEMMA SameRecords ==
  ASSUME IInv, UNCHANGED <<phase, outcome, decisions, gameId, calls, stored>>,
         \A i \in DOMAIN Mine : phase # "idle" => questions'[i].asked = questions[i].asked
  PROVE  RecordsFit'
<1>1. ASSUME NEW c \in calls PROVE Follows(c.game, c.record)'
  BY SameGame DEF IInv, RecordsFit
<1>2. ASSUME NEW g \in GameIds, stored[g] # NoRecord PROVE Follows(g, stored[g])'
  <2>1. Follows(g, stored[g])
    BY <1>2 DEF IInv, RecordsFit
  <2>2. \A r : Follows(g, r) => Follows(g, r)'
    BY SameGame
  <2> QED
    BY <2>1, <2>2 DEF Follows, IsTheGame
<1> QED
  BY <1>1, <1>2 DEF RecordsFit

\* A move that is played.  The clocks are those of the longer record, and what
\* the mover's moves took is rounded once more.
LEMMA CommitFits ==
  ASSUME IInv, NEW position \in {"on", "mate", "draw"}, phase = "running", Commit(position),
         UNCHANGED now
  PROVE  /\ \E d \in Decision : /\ decisions' = Append(decisions, d) /\ d.side = active
                                /\ d.ply = Len(decisions) + 1
                                /\ Mine' = IF active = Player THEN Append(Mine, d) ELSE Mine
         /\ decisions' \in Seq(Decision) /\ clock' \in [Side -> Int] /\ active' \in Side
         /\ mark' \in 0..now' /\ phase' \in {"running", "finished"} /\ outcome' \in Outcomes
         /\ (phase' = "finished") = (outcome' # NoOutcome)
         /\ ClocksFit'
<1> DEFINE d == [ply |-> Len(decisions) + 1, side |-> active, think |-> Duration(mark, now),
                 before |-> clock[active], opponent |-> clock[Other(active)]]
<1>1. /\ decisions' = Append(decisions, d) /\ active' = Other(active) /\ mark' = now /\ now' = now
      /\ clock' = [clock EXCEPT ![active] = @ - Duration(mark, now) + Increment]
      /\ outcome' = After(position)
      /\ phase' = IF After(position) = NoOutcome THEN "running" ELSE "finished"
  BY DEF Commit
<1>2. /\ decisions \in Seq(Decision) /\ clock \in [Side -> Int] /\ active \in Side
      /\ now \in Nat /\ mark \in Nat /\ mark <= now /\ Len(decisions) \in Nat
  BY BlitzConstants DEF IInv, TypeOK
<1>3. Duration(mark, now) \in Nat /\ 2 * Duration(mark, now) - (now - mark) \in {0, 1}
  BY <1>2, DurationFits
<1>4. Other(active) \in Side /\ Other(active) # active
  BY <1>2 DEF Other, Side
<1>5. /\ d \in Decision /\ d.side = active /\ d.think = Duration(mark, now)
      /\ d.ply = Len(decisions) + 1
  BY <1>2, <1>3, <1>4 DEF Decision
<1> HIDE DEF d
<1>6. /\ decisions' \in Seq(Decision) /\ Len(decisions') = Len(decisions) + 1
      /\ Spent(decisions') = Spent(decisions) + Duration(mark, now)
  BY <1>1, <1>2, <1>5, SpentGrows
<1>7. ASSUME NEW side \in Side
      PROVE  By(side)' = IF side = active THEN Append(By(side), d) ELSE By(side)
  <2>1. MovesOf(side, decisions') =
          IF d.side = side THEN Append(MovesOf(side, decisions), d) ELSE MovesOf(side, decisions)
    BY <1>1, <1>2, <1>5, MovesGrow
  <2> QED
    BY <1>5, <2>1 DEF By
<1>8. After(position) \in Outcomes /\ After(position).kind # "flag"
  <2>1. Other(active) \in Side
    BY <1>4
  <2>2. CASE position = "on"
    BY <2>2 DEF After, Outcomes, NoOutcome
  <2>3. CASE position = "mate"
    BY <2>1, <2>3 DEF After, Outcomes
  <2>4. CASE position = "draw"
    BY <2>4 DEF After, Outcomes
  <2> QED
    BY <2>2, <2>3, <2>4
<1>9. \A side \in Side :
        clock'[side] = Initial + Increment * Len(By(side)') - Spent(By(side)')
  <2> TAKE side \in Side
  <2>1. /\ By(side) \in Seq(Decision) /\ Spent(By(side)) \in Nat /\ Len(By(side)) \in Nat
        /\ clock[side] = Initial + Increment * Len(By(side)) - Spent(By(side))
    BY MovesType DEF IInv, ClocksFit
  <2>2. CASE side = active
    <3>1. By(side)' = Append(By(side), d)
      BY <1>7, <2>2
    <3>2. /\ Len(By(side)') = Len(By(side)) + 1
          /\ Spent(By(side)') = Spent(By(side)) + Duration(mark, now)
      BY <1>5, <2>1, <3>1, SpentGrows
    <3>3. Increment * (Len(By(side)) + 1) = Increment * Len(By(side)) + Increment
      BY <2>1, BlitzConstants
    <3>4. Increment * Len(By(side)) \in Nat
      BY <2>1, BlitzConstants
    <3>5. clock'[side] = clock[side] - Duration(mark, now) + Increment
      BY <1>1, <1>2, <2>2
    <3> QED
      BY <1>3, <2>1, <3>2, <3>3, <3>4, <3>5, BlitzConstants
  <2>3. CASE side # active
    <3>1. By(side)' = By(side) /\ clock'[side] = clock[side]
      BY <1>1, <1>2, <1>7, <2>3
    <3> QED
      BY <2>1, <3>1
  <2> QED
    BY <2>2, <2>3
<1>10. 2 * Spent(decisions') - mark' \in 0..Len(decisions')
  <2>1. 2 * Spent(decisions) - mark \in 0..Len(decisions) /\ Spent(decisions) \in Nat
    BY MovesType DEF IInv, ClocksFit
  <2>2. 2 * (Spent(decisions) + Duration(mark, now)) - now \in 0..(Len(decisions) + 1)
    BY <1>2, <1>3, <2>1, RoundingAdds
  <2> QED
    BY <1>1, <1>6, <2>2
<1>11. ClocksFit'
  BY <1>1, <1>8, <1>9, <1>10 DEF ClocksFit
<1>12. Mine' = IF active = Player THEN Append(Mine, d) ELSE Mine
  <2>1. Mine = By(Player) /\ Mine' = By(Player)'
    BY DEF Mine, By
  <2> QED
    BY <1>7, <2>1, BlitzConstants
<1>13. clock' \in [Side -> Int]
  BY <1>1, <1>2, <1>3, BlitzConstants
<1>14. mark' \in 0..now' /\ active' \in Side /\ outcome' \in Outcomes
       /\ phase' \in {"running", "finished"} /\ (phase' = "finished") = (outcome' # NoOutcome)
  BY <1>1, <1>2, <1>4, <1>8
<1> QED
  BY <1>1, <1>5, <1>6, <1>11, <1>12, <1>13, <1>14

\* A move of the player: the session has an entry for it, and asks about it or
\* about nothing.
LEMMA PlayerMovesStep ==
  ASSUME IInv, NEW position \in {"on", "mate", "draw"}, NEW ask \in BOOLEAN,
         PlayerMoves(position, ask)
  PROVE  IInv'
<1>1. /\ phase = "running" /\ active = Player /\ open = 0 /\ Commit(position)
      /\ RecordCommitted(ask) /\ reply' = "none"
      /\ UNCHANGED <<now, gameId, saved, calls, stored, faults>>
  BY DEF PlayerMoves, PlayersTurn, write
<1>2. PICK d \in Decision : /\ decisions' = Append(decisions, d) /\ d.side = active
                            /\ d.ply = Len(decisions) + 1 /\ Mine' = Append(Mine, d)
  BY <1>1, CommitFits
<1>3. /\ decisions' \in Seq(Decision) /\ clock' \in [Side -> Int] /\ active' \in Side
      /\ mark' \in 0..now' /\ phase' \in {"running", "finished"} /\ outcome' \in Outcomes
      /\ (phase' = "finished") = (outcome' # NoOutcome) /\ ClocksFit'
  BY <1>1, CommitFits
<1> DEFINE q == [ply |-> Len(decisions) + 1, asked |-> ask, answered |-> FALSE]
<1>4. questions' = Append(questions, q) /\ open' = IF ask THEN Len(questions) + 1 ELSE 0
  BY <1>1 DEF RecordCommitted
<1>5. /\ decisions \in Seq(Decision) /\ questions \in Seq(Question) /\ Mine \in Seq(Decision)
      /\ Len(decisions) \in Nat /\ Len(questions) \in Nat /\ Len(Mine) = Len(questions)
      /\ \A i \in DOMAIN Mine : Mine[i].ply = questions[i].ply
  BY <1>1, MovesType DEF IInv, TypeOK, QuestionsFit
<1>6. q \in Question /\ q.ply = d.ply
  BY <1>2, <1>5 DEF Question
<1> HIDE DEF q
<1>7. /\ questions' \in Seq(Question) /\ Len(questions') = Len(questions) + 1
      /\ questions'[Len(questions) + 1] = q
      /\ \A i \in 1..Len(questions) : questions'[i] = questions[i]
      /\ open' \in 0..Len(questions')
  BY <1>4, <1>5, <1>6
<1>8. TypeOK'
  BY <1>1, <1>3, <1>7 DEF IInv, TypeOK
<1>9. QuestionsFit'
  <2>1. /\ Len(Mine') = Len(Mine) + 1 /\ DOMAIN Mine' = 1..(Len(Mine) + 1)
        /\ Mine'[Len(Mine) + 1] = d /\ \A i \in 1..Len(Mine) : Mine'[i] = Mine[i]
    BY <1>2, <1>5
  <2>2. ASSUME NEW i \in DOMAIN Mine' PROVE Mine'[i].ply = questions'[i].ply
    <3>1. CASE i = Len(Mine) + 1
      BY <1>5, <1>6, <1>7, <2>1, <3>1
    <3>2. CASE i # Len(Mine) + 1
      <4>1. i \in 1..Len(Mine) /\ i \in DOMAIN Mine
        BY <1>5, <2>1, <3>2
      <4> QED
        BY <1>5, <1>7, <2>1, <4>1
    <3> QED
      BY <3>1, <3>2
  <2>3. decisions' # <<>> /\ Len(decisions') = Len(decisions) + 1
        /\ decisions'[Len(decisions')] = d
    BY <1>2, <1>5
  <2>4. open' # 0 => open' = Len(questions) + 1
    BY <1>4
  <2> QED
    BY <1>1, <1>2, <1>5, <1>6, <1>7, <2>1, <2>2, <2>3, <2>4 DEF QuestionsFit
<1>10. IdleFits' /\ PlayingFits' /\ ReplyFits'
  BY <1>1, <1>3 DEF IInv, IdleFits, PlayingFits, ReplyFits
<1>11. RecordsFit'
  BY <1>1, RunningRecords
<1> QED
  BY <1>3, <1>8, <1>9, <1>10, <1>11 DEF IInv

\* A move of the opponent: nothing is asked, and nothing is open.
LEMMA OpponentMovesStep ==
  ASSUME IInv, NEW position \in {"on", "mate", "draw"}, OpponentMoves(position)
  PROVE  IInv'
<1>1. /\ phase = "running" /\ active # Player /\ open = 0 /\ Commit(position) /\ reply' = "none"
      /\ UNCHANGED <<now, questions, open, gameId, saved, calls, stored, faults>>
  BY DEF OpponentMoves, IInv, ReplyFits, instrument, write
<1>2. Mine' = Mine /\ decisions' # <<>>
  BY <1>1, CommitFits DEF IInv, TypeOK
<1>3. /\ decisions' \in Seq(Decision) /\ clock' \in [Side -> Int] /\ active' \in Side
      /\ mark' \in 0..now' /\ phase' \in {"running", "finished"} /\ outcome' \in Outcomes
      /\ (phase' = "finished") = (outcome' # NoOutcome) /\ ClocksFit'
  BY <1>1, CommitFits
<1>4. TypeOK'
  BY <1>1, <1>3 DEF IInv, TypeOK
<1>5. QuestionsFit'
  BY <1>1, <1>2 DEF IInv, QuestionsFit
<1>6. IdleFits' /\ PlayingFits' /\ ReplyFits'
  BY <1>1, <1>3 DEF IInv, IdleFits, PlayingFits, ReplyFits
<1>7. RecordsFit'
  BY <1>1, RunningRecords
<1> QED
  BY <1>3, <1>4, <1>5, <1>6, <1>7 DEF IInv

\* The other steps of a game that runs, which end it or leave it alone.
LEMMA EndingStep ==
  ASSUME IInv, PlayerMovesTooLate \/ OpponentMovesTooLate \/ Resign \/ Observe
  PROVE  IInv'
<1>1. /\ phase = "running" /\ phase' = "finished" /\ reply' = "none"
      /\ \/ outcome' = [kind |-> "flag", loser |-> active] /\ (CommitFlags \/ HasFlagged)
         \/ outcome' = [kind |-> "resignation", loser |-> Player]
      /\ UNCHANGED <<now, active, clock, mark, decisions, questions, open, gameId, saved, calls,
                     stored, faults>>
  BY DEF PlayerMovesTooLate, OpponentMovesTooLate, Resign, Observe, CommitTooLate, Finish,
         PlayersTurn, HasFlagged, IInv, ReplyFits, instrument, write
<1>2. /\ clock \in [Side -> Int] /\ active \in Side /\ now \in Nat /\ mark \in Nat /\ mark <= now
      /\ clock[active] \in Int
  BY BlitzConstants DEF IInv, TypeOK
<1>3. outcome' \in Outcomes /\ outcome' # NoOutcome
  BY <1>1, <1>2, BlitzConstants DEF Outcomes, NoOutcome
<1>4. TypeOK'
  BY <1>1, <1>3 DEF IInv, TypeOK
<1>5. outcome'.kind = "flag" => outcome'.loser = active /\ Remaining <= 1
  <2>1. CommitFlags => Remaining <= 1
    <3>1. 2 * Duration(mark, now) - (now - mark) \in {0, 1} /\ Duration(mark, now) \in Nat
      BY <1>2, DurationFits
    <3>2. ASSUME NEW u \in Nat, NEW c \in Int, 2 * u - (now - mark) \in {0, 1}, c - u <= 0
          PROVE  2 * c - (now - mark) <= 1
      BY <1>2, <3>2
    <3> QED
      BY <1>2, <3>1, <3>2 DEF CommitFlags, Remaining
  <2>2. HasFlagged => Remaining <= 1
    BY <1>2 DEF HasFlagged, Remaining
  <2> QED
    BY <1>1, <2>1, <2>2
<1>6. ClocksFit'
  <2>1. \A side : By(side)' = By(side)
    BY <1>1 DEF By
  <2>2. Remaining' = Remaining
    BY <1>1 DEF Remaining
  <2> QED
    BY <1>1, <1>5, <2>1, <2>2 DEF IInv, ClocksFit
<1>7. QuestionsFit'
  BY <1>1 DEF IInv, QuestionsFit, Mine
<1>8. IdleFits' /\ PlayingFits' /\ ReplyFits'
  BY <1>1 DEF IInv, IdleFits, PlayingFits, ReplyFits
<1>9. RecordsFit'
  BY <1>1, RunningRecords
<1> QED
  BY <1>4, <1>6, <1>7, <1>8, <1>9 DEF IInv

\* Time passes, and what is left of a flag's clock with it.
LEMMA TickStep == IInv /\ Tick => IInv'
<1> SUFFICES ASSUME IInv, Tick PROVE IInv'
  OBVIOUS
<1>1. /\ phase # "idle" /\ now < MaxTime /\ now' = now + 1
      /\ UNCHANGED <<phase, outcome, active, clock, mark, decisions, questions, open, reply,
                     gameId, saved, calls, stored, faults>>
  BY DEF Tick, core, instrument, write
<1>2. TypeOK'
  BY <1>1, BlitzConstants DEF IInv, TypeOK
<1>3. ClocksFit'
  <2>1. \A side : By(side)' = By(side)
    BY <1>1 DEF By
  <2>2. Remaining' <= Remaining /\ Remaining \in Int /\ Remaining' \in Int
    <3>1. clock[active] \in Int /\ now \in Nat /\ mark \in Nat
      BY BlitzConstants DEF IInv, TypeOK
    <3> QED
      BY <1>1, <3>1 DEF Remaining
  <2> QED
    BY <1>1, <2>1, <2>2 DEF IInv, ClocksFit
<1>4. QuestionsFit' /\ IdleFits' /\ PlayingFits' /\ ReplyFits'
  BY <1>1 DEF IInv, QuestionsFit, IdleFits, PlayingFits, ReplyFits, Mine
<1>5. RecordsFit'
  BY <1>1, SameRecords
<1> QED
  BY <1>2, <1>3, <1>4, <1>5 DEF IInv

\* What leaves the core alone leaves the clocks alone.
LEMMA SameClocks ==
  ASSUME IInv, UNCHANGED <<now, core>>
  PROVE  ClocksFit' /\ IdleFits' /\ Mine' = Mine
<1>1. \A side : By(side)' = By(side)
  BY DEF By, core
<1>2. Remaining' = Remaining
  BY DEF Remaining, core
<1> QED
  BY <1>1, <1>2 DEF IInv, ClocksFit, IdleFits, Mine, core

LEMMA ReplyStep == IInv /\ (OpponentThinks \/ OpponentFails) => IInv'
<1> SUFFICES ASSUME IInv, OpponentThinks \/ OpponentFails PROVE IInv'
  OBVIOUS
<1>1. /\ UNCHANGED <<now, core, questions, open, gameId, saved, calls, stored, faults>>
      /\ \/ reply' = "spent"
         \/ reply' = "thinking" /\ phase = "running" /\ active # Player /\ open = 0
  BY DEF OpponentThinks, OpponentFails, MayReveal, instrument, write
<1>2. ClocksFit' /\ IdleFits' /\ Mine' = Mine
  BY <1>1, SameClocks
<1>3. UNCHANGED <<phase, outcome, active, clock, mark, decisions>>
  BY <1>1 DEF core
<1>4. TypeOK'
  BY <1>1, <1>3 DEF IInv, TypeOK
<1>5. QuestionsFit' /\ PlayingFits' /\ ReplyFits'
  BY <1>1, <1>2, <1>3 DEF IInv, QuestionsFit, PlayingFits, ReplyFits
<1>6. RecordsFit'
  BY <1>1, <1>3, SameRecords
<1> QED
  BY <1>2, <1>4, <1>5, <1>6 DEF IInv

LEMMA AnswerStep == IInv /\ Answer => IInv'
<1> SUFFICES ASSUME IInv, Answer PROVE IInv'
  OBVIOUS
<1>1. /\ UNCHANGED <<now, core, gameId, saved, calls, stored, faults>>
      /\ questions' = [questions EXCEPT ![open].answered = TRUE] /\ open' = 0 /\ reply' = "none"
      /\ open # 0
  BY DEF Answer, write
<1>2. ClocksFit' /\ IdleFits' /\ Mine' = Mine
  BY <1>1, SameClocks
<1>3. UNCHANGED <<phase, outcome, active, clock, mark, decisions>>
  BY <1>1 DEF core
<1>4. /\ questions \in Seq(Question) /\ open \in DOMAIN questions /\ Len(questions) \in Nat
      /\ questions[open] \in Question
  BY <1>1 DEF IInv, TypeOK
<1> DEFINE q == [questions[open] EXCEPT !.answered = TRUE]
<1>5. q \in Question /\ q.ply = questions[open].ply /\ q.asked = questions[open].asked
  BY <1>4 DEF Question
<1>6. questions' = [questions EXCEPT ![open] = q]
  BY <1>1
<1> HIDE DEF q
<1>7. /\ questions' \in Seq(Question) /\ Len(questions') = Len(questions)
      /\ \A i \in DOMAIN questions : /\ questions'[i].ply = questions[i].ply
                                     /\ questions'[i].asked = questions[i].asked
  BY <1>4, <1>5, <1>6
<1>8. phase # "idle" => DOMAIN Mine = DOMAIN questions
  BY <1>4, MovesType DEF IInv, QuestionsFit
<1>9. TypeOK'
  BY <1>1, <1>3, <1>7 DEF IInv, TypeOK
<1>10. QuestionsFit' /\ PlayingFits' /\ ReplyFits'
  BY <1>1, <1>2, <1>3, <1>7, <1>8 DEF IInv, QuestionsFit, PlayingFits, ReplyFits
<1>11. RecordsFit'
  BY <1>1, <1>3, <1>7, <1>8, SameRecords
<1> QED
  BY <1>2, <1>9, <1>10, <1>11 DEF IInv

\* A new game has a number of its own, of which there is no record.
LEMMA StartGameStep == IInv /\ StartGame => IInv'
<1> SUFFICES ASSUME IInv, StartGame PROVE IInv'
  OBVIOUS
<1>1. /\ phase = "idle" /\ gameId < MaxGames /\ phase' = "running"
      /\ questions' = <<>> /\ open' = 0 /\ gameId' = gameId + 1 /\ saved' = FALSE
      /\ UNCHANGED <<now, outcome, active, clock, mark, decisions, reply, calls, stored, faults>>
  BY DEF StartGame
<1>2. gameId \in 0..MaxGames /\ MaxGames \in Nat /\ outcome = NoOutcome /\ reply # "thinking"
      /\ decisions = <<>>
  BY <1>1, BlitzConstants DEF IInv, TypeOK, ReplyFits, IdleFits
<1>3. TypeOK'
  <2>1. <<>> \in Seq(Question) /\ Len(<<>>) = 0
    OBVIOUS
  <2>2. gameId' \in 0..MaxGames
    BY <1>1, <1>2
  <2>3. questions' \in Seq(Question) /\ open' \in 0..Len(questions')
    BY <1>1, <2>1
  <2>4. (phase' = "finished") = (outcome' # NoOutcome) /\ phase' \in {"idle", "running", "finished"}
    BY <1>1, <1>2
  <2> QED
    BY <1>1, <2>2, <2>3, <2>4 DEF IInv, TypeOK
<1>4. ClocksFit'
  <2>1. \A side : By(side)' = By(side)
    BY <1>1 DEF By
  <2>2. Remaining' = Remaining
    BY <1>1 DEF Remaining
  <2> QED
    BY <1>1, <2>1, <2>2 DEF IInv, ClocksFit
<1>5. QuestionsFit'
  <2>1. Mine' = <<>>
    BY <1>1, <1>2, NothingSpent DEF Mine
  <2> QED
    BY <1>1, <2>1 DEF QuestionsFit
<1>6. IdleFits' /\ PlayingFits' /\ ReplyFits'
  BY <1>1, <1>2, BlitzConstants DEF IdleFits, PlayingFits, ReplyFits
<1>7. RecordsFit'
  <2>1. ASSUME NEW x \in GameIds, NEW r, Follows(x, r) PROVE Follows(x, r)'
    <3>1. x < gameId'
      BY <1>1, <1>2, <2>1, BlitzConstants DEF Follows
    <3>2. x <= gameId' /\ x # gameId'
      BY <1>1, <1>2, <3>1, BlitzConstants
    <3> QED
      BY <3>2 DEF Follows
  <2>2. \A c \in calls : c.game \in GameIds
    BY DEF IInv, TypeOK
  <2>3. ASSUME NEW c \in calls PROVE Follows(c.game, c.record)'
    BY <2>1, <2>2 DEF IInv, RecordsFit
  <2>4. ASSUME NEW x \in GameIds, stored[x] # NoRecord PROVE Follows(x, stored[x])'
    <3>1. Follows(x, stored[x])
      BY <2>4 DEF IInv, RecordsFit
    <3>2. x <= gameId /\ x \in Nat /\ gameId \in Nat
      BY <1>2, <3>1, BlitzConstants DEF Follows
    <3>3. x <= gameId' /\ x # gameId'
      BY <1>1, <3>2
    <3> QED
      BY <3>3 DEF Follows
  <2> QED
    BY <1>1, <2>3, <2>4 DEF RecordsFit
<1> QED
  BY <1>3, <1>4, <1>5, <1>6, <1>7 DEF IInv

\* The board is set up anew; the questions and the writes of the game before
\* are left where they are.
LEMMA PlayAgainStep == IInv /\ PlayAgain => IInv'
<1> SUFFICES ASSUME IInv, PlayAgain PROVE IInv'
  OBVIOUS
<1>1. /\ phase = "finished" /\ phase' = "idle" /\ outcome' = NoOutcome /\ active' = "w"
      /\ clock' = [side \in Side |-> Initial] /\ mark' = 0 /\ now' = 0 /\ decisions' = <<>>
      /\ UNCHANGED <<questions, open, reply, gameId, saved, calls, stored, faults>>
  BY DEF PlayAgain, instrument, write
<1>2. TypeOK'
  <2>1. <<>> \in Seq(Decision) /\ NoOutcome \in Outcomes /\ "w" \in Side
    BY DEF NoOutcome, Outcomes, Side
  <2>2. clock' \in [Side -> Int] /\ now' \in 0..MaxTime /\ mark' \in 0..now'
    BY <1>1, BlitzConstants
  <2> QED
    BY <1>1, <2>1, <2>2 DEF IInv, TypeOK
<1>3. ClocksFit'
  <2>1. \A side : By(side)' = <<>>
    BY <1>1, NothingSpent DEF By
  <2>2. Spent(decisions') = 0 /\ Spent(<<>>) = 0 /\ Len(<<>>) = 0
    BY <1>1, NothingSpent
  <2>3. \A side \in Side :
          clock'[side] = Initial + Increment * Len(By(side)') - Spent(By(side)')
    BY <1>1, <2>1, <2>2, BlitzConstants
  <2>4. 2 * Spent(decisions') - mark' \in 0..Len(decisions') /\ outcome'.kind # "flag"
    BY <1>1, <2>2 DEF NoOutcome
  <2> QED
    BY <2>3, <2>4 DEF ClocksFit
<1>4. IdleFits' /\ PlayingFits' /\ QuestionsFit' /\ ReplyFits'
  BY <1>1 DEF IInv, IdleFits, PlayingFits, QuestionsFit, ReplyFits
<1>5. RecordsFit'
  <2>1. ASSUME NEW x, NEW r, Follows(x, r) PROVE Follows(x, r)'
    BY <1>1, <2>1 DEF Follows
  <2>2. ASSUME NEW c \in calls PROVE Follows(c.game, c.record)'
    BY <2>1 DEF IInv, RecordsFit
  <2>3. ASSUME NEW x \in GameIds, stored[x] # NoRecord PROVE Follows(x, stored[x])'
    <3>1. Follows(x, stored[x])
      BY <2>3 DEF IInv, RecordsFit
    <3> QED
      BY <1>1, <3>1 DEF Follows
  <2> QED
    BY <1>1, <2>2, <2>3 DEF RecordsFit
<1> QED
  BY <1>2, <1>3, <1>4, <1>5 DEF IInv

\* What leaves the page's game alone leaves all of it but the record.
LEMMA WriteLeaves ==
  ASSUME IInv, UNCHANGED <<now, core, instrument, reply, gameId>>, saved' \in BOOLEAN,
         \A c \in calls' : c.game \in GameIds /\ c.record \in Record,
         stored' \in [GameIds -> Record], faults' \in 0..MaxFaults
  PROVE  /\ TypeOK' /\ ClocksFit' /\ IdleFits' /\ PlayingFits' /\ QuestionsFit' /\ ReplyFits'
         /\ \A x, r : Follows(x, r)' = Follows(x, r)
<1>1. UNCHANGED <<now, phase, outcome, active, clock, mark, decisions, questions, open, reply,
                  gameId>>
  BY DEF core, instrument
<1>2. TypeOK'
  BY <1>1 DEF IInv, TypeOK
<1>3. ClocksFit' /\ IdleFits' /\ Mine' = Mine
  BY SameClocks
<1>4. PlayingFits' /\ QuestionsFit' /\ ReplyFits'
  BY <1>1, <1>3 DEF IInv, PlayingFits, QuestionsFit, ReplyFits
<1>5. \A x, r : Follows(x, r)' = Follows(x, r)
  BY <1>1, <1>3 DEF Follows, IsTheGame
<1> QED
  BY <1>2, <1>3, <1>4, <1>5

\* The write that goes out is of the game that has come to its end.
LEMMA SaveStep == IInv /\ Save => IInv'
<1> SUFFICES ASSUME IInv, Save PROVE IInv'
  OBVIOUS
<1> DEFINE c == [game |-> gameId, record |-> Pending]
           rows == [i \in DOMAIN Mine |->
                     [decision |-> Mine[i], asked |-> questions[i].asked,
                      answered |-> questions[i].answered]]
<1>1. /\ phase = "finished" /\ Joins /\ saved' = TRUE /\ calls' = calls \cup {c}
      /\ UNCHANGED <<now, core, instrument, reply, gameId, stored, faults>>
  BY DEF Save
<1>2. /\ Mine \in Seq(Decision) /\ questions \in Seq(Question) /\ Len(Mine) \in Nat
      /\ Len(Mine) = Len(questions) /\ gameId \in GameIds /\ gameId \in Nat
  BY <1>1, MovesType, BlitzConstants DEF IInv, TypeOK, QuestionsFit, PlayingFits
<1>3. rows \in Seq(Row) /\ Len(rows) = Len(Mine) /\ DOMAIN rows = DOMAIN Mine
  <2>1. DOMAIN Mine = 1..Len(Mine)
    BY <1>2
  <2>2. ASSUME NEW i \in 1..Len(Mine)
        PROVE  [decision |-> Mine[i], asked |-> questions[i].asked,
                answered |-> questions[i].answered] \in Row
    <3>1. Mine[i] \in Decision /\ questions[i] \in Question
      BY <1>2
    <3> QED
      BY <3>1 DEF Row, Question
  <2>3. rows \in [1..Len(Mine) -> Row]
    BY <2>1, <2>2
  <2> HIDE DEF rows
  <2> QED
    BY <1>2, <2>1, <2>3
<1>4. Pending = [outcome |-> outcome, rows |-> rows]
  BY DEF Pending
<1>5. \A i \in DOMAIN Mine : rows[i].decision = Mine[i] /\ rows[i].asked = questions[i].asked
  OBVIOUS
<1> HIDE DEF rows
<1>6. Pending \in Record /\ IsTheGame(Pending)
  BY <1>3, <1>4, <1>5 DEF Record, IsTheGame, IInv, TypeOK
<1>7. Follows(gameId, Pending)
  BY <1>1, <1>2, <1>6 DEF Follows
<1>8. c.game = gameId /\ c.record = Pending
  OBVIOUS
<1> HIDE DEF c
<1>9. /\ \A d \in calls' : d.game \in GameIds /\ d.record \in Record
      /\ stored' \in [GameIds -> Record] /\ faults' \in 0..MaxFaults /\ saved' \in BOOLEAN
  BY <1>1, <1>2, <1>6, <1>8 DEF IInv, TypeOK
<1>10. /\ TypeOK' /\ ClocksFit' /\ IdleFits' /\ PlayingFits' /\ QuestionsFit' /\ ReplyFits'
       /\ \A x, r : Follows(x, r)' = Follows(x, r)
  BY <1>1, <1>9, WriteLeaves
<1>11. RecordsFit'
  <2>1. ASSUME NEW d \in calls' PROVE Follows(d.game, d.record)'
    <3>1. Follows(d.game, d.record)
      BY <1>1, <1>7, <1>8, <2>1 DEF IInv, RecordsFit
    <3> QED
      BY <1>10, <3>1
  <2>2. ASSUME NEW x \in GameIds, stored'[x] # NoRecord PROVE Follows(x, stored[x])'
    <3>1. Follows(x, stored[x]) /\ stored' = stored
      BY <1>1, <2>2 DEF IInv, RecordsFit
    <3>2. UNCHANGED <<phase, outcome, questions, gameId>> /\ Mine' = Mine
      BY <1>1, SameClocks DEF core, instrument
    <3> QED
      BY <3>1, <3>2 DEF Follows, IsTheGame
  <2> QED
    BY <2>1, <2>2 DEF RecordsFit
<1> QED
  BY <1>10, <1>11 DEF IInv

\* A write that is done stores what it carries, in the place of nothing.
LEMMA KeepFits ==
  ASSUME IInv, NEW call \in calls
  PROVE  /\ Keep(call) \in [GameIds -> Record]
         /\ \A x \in GameIds : Keep(call)[x] # NoRecord => Follows(x, Keep(call)[x])
<1>1. call.game \in GameIds /\ call.record \in Record /\ stored \in [GameIds -> Record]
      /\ Follows(call.game, call.record)
  BY DEF IInv, TypeOK, RecordsFit
<1>2. \A x \in GameIds : stored[x] # NoRecord => Follows(x, stored[x])
  BY DEF IInv, RecordsFit
<1>3. ASSUME NEW x \in GameIds
      PROVE  Keep(call)[x] = stored[x] \/ (x = call.game /\ Keep(call)[x] = call.record)
  BY <1>1 DEF Keep
<1>4. ASSUME NEW x \in GameIds, Keep(call)[x] # NoRecord PROVE Follows(x, Keep(call)[x])
  BY <1>1, <1>2, <1>3, <1>4
<1> QED
  BY <1>1, <1>4 DEF Keep

LEMMA LandsStep ==
  ASSUME IInv, NEW call \in calls, SaveLands(call) \/ SaveFails(call)
  PROVE  IInv'
<1>1. /\ stored' \in {stored, Keep(call)} /\ calls' = calls \ {call} /\ saved' \in BOOLEAN
      /\ faults' \in 0..MaxFaults
      /\ UNCHANGED <<now, core, instrument, reply, gameId>>
  <2>1. saved \in BOOLEAN /\ faults \in 0..MaxFaults /\ MaxFaults \in Nat
    BY BlitzConstants DEF IInv, TypeOK
  <2>2. CASE SaveLands(call)
    BY <2>1, <2>2 DEF SaveLands
  <2>3. CASE SaveFails(call)
    <3>1. faults' \in 0..MaxFaults
      BY <2>1, <2>3 DEF SaveFails
    <3> QED
      BY <2>3, <3>1 DEF SaveFails
  <2> QED
    BY <2>2, <2>3
<1>2. /\ stored' \in [GameIds -> Record]
      /\ \A x \in GameIds : stored'[x] # NoRecord => Follows(x, stored'[x])
  <2>1. CASE stored' = stored
    BY <2>1 DEF IInv, TypeOK, RecordsFit
  <2>2. CASE stored' = Keep(call)
    BY <2>2, KeepFits
  <2> QED
    BY <1>1, <2>1, <2>2
<1>3. \A d \in calls' : d.game \in GameIds /\ d.record \in Record /\ Follows(d.game, d.record)
  BY <1>1 DEF IInv, TypeOK, RecordsFit
<1>4. /\ TypeOK' /\ ClocksFit' /\ IdleFits' /\ PlayingFits' /\ QuestionsFit' /\ ReplyFits'
      /\ \A x, r : Follows(x, r)' = Follows(x, r)
  BY <1>1, <1>2, <1>3, WriteLeaves
<1>5. RecordsFit'
  <2>1. ASSUME NEW x \in GameIds, stored'[x] # NoRecord PROVE Follows(x, stored[x])'
    <3>1. Follows(x, stored'[x])
      BY <1>2, <2>1
    <3>2. UNCHANGED <<phase, outcome, decisions, questions, gameId>> /\ Mine' = Mine
      BY <1>1, SameClocks DEF core, instrument
    <3> QED
      BY <3>1, <3>2 DEF Follows, IsTheGame
  <2>2. ASSUME NEW d \in calls' PROVE Follows(d.game, d.record)'
    BY <1>3, <1>4, <2>2
  <2> QED
    BY <2>1, <2>2 DEF RecordsFit
<1> QED
  BY <1>4, <1>5 DEF IInv

LEMMA NextInv == IInv /\ [Next]_vars => IInv'
<1> SUFFICES ASSUME IInv, [Next]_vars PROVE IInv'
  OBVIOUS
<1>1. CASE UNCHANGED vars
  <2>1. UNCHANGED <<now, core, instrument, reply, gameId, saved, calls, stored, faults>>
    BY <1>1 DEF vars, write
  <2>2. /\ TypeOK' /\ ClocksFit' /\ IdleFits' /\ PlayingFits' /\ QuestionsFit' /\ ReplyFits'
    BY <2>1, WriteLeaves DEF IInv, TypeOK
  <2>3. RecordsFit'
    BY <2>1, SameRecords DEF core, instrument
  <2> QED
    BY <2>2, <2>3 DEF IInv
<1>2. ASSUME NEW position \in {"on", "mate", "draw"},
             OpponentMoves(position) \/ \E ask \in BOOLEAN : PlayerMoves(position, ask)
      PROVE  IInv'
  BY <1>2, OpponentMovesStep, PlayerMovesStep
<1>3. ASSUME NEW call \in calls, SaveLands(call) \/ SaveFails(call) PROVE IInv'
  BY <1>3, LandsStep
<1>4. CASE Tick \/ StartGame \/ PlayAgain \/ Answer \/ OpponentThinks \/ OpponentFails \/ Save
  BY <1>4, TickStep, StartGameStep, PlayAgainStep, AnswerStep, ReplyStep, SaveStep
<1>5. CASE PlayerMovesTooLate \/ OpponentMovesTooLate \/ Resign \/ Observe
  BY <1>5, EndingStep
<1> QED
  BY <1>1, <1>2, <1>3, <1>4, <1>5 DEF Next

LEMMA GameInvariant == Spec => []IInv
BY InitHolds, NextInv, PTL DEF Spec

-----------------------------------------------------------------------------
(* What holds of a game.                                                   *)

\* For any time control and any game a clock is what it started with, plus its
\* increments, less the times recorded for its own moves, those times miss what
\* passed by half a millisecond a move at most, and whoever lost on time had none
\* left (commit, observe, hasFlagged).
THEOREM ClocksAlwaysAddUp == Spec => []ClocksAddUp
<1>1. IInv => ClocksAddUp
  BY DEF IInv, ClocksFit, ClocksAddUp
<1> QED
  BY <1>1, GameInvariant, PTL

\* The opponent's move never reaches the board behind an open question, however
\* its search and the answer are ordered (mayRevealOpponentMove).
THEOREM OpponentAlwaysWaits == Spec => []OpponentWaitsForTheAnswer
<1>1. IInv => OpponentWaitsForTheAnswer
  BY DEF IInv, QuestionsFit, OpponentWaitsForTheAnswer
<1> QED
  BY <1>1, GameInvariant, PTL

\* A finished game joins its questions and can be stored, and what is stored of
\* it is that game, whatever writes were lost, repeated or late (toPendingRecord,
\* saveBlitzGame).
THEOREM StoredIsAlwaysTheGame == Spec => []StoredIsTheGame
<1>1. IInv => StoredIsTheGame
  <2> SUFFICES ASSUME IInv, phase = "finished" PROVE StoredIsTheGame
    BY DEF StoredIsTheGame
  <2>1. gameId \in GameIds /\ gameId \in Nat
    BY BlitzConstants DEF IInv, PlayingFits
  <2>2. Len(Mine) > 0 => Joins
    BY DEF IInv, QuestionsFit, Joins
  <2>3. stored[gameId] # NoRecord => IsTheGame(stored[gameId])
    BY <2>1 DEF IInv, RecordsFit, Follows
  <2> QED
    BY <2>2, <2>3 DEF StoredIsTheGame, IsTheGame
<1> QED
  BY <1>1, GameInvariant, PTL

-----------------------------------------------------------------------------
(* The analysis.                                                           *)

\* A pass looks for the decisions of games that were stored before it looked.
ListsAreStored == \A t \in Tabs : listed[t] \subseteq recorded

\* A stored game has its decisions, so that none is ever given up.
NobodyGivesUp == \A t \in Tabs : givenUp[t] = {}

AnalysisInvariant == /\ AnalysisTypeOK
        /\ EngineEndsWithThePass
        /\ ListsAreStored
        /\ NobodyGivesUp
        /\ LocalScoresAreItsEngines

USE AnalysisAssumption DEF record, pass, Held, Steps

-----------------------------------------------------------------------------
LEMMA AnalysisInitInv == AnalysisInit => AnalysisInvariant
BY DEF AnalysisInit, AnalysisInvariant, AnalysisTypeOK, EngineEndsWithThePass, ListsAreStored,
       NobodyGivesUp, LocalScoresAreItsEngines

\* The end of a pass, in whatever way.
LEMMA AbortedLeavesNothing ==
  ASSUME AnalysisTypeOK, EngineEndsWithThePass, NEW t \in Tabs, Aborted(t)
  PROVE  /\ step' \in [Tabs -> Steps]
         /\ ready' \in [Tabs -> SUBSET Games]
         /\ game' \in [Tabs -> Games \cup {NoGame}]
         /\ engine' \in [Tabs -> {"none", "good", "hung"}]
         /\ \A u \in Tabs : step'[u] \in Held => game'[u] \in ready'[u]
         /\ EngineEndsWithThePass'
BY DEF AnalysisTypeOK, EngineEndsWithThePass, Aborted

LEMMA NextGameIsHeld ==
  ASSUME AnalysisTypeOK, EngineEndsWithThePass, NEW t \in Tabs, step[t] \in Held, NextGame(t)
  PROVE  /\ step' \in [Tabs -> Steps]
         /\ ready' \in [Tabs -> SUBSET Games]
         /\ game' \in [Tabs -> Games \cup {NoGame}]
         /\ engine' \in [Tabs -> {"none", "good", "hung"}]
         /\ \A u \in Tabs : step'[u] \in Held => game'[u] \in ready'[u]
         /\ EngineEndsWithThePass'
<1>1. CASE ready[t] \ {game[t]} = {}
  BY <1>1, AbortedLeavesNothing DEF NextGame
<1>2. CASE ready[t] \ {game[t]} # {}
  BY <1>2 DEF NextGame, AnalysisTypeOK, EngineEndsWithThePass
<1> QED
  BY <1>1, <1>2

\* What a write does to the record: the first one names the engine.
LEMMA AttachKeepsRecord ==
  ASSUME AnalysisTypeOK, LocalScoresAreItsEngines, NEW t \in Tabs, game[t] \in Games,
         Attach(t), UNCHANGED store
  PROVE  /\ by' \in [Games -> Tabs \cup {NoTab}]
         /\ score' \in [Games -> Tabs \cup {NoTab}]
         /\ LocalScoresAreItsEngines'
         /\ \A g \in Games : by[g] # NoTab => by'[g] = by[g]
BY DEF AnalysisTypeOK, LocalScoresAreItsEngines, Attach

-----------------------------------------------------------------------------
(* One lemma per conjunct that more than one action disturbs.              *)

LEMMA TypeStep ==
  ASSUME AnalysisTypeOK, EngineEndsWithThePass, LocalScoresAreItsEngines,
         [AnalysisNext]_analysisVars
  PROVE  AnalysisTypeOK' /\ EngineEndsWithThePass'
<1>1. ASSUME NEW g \in Games, SaveGame(g) PROVE AnalysisTypeOK' /\ EngineEndsWithThePass'
  BY <1>1 DEF SaveGame, AnalysisTypeOK, EngineEndsWithThePass
<1>2. ASSUME NEW t \in Tabs, Refetch(t) \/ Mount(t) PROVE AnalysisTypeOK' /\ EngineEndsWithThePass'
  BY <1>2 DEF Refetch, Mount, Run, AnalysisTypeOK, EngineEndsWithThePass
<1>3. ASSUME NEW t \in Tabs, Scan(t) PROVE AnalysisTypeOK' /\ EngineEndsWithThePass'
  BY <1>3 DEF Scan, Listed, Found, Unanalysed, AnalysisTypeOK, EngineEndsWithThePass
<1>4. ASSUME NEW t \in Tabs, BuildEngine(t) PROVE AnalysisTypeOK' /\ EngineEndsWithThePass'
  BY <1>4 DEF BuildEngine, AnalysisTypeOK, EngineEndsWithThePass
<1>5. ASSUME NEW t \in Tabs, Evaluate(t) \/ Hang(t) \/ Reread(t)
      PROVE  AnalysisTypeOK' /\ EngineEndsWithThePass'
  BY <1>5 DEF Evaluate, Hang, Reread, AnalysisTypeOK, EngineEndsWithThePass
<1>6. ASSUME NEW t \in Tabs, Timeout(t) \/ ReadFails(t) \/ Reload(t)
      PROVE  AnalysisTypeOK' /\ EngineEndsWithThePass'
  BY <1>6, AbortedLeavesNothing DEF Timeout, ReadFails, Reload, AnalysisTypeOK
<1>7. ASSUME NEW t \in Tabs, Check(t) PROVE AnalysisTypeOK' /\ EngineEndsWithThePass'
  <2>1. CASE by[game[t]] = NoTab
    BY <1>7, <2>1 DEF Check, AnalysisTypeOK, EngineEndsWithThePass
  <2>2. CASE by[game[t]] # NoTab
    BY <1>7, <2>2, NextGameIsHeld DEF Check, AnalysisTypeOK
  <2> QED
    BY <2>1, <2>2
<1>8. ASSUME NEW t \in Tabs, Write(t) PROVE AnalysisTypeOK' /\ EngineEndsWithThePass'
  <2>1. game[t] \in Games
    BY <1>8 DEF Write, AnalysisTypeOK
  <2> QED
    BY <1>8, <2>1, NextGameIsHeld, AttachKeepsRecord DEF Write, AnalysisTypeOK
<1>9. ASSUME NEW t \in Tabs, WriteFails(t) PROVE AnalysisTypeOK' /\ EngineEndsWithThePass'
  <2>1. game[t] \in Games
    BY <1>9 DEF WriteFails, AnalysisTypeOK
  <2> QED
    BY <1>9, <2>1, AbortedLeavesNothing, AttachKeepsRecord DEF WriteFails, AnalysisTypeOK
<1>10. CASE UNCHANGED analysisVars
  BY <1>10 DEF analysisVars, AnalysisTypeOK, EngineEndsWithThePass
<1> QED
  BY <1>1, <1>2, <1>3, <1>4, <1>5, <1>6, <1>7, <1>8, <1>9, <1>10 DEF AnalysisNext

LEMMA ListsStep ==
  ASSUME AnalysisTypeOK, ListsAreStored, NobodyGivesUp, [AnalysisNext]_analysisVars
  PROVE  ListsAreStored' /\ NobodyGivesUp'
<1> USE DEF AnalysisTypeOK, ListsAreStored, NobodyGivesUp
<1>1. ASSUME NEW g \in Games, SaveGame(g) PROVE ListsAreStored' /\ NobodyGivesUp'
  BY <1>1 DEF SaveGame
<1>2. ASSUME NEW t \in Tabs, Scan(t) PROVE ListsAreStored' /\ NobodyGivesUp'
  BY <1>2 DEF Scan, Listed, Found, Unanalysed
<1>3. ASSUME NEW t \in Tabs, ReadFails(t) \/ Reload(t) PROVE ListsAreStored' /\ NobodyGivesUp'
  BY <1>3 DEF ReadFails, Reload
<1>4. CASE UNCHANGED <<recorded, listed, givenUp>>
  BY <1>4
<1> QED
  BY <1>1, <1>2, <1>3, <1>4
  DEF AnalysisNext, analysisVars, Refetch, Mount, BuildEngine, Evaluate, Hang, Timeout, Reread,
      Check, Write, WriteFails

\* The record changes by writes alone.
LEMMA RecordStep ==
  ASSUME AnalysisTypeOK, [AnalysisNext]_analysisVars
  PROVE  \/ UNCHANGED <<store, by, score>>
         \/ \E t \in Tabs : game[t] \in Games /\ Attach(t) /\ UNCHANGED store
<1>1. ASSUME NEW t \in Tabs, Write(t) \/ WriteFails(t)
      PROVE  \/ UNCHANGED <<store, by, score>>
             \/ game[t] \in Games /\ Attach(t) /\ UNCHANGED store
  BY <1>1 DEF Write, WriteFails, AnalysisTypeOK
<1> QED
  BY <1>1
  DEF AnalysisNext, analysisVars, SaveGame, Refetch, Mount, Scan, Listed, Found, BuildEngine,
      Evaluate, Hang, Timeout, Reread, Check, ReadFails, Reload

LEMMA AnalysisNextInv == AnalysisInvariant /\ [AnalysisNext]_analysisVars => AnalysisInvariant'
<1> SUFFICES ASSUME AnalysisInvariant, [AnalysisNext]_analysisVars PROVE AnalysisInvariant'
  OBVIOUS
<1>1. AnalysisTypeOK' /\ EngineEndsWithThePass'
  BY TypeStep DEF AnalysisInvariant
<1>2. ListsAreStored' /\ NobodyGivesUp'
  BY ListsStep DEF AnalysisInvariant
<1>3. LocalScoresAreItsEngines'
  <2>1. CASE UNCHANGED <<store, by, score>>
    BY <2>1 DEF AnalysisInvariant, LocalScoresAreItsEngines
  <2>2. ASSUME NEW t \in Tabs, game[t] \in Games, Attach(t), UNCHANGED store
        PROVE  LocalScoresAreItsEngines'
    BY <2>2, AttachKeepsRecord DEF AnalysisInvariant
  <2> QED
    BY <2>1, <2>2, RecordStep DEF AnalysisInvariant
<1> QED
  BY <1>1, <1>2, <1>3 DEF AnalysisInvariant

LEMMA AnalysisInductive == AnalysisSpec => []AnalysisInvariant
BY AnalysisInitInv, AnalysisNextInv, PTL DEF AnalysisSpec

-----------------------------------------------------------------------------
\* Every variable of record, passes and engines keeps its type.
THEOREM AnalysisTypeCorrect == AnalysisSpec => []AnalysisTypeOK
<1>1. AnalysisInvariant => AnalysisTypeOK
  BY DEF AnalysisInvariant
<1> QED
  BY <1>1, AnalysisInductive, PTL

\* In the browser's own record a game carries the scores of the engine it
\* names, whichever tabs raced to attach theirs.
THEOREM LocalScoresMatch == AnalysisSpec => []LocalScoresAreItsEngines
<1>1. AnalysisInvariant => LocalScoresAreItsEngines
  BY DEF AnalysisInvariant
<1> QED
  BY <1>1, AnalysisInductive, PTL

\* The two reads of a scan never make it give up a stored game.
THEOREM GoodGamesStay == AnalysisSpec => []NothingGoodIsGivenUp
<1>1. AnalysisInvariant => NothingGoodIsGivenUp
  BY DEF AnalysisInvariant, NobodyGivesUp, NothingGoodIsGivenUp
<1> QED
  BY <1>1, AnalysisInductive, PTL

\* No engine outlives its pass, however the pass ends.
THEOREM EnginesEnd == AnalysisSpec => []EngineEndsWithThePass
<1>1. AnalysisInvariant => EngineEndsWithThePass
  BY DEF AnalysisInvariant
<1> QED
  BY <1>1, AnalysisInductive, PTL

\* The first engine that is attached to a game stays its engine, on the
\* server as in the browser.
THEOREM FirstEngineStays == AnalysisSpec => ProvenanceIsFinal
<1>1. AnalysisInvariant /\ [AnalysisNext]_analysisVars =>
        [\A g \in Games : by[g] # NoTab => by'[g] = by[g]]_by
  <2> SUFFICES ASSUME AnalysisInvariant, [AnalysisNext]_analysisVars,
                      NEW g \in Games, by[g] # NoTab, by' # by
               PROVE  by'[g] = by[g]
    OBVIOUS
  <2>1. PICK t \in Tabs : game[t] \in Games /\ Attach(t) /\ UNCHANGED store
    BY RecordStep DEF AnalysisInvariant
  <2> QED
    BY <2>1, AttachKeepsRecord DEF AnalysisInvariant
<1> QED
  BY <1>1, AnalysisInductive, PTL DEF AnalysisSpec, ProvenanceIsFinal
=============================================================================
