--------------------------- MODULE PageEngineProofs ---------------------------
(***************************************************************************)
(* Proofs about the page and the engine its parts share, for any number of *)
(* runs, clients, lists, failures and positions: a verdict is of its       *)
(* decision, a reading that is kept covers its games, a decision that is   *)
(* waited for has a reveal at work, and a reply fits the board it is       *)
(* played on.                                                              *)
(***************************************************************************)
EXTENDS PageEngine, SequenceTheorems, TLAPS

-----------------------------------------------------------------------------
(* The inductive invariant.                                                *)

Scored == [of : Nat, at : Nat]
Readings == [of : Nat, got : Seq(Scored)]
RunStates == [kind : Kinds, of : Nat, st : States, client : Nat, at : Nat \ {0},
              tries : {0, 1}, got : Seq(Scored), measured : BOOLEAN, wanted : BOOLEAN]
ClientStates == [promise : {"none", "pending", "ready"}, holder : Nat]

Live(r) == r.st # "over"

\* The answers a run has are of what it is about, one for each position before
\* the one it asks for.
Measures(r) ==
  /\ Len(r.got) = r.at - 1
  /\ \A k \in DOMAIN r.got : r.got[k] = [of |-> r.of, at |-> k]

\* A reveal is of a decision that was taken, a scan has positions left; with d
\* decisions taken and c clients built.
RunFits(r, d, c) ==
  /\ Measures(r)
  /\ r.kind = "reveal" => r.of \in 0..d
  /\ r.kind = "reveal" /\ Live(r) => r.of # 0
  /\ r.st = "counting" => r.kind = "reveal"
  /\ r.kind = "import" => r.at \in 1..ScanLength
  /\ r.client \in 0..c
  /\ r.st \in {"loading", "searching"} => r.client # 0

RunsFit ==
  /\ runs \in Seq(RunStates)
  /\ \A i \in Runs : RunFits(runs[i], Len(decidedAt), Len(clients))

\* A client and the search that holds it point at each other.
HoldersFit ==
  /\ clients \in Seq(ClientStates)
  /\ engineRef \in 0..Len(clients)
  /\ \A c \in Clients : clients[c].holder # 0 =>
       /\ clients[c].holder \in Runs
       /\ runs[clients[c].holder].st = "searching"
       /\ runs[clients[c].holder].client = c
  /\ \A i \in Runs : runs[i].st = "searching" => clients[runs[i].client].holder = i

\* The decision on screen is the last one.
RevealFits ==
  /\ mounted \in BOOLEAN /\ reviewed \in BOOLEAN
  /\ stage \in {"deciding", "committing", "revealed"}
  /\ decidedAt \in Seq(Nat)
  /\ {decision, shown, failure} \subseteq 0..Len(decidedAt)
  /\ stage = "revealed" => decision = Len(decidedAt) /\ decision # 0

BoardFits ==
  /\ game \in Seq(Nat) /\ turns \in Seq(Sides)
  /\ board \in Positions /\ Positions \subseteq DOMAIN turns

\* An opponent that is still wanted was asked about the position on the board,
\* where it is to move; as that is the last it was asked about, it is alone.
Asked(r) == r.kind = "opponent" /\ Live(r) /\ r.wanted
OpponentFits ==
  /\ \A i \in Runs : Asked(runs[i]) =>
       /\ mounted /\ stage = "deciding"
       /\ runs[i].of = board /\ answered = board /\ turns[board] = "opponent"
  /\ \A i, j \in Runs : Asked(runs[i]) /\ Asked(runs[j]) => i = j

\* A reveal of the decision on screen that is refused or answered in the end:
\* if it waits for a client, that client is being started.
Works(r, of, cs) ==
  /\ r.kind = "reveal" /\ r.of = of
  /\ r.st \notin {"over", "orphaned"}
  /\ r.st = "loading" => cs[r.client].promise # "none"
AtWork ==
  mounted /\ stage = "revealed" /\ shown = 0 /\ failure = 0 =>
    \E i \in Runs : Works(runs[i], decision, clients)

PanelFits ==
  /\ panel \in [list : Nat, scan : Nat, reading : Nat] /\ panel.scan \in 0..Len(runs)
  /\ lists \in Nat

RecordFits ==
  /\ sent \in Readings /\ kept \in Readings
  /\ \A k \in DOMAIN sent.got : sent.got[k] = [of |-> sent.of, at |-> k]
  /\ KeptCoversItsGames

IInv == RunsFit /\ HoldersFit /\ RevealFits /\ BoardFits /\ OpponentFits /\ AtWork
        /\ PanelFits /\ RecordFits

-----------------------------------------------------------------------------
(* Runs and how they change.                                               *)

LEMMA NumbersAreNat ==
  /\ ScanLength \in Nat \ {0} /\ ReviewLength \in Nat \ {0} /\ MaxRuns \in Nat \ {0}
  /\ MaxLists \in Nat \ {0} /\ MaxPositions \in Nat \ {0} /\ MaxFailures \in Nat
BY PageAssumption

LEMMA MapIsSeq ==
  ASSUME NEW S, NEW n \in Nat, NEW f \in [1..n -> S]
  PROVE  f \in Seq(S) /\ Len(f) = n /\ DOMAIN f = 1..n
OBVIOUS

\* What a run may do without losing what it has measured, with c clients built.
Moves(r, s, c) ==
  /\ s.kind = r.kind /\ s.of = r.of /\ s.at = r.at /\ s.got = r.got
  /\ Live(s) => Live(r)
  /\ Asked(s) => Asked(r)
  /\ s.client \in 0..c
  /\ s.st \in {"loading", "searching"} => s.client # 0
  /\ s.st = "counting" => r.st = "counting"

LEMMA FreshIsARun ==
  ASSUME NEW kind \in Kinds, NEW of \in Nat
  PROVE  Fresh(kind, of) \in RunStates
BY DEF Fresh, RunStates, States

LEMMA FreshFits ==
  ASSUME NEW kind \in Kinds, NEW of \in Nat, NEW d \in Nat, NEW c \in Nat,
         kind = "reveal" => of \in 1..d
  PROVE  RunFits(Fresh(kind, of), d, c)
BY NumbersAreNat DEF Fresh, RunFits, Measures, Live

LEMMA OverIsARun ==
  ASSUME NEW r \in RunStates
  PROVE  /\ Over(r) \in RunStates /\ Over(r).st = "over" /\ Over(r).kind = r.kind
         /\ ~Asked(Over(r))
<1> DEFINE f == Fresh(r.kind, IF r.kind = "opponent" THEN r.of ELSE 0)
<1>1. r.kind \in Kinds /\ r.of \in Nat /\ r.wanted \in BOOLEAN /\ "over" \in States
  BY DEF RunStates, States
<1>2. f \in RunStates
  BY <1>1, FreshIsARun
<1>3. f.kind = r.kind
  BY DEF Fresh
<1>4. Over(r) = [f EXCEPT !.st = "over", !.wanted = r.wanted]
  BY DEF Over
<1> HIDE DEF f
<1> QED
  BY <1>1, <1>2, <1>3, <1>4 DEF RunStates, Asked, Live

LEMMA OverFits ==
  ASSUME NEW r \in RunStates, NEW d \in Nat, NEW c \in Nat
  PROVE  RunFits(Over(r), d, c)
<1>1. r.kind \in Kinds
  BY DEF RunStates
<1> QED
  BY <1>1, NumbersAreNat DEF Over, Fresh, RunFits, Measures, Live

LEMMA RunsMove ==
  ASSUME RunsFit, runs' \in Seq(RunStates),
         decidedAt \in Seq(Nat), decidedAt' \in Seq(Nat), Len(decidedAt) <= Len(decidedAt'),
         \A i \in DOMAIN runs' :
           \/ i \in Runs /\ Moves(runs[i], runs'[i], Len(clients'))
           \/ RunFits(runs'[i], Len(decidedAt'), Len(clients'))
  PROVE  RunsFit'
<1>1. ASSUME NEW i \in DOMAIN runs', i \in Runs, Moves(runs[i], runs'[i], Len(clients'))
      PROVE  RunFits(runs'[i], Len(decidedAt'), Len(clients'))
  <2>1. RunFits(runs[i], Len(decidedAt), Len(clients))
    BY <1>1 DEF RunsFit
  <2> QED
    BY <1>1, <2>1 DEF RunFits, Moves, Measures
<1> QED
  BY <1>1 DEF RunsFit, Runs

LEMMA OpponentStays ==
  ASSUME OpponentFits, UNCHANGED <<mounted, stage, board, answered>>,
         turns'[board] = turns[board],
         \A i \in DOMAIN runs' : Asked(runs'[i]) =>
           i \in Runs /\ Asked(runs[i]) /\ runs'[i].of = runs[i].of
  PROVE  OpponentFits'
BY DEF OpponentFits, Runs

LEMMA NobodyIsAsked ==
  ASSUME \A i \in DOMAIN runs' : ~Asked(runs'[i])
  PROVE  OpponentFits'
BY DEF OpponentFits, Runs

\* The reveals at work stay so, on a screen that waits no more than before.
LEMMA WorkGoesOn ==
  ASSUME AtWork, mounted' => mounted, stage' = "revealed" => stage = "revealed",
         shown' = 0 => shown = 0, failure' = 0 => failure = 0, decision' = decision,
         \A i \in Runs : Works(runs[i], decision, clients) =>
           i \in DOMAIN runs' /\ Works(runs'[i], decision, clients')
  PROVE  AtWork'
BY DEF AtWork, Runs

\* What a run keeps of itself when it is cancelled.
Keeps(r, s) ==
  /\ s.kind = r.kind /\ s.of = r.of /\ s.at = r.at /\ s.got = r.got
  /\ s.st = r.st /\ s.client = r.client
  /\ Asked(s) => Asked(r)

LEMMA CancelledFits ==
  ASSUME NEW rs \in Seq(RunStates)
  PROVE  /\ Cancelled(rs) \in Seq(RunStates) /\ DOMAIN Cancelled(rs) = DOMAIN rs
         /\ Len(Cancelled(rs)) = Len(rs)
         /\ \A i \in DOMAIN rs : ~Asked(Cancelled(rs)[i]) /\ Keeps(rs[i], Cancelled(rs)[i])
<1>1. ASSUME NEW i \in DOMAIN rs
      PROVE  /\ Cancelled(rs)[i] \in RunStates /\ ~Asked(Cancelled(rs)[i])
             /\ Keeps(rs[i], Cancelled(rs)[i])
  <2>1. rs[i] \in RunStates
    BY <1>1
  <2>2. CASE rs[i].kind = "opponent" /\ rs[i].st # "over"
    <3> DEFINE r == [rs[i] EXCEPT !.wanted = FALSE]
    <3>1. Cancelled(rs)[i] = r
      BY <1>1, <2>2 DEF Cancelled
    <3>2. r \in RunStates /\ r.wanted = FALSE /\ r.kind = rs[i].kind /\ r.of = rs[i].of
          /\ r.at = rs[i].at /\ r.got = rs[i].got /\ r.st = rs[i].st /\ r.client = rs[i].client
      BY <2>1 DEF RunStates
    <3> HIDE DEF r
    <3> QED
      BY <3>1, <3>2 DEF Asked, Keeps
  <2>3. CASE ~(rs[i].kind = "opponent" /\ rs[i].st # "over")
    <3>1. Cancelled(rs)[i] = rs[i]
      BY <1>1, <2>3 DEF Cancelled
    <3> QED
      BY <2>1, <2>3, <3>1 DEF Keeps, Asked, Live
  <2> QED
    BY <2>2, <2>3
<1>2. DOMAIN rs = 1..Len(rs) /\ Len(rs) \in Nat
  OBVIOUS
<1>3. Cancelled(rs) \in [1..Len(rs) -> RunStates]
  <2>1. Cancelled(rs) = [i \in 1..Len(rs) |-> Cancelled(rs)[i]]
    BY <1>2 DEF Cancelled
  <2>2. \A i \in 1..Len(rs) : Cancelled(rs)[i] \in RunStates
    BY <1>1, <1>2
  <2> QED
    BY <2>1, <2>2, Zenon
<1>4. /\ Cancelled(rs) \in Seq(RunStates) /\ Len(Cancelled(rs)) = Len(rs)
      /\ DOMAIN Cancelled(rs) = 1..Len(rs)
  BY <1>2, <1>3, MapIsSeq
<1> QED
  BY <1>1, <1>2, <1>4

LEMMA OrphanedFits ==
  ASSUME NEW rs \in Seq(RunStates), NEW cs, NEW c
  PROVE  /\ Orphaned(rs, cs, c) \in Seq(RunStates) /\ Len(Orphaned(rs, cs, c)) = Len(rs)
         /\ DOMAIN Orphaned(rs, cs, c) = DOMAIN rs
         /\ \A i \in DOMAIN rs : Orphaned(rs, cs, c)[i] =
              IF cs[c].promise = "none" /\ rs[i].st = "loading" /\ rs[i].client = c
                THEN [rs[i] EXCEPT !.st = "orphaned"] ELSE rs[i]
<1> DEFINE rs2 == Orphaned(rs, cs, c)
<1>1. ASSUME NEW i \in DOMAIN rs
      PROVE  rs2[i] = IF cs[c].promise = "none" /\ rs[i].st = "loading" /\ rs[i].client = c
                        THEN [rs[i] EXCEPT !.st = "orphaned"] ELSE rs[i]
  BY <1>1 DEF Orphaned, Waiting
<1>2. \A i \in DOMAIN rs : rs2[i] \in RunStates
  <2> SUFFICES ASSUME NEW i \in DOMAIN rs PROVE rs2[i] \in RunStates
    OBVIOUS
  <2>1. rs[i] \in RunStates /\ "orphaned" \in States
    BY DEF States
  <2>2. [rs[i] EXCEPT !.st = "orphaned"] \in RunStates
    BY <2>1 DEF RunStates
  <2> QED
    BY <1>1, <2>1, <2>2
<1>3. DOMAIN rs = 1..Len(rs) /\ Len(rs) \in Nat
  OBVIOUS
<1>4. rs2 = [i \in 1..Len(rs) |-> rs2[i]]
  BY <1>3 DEF Orphaned
<1> HIDE DEF rs2
<1>5. rs2 \in [1..Len(rs) -> RunStates]
  BY <1>2, <1>3, <1>4, Zenon
<1>6. rs2 \in Seq(RunStates) /\ Len(rs2) = Len(rs) /\ DOMAIN rs2 = 1..Len(rs)
  BY <1>3, <1>5, MapIsSeq
<1> QED
  BY <1>1, <1>3, <1>6 DEF rs2

LEMMA StartedFits ==
  ASSUME NEW cs \in Seq(ClientStates), NEW c \in DOMAIN cs
  PROVE  /\ Started(cs, c) \in Seq(ClientStates) /\ Len(Started(cs, c)) = Len(cs)
         /\ DOMAIN Started(cs, c) = DOMAIN cs
         /\ Started(cs, c)[c].promise # "none"
         /\ \A k \in DOMAIN cs : /\ Started(cs, c)[k].holder = cs[k].holder
                                 /\ cs[k].promise # "none" => Started(cs, c)[k] = cs[k]
<1>1. cs[c] \in ClientStates
  OBVIOUS
<1>2. [cs[c] EXCEPT !.promise = "pending"] \in ClientStates
  BY <1>1 DEF ClientStates
<1>3. CASE cs[c].promise = "none"
  <2>1. Started(cs, c) = [cs EXCEPT ![c] = [cs[c] EXCEPT !.promise = "pending"]]
    BY <1>3 DEF Started
  <2>2. /\ [cs[c] EXCEPT !.promise = "pending"].promise = "pending"
        /\ [cs[c] EXCEPT !.promise = "pending"].holder = cs[c].holder
    BY <1>1 DEF ClientStates
  <2> DEFINE d == [cs[c] EXCEPT !.promise = "pending"]
  <2>3. d \in ClientStates /\ d.promise = "pending" /\ d.holder = cs[c].holder
        /\ Started(cs, c) = [cs EXCEPT ![c] = d]
    BY <1>2, <2>1, <2>2
  <2> HIDE DEF d
  <2> QED
    BY <1>3, <2>3
<1>4. CASE cs[c].promise # "none"
  BY <1>4 DEF Started
<1> QED
  BY <1>3, <1>4

-----------------------------------------------------------------------------
(* The initial states, and the steps that concern the engine only.         *)

LEMMA InitInv == Init => IInv
<1> SUFFICES ASSUME Init PROVE IInv
  OBVIOUS
<1>1. Fresh("warm", 0) \in RunStates /\ RunFits(Fresh("warm", 0), 0, 0)
  <2>1. "warm" \in Kinds
    BY DEF Kinds
  <2> QED
    BY <2>1, FreshIsARun, FreshFits
<1>2. runs = <<Fresh("warm", 0)>> /\ Runs = {1} /\ Fresh("warm", 0).kind = "warm"
      /\ Fresh("warm", 0).st = "again" /\ Len(runs) = 1 /\ runs \in Seq(RunStates)
  BY <1>1 DEF Init, Runs, Fresh
<1>3. RunsFit
  BY <1>1, <1>2 DEF Init, RunsFit
<1>4. HoldersFit
  BY <1>2 DEF Init, HoldersFit, Clients
<1>5. RevealFits
  <2>1. mounted = TRUE /\ reviewed = FALSE /\ stage = "deciding" /\ decision = 0
    BY DEF Init
  <2>2. decidedAt = <<>> /\ decision = 0 /\ shown = 0 /\ failure = 0
    BY DEF Init
  <2>3. decidedAt \in Seq(Nat) /\ {decision, shown, failure} \subseteq 0..Len(decidedAt)
    BY <2>2
  <2> QED
    BY <2>1, <2>3 DEF RevealFits
<1>6. BoardFits
  <2>1. Positions = {1} /\ DOMAIN turns = {1}
    BY DEF Init, Positions
  <2>2. turns \in Seq(Sides)
    <3>1. turns \in [1..1 -> Sides]
      <4>1. {1} = 1..1
        OBVIOUS
      <4> QED
        BY <4>1 DEF Init
    <3> QED
      BY <3>1, MapIsSeq
  <2> QED
    BY <2>1, <2>2 DEF Init, BoardFits
<1>7. OpponentFits
  BY <1>2 DEF OpponentFits, Asked
<1>8. AtWork
  BY DEF Init, AtWork
<1>9. PanelFits
  BY <1>2 DEF Init, PanelFits, NoPanel
<1>10. RecordFits
  BY DEF Init, RecordFits, Nothing, Readings, KeptCoversItsGames
<1> QED
  BY <1>3, <1>4, <1>5, <1>6, <1>7, <1>8, <1>9, <1>10 DEF IInv

screenVars == <<mounted, revealVars, boardVars, reviewed, panelVars, recordVars>>

\* What the screen says is not touched, and nobody holds a client that is not his.
LEMMA EngineStep ==
  ASSUME IInv, UNCHANGED screenVars,
         clients' \in Seq(ClientStates), engineRef' \in 0..Len(clients'),
         runs' \in Seq(RunStates), DOMAIN runs' = Runs, Len(runs') = Len(runs),
         \A i \in Runs : Moves(runs[i], runs'[i], Len(clients')) \/ runs'[i] = Over(runs[i]),
         \A i \in Runs : Works(runs[i], decision, clients) => Works(runs'[i], decision, clients'),
         \A c \in DOMAIN clients' : clients'[c].holder # 0 =>
           /\ clients'[c].holder \in Runs
           /\ runs'[clients'[c].holder].st = "searching"
           /\ runs'[clients'[c].holder].client = c,
         \A i \in Runs : runs'[i].st = "searching" => clients'[runs'[i].client].holder = i
  PROVE  IInv'
<1> USE DEF screenVars, revealVars, boardVars, gameVars, panelVars, recordVars
<1>1. RunsFit'
  <2>1. Len(decidedAt') \in Nat /\ Len(clients') \in Nat /\ decidedAt \in Seq(Nat)
    BY DEF IInv, RevealFits
  <2>2. ASSUME NEW i \in Runs, runs'[i] = Over(runs[i])
        PROVE  RunFits(runs'[i], Len(decidedAt'), Len(clients'))
    <3>1. runs[i] \in RunStates
      BY DEF IInv, RunsFit, Runs
    <3> QED
      BY <2>1, <2>2, <3>1, OverFits
  <2> QED
    BY <2>1, <2>2, RunsMove DEF IInv
<1>2. HoldersFit'
  BY DEF HoldersFit, Runs, Clients
<1>3. RevealFits' /\ BoardFits' /\ RecordFits'
  BY DEF IInv, RevealFits, BoardFits, RecordFits, KeptCoversItsGames, Positions, Nothing
<1>4. OpponentFits'
  <2>1. ASSUME NEW i \in Runs, runs'[i] = Over(runs[i])
        PROVE  ~Asked(runs'[i])
    <3>1. runs[i] \in RunStates
      BY DEF IInv, RunsFit, Runs
    <3> QED
      BY <2>1, <3>1, OverIsARun
  <2>2. \A i \in DOMAIN runs' : Asked(runs'[i]) =>
           i \in Runs /\ Asked(runs[i]) /\ runs'[i].of = runs[i].of
    BY <2>1 DEF Moves
  <2> QED
    BY <2>2, OpponentStays DEF IInv
<1>5. AtWork'
  BY WorkGoesOn DEF IInv
<1>6. PanelFits'
  BY DEF IInv, PanelFits
<1> QED
  BY <1>1, <1>2, <1>3, <1>4, <1>5, <1>6 DEF IInv

LEMMA RunType ==
  ASSUME IInv, NEW i \in Runs
  PROVE  /\ runs[i] \in RunStates /\ i \in 1..Len(runs) /\ runs \in Seq(RunStates)
         /\ RunFits(runs[i], Len(decidedAt), Len(clients))
         /\ Len(clients) \in Nat /\ Len(decidedAt) \in Nat
BY DEF IInv, RunsFit, HoldersFit, RevealFits, Runs

LEMMA RunStays ==
  ASSUME IInv, NEW i \in Runs, NEW c \in Nat, Len(clients) <= c
  PROVE  Moves(runs[i], runs[i], c)
BY RunType DEF Moves, RunFits

\* One client is started for a run that asks, whether there are new ones or not.
LEMMA AwaitsStep ==
  ASSUME IInv, NEW i \in Runs, runs[i].st \in {"again", "module"},
         NEW cs \in Seq(ClientStates), NEW c \in DOMAIN cs, Len(clients) <= Len(cs),
         \A k \in Clients : cs[k] = clients[k],
         \A k \in DOMAIN cs : k \notin Clients => cs[k].holder = 0,
         Awaits(i, cs, c), engineRef' \in 0..Len(cs), UNCHANGED screenVars
  PROVE  IInv'
<1> DEFINE rs == Orphaned(runs, cs, c)
           waits == IF runs[i].kind = "warm" THEN Over(runs[i])
                    ELSE [runs[i] EXCEPT !.st = "loading", !.client = c]
<1>1. runs[i] \in RunStates /\ runs \in Seq(RunStates) /\ clients \in Seq(ClientStates)
      /\ c \in 1..Len(cs) /\ Len(cs) \in Nat /\ c \in Nat
  BY RunType DEF IInv, HoldersFit
<1>2. /\ rs \in Seq(RunStates) /\ Len(rs) = Len(runs) /\ DOMAIN rs = Runs
      /\ \A j \in Runs : rs[j] =
           IF cs[c].promise = "none" /\ runs[j].st = "loading" /\ runs[j].client = c
             THEN [runs[j] EXCEPT !.st = "orphaned"] ELSE runs[j]
  <2>1. rs \in Seq(RunStates) /\ Len(rs) = Len(runs) /\ DOMAIN rs = Runs
    BY <1>1, OrphanedFits DEF Runs
  <2>2. ASSUME NEW j \in Runs
        PROVE  rs[j] = IF cs[c].promise = "none" /\ runs[j].st = "loading" /\ runs[j].client = c
                         THEN [runs[j] EXCEPT !.st = "orphaned"] ELSE runs[j]
    BY <2>2 DEF Orphaned, Waiting, Runs
  <2> QED
    BY <2>1, <2>2
<1>3. rs[i] = runs[i]
  BY <1>2
<1>4. waits \in RunStates /\ waits.st # "searching"
      /\ (Moves(runs[i], waits, Len(cs)) \/ waits = Over(runs[i]))
  <2>1. CASE runs[i].kind = "warm"
    BY <1>1, <2>1, OverIsARun
  <2>2. CASE runs[i].kind # "warm"
    <3>1. waits = [runs[i] EXCEPT !.st = "loading", !.client = c]
      BY <2>2
    <3>2. "loading" \in States
      BY DEF States
    <3> HIDE DEF waits
    <3>3. /\ waits \in RunStates /\ waits.st = "loading" /\ waits.client = c
          /\ waits.kind = runs[i].kind /\ waits.of = runs[i].of /\ waits.at = runs[i].at
          /\ waits.got = runs[i].got /\ waits.wanted = runs[i].wanted
      BY <1>1, <3>1, <3>2 DEF RunStates
    <3> QED
      BY <1>1, <3>3 DEF Moves, Live, Asked
  <2> QED
    BY <2>1, <2>2
<1>5. runs' = [rs EXCEPT ![i] = waits] /\ clients' = Started(cs, c)
  BY <1>3, <1>2 DEF Awaits
<1>6. /\ clients' \in Seq(ClientStates) /\ Len(clients') = Len(cs) /\ DOMAIN clients' = DOMAIN cs
      /\ clients'[c].promise # "none"
      /\ \A k \in DOMAIN cs : /\ clients'[k].holder = cs[k].holder
                              /\ cs[k].promise # "none" => clients'[k] = cs[k]
  BY <1>5, StartedFits
<1>7. waits.kind = "warm" => runs[i].kind = "warm"
  BY <1>1, OverIsARun DEF RunStates
<1>8. runs[i].kind # "warm" => waits.kind = runs[i].kind /\ waits.of = runs[i].of
                               /\ waits.st = "loading" /\ waits.client = c
  BY <1>1 DEF RunStates
<1> HIDE DEF rs, waits
<1>9. /\ runs' \in Seq(RunStates) /\ Len(runs') = Len(runs) /\ DOMAIN runs' = Runs
      /\ runs'[i] = waits /\ \A j \in Runs : j # i => runs'[j] = rs[j]
  BY <1>1, <1>2, <1>4, <1>5 DEF Runs
<1>10. ASSUME NEW j \in Runs, j # i
       PROVE  /\ Moves(runs[j], runs'[j], Len(clients'))
              /\ runs'[j].st = "searching" <=> runs[j].st = "searching"
              /\ runs'[j].client = runs[j].client
              /\ Works(runs[j], decision, clients) => Works(runs'[j], decision, clients')
  <2>1. runs[j] \in RunStates /\ RunFits(runs[j], Len(decidedAt), Len(clients))
    BY RunType
  <2>2. CASE runs'[j] = runs[j]
    <3>1. Moves(runs[j], runs[j], Len(clients'))
      BY <1>1, <1>6, RunStays
    <3>2. runs[j].st = "loading" => runs[j].client \in Clients
      BY <2>1, <1>1 DEF RunFits, Clients
    <3>3. runs[j].st = "loading" /\ clients[runs[j].client].promise # "none"
            => clients'[runs[j].client].promise # "none"
      BY <1>1, <1>6, <3>2 DEF Clients
    <3> QED
      BY <2>2, <3>1, <3>3 DEF Works
  <2>3. CASE runs'[j] # runs[j]
    <3>1. cs[c].promise = "none" /\ runs[j].st = "loading" /\ runs[j].client = c
          /\ runs'[j] = [runs[j] EXCEPT !.st = "orphaned"]
      BY <1>2, <1>9, <1>10, <2>3
    <3>2. c \in Clients
      BY <1>1, <2>1, <3>1 DEF RunFits, Clients
    <3>3. ~Works(runs[j], decision, clients)
      BY <3>1, <3>2 DEF Works
    <3>4. runs'[j].st = "orphaned" /\ runs'[j].client = c /\ Moves(runs[j], runs'[j], Len(clients'))
      BY <1>1, <1>6, <2>1, <3>1 DEF RunStates, Moves, Live, Asked
    <3> QED
      BY <3>1, <3>3, <3>4
  <2> QED
    BY <2>2, <2>3
<1>11. Works(runs[i], decision, clients) => Works(runs'[i], decision, clients')
  BY <1>6, <1>8, <1>9 DEF Works
<1>12. \A j \in Runs : runs'[j].st = "searching" =>
         j # i /\ runs[j].st = "searching" /\ runs'[j].client = runs[j].client
  BY <1>4, <1>9, <1>10
<1>13. ASSUME NEW k \in DOMAIN clients', clients'[k].holder # 0
       PROVE  /\ clients'[k].holder \in Runs
              /\ runs'[clients'[k].holder].st = "searching"
              /\ runs'[clients'[k].holder].client = k
  <2>1. k \in Clients /\ clients'[k].holder = clients[k].holder
    BY <1>6, <1>13
  <2>2. clients[k].holder \in Runs /\ runs[clients[k].holder].st = "searching"
        /\ runs[clients[k].holder].client = k
    BY <1>13, <2>1 DEF IInv, HoldersFit
  <2>3. clients[k].holder # i
    BY <2>2
  <2> QED
    BY <1>10, <2>1, <2>2, <2>3
<1>14. ASSUME NEW j \in Runs, runs'[j].st = "searching"
       PROVE  clients'[runs'[j].client].holder = j
  <2>1. runs[j].st = "searching" /\ runs'[j].client = runs[j].client
    BY <1>12, <1>14
  <2>2. runs[j].client \in Clients /\ clients[runs[j].client].holder = j
    BY <1>1, <2>1, RunType DEF IInv, HoldersFit, RunFits, Clients
  <2> QED
    BY <1>1, <1>6, <2>1, <2>2 DEF Clients
<1>15. \A j \in Runs : Moves(runs[j], runs'[j], Len(clients')) \/ runs'[j] = Over(runs[j])
  BY <1>4, <1>6, <1>9, <1>10
<1> QED
  BY <1>6, <1>9, <1>10, <1>11, <1>13, <1>14, <1>15, EngineStep

\* A run that neither holds a client nor comes to one goes on by itself.
LEMMA OneRunStep ==
  ASSUME IInv, NEW i \in Runs, runs[i].st # "searching",
         NEW r \in RunStates, r.st \notin {"searching", "loading"},
         Moves(runs[i], r, Len(clients)),
         Works(runs[i], decision, clients) => Works(r, decision, clients),
         runs' = [runs EXCEPT ![i] = r], UNCHANGED <<engineRef, clients, screenVars>>
  PROVE  IInv'
<1>1. UNCHANGED <<clients, engineRef>> /\ UNCHANGED screenVars
  OBVIOUS
<1>2. clients \in Seq(ClientStates) /\ engineRef \in 0..Len(clients) /\ Len(clients) \in Nat
  BY DEF IInv, HoldersFit
<1>3. /\ runs' \in Seq(RunStates) /\ DOMAIN runs' = Runs /\ Len(runs') = Len(runs)
      /\ runs'[i] = r /\ \A j \in Runs : j # i => runs'[j] = runs[j]
  BY RunType DEF Runs
<1>4. \A j \in Runs : Moves(runs[j], runs'[j], Len(clients'))
  BY <1>1, <1>2, <1>3, RunStays
<1>5. \A j \in Runs : Works(runs[j], decision, clients) => Works(runs'[j], decision, clients')
  BY <1>1, <1>3
<1>6. \A c \in DOMAIN clients' : clients'[c].holder # 0 =>
        /\ clients'[c].holder \in Runs
        /\ runs'[clients'[c].holder].st = "searching"
        /\ runs'[clients'[c].holder].client = c
  <2> SUFFICES ASSUME NEW c \in Clients, clients[c].holder # 0
               PROVE  /\ clients[c].holder \in Runs
                      /\ runs'[clients[c].holder].st = "searching"
                      /\ runs'[clients[c].holder].client = c
    BY <1>1 DEF Clients
  <2>1. clients[c].holder \in Runs /\ runs[clients[c].holder].st = "searching"
        /\ runs[clients[c].holder].client = c
    BY DEF IInv, HoldersFit
  <2> QED
    BY <1>3, <2>1
<1>7. \A j \in Runs : runs'[j].st = "searching" => clients'[runs'[j].client].holder = j
  BY <1>1, <1>3 DEF IInv, HoldersFit
<1> QED
  BY <1>1, <1>2, <1>3, <1>4, <1>5, <1>6, <1>7, EngineStep

LEMMA AskStep ==
  ASSUME IInv, NEW i \in Runs, Ask(i)
  PROVE  IInv'
<1>1. UNCHANGED screenVars /\ UNCHANGED <<engineRef, failures>> /\ runs[i].st = "again"
  BY DEF Ask, screenVars
<1>2. clients \in Seq(ClientStates) /\ engineRef \in 0..Len(clients) /\ Len(clients) \in Nat
  BY DEF IInv, HoldersFit
<1>3. CASE ClientOf(runs[i]) # 0
  <2>1. Awaits(i, clients, ClientOf(runs[i]))
    BY <1>3 DEF Ask
  <2>2. ClientOf(runs[i]) \in DOMAIN clients
    BY <1>2, <1>3, RunType DEF ClientOf, RunFits
  <2> QED
    BY <1>1, <1>2, <2>1, <2>2, AwaitsStep DEF Clients
<1>4. CASE ClientOf(runs[i]) = 0
  <2> DEFINE r == [runs[i] EXCEPT !.st = "module"]
  <2>1. runs[i] \in RunStates /\ "module" \in States
    BY RunType DEF States
  <2>2. runs' = [runs EXCEPT ![i] = r] /\ UNCHANGED clients
    BY <1>4 DEF Ask, To
  <2>3. r \in RunStates /\ r.st = "module" /\ Moves(runs[i], r, Len(clients))
    <3>1. r \in RunStates /\ r.st = "module" /\ r.kind = runs[i].kind /\ r.of = runs[i].of
          /\ r.at = runs[i].at /\ r.got = runs[i].got /\ r.wanted = runs[i].wanted
          /\ r.client = runs[i].client
      BY <2>1 DEF RunStates
    <3> HIDE DEF r
    <3> QED
      BY <1>1, <3>1, RunType DEF Moves, Live, Asked, RunFits
  <2>4. Works(runs[i], decision, clients) => Works(r, decision, clients)
    BY <2>1, <2>3 DEF Works, Moves
  <2> HIDE DEF r
  <2> QED
    BY <1>1, <2>2, <2>3, <2>4, OneRunStep
<1> QED
  BY <1>3, <1>4

LEMMA AskAgainStep ==
  ASSUME IInv, NEW i \in Runs, AskAgain(i)
  PROVE  IInv'
<1> DEFINE r == [runs[i] EXCEPT !.st = "again", !.tries = 1]
<1>1. UNCHANGED <<engineRef, clients, screenVars>> /\ runs[i].st = "superseded"
  BY DEF AskAgain, engineVars, screenVars
<1>2. runs[i] \in RunStates /\ "again" \in States
  BY RunType DEF States
<1>3. runs' = [runs EXCEPT ![i] = r]
  BY RunType DEF AskAgain
<1>4. r \in RunStates /\ r.st = "again" /\ r.kind = runs[i].kind /\ r.of = runs[i].of
      /\ r.at = runs[i].at /\ r.got = runs[i].got /\ r.wanted = runs[i].wanted
      /\ r.client = runs[i].client
  BY <1>2 DEF RunStates
<1> HIDE DEF r
<1>5. Moves(runs[i], r, Len(clients))
  BY <1>1, <1>4, RunType DEF Moves, Live, Asked, RunFits
<1>6. Works(runs[i], decision, clients) => Works(r, decision, clients)
  BY <1>4 DEF Works
<1> QED
  BY <1>1, <1>3, <1>4, <1>5, <1>6, OneRunStep

LEMMA ModuleLoadsStep ==
  ASSUME IInv, NEW i \in Runs, ModuleLoads(i)
  PROVE  IInv'
<1> DEFINE new == [promise |-> "none", holder |-> 0]
           cs == Append(clients, new)
<1>1. UNCHANGED screenVars /\ runs[i].st = "module" /\ engineRef' = Len(clients) + 1
      /\ Awaits(i, cs, Len(clients) + 1)
  BY DEF ModuleLoads, screenVars
<1>2. clients \in Seq(ClientStates) /\ Len(clients) \in Nat
  BY DEF IInv, HoldersFit
<1>3. new \in ClientStates
  BY DEF ClientStates
<1>4. cs \in Seq(ClientStates) /\ Len(cs) = Len(clients) + 1 /\ cs[Len(clients) + 1] = new
      /\ DOMAIN cs = 1..(Len(clients) + 1) /\ \A k \in Clients : cs[k] = clients[k]
  <2> HIDE DEF new
  <2> QED
    BY <1>2, <1>3 DEF Clients
<1>5. new.holder = 0
  OBVIOUS
<1> HIDE DEF cs, new
<1>6. \A k \in DOMAIN cs : k \notin Clients => cs[k].holder = 0
  BY <1>2, <1>4, <1>5 DEF Clients
<1>7. Len(clients) + 1 \in DOMAIN cs /\ Len(clients) <= Len(cs) /\ engineRef' \in 0..Len(cs)
  BY <1>1, <1>2, <1>4
<1> QED
  BY <1>1, <1>4, <1>6, <1>7, AwaitsStep

LEMMA ModuleFailsStep ==
  ASSUME IInv, NEW i \in Runs, ModuleFails(i)
  PROVE  IInv'
<1> DEFINE r == [runs[i] EXCEPT !.st = "broken"]
<1>1. UNCHANGED <<engineRef, clients, screenVars>> /\ runs[i].st = "module"
      /\ runs' = [runs EXCEPT ![i] = r]
  BY DEF ModuleFails, To, screenVars
<1>2. runs[i] \in RunStates /\ "broken" \in States
  BY RunType DEF States
<1>3. r \in RunStates /\ r.st = "broken" /\ r.kind = runs[i].kind /\ r.of = runs[i].of
      /\ r.at = runs[i].at /\ r.got = runs[i].got /\ r.wanted = runs[i].wanted
      /\ r.client = runs[i].client
  BY <1>2 DEF RunStates
<1> HIDE DEF r
<1>4. Moves(runs[i], r, Len(clients))
  BY <1>1, <1>3, RunType DEF Moves, Live, Asked, RunFits
<1>5. Works(runs[i], decision, clients) => Works(r, decision, clients)
  BY <1>3 DEF Works
<1> QED
  BY <1>1, <1>3, <1>4, <1>5, OneRunStep

LEMMA TakeStep ==
  ASSUME IInv, NEW i \in Runs, Take(i)
  PROVE  IInv'
<1> DEFINE c == runs[i].client
           old == clients[c].holder
           d == [clients[c] EXCEPT !.holder = i]
<1>1. UNCHANGED screenVars /\ UNCHANGED engineRef
      /\ runs[i].st = "loading" /\ clients[c].promise = "ready"
  BY DEF Take, Ready, screenVars
<1>2. clients \in Seq(ClientStates) /\ engineRef \in 0..Len(clients) /\ Len(clients) \in Nat
      /\ runs \in Seq(RunStates) /\ Len(runs) \in Nat /\ i \in Nat /\ i # 0
  BY RunType DEF IInv, HoldersFit
<1>3. c \in Clients /\ c \in 1..Len(clients) /\ clients[c] \in ClientStates
  BY <1>1, <1>2, RunType DEF RunFits, Clients
<1>4. d \in ClientStates /\ d.holder = i /\ d.promise = "ready"
  BY <1>1, <1>2, <1>3 DEF ClientStates
<1>5. clients' = [clients EXCEPT ![c] = d]
  BY DEF Take
<1>6. ASSUME NEW j \in Runs
      PROVE  /\ runs'[j] = IF j = i THEN [runs[j] EXCEPT !.st = "searching"]
                           ELSE IF j = old THEN [runs[j] EXCEPT !.st = "superseded"] ELSE runs[j]
             /\ runs'[j] \in RunStates /\ Moves(runs[j], runs'[j], Len(clients))
             /\ Works(runs[j], decision, clients) => Works(runs'[j], decision, clients')
             /\ runs'[j].client = runs[j].client
             /\ runs'[j].st = IF j = i THEN "searching"
                              ELSE IF j = old THEN "superseded" ELSE runs[j].st
  <2>1. runs'[j] = IF j = i THEN [runs[j] EXCEPT !.st = "searching"]
                   ELSE IF j = old THEN [runs[j] EXCEPT !.st = "superseded"] ELSE runs[j]
    BY DEF Take
  <2>2. runs[j] \in RunStates /\ {"searching", "superseded"} \subseteq States
    BY RunType DEF States
  <2>3. old # 0 => old \in Runs /\ runs[old].st = "searching"
    BY <1>3 DEF IInv, HoldersFit
  <2>4. ASSUME NEW st \in {"searching", "superseded"}, NEW r, r = [runs[j] EXCEPT !.st = st],
               runs[j].st \in {"loading", "searching"}
        PROVE  /\ r \in RunStates /\ Moves(runs[j], r, Len(clients)) /\ r.st = st
               /\ r.client = runs[j].client
               /\ Works(runs[j], decision, clients) => Works(r, decision, clients')
    <3>1. r \in RunStates /\ r.st = st /\ r.kind = runs[j].kind /\ r.of = runs[j].of
          /\ r.at = runs[j].at /\ r.got = runs[j].got /\ r.wanted = runs[j].wanted
          /\ r.client = runs[j].client
      BY <2>2, <2>4 DEF RunStates
    <3> QED
      BY <2>4, <3>1, RunType DEF Moves, Live, Asked, RunFits, Works
  <2>5. CASE j = i
    BY <1>1, <2>1, <2>4, <2>5
  <2>6. CASE j # i /\ j = old
    BY <1>2, <2>1, <2>3, <2>4, <2>6 DEF Runs
  <2>7. CASE j # i /\ j # old
    <3>1. runs'[j] = runs[j] /\ Moves(runs[j], runs[j], Len(clients))
      BY <1>2, <2>1, <2>7, RunStays
    <3>2. runs[j].st = "loading" => runs[j].client \in Clients
      BY RunType DEF RunFits, Clients
    <3>3. \A k \in Clients : clients[k].promise # "none" => clients'[k].promise # "none"
      BY <1>2, <1>3, <1>4, <1>5 DEF Clients
    <3> QED
      BY <2>2, <2>7, <3>1, <3>2, <3>3 DEF Works
  <2> QED
    BY <2>1, <2>5, <2>6, <2>7
<1>7. /\ clients' \in Seq(ClientStates) /\ Len(clients') = Len(clients) /\ DOMAIN clients' = Clients
      /\ clients'[c] = d /\ \A k \in Clients : k # c => clients'[k] = clients[k]
  <2> HIDE DEF d, c
  <2> QED
    BY <1>2, <1>3, <1>4, <1>5 DEF Clients
<1>8. runs' \in Seq(RunStates) /\ DOMAIN runs' = Runs /\ Len(runs') = Len(runs)
  <2>1. DOMAIN runs' = Runs /\ runs' = [j \in Runs |-> runs'[j]]
    BY DEF Take
  <2>2. Runs = 1..Len(runs)
    BY <1>2 DEF Runs
  <2>3. runs' \in [1..Len(runs) -> RunStates]
    BY <1>6, <2>1, <2>2, Zenon
  <2> QED
    BY <1>2, <2>2, <2>3, MapIsSeq
<1> HIDE DEF d, c, old
<1>9. ASSUME NEW k \in DOMAIN clients', clients'[k].holder # 0
      PROVE  /\ clients'[k].holder \in Runs
             /\ runs'[clients'[k].holder].st = "searching"
             /\ runs'[clients'[k].holder].client = k
  <2>1. CASE k = c
    BY <1>4, <1>6, <1>7, <2>1 DEF c
  <2>2. CASE k # c
    <3> DEFINE h == clients[k].holder
    <3>1. clients'[k] = clients[k] /\ h # 0 /\ h \in Runs /\ runs[h].st = "searching"
          /\ runs[h].client = k
      BY <1>7, <1>9, <2>2 DEF IInv, HoldersFit
    <3>2. h # i /\ h # old
      BY <1>1, <1>3, <2>2, <3>1 DEF IInv, HoldersFit, old
    <3> QED
      BY <1>6, <3>1, <3>2
  <2> QED
    BY <2>1, <2>2
<1>10. ASSUME NEW j \in Runs, runs'[j].st = "searching"
       PROVE  clients'[runs'[j].client].holder = j
  <2>1. CASE j = i
    BY <1>4, <1>6, <1>7, <2>1 DEF c
  <2>2. CASE j # i
    <3>1. j # old /\ runs[j].st = "searching" /\ runs'[j].client = runs[j].client
      BY <1>6, <1>10, <2>2
    <3>2. clients[runs[j].client].holder = j /\ runs[j].client \in Clients
      BY <3>1, <1>2, RunType DEF IInv, HoldersFit, RunFits, Clients
    <3>3. runs[j].client # c
      BY <3>1, <3>2 DEF old
    <3> QED
      BY <1>7, <3>1, <3>2, <3>3
  <2> QED
    BY <2>1, <2>2
<1>11. engineRef' \in 0..Len(clients')
  BY <1>1, <1>2, <1>7
<1>12. \A j \in Runs : Moves(runs[j], runs'[j], Len(clients'))
  BY <1>6, <1>7
<1> QED
  BY <1>1, <1>6, <1>7, <1>8, <1>9, <1>10, <1>11, <1>12, EngineStep

LEMMA EngineReadyStep ==
  ASSUME IInv, NEW c \in Clients, EngineReady(c)
  PROVE  IInv'
<1> DEFINE d == [clients[c] EXCEPT !.promise = "ready"]
<1>1. UNCHANGED screenVars /\ UNCHANGED <<engineRef, runs>>
      /\ clients' = [clients EXCEPT ![c] = d]
  BY DEF EngineReady, screenVars
<1>2. clients \in Seq(ClientStates) /\ engineRef \in 0..Len(clients) /\ Len(clients) \in Nat
      /\ clients[c] \in ClientStates
  BY DEF IInv, HoldersFit, Clients
<1>3. d \in ClientStates /\ d.holder = clients[c].holder /\ d.promise = "ready"
  BY <1>2 DEF ClientStates
<1> HIDE DEF d
<1>4. /\ clients' \in Seq(ClientStates) /\ Len(clients') = Len(clients) /\ DOMAIN clients' = Clients
      /\ clients'[c] = d /\ \A k \in Clients : k # c => clients'[k] = clients[k]
  BY <1>1, <1>2, <1>3 DEF Clients
<1>5. \A j \in Runs : Moves(runs[j], runs'[j], Len(clients'))
  BY <1>1, <1>2, <1>4, RunStays
<1>6. ASSUME NEW j \in Runs, Works(runs[j], decision, clients)
      PROVE  Works(runs'[j], decision, clients')
  <2>1. runs[j].st = "loading" => runs[j].client \in Clients
    BY RunType DEF RunFits, Clients
  <2> QED
    BY <1>1, <1>3, <1>4, <1>6, <2>1 DEF Works
<1>7. \A k \in Clients : clients'[k].holder = clients[k].holder
  BY <1>3, <1>4
<1>8. ASSUME NEW j \in Runs, runs'[j].st = "searching"
      PROVE  clients'[runs'[j].client].holder = j
  <2>1. clients[runs[j].client].holder = j /\ runs[j].client \in Clients
    BY <1>1, <1>2, <1>8, RunType DEF IInv, HoldersFit, RunFits, Clients
  <2> QED
    BY <1>1, <1>7, <2>1
<1>9. ASSUME NEW k \in DOMAIN clients', clients'[k].holder # 0
      PROVE  /\ clients'[k].holder \in Runs
             /\ runs'[clients'[k].holder].st = "searching"
             /\ runs'[clients'[k].holder].client = k
  BY <1>1, <1>4, <1>7, <1>9 DEF IInv, HoldersFit
<1>10. engineRef' \in 0..Len(clients') /\ DOMAIN runs' = Runs /\ Len(runs') = Len(runs)
       /\ runs' \in Seq(RunStates)
  BY <1>1, <1>2, <1>4 DEF Runs, IInv, RunsFit
<1> QED
  BY <1>1, <1>4, <1>5, <1>6, <1>8, <1>9, <1>10, EngineStep

LEMMA FailsStep ==
  ASSUME IInv, NEW c \in Clients, Fails(c)
  PROVE  IInv'
<1> DEFINE d == [clients[c] EXCEPT !.promise = "none"]
<1>1. UNCHANGED screenVars /\ UNCHANGED engineRef /\ clients' = [clients EXCEPT ![c] = d]
  BY DEF Fails, screenVars
<1>2. clients \in Seq(ClientStates) /\ engineRef \in 0..Len(clients) /\ Len(clients) \in Nat
      /\ clients[c] \in ClientStates /\ runs \in Seq(RunStates) /\ Len(runs) \in Nat
  BY DEF IInv, HoldersFit, RunsFit, Clients
<1>3. d \in ClientStates /\ d.holder = clients[c].holder
  BY <1>2 DEF ClientStates
<1> HIDE DEF d
<1>4. /\ clients' \in Seq(ClientStates) /\ Len(clients') = Len(clients) /\ DOMAIN clients' = Clients
      /\ clients'[c] = d /\ \A k \in Clients : k # c => clients'[k] = clients[k]
  BY <1>1, <1>2, <1>3 DEF Clients
<1>5. \A k \in Clients : clients'[k].holder = clients[k].holder
  BY <1>3, <1>4
<1>6. ASSUME NEW j \in Runs
      PROVE  /\ runs'[j] \in RunStates /\ Moves(runs[j], runs'[j], Len(clients))
             /\ Works(runs[j], decision, clients) => Works(runs'[j], decision, clients')
             /\ runs'[j].client = runs[j].client
             /\ runs'[j].st = "searching" <=> runs[j].st = "searching"
  <2>1. runs[j] \in RunStates /\ "broken" \in States
    BY RunType DEF States
  <2>2. CASE runs[j].st = "loading" /\ runs[j].client = c
    <3>1. runs'[j] = [runs[j] EXCEPT !.st = "broken"]
      BY <2>2 DEF Fails, Waiting, Runs
    <3>2. runs'[j] \in RunStates /\ runs'[j].st = "broken" /\ runs'[j].kind = runs[j].kind
          /\ runs'[j].of = runs[j].of /\ runs'[j].at = runs[j].at /\ runs'[j].got = runs[j].got
          /\ runs'[j].wanted = runs[j].wanted /\ runs'[j].client = runs[j].client
      BY <2>1, <3>1 DEF RunStates
    <3> QED
      BY <2>2, <3>2, RunType DEF Moves, Live, Asked, RunFits, Works
  <2>3. CASE ~(runs[j].st = "loading" /\ runs[j].client = c)
    <3>1. runs'[j] = runs[j]
      BY <2>3 DEF Fails, Waiting, Runs
    <3>2. runs[j].st = "loading" => runs[j].client \in Clients
      BY RunType DEF RunFits, Clients
    <3>3. Moves(runs[j], runs[j], Len(clients))
      BY <1>2, RunStays
    <3> QED
      BY <1>4, <2>1, <2>3, <3>1, <3>2, <3>3 DEF Works
  <2> QED
    BY <2>2, <2>3
<1>7. runs' \in Seq(RunStates) /\ DOMAIN runs' = Runs /\ Len(runs') = Len(runs)
  <2>1. runs' = [j \in Runs |-> runs'[j]]
    BY DEF Fails
  <2>2. Runs = 1..Len(runs)
    BY <1>2 DEF Runs
  <2>3. runs' \in [1..Len(runs) -> RunStates]
    BY <1>6, <2>1, <2>2, Zenon
  <2> QED
    BY <1>2, <2>2, <2>3, MapIsSeq
<1>8. ASSUME NEW j \in Runs, runs'[j].st = "searching"
      PROVE  clients'[runs'[j].client].holder = j
  <2>1. runs[j].st = "searching" /\ runs'[j].client = runs[j].client
    BY <1>6, <1>8
  <2>2. clients[runs[j].client].holder = j /\ runs[j].client \in Clients
    BY <1>2, <2>1, RunType DEF IInv, HoldersFit, RunFits, Clients
  <2> QED
    BY <1>5, <2>1, <2>2
<1>9. ASSUME NEW k \in DOMAIN clients', clients'[k].holder # 0
      PROVE  /\ clients'[k].holder \in Runs
             /\ runs'[clients'[k].holder].st = "searching"
             /\ runs'[clients'[k].holder].client = k
  <2>1. k \in Clients /\ clients'[k].holder = clients[k].holder
    BY <1>4, <1>5
  <2>2. clients[k].holder \in Runs /\ runs[clients[k].holder].st = "searching"
        /\ runs[clients[k].holder].client = k
    BY <1>9, <2>1 DEF IInv, HoldersFit
  <2> QED
    BY <1>6, <2>1, <2>2
<1>10. engineRef' \in 0..Len(clients') /\ \A j \in Runs : Moves(runs[j], runs'[j], Len(clients'))
  BY <1>1, <1>2, <1>4, <1>6
<1> QED
  BY <1>1, <1>4, <1>6, <1>7, <1>8, <1>9, <1>10, EngineStep

-----------------------------------------------------------------------------
(* One run ends, or is answered.                                           *)

LEMMA OneRunFits ==
  ASSUME IInv, NEW i \in Runs, NEW r \in RunStates,
         RunFits(r, Len(decidedAt), Len(clients)),
         runs' = [runs EXCEPT ![i] = r], Len(clients') = Len(clients), UNCHANGED decidedAt
  PROVE  RunsFit'
<1>1. /\ runs' \in Seq(RunStates) /\ DOMAIN runs' = Runs
      /\ runs'[i] = r /\ \A j \in Runs : j # i => runs'[j] = runs[j]
  BY RunType DEF Runs
<1>2. \A j \in Runs : RunFits(runs'[j], Len(decidedAt'), Len(clients'))
  BY <1>1, RunType
<1> QED
  BY <1>1, <1>2 DEF RunsFit, Runs

LEMMA OneRunChanges ==
  ASSUME IInv, NEW i \in Runs, NEW r, runs' = [runs EXCEPT ![i] = r]
  PROVE  /\ DOMAIN runs' = Runs /\ Len(runs') = Len(runs) /\ runs'[i] = r
         /\ \A j \in Runs : j # i => runs'[j] = runs[j]
BY RunType DEF Runs

\* A run that holds nothing.
LEMMA HoldersStay ==
  ASSUME IInv, NEW i \in Runs, NEW r, runs[i].st # "searching", r.st # "searching",
         runs' = [runs EXCEPT ![i] = r], UNCHANGED <<clients, engineRef>>
  PROVE  HoldersFit'
<1>1. /\ DOMAIN runs' = Runs /\ runs'[i] = r /\ \A j \in Runs : j # i => runs'[j] = runs[j]
  BY OneRunChanges
<1> QED
  BY <1>1 DEF IInv, HoldersFit, Runs, Clients

\* The run whose search is over.
LEMMA HolderGoes ==
  ASSUME IInv, NEW i \in Runs, NEW r, r.st # "searching", SearchEnds(i),
         runs' = [runs EXCEPT ![i] = r], UNCHANGED engineRef
  PROVE  /\ HoldersFit'
<1> DEFINE c == runs[i].client
           d == [clients[c] EXCEPT !.holder = 0]
<1>1. /\ DOMAIN runs' = Runs /\ runs'[i] = r /\ \A j \in Runs : j # i => runs'[j] = runs[j]
  BY OneRunChanges
<1>2. clients \in Seq(ClientStates) /\ engineRef \in 0..Len(clients) /\ Len(clients) \in Nat
      /\ runs[i].st = "searching"
  BY DEF IInv, HoldersFit, SearchEnds
<1>3. c \in Clients /\ clients[c] \in ClientStates /\ clients[c].holder = i
  BY <1>2, RunType DEF RunFits, Clients, IInv, HoldersFit
<1>4. d \in ClientStates /\ d.holder = 0
  BY <1>3 DEF ClientStates
<1>5. clients' = [clients EXCEPT ![c] = d]
  BY DEF SearchEnds
<1> HIDE DEF d, c
<1>6. /\ clients' \in Seq(ClientStates) /\ Len(clients') = Len(clients) /\ DOMAIN clients' = Clients
      /\ clients'[c] = d /\ \A k \in Clients : k # c => clients'[k] = clients[k]
  BY <1>2, <1>3, <1>4, <1>5 DEF Clients
<1>7. ASSUME NEW k \in Clients, clients'[k].holder # 0
      PROVE  /\ clients'[k].holder \in Runs
             /\ runs'[clients'[k].holder].st = "searching"
             /\ runs'[clients'[k].holder].client = k
  <2>1. k # c /\ clients'[k] = clients[k]
    BY <1>4, <1>6, <1>7
  <2>2. clients[k].holder \in Runs /\ runs[clients[k].holder].st = "searching"
        /\ runs[clients[k].holder].client = k
    BY <1>7, <2>1 DEF IInv, HoldersFit
  <2>3. clients[k].holder # i
    BY <2>1, <2>2 DEF c
  <2> QED
    BY <1>1, <2>1, <2>2, <2>3
<1>8. ASSUME NEW j \in Runs, runs'[j].st = "searching"
      PROVE  clients'[runs'[j].client].holder = j
  <2>1. j # i /\ runs'[j] = runs[j]
    BY <1>1, <1>8
  <2>2. clients[runs[j].client].holder = j /\ runs[j].client \in Clients
    BY <1>2, <1>8, <2>1, RunType DEF IInv, HoldersFit, RunFits, Clients
  <2> QED
    BY <1>3, <1>6, <2>1, <2>2
<1> QED
  BY <1>1, <1>2, <1>6, <1>7, <1>8 DEF HoldersFit, Runs, Clients

LEMMA PromisesStay ==
  ASSUME IInv, NEW i \in Runs, SearchEnds(i)
  PROVE  /\ Len(clients') = Len(clients) /\ runs[i].st = "searching"
         /\ \A k \in Clients : clients'[k].promise = clients[k].promise
<1> DEFINE c == runs[i].client
           d == [clients[c] EXCEPT !.holder = 0]
<1>1. clients \in Seq(ClientStates) /\ runs[i].st = "searching"
      /\ clients' = [clients EXCEPT ![c] = d]
  BY DEF IInv, HoldersFit, SearchEnds
<1>2. c \in Clients /\ clients[c] \in ClientStates
  BY <1>1, RunType DEF RunFits, Clients
<1>3. d.promise = clients[c].promise
  BY <1>2 DEF ClientStates
<1> HIDE DEF c, d
<1> QED
  BY <1>1, <1>2, <1>3 DEF Clients

\* Whoever is at work stays so when another run changes.
LEMMA OthersWorkOn ==
  ASSUME IInv, NEW i \in Runs, NEW r, runs' = [runs EXCEPT ![i] = r],
         UNCHANGED <<mounted, stage, decision>>,
         Works(runs[i], decision, clients) => Works(r, decision, clients'),
         shown' = 0 => shown = 0, failure' = 0 => failure = 0,
         \A k \in Clients : clients'[k].promise = clients[k].promise
  PROVE  AtWork'
<1>1. /\ DOMAIN runs' = Runs /\ runs'[i] = r /\ \A j \in Runs : j # i => runs'[j] = runs[j]
  BY OneRunChanges
<1>2. ASSUME NEW j \in Runs, Works(runs[j], decision, clients)
      PROVE  j \in DOMAIN runs' /\ Works(runs'[j], decision, clients')
  <2>1. CASE j = i
    BY <1>1, <1>2, <2>1
  <2>2. CASE j # i
    <3>1. runs'[j] = runs[j] /\ (runs[j].st = "loading" => runs[j].client \in Clients)
      BY <1>1, <2>2, RunType DEF RunFits, Clients
    <3> QED
      BY <1>1, <1>2, <3>1 DEF Works
  <2> QED
    BY <2>1, <2>2
<1> QED
  BY <1>2, WorkGoesOn DEF IInv

\* An opponent is not asked, and those that are see the same board.
LEMMA OthersAreAsked ==
  ASSUME IInv, NEW i \in Runs, NEW r, runs' = [runs EXCEPT ![i] = r], ~Asked(r),
         UNCHANGED <<mounted, stage, board, answered, turns>>
  PROVE  OpponentFits'
<1>1. /\ DOMAIN runs' = Runs /\ runs'[i] = r /\ \A j \in Runs : j # i => runs'[j] = runs[j]
  BY OneRunChanges
<1>2. \A j \in DOMAIN runs' : Asked(runs'[j]) =>
        j \in Runs /\ Asked(runs[j]) /\ runs'[j].of = runs[j].of
  BY <1>1
<1> QED
  BY <1>2, OpponentStays DEF IInv

LEMMA ScanEndsFits ==
  ASSUME IInv, NEW i, NEW reading \in Nat, ScanEnds(i, reading), Len(runs') = Len(runs),
         UNCHANGED lists
  PROVE  PanelFits'
<1>1. panel \in [list : Nat, scan : Nat, reading : Nat] /\ panel.scan \in 0..Len(runs)
      /\ lists \in Nat /\ Len(runs) \in Nat
  BY DEF IInv, PanelFits, RunsFit
<1> DEFINE q == [panel EXCEPT !.scan = 0, !.reading = reading]
<1>2. q \in [list : Nat, scan : Nat, reading : Nat] /\ q.scan = 0
  BY <1>1
<1>3. panel' = q \/ panel' = panel
  BY DEF ScanEnds
<1> HIDE DEF q
<1> QED
  BY <1>1, <1>2, <1>3 DEF PanelFits

LEMMA LoopFailsStep ==
  ASSUME IInv, NEW i \in Runs, LoopFails(i)
  PROVE  IInv'
<1> USE DEF revealVars, boardVars, gameVars, recordVars, engineVars
<1>1. runs' = [runs EXCEPT ![i] = Over(runs[i])] /\ runs[i].kind \in Loops
      /\ runs[i].st # "searching"
  BY DEF LoopFails, Ends
<1>2. /\ runs[i] \in RunStates /\ Over(runs[i]) \in RunStates /\ Over(runs[i]).st = "over"
      /\ ~Asked(Over(runs[i])) /\ RunFits(Over(runs[i]), Len(decidedAt), Len(clients))
  BY RunType, OverIsARun, OverFits
<1>3. RunsFit'
  BY <1>1, <1>2, OneRunFits DEF LoopFails
<1>4. HoldersFit'
  BY <1>1, <1>2, HoldersStay DEF LoopFails
<1>5. RevealFits' /\ BoardFits' /\ RecordFits'
  BY DEF LoopFails, IInv, RevealFits, BoardFits, RecordFits, KeptCoversItsGames, Positions, Nothing
<1>6. OpponentFits'
  BY <1>1, <1>2, OthersAreAsked DEF LoopFails
<1>7. AtWork'
  <2>1. ~Works(runs[i], decision, clients)
    BY <1>1 DEF Works, Loops
  <2> QED
    BY <1>1, <2>1, OthersWorkOn DEF LoopFails
<1>8. PanelFits'
  <2>1. Len(runs') = Len(runs)
    BY <1>1, OneRunChanges
  <2> QED
    BY <2>1, ScanEndsFits DEF LoopFails
<1> QED
  BY <1>3, <1>4, <1>5, <1>6, <1>7, <1>8 DEF IInv

LEMMA RevealCatchesStep ==
  ASSUME IInv, NEW i \in Runs, RevealCatches(i)
  PROVE  IInv'
<1> USE DEF boardVars, gameVars, panelVars, recordVars, engineVars
<1>1. runs' = [runs EXCEPT ![i] = Over(runs[i])] /\ runs[i].kind = "reveal"
      /\ runs[i].st \in {"superseded", "broken"} /\ failure' = runs[i].of
  BY DEF RevealCatches, Ends
<1>2. /\ runs[i] \in RunStates /\ Over(runs[i]) \in RunStates /\ Over(runs[i]).st = "over"
      /\ ~Asked(Over(runs[i])) /\ RunFits(Over(runs[i]), Len(decidedAt), Len(clients))
  BY RunType, OverIsARun, OverFits
<1>3. RunsFit'
  BY <1>1, <1>2, OneRunFits DEF RevealCatches
<1>4. HoldersFit'
  BY <1>1, <1>2, HoldersStay DEF RevealCatches
<1>5. runs[i].of \in 1..Len(decidedAt) /\ runs[i].of # 0
  BY <1>1, RunType DEF RunFits, Live
<1>6. RevealFits' /\ BoardFits' /\ RecordFits'
  <2>1. UNCHANGED <<mounted, reviewed, stage, decidedAt, decision, shown, boardVars, recordVars>>
    BY DEF RevealCatches
  <2>2. {decision', shown', failure'} \subseteq 0..Len(decidedAt)
    BY <1>1, <1>5, <2>1 DEF IInv, RevealFits
  <2>3. RevealFits'
    BY <2>1, <2>2 DEF IInv, RevealFits, Positions
  <2> QED
    BY <2>1, <2>3 DEF IInv, BoardFits, RecordFits, KeptCoversItsGames, Positions, Nothing
<1>7. OpponentFits'
  BY <1>1, <1>2, OthersAreAsked DEF RevealCatches
<1>8. AtWork'
  <2>1. failure' # 0
    BY <1>1, <1>5
  <2> QED
    BY <2>1 DEF AtWork
<1>9. PanelFits'
  <2>1. Len(runs') = Len(runs)
    BY <1>1, OneRunChanges
  <2> QED
    BY <2>1 DEF RevealCatches, IInv, PanelFits
<1> QED
  BY <1>3, <1>4, <1>6, <1>7, <1>8, <1>9 DEF IInv

LEMMA OthersCatchStep ==
  ASSUME IInv, NEW i \in Runs, OthersCatch(i)
  PROVE  IInv'
<1> USE DEF revealVars, boardVars, gameVars, panelVars, recordVars, engineVars
<1>1. runs' = [runs EXCEPT ![i] = Over(runs[i])] /\ runs[i].kind # "reveal"
      /\ runs[i].st \in {"superseded", "broken"}
  BY DEF OthersCatch, Ends
<1>2. /\ runs[i] \in RunStates /\ Over(runs[i]) \in RunStates /\ Over(runs[i]).st = "over"
      /\ ~Asked(Over(runs[i])) /\ RunFits(Over(runs[i]), Len(decidedAt), Len(clients))
  BY RunType, OverIsARun, OverFits
<1>3. RunsFit'
  BY <1>1, <1>2, OneRunFits DEF OthersCatch
<1>4. HoldersFit'
  BY <1>1, <1>2, HoldersStay DEF OthersCatch
<1>5. RevealFits' /\ BoardFits' /\ RecordFits'
  BY DEF OthersCatch, IInv, RevealFits, BoardFits, RecordFits, KeptCoversItsGames, Positions, Nothing
<1>6. OpponentFits'
  BY <1>1, <1>2, OthersAreAsked DEF OthersCatch
<1>7. AtWork'
  <2>1. ~Works(runs[i], decision, clients)
    BY <1>1 DEF Works
  <2> QED
    BY <1>1, <2>1, OthersWorkOn DEF OthersCatch
<1>8. PanelFits'
  <2>1. Len(runs') = Len(runs)
    BY <1>1, OneRunChanges
  <2> QED
    BY <2>1 DEF OthersCatch, IInv, PanelFits
<1> QED
  BY <1>3, <1>4, <1>5, <1>6, <1>7, <1>8 DEF IInv

LEMMA ScoresFit ==
  ASSUME NEW r \in RunStates, Measures(r)
  PROVE  /\ Scores(r) \in Seq(Scored) /\ Len(Scores(r)) = r.at
         /\ \A k \in DOMAIN Scores(r) : Scores(r)[k] = [of |-> r.of, at |-> k]
<1> DEFINE e == [of |-> r.of, at |-> r.at]
<1>1. r.of \in Nat /\ r.at \in Nat /\ r.at # 0 /\ r.got \in Seq(Scored)
  BY DEF RunStates
<1>2. e \in Scored
  BY <1>1 DEF Scored
<1>3. Scores(r) = Append(r.got, e)
  BY DEF Scores
<1>4. Len(r.got) = r.at - 1 /\ \A k \in DOMAIN r.got : r.got[k] = [of |-> r.of, at |-> k]
  BY DEF Measures
<1>5. \A k \in 1..r.at : k = r.at \/ k \in DOMAIN r.got
  BY <1>1, <1>4
<1> HIDE DEF e
<1>6. Scores(r) \in Seq(Scored) /\ Len(Scores(r)) = r.at /\ Scores(r)[r.at] = e
      /\ \A k \in DOMAIN r.got : Scores(r)[k] = r.got[k]
  BY <1>1, <1>2, <1>3, <1>4
<1>7. ASSUME NEW k \in DOMAIN Scores(r) PROVE Scores(r)[k] = [of |-> r.of, at |-> k]
  <2>1. k \in 1..r.at
    BY <1>6
  <2>2. CASE k = r.at
    BY <1>6, <2>2 DEF e
  <2>3. CASE k \in DOMAIN r.got
    BY <1>4, <1>6, <2>3
  <2> QED
    BY <1>5, <2>1, <2>2, <2>3
<1> QED
  BY <1>6, <1>7

LEMMA LoopGoesOnStep ==
  ASSUME IInv, NEW i \in Runs, LoopGoesOn(i)
  PROVE  IInv'
<1> USE DEF revealVars, boardVars, gameVars, panelVars, recordVars
<1> DEFINE r == [runs[i] EXCEPT !.got = Scores(runs[i]), !.at = runs[i].at + 1, !.tries = 0,
                                !.st = "again"]
<1>1. runs[i] \in RunStates /\ RunFits(runs[i], Len(decidedAt), Len(clients))
  BY RunType
<1>2. SearchEnds(i) /\ runs[i].kind \in Loops /\ runs[i].at < Length(runs[i])
  BY DEF LoopGoesOn
<1>3. runs' = [runs EXCEPT ![i] = r]
  BY <1>1, RunType DEF LoopGoesOn
<1>4. Scores(runs[i]) \in Seq(Scored) /\ Len(Scores(runs[i])) = runs[i].at
      /\ \A k \in DOMAIN Scores(runs[i]) : Scores(runs[i])[k] = [of |-> runs[i].of, at |-> k]
  BY <1>1, ScoresFit DEF RunFits
<1>5. runs[i].at + 1 \in Nat \ {0} /\ "again" \in States
  BY <1>1 DEF RunStates, States
<1>6. r \in RunStates /\ r.st = "again" /\ r.kind = runs[i].kind /\ r.of = runs[i].of
      /\ r.at = runs[i].at + 1 /\ r.got = Scores(runs[i]) /\ r.client = runs[i].client
  BY <1>1, <1>4, <1>5 DEF RunStates
<1> HIDE DEF r
<1>7. RunFits(r, Len(decidedAt), Len(clients))
  <2>1. Measures(r)
    BY <1>1, <1>4, <1>6 DEF Measures, RunStates
  <2>2. r.kind = "import" => r.at \in 1..ScanLength
    BY <1>1, <1>2, <1>6, NumbersAreNat DEF Length, RunStates
  <2>3. r.kind # "reveal"
    BY <1>2, <1>6 DEF Loops
  <2> QED
    BY <1>1, <1>6, <2>1, <2>2, <2>3 DEF RunFits
<1>8. RunsFit'
  BY <1>2, <1>3, <1>6, <1>7, OneRunFits, PromisesStay DEF LoopGoesOn
<1>9. HoldersFit'
  BY <1>2, <1>3, <1>6, HolderGoes DEF LoopGoesOn
<1>10. RevealFits' /\ BoardFits' /\ RecordFits'
  BY DEF LoopGoesOn, IInv, RevealFits, BoardFits, RecordFits, KeptCoversItsGames, Positions, Nothing
<1>11. OpponentFits'
  <2>1. ~Asked(r)
    BY <1>2, <1>6 DEF Asked, Loops
  <2> QED
    BY <1>3, <2>1, OthersAreAsked DEF LoopGoesOn
<1>12. AtWork'
  <2>1. ~Works(runs[i], decision, clients)
    BY <1>2 DEF Works, Loops
  <2>2. \A k \in Clients : clients'[k].promise = clients[k].promise
    BY <1>2, PromisesStay
  <2> QED
    BY <1>3, <2>1, <2>2, OthersWorkOn DEF LoopGoesOn
<1>13. PanelFits'
  <2>1. Len(runs') = Len(runs)
    BY <1>3, OneRunChanges
  <2> QED
    BY <2>1 DEF LoopGoesOn, IInv, PanelFits
<1> QED
  BY <1>8, <1>9, <1>10, <1>11, <1>12, <1>13 DEF IInv

\* A run that ends with its search, whatever comes of it.
LEMMA EndsWithSearch ==
  ASSUME IInv, NEW i \in Runs, SearchEnds(i), Ends(i), UNCHANGED <<engineRef, decidedAt>>
  PROVE  /\ runs' = [runs EXCEPT ![i] = Over(runs[i])] /\ Len(runs') = Len(runs)
         /\ ~Asked(Over(runs[i]))
         /\ RunsFit' /\ HoldersFit'
<1>1. runs' = [runs EXCEPT ![i] = Over(runs[i])]
  BY DEF Ends
<1>2. /\ runs[i] \in RunStates /\ Over(runs[i]) \in RunStates /\ Over(runs[i]).st = "over"
      /\ ~Asked(Over(runs[i])) /\ RunFits(Over(runs[i]), Len(decidedAt), Len(clients))
  BY RunType, OverIsARun, OverFits
<1>3. RunsFit'
  BY <1>1, <1>2, OneRunFits, PromisesStay
<1>4. HoldersFit'
  BY <1>1, <1>2, HolderGoes
<1>5. Len(runs') = Len(runs)
  BY <1>1, OneRunChanges
<1> QED
  BY <1>1, <1>2, <1>3, <1>4, <1>5

LEMMA LoopEndsStep ==
  ASSUME IInv, NEW i \in Runs, LoopEnds(i)
  PROVE  IInv'
<1> USE DEF revealVars, boardVars, gameVars
<1>1. SearchEnds(i) /\ Ends(i) /\ runs[i].kind \in Loops
      /\ UNCHANGED <<mounted, engineRef, failures, revealVars, boardVars, lists, sent>>
  BY DEF LoopEnds
<1>2. /\ runs' = [runs EXCEPT ![i] = Over(runs[i])] /\ Len(runs') = Len(runs)
      /\ ~Asked(Over(runs[i]))
  BY <1>1, EndsWithSearch
<1>3. RunsFit'
  BY <1>1, EndsWithSearch
<1>4. HoldersFit'
  BY <1>1, EndsWithSearch
<1>5. runs[i] \in RunStates /\ RunFits(runs[i], Len(decidedAt), Len(clients)) /\ runs[i].of \in Nat
  BY RunType DEF RunStates
<1>6. RevealFits' /\ BoardFits'
  <2>1. reviewed' \in BOOLEAN
    BY DEF LoopEnds, IInv, RevealFits
  <2> QED
    BY <1>1, <2>1 DEF IInv, RevealFits, BoardFits, Positions
<1>7. RecordFits'
  <2>1. CASE kept' = kept
    BY <1>1, <2>1 DEF IInv, RecordFits, KeptCoversItsGames, Nothing
  <2>2. CASE kept' # kept
    <3> DEFINE got == Scores(runs[i])
    <3>1. runs[i].kind = "import" /\ runs[i].at = ScanLength
          /\ kept' = [of |-> runs[i].of, got |-> got]
      BY <2>2 DEF LoopEnds, Length
    <3>2. got \in Seq(Scored) /\ Len(got) = ScanLength
          /\ \A k \in DOMAIN got : got[k] = [of |-> runs[i].of, at |-> k]
      BY <1>5, <3>1, ScoresFit DEF RunFits
    <3> HIDE DEF got
    <3>3. kept' \in Readings /\ kept'.got = got /\ kept'.of = runs[i].of
      BY <1>5, <3>1, <3>2 DEF Readings
    <3>4. got = [p \in 1..ScanLength |-> [of |-> runs[i].of, at |-> p]]
      BY <3>2
    <3>5. KeptCoversItsGames'
      BY <3>3, <3>4 DEF KeptCoversItsGames
    <3> QED
      BY <1>1, <3>3, <3>5 DEF IInv, RecordFits
  <2> QED
    BY <2>1, <2>2
<1>8. OpponentFits'
  BY <1>1, <1>2, OthersAreAsked
<1>9. AtWork'
  <2>1. ~Works(runs[i], decision, clients)
    BY <1>1 DEF Works, Loops
  <2>2. \A k \in Clients : clients'[k].promise = clients[k].promise
    BY <1>1, PromisesStay
  <2> QED
    BY <1>1, <1>2, <2>1, <2>2, OthersWorkOn
<1>10. PanelFits'
  <2>1. ScanEnds(i, runs[i].of)
    BY DEF LoopEnds
  <2> QED
    BY <1>1, <1>2, <1>5, <2>1, ScanEndsFits
<1> QED
  BY <1>3, <1>4, <1>6, <1>7, <1>8, <1>9, <1>10 DEF IInv

LEMMA RevealGoesOnStep ==
  ASSUME IInv, NEW i \in Runs, RevealGoesOn(i)
  PROVE  IInv'
<1> USE DEF revealVars, boardVars, gameVars, panelVars, recordVars
<1>1. runs[i] \in RunStates /\ RunFits(runs[i], Len(decidedAt), Len(clients))
  BY RunType
<1>2. SearchEnds(i) /\ runs[i].kind = "reveal" /\ runs[i].at = 1 /\ runs[i].st = "searching"
  BY DEF RevealGoesOn, SearchEnds
<1>3. PICK measured \in BOOLEAN :
        runs' = [runs EXCEPT ![i].got = Scores(runs[i]), ![i].at = 2, ![i].st = "again",
                             ![i].measured = measured]
  BY DEF RevealGoesOn
<1> DEFINE r == [runs[i] EXCEPT !.got = Scores(runs[i]), !.at = 2, !.st = "again",
                                !.measured = measured]
<1>4. runs' = [runs EXCEPT ![i] = r]
  BY <1>1, <1>3, RunType
<1>5. Scores(runs[i]) \in Seq(Scored) /\ Len(Scores(runs[i])) = runs[i].at
      /\ \A k \in DOMAIN Scores(runs[i]) : Scores(runs[i])[k] = [of |-> runs[i].of, at |-> k]
  BY <1>1, ScoresFit DEF RunFits
<1>6. 2 \in Nat \ {0} /\ "again" \in States
  BY DEF States
<1>7. r \in RunStates /\ r.st = "again" /\ r.kind = runs[i].kind /\ r.of = runs[i].of
      /\ r.at = 2 /\ r.got = Scores(runs[i]) /\ r.client = runs[i].client
  BY <1>1, <1>5, <1>6 DEF RunStates
<1> HIDE DEF r
<1>8. RunFits(r, Len(decidedAt), Len(clients))
  <2>1. Measures(r)
    BY <1>1, <1>2, <1>5, <1>7 DEF Measures, RunStates
  <2> QED
    BY <1>1, <1>2, <1>7, <2>1 DEF RunFits, Live
<1>9. RunsFit'
  BY <1>2, <1>4, <1>7, <1>8, OneRunFits, PromisesStay DEF RevealGoesOn
<1>10. HoldersFit'
  BY <1>2, <1>4, <1>7, HolderGoes DEF RevealGoesOn
<1>11. RevealFits' /\ BoardFits' /\ RecordFits'
  BY DEF RevealGoesOn, IInv, RevealFits, BoardFits, RecordFits, KeptCoversItsGames, Positions, Nothing
<1>12. OpponentFits'
  <2>1. ~Asked(r)
    BY <1>2, <1>7 DEF Asked
  <2> QED
    BY <1>4, <2>1, OthersAreAsked DEF RevealGoesOn
<1>13. AtWork'
  <2>1. Works(runs[i], decision, clients) => Works(r, decision, clients')
    BY <1>7 DEF Works
  <2>2. \A k \in Clients : clients'[k].promise = clients[k].promise
    BY <1>2, PromisesStay
  <2> QED
    BY <1>4, <2>1, <2>2, OthersWorkOn DEF RevealGoesOn
<1>14. PanelFits'
  <2>1. Len(runs') = Len(runs)
    BY <1>4, OneRunChanges
  <2> QED
    BY <2>1 DEF RevealGoesOn, IInv, PanelFits
<1> QED
  BY <1>9, <1>10, <1>11, <1>12, <1>13, <1>14 DEF IInv

LEMMA RevealEndsStep ==
  ASSUME IInv, NEW i \in Runs, RevealEnds(i)
  PROVE  IInv'
<1> USE DEF revealVars, boardVars, gameVars, panelVars, recordVars
<1>1. runs[i] \in RunStates /\ RunFits(runs[i], Len(decidedAt), Len(clients))
      /\ runs[i].at \in Nat
  BY RunType DEF RunStates
<1>2. SearchEnds(i) /\ runs[i].kind = "reveal" /\ runs[i].st = "searching"
  BY DEF RevealEnds, SearchEnds
<1>3. PICK r \in RunStates :
        /\ runs' = [runs EXCEPT ![i] = r]
        /\ r.st \in {"counting", "broken"} /\ r.kind = runs[i].kind /\ r.of = runs[i].of
        /\ r.client = runs[i].client /\ Measures(r)
  <2>1. CASE runs' = [runs EXCEPT ![i].got = Scores(runs[i]), ![i].at = @ + 1,
                                  ![i].st = "counting"]
    <3> DEFINE q == [runs[i] EXCEPT !.got = Scores(runs[i]), !.at = runs[i].at + 1,
                                    !.st = "counting"]
    <3>1. runs' = [runs EXCEPT ![i] = q]
      BY <1>1, <2>1, RunType
    <3>2. Scores(runs[i]) \in Seq(Scored) /\ Len(Scores(runs[i])) = runs[i].at
          /\ \A k \in DOMAIN Scores(runs[i]) : Scores(runs[i])[k] = [of |-> runs[i].of, at |-> k]
      BY <1>1, ScoresFit DEF RunFits
    <3>3. runs[i].at + 1 \in Nat \ {0} /\ "counting" \in States
      BY <1>1 DEF States
    <3>4. q \in RunStates /\ q.st = "counting" /\ q.kind = runs[i].kind /\ q.of = runs[i].of
          /\ q.at = runs[i].at + 1 /\ q.got = Scores(runs[i]) /\ q.client = runs[i].client
      BY <1>1, <3>2, <3>3 DEF RunStates
    <3> HIDE DEF q
    <3>5. Measures(q)
      BY <1>1, <3>2, <3>4 DEF Measures
    <3> QED
      BY <3>1, <3>4, <3>5
  <2>2. CASE To(i, "broken")
    <3> DEFINE q == [runs[i] EXCEPT !.st = "broken"]
    <3>1. runs' = [runs EXCEPT ![i] = q] /\ "broken" \in States
      BY <2>2 DEF To, States
    <3>2. q \in RunStates /\ q.st = "broken" /\ q.kind = runs[i].kind /\ q.of = runs[i].of
          /\ q.at = runs[i].at /\ q.got = runs[i].got /\ q.client = runs[i].client
      BY <1>1, <3>1 DEF RunStates
    <3> HIDE DEF q
    <3>3. Measures(q)
      BY <1>1, <3>2 DEF Measures, RunFits
    <3> QED
      BY <3>1, <3>2, <3>3
  <2> QED
    BY <2>1, <2>2 DEF RevealEnds
<1>4. RunFits(r, Len(decidedAt), Len(clients))
  BY <1>1, <1>2, <1>3 DEF RunFits, Live
<1>5. RunsFit'
  BY <1>2, <1>3, <1>4, OneRunFits, PromisesStay DEF RevealEnds
<1>6. HoldersFit'
  BY <1>2, <1>3, HolderGoes DEF RevealEnds
<1>7. RevealFits' /\ BoardFits' /\ RecordFits'
  BY DEF RevealEnds, IInv, RevealFits, BoardFits, RecordFits, KeptCoversItsGames, Positions, Nothing
<1>8. OpponentFits'
  <2>1. ~Asked(r)
    BY <1>2, <1>3 DEF Asked
  <2> QED
    BY <1>3, <2>1, OthersAreAsked DEF RevealEnds
<1>9. AtWork'
  <2>1. Works(runs[i], decision, clients) => Works(r, decision, clients')
    BY <1>3 DEF Works
  <2>2. \A k \in Clients : clients'[k].promise = clients[k].promise
    BY <1>2, PromisesStay
  <2> QED
    BY <1>3, <2>1, <2>2, OthersWorkOn DEF RevealEnds
<1>10. PanelFits'
  <2>1. Len(runs') = Len(runs)
    BY <1>3, OneRunChanges
  <2> QED
    BY <2>1 DEF RevealEnds, IInv, PanelFits
<1> QED
  BY <1>5, <1>6, <1>7, <1>8, <1>9, <1>10 DEF IInv

\* Only reveals count.
LEMMA RevealTellsStep ==
  ASSUME IInv, NEW i \in Runs, RevealTells(i)
  PROVE  IInv'
<1>1. runs[i] \in RunStates /\ RunFits(runs[i], Len(decidedAt), Len(clients)) /\ runs[i].of \in Nat
      /\ Len(decidedAt) \in Nat /\ runs[i].got \in Seq(Scored)
  BY RunType DEF RunStates
<1>2. runs[i].st = "counting" /\ shown' = runs[i].of
      /\ sent' = [of |-> runs[i].of, got |-> runs[i].got]
      /\ runs' = [runs EXCEPT ![i] = Over(runs[i])]
      /\ UNCHANGED <<mounted, engineRef, clients, stage, decision, failure, decidedAt, board, game,
                     turns, answered, reviewed, panel, lists, kept>>
  BY DEF RevealTells, Ends, engineVars, boardVars, gameVars, panelVars
<1>3. runs[i].of \in 1..Len(decidedAt)
  BY <1>1, <1>2 DEF RunFits, Live
<1>4. /\ Over(runs[i]) \in RunStates /\ Over(runs[i]).st = "over" /\ ~Asked(Over(runs[i]))
      /\ RunFits(Over(runs[i]), Len(decidedAt), Len(clients))
  BY RunType, OverIsARun, OverFits
<1>5. RunsFit'
  BY <1>2, <1>4, OneRunFits
<1>6. HoldersFit'
  BY <1>2, <1>4, HoldersStay
<1>7. RevealFits' /\ BoardFits'
  <2>1. {decision', shown', failure'} \subseteq 0..Len(decidedAt)
    BY <1>1, <1>2, <1>3 DEF IInv, RevealFits
  <2> QED
    BY <1>2, <2>1 DEF IInv, RevealFits, BoardFits, Positions
<1>8. RecordFits'
  <2>1. sent' \in Readings /\ \A k \in DOMAIN sent'.got : sent'.got[k] = [of |-> sent'.of, at |-> k]
    BY <1>1, <1>2 DEF Readings, RunFits, Measures
  <2>2. kept' \in Readings /\ KeptCoversItsGames'
    BY <1>2 DEF IInv, RecordFits, KeptCoversItsGames, Nothing
  <2> QED
    BY <2>1, <2>2 DEF RecordFits
<1>9. OpponentFits'
  BY <1>2, <1>4, OthersAreAsked
<1>10. AtWork'
  <2>1. shown' # 0
    BY <1>1, <1>2, <1>3
  <2> QED
    BY <2>1 DEF AtWork
<1>11. PanelFits'
  <2>1. Len(runs') = Len(runs)
    BY <1>2, OneRunChanges
  <2> QED
    BY <1>2, <2>1 DEF IInv, PanelFits
<1> QED
  BY <1>5, <1>6, <1>7, <1>8, <1>9, <1>10, <1>11 DEF IInv

\* A move played in a position of the game is one of the game from then on.
LEMMA PlaysAtFits ==
  ASSUME BoardFits, NEW k \in DOMAIN game, NEW side \in Sides, PlaysAt(k, side)
  PROVE  BoardFits'
<1> DEFINE new == Len(turns) + 1
<1>1. game \in Seq(Nat) /\ turns \in Seq(Sides) /\ Positions \subseteq DOMAIN turns
  BY DEF BoardFits
<1>2. k \in DOMAIN game
  OBVIOUS
<1>3. board' = new /\ game' = Append(SubSeq(game, 1, k), new) /\ turns' = Append(turns, side)
  BY DEF PlaysAt
<1>4. SubSeq(game, 1, k) \in Seq(Nat) /\ Len(SubSeq(game, 1, k)) = k /\ k \in Nat
      /\ \A j \in 1..k : SubSeq(game, 1, k)[j] = game[j] /\ j \in DOMAIN game
  BY <1>1, <1>2, SubSeqProperties
<1>5. new \in Nat /\ Len(turns) \in Nat /\ turns' \in Seq(Sides) /\ DOMAIN turns' = 1..new
  BY <1>1, <1>3
<1> HIDE DEF new
<1>6. game' \in Seq(Nat) /\ DOMAIN game' = 1..(k + 1) /\ game'[k + 1] = new
      /\ \A j \in 1..k : game'[j] = game[j]
  BY <1>3, <1>4, <1>5
<1>7. \A j \in DOMAIN game' : game'[j] \in DOMAIN turns'
  <2> SUFFICES ASSUME NEW j \in DOMAIN game' PROVE game'[j] \in 1..new
    BY <1>5
  <2>1. CASE j = k + 1
    BY <1>5, <1>6, <2>1 DEF new
  <2>2. CASE j \in 1..k
    <3>1. game'[j] = game[j] /\ game[j] \in Positions
      BY <1>4, <1>6, <2>2 DEF Positions
    <3>2. game[j] \in 1..Len(turns)
      BY <1>1, <3>1
    <3> QED
      BY <1>5, <3>1, <3>2 DEF new
  <2> QED
    BY <1>4, <1>6, <2>1, <2>2
<1>8. k + 1 \in DOMAIN game' /\ board' = game'[k + 1]
  BY <1>3, <1>4, <1>6
<1> QED
  BY <1>5, <1>6, <1>7, <1>8 DEF BoardFits, Positions

LEMMA OpponentEndsStep ==
  ASSUME IInv, NEW i \in Runs, OpponentEnds(i)
  PROVE  IInv'
<1>1. SearchEnds(i) /\ Ends(i) /\ runs[i].kind = "opponent" /\ runs[i].st = "searching"
      /\ ((runs[i].wanted /\ PlaysAt(IndexOf(board), "player")) \/ UNCHANGED gameVars)
      /\ UNCHANGED <<mounted, engineRef, stage, decision, shown, failure, decidedAt, answered,
                     reviewed, panel, lists, sent, kept>>
  BY DEF OpponentEnds, SearchEnds, revealVars, panelVars, recordVars
<1>2. /\ runs' = [runs EXCEPT ![i] = Over(runs[i])] /\ Len(runs') = Len(runs)
      /\ ~Asked(Over(runs[i]))
  BY <1>1, EndsWithSearch
<1>3. RunsFit'
  BY <1>1, EndsWithSearch
<1>4. HoldersFit'
  BY <1>1, EndsWithSearch
<1>5. RecordFits' /\ PanelFits'
  BY <1>1, <1>2 DEF IInv, RecordFits, PanelFits, KeptCoversItsGames, Nothing
<1>6. AtWork'
  <2>1. ~Works(runs[i], decision, clients)
    BY <1>1 DEF Works
  <2>2. \A k \in Clients : clients'[k].promise = clients[k].promise
    BY <1>1, PromisesStay
  <2> QED
    BY <1>1, <1>2, <2>1, <2>2, OthersWorkOn
<1>7. CASE runs[i].wanted /\ PlaysAt(IndexOf(board), "player")
  <2>1. Asked(runs[i])
    BY <1>1, <1>7 DEF Asked, Live
  <2>2. stage = "deciding" /\ \A j \in Runs : Asked(runs[j]) => j = i
    BY <2>1 DEF IInv, OpponentFits
  <2>3. BoardFits'
    <3>1. board \in Positions /\ "player" \in Sides
      BY DEF IInv, BoardFits, Sides
    <3>2. IndexOf(board) \in DOMAIN game
      BY <3>1 DEF Positions, IndexOf
    <3> QED
      BY <1>7, <3>1, <3>2, PlaysAtFits DEF IInv
  <2>4. RevealFits'
    BY <1>1, <2>2 DEF IInv, RevealFits
  <2>5. OpponentFits'
    <3>1. \A j \in DOMAIN runs' : ~Asked(runs'[j])
      BY <1>2, <2>2, OneRunChanges
    <3> QED
      BY <3>1, NobodyIsAsked
  <2> QED
    BY <1>3, <1>4, <1>5, <1>6, <2>3, <2>4, <2>5 DEF IInv
<1>8. CASE UNCHANGED gameVars
  <2>1. UNCHANGED <<board, game, turns>>
    BY <1>8 DEF gameVars
  <2>2. BoardFits' /\ RevealFits'
    BY <1>1, <2>1 DEF IInv, BoardFits, RevealFits, Positions
  <2>3. OpponentFits'
    BY <1>1, <1>2, <2>1, OthersAreAsked
  <2> QED
    BY <1>3, <1>4, <1>5, <1>6, <2>2, <2>3 DEF IInv
<1> QED
  BY <1>1, <1>7, <1>8

LEMMA AnalysisEndsStep ==
  ASSUME IInv, NEW i \in Runs, AnalysisEnds(i)
  PROVE  IInv'
<1>1. SearchEnds(i) /\ Ends(i) /\ runs[i].kind = "analysis"
      /\ UNCHANGED <<mounted, engineRef, stage, decision, shown, failure, decidedAt, answered,
                     board, game, turns, reviewed, panel, lists, sent, kept>>
  BY DEF AnalysisEnds, revealVars, boardVars, gameVars, panelVars, recordVars
<1>2. /\ runs' = [runs EXCEPT ![i] = Over(runs[i])] /\ Len(runs') = Len(runs)
      /\ ~Asked(Over(runs[i]))
  BY <1>1, EndsWithSearch
<1>3. RunsFit'
  BY <1>1, EndsWithSearch
<1>4. HoldersFit'
  BY <1>1, EndsWithSearch
<1>5. RecordFits' /\ PanelFits' /\ BoardFits' /\ RevealFits'
  <2>1. RecordFits' /\ PanelFits'
    BY <1>1, <1>2 DEF IInv, RecordFits, PanelFits, KeptCoversItsGames, Nothing
  <2>2. BoardFits' /\ RevealFits'
    BY <1>1 DEF IInv, BoardFits, RevealFits, Positions
  <2> QED
    BY <2>1, <2>2
<1>6. AtWork'
  <2>1. ~Works(runs[i], decision, clients)
    BY <1>1 DEF Works
  <2>2. \A k \in Clients : clients'[k].promise = clients[k].promise
    BY <1>1, PromisesStay
  <2> QED
    BY <1>1, <1>2, <2>1, <2>2, OthersWorkOn
<1>7. OpponentFits'
  BY <1>1, <1>2, OthersAreAsked
<1> QED
  BY <1>3, <1>4, <1>5, <1>6, <1>7 DEF IInv

-----------------------------------------------------------------------------
(* What the player does to the runs.                                       *)

LEMMA StartsFits ==
  ASSUME IInv, NEW kind \in Kinds, NEW of \in Nat
  PROVE  /\ Starts(kind, of) \in Seq(RunStates) /\ Len(Starts(kind, of)) = Len(runs) + 1
         /\ DOMAIN Starts(kind, of) = 1..(Len(runs) + 1)
         /\ Starts(kind, of)[Len(runs) + 1] = Fresh(kind, of)
         /\ \A j \in Runs : Starts(kind, of)[j] = runs[j]
<1>1. Fresh(kind, of) \in RunStates
  BY FreshIsARun
<1>2. runs \in Seq(RunStates) /\ Len(runs) \in Nat
  BY DEF IInv, RunsFit
<1> QED
  BY <1>1, <1>2 DEF Starts, Runs

LEMMA KeepsMoves ==
  ASSUME NEW r, NEW s, NEW d, NEW c, RunFits(r, d, c), Keeps(r, s)
  PROVE  Moves(r, s, c)
BY DEF Keeps, Moves, RunFits, Live

LEMMA KeepsItself == \A r : Keeps(r, r)
BY DEF Keeps

LEMMA KeepsWork ==
  ASSUME NEW r, NEW s, Keeps(r, s), NEW of, NEW cs, Works(r, of, cs)
  PROVE  Works(s, of, cs)
BY DEF Keeps, Works

\* Runs are cancelled and started, and no client is touched.
LEMMA RunsKept ==
  ASSUME IInv, NEW rs \in Seq(RunStates), Len(runs) <= Len(rs),
         \A j \in Runs : Keeps(runs[j], rs[j]),
         \A j \in DOMAIN rs : j \notin Runs => RunFits(rs[j], Len(decidedAt'), Len(clients)),
         runs' = rs, UNCHANGED clients, decidedAt' \in Seq(Nat), Len(decidedAt) <= Len(decidedAt')
  PROVE  RunsFit'
<1>1. decidedAt \in Seq(Nat)
  BY DEF IInv, RevealFits
<1>2. \A j \in Runs : Moves(runs[j], runs'[j], Len(clients'))
  BY RunType, KeepsMoves
<1> QED
  BY <1>1, <1>2, RunsMove DEF IInv

LEMMA HoldersKept ==
  ASSUME IInv, NEW rs \in Seq(RunStates), Len(runs) <= Len(rs),
         \A j \in Runs : Keeps(runs[j], rs[j]),
         \A j \in DOMAIN rs : j \notin Runs => rs[j].st # "searching",
         runs' = rs, UNCHANGED clients, engineRef' \in 0..Len(clients)
  PROVE  HoldersFit'
<1>1. Runs \subseteq DOMAIN rs /\ clients \in Seq(ClientStates)
  BY DEF IInv, RunsFit, HoldersFit, Runs
<1>2. ASSUME NEW k \in Clients, clients[k].holder # 0
      PROVE  /\ clients[k].holder \in DOMAIN rs
             /\ rs[clients[k].holder].st = "searching"
             /\ rs[clients[k].holder].client = k
  <2>1. clients[k].holder \in Runs /\ runs[clients[k].holder].st = "searching"
        /\ runs[clients[k].holder].client = k
    BY <1>2 DEF IInv, HoldersFit
  <2> QED
    BY <1>1, <2>1 DEF Keeps
<1>3. ASSUME NEW j \in DOMAIN rs, rs[j].st = "searching"
      PROVE  clients[rs[j].client].holder = j
  <2>1. j \in Runs /\ runs[j].st = "searching" /\ rs[j].client = runs[j].client
    BY <1>3 DEF Keeps
  <2> QED
    BY <2>1 DEF IInv, HoldersFit
<1> QED
  BY <1>1, <1>2, <1>3 DEF HoldersFit, Runs, Clients

\* A client is disposed of: whoever held it is superseded.
LEMMA DisposesRuns ==
  ASSUME IInv, NEW rs \in Seq(RunStates), Len(runs) <= Len(rs),
         \A j \in Runs : Keeps(runs[j], rs[j]), NEW c \in Clients, Disposes(c, rs)
  PROVE  /\ runs' \in Seq(RunStates) /\ Len(runs') = Len(rs) /\ DOMAIN runs' = DOMAIN rs
         /\ \A j \in DOMAIN rs : j \notin Runs => runs'[j] = rs[j]
         /\ \A j \in Runs : Moves(runs[j], runs'[j], Len(clients))
         /\ \A j \in Runs : j # clients[c].holder => runs'[j] = rs[j]
         /\ \A j \in Runs : j = clients[c].holder => runs'[j].st = "superseded"
         /\ \A j \in DOMAIN rs : Asked(runs'[j]) => Asked(rs[j])
<1> DEFINE h == clients[c].holder
<1>1. h # 0 => h \in Runs /\ runs[h].st = "searching"
  BY DEF IInv, HoldersFit
<1>2. DOMAIN rs = 1..Len(rs) /\ Len(rs) \in Nat /\ Runs \subseteq DOMAIN rs /\ Runs = 1..Len(runs)
  BY DEF IInv, RunsFit, Runs
<1>3. ASSUME NEW j \in DOMAIN rs
      PROVE  /\ runs'[j] \in RunStates
             /\ Asked(runs'[j]) => Asked(rs[j])
             /\ j # h => runs'[j] = rs[j]
             /\ j = h => /\ runs'[j].st = "superseded" /\ j \in Runs
                         /\ Moves(runs[j], runs'[j], Len(clients))
  <2>1. runs'[j] = IF j = h THEN [rs[j] EXCEPT !.st = "superseded"] ELSE rs[j]
    BY DEF Disposes
  <2>2. rs[j] \in RunStates /\ "superseded" \in States
    BY DEF States
  <2>3. CASE j # h
    BY <2>1, <2>2, <2>3
  <2>4. CASE j = h
    <3>1. j \in Runs /\ runs[j].st = "searching"
      BY <1>1, <1>2, <2>4
    <3>2. runs'[j] \in RunStates /\ runs'[j].st = "superseded" /\ runs'[j].kind = rs[j].kind
          /\ runs'[j].of = rs[j].of /\ runs'[j].at = rs[j].at /\ runs'[j].got = rs[j].got
          /\ runs'[j].wanted = rs[j].wanted /\ runs'[j].client = rs[j].client
      BY <2>1, <2>2, <2>4 DEF RunStates
    <3>3. Keeps(runs[j], rs[j]) /\ RunFits(runs[j], Len(decidedAt), Len(clients))
      BY <3>1, RunType
    <3>4. Asked(runs'[j]) => Asked(rs[j])
      BY <3>1, <3>2, <3>3 DEF Asked, Live, Keeps
    <3>5. Moves(runs[j], runs'[j], Len(clients))
      BY <3>1, <3>2, <3>3, <3>4 DEF Moves, Keeps, RunFits, Live
    <3> QED
      BY <2>4, <3>1, <3>2, <3>4, <3>5
  <2> QED
    BY <2>3, <2>4
<1>4. runs' \in [1..Len(rs) -> RunStates]
  <2>1. runs' = [j \in 1..Len(rs) |-> runs'[j]]
    BY <1>2 DEF Disposes
  <2>2. \A j \in 1..Len(rs) : runs'[j] \in RunStates
    BY <1>2, <1>3
  <2> QED
    BY <2>1, <2>2, Zenon
<1>5. runs' \in Seq(RunStates) /\ Len(runs') = Len(rs) /\ DOMAIN runs' = 1..Len(rs)
  BY <1>2, <1>4, MapIsSeq
<1>6. \A j \in Runs : Moves(runs[j], runs'[j], Len(clients))
  <2> SUFFICES ASSUME NEW j \in Runs PROVE Moves(runs[j], runs'[j], Len(clients))
    OBVIOUS
  <2>1. CASE j = h
    BY <1>2, <1>3, <2>1
  <2>2. CASE j # h
    <3>1. runs'[j] = rs[j] /\ Keeps(runs[j], rs[j])
          /\ RunFits(runs[j], Len(decidedAt), Len(clients))
      BY <1>2, <1>3, <2>2, RunType
    <3> QED
      BY <3>1, KeepsMoves
  <2> QED
    BY <2>1, <2>2
<1>7. ASSUME NEW j \in DOMAIN rs, j \notin Runs PROVE runs'[j] = rs[j]
  BY <1>3, <1>7
<1> QED
  BY <1>2, <1>3, <1>5, <1>6, <1>7

LEMMA DisposesHolders ==
  ASSUME IInv, NEW rs \in Seq(RunStates), Len(runs) <= Len(rs),
         \A j \in Runs : Keeps(runs[j], rs[j]),
         \A j \in DOMAIN rs : j \notin Runs => rs[j].st # "searching",
         NEW c \in Clients, Disposes(c, rs), engineRef' \in 0..Len(clients)
  PROVE  HoldersFit' /\ Len(clients') = Len(clients)
<1> DEFINE h == clients[c].holder
           d == [promise |-> "none", holder |-> 0]
<1>1. clients \in Seq(ClientStates) /\ d \in ClientStates /\ d.holder = 0
  BY DEF IInv, HoldersFit, ClientStates
<1>2. clients' = [clients EXCEPT ![c] = d]
  BY DEF Disposes
<1> HIDE DEF d
<1>3. /\ clients' \in Seq(ClientStates) /\ Len(clients') = Len(clients) /\ DOMAIN clients' = Clients
      /\ clients'[c].holder = 0 /\ \A k \in Clients : k # c => clients'[k] = clients[k]
  BY <1>1, <1>2 DEF Clients
<1>4. /\ DOMAIN runs' = DOMAIN rs /\ Runs \subseteq DOMAIN rs
      /\ \A j \in DOMAIN rs : j \notin Runs => runs'[j] = rs[j]
      /\ \A j \in Runs : j # h => runs'[j] = rs[j]
      /\ \A j \in Runs : j = h => runs'[j].st = "superseded"
  <2>1. Runs \subseteq DOMAIN rs
    BY DEF IInv, RunsFit, Runs
  <2> QED
    BY <2>1, DisposesRuns
<1>5. ASSUME NEW k \in Clients, clients'[k].holder # 0
      PROVE  /\ clients'[k].holder \in DOMAIN runs'
             /\ runs'[clients'[k].holder].st = "searching"
             /\ runs'[clients'[k].holder].client = k
  <2>1. k # c /\ clients'[k] = clients[k]
    BY <1>3, <1>5
  <2> DEFINE g == clients[k].holder
  <2>2. g \in Runs /\ runs[g].st = "searching" /\ runs[g].client = k /\ g # h
    BY <1>5, <2>1 DEF IInv, HoldersFit
  <2>3. runs'[g] = rs[g] /\ rs[g].st = "searching" /\ rs[g].client = k
    BY <1>4, <2>2 DEF Keeps
  <2> QED
    BY <1>4, <2>1, <2>2, <2>3
<1>6. ASSUME NEW j \in DOMAIN runs', runs'[j].st = "searching"
      PROVE  clients'[runs'[j].client].holder = j
  <2>1. j \in Runs /\ j # h /\ runs'[j] = rs[j]
    BY <1>4, <1>6
  <2>2. runs[j].st = "searching" /\ runs'[j].client = runs[j].client
    BY <1>6, <2>1 DEF Keeps
  <2>3. runs[j].client \in Clients /\ clients[runs[j].client].holder = j
    BY <1>1, <2>1, <2>2, RunType DEF IInv, HoldersFit, RunFits, Clients
  <2>4. runs[j].client # c
    BY <2>1, <2>3
  <2> QED
    BY <1>3, <2>2, <2>3, <2>4
<1> QED
  BY <1>3, <1>5, <1>6 DEF HoldersFit, Runs, Clients

\* What a run is that holds what it held before.
Stays(q, t) ==
  /\ RunFits(t, Len(decidedAt), Len(clients))
  /\ t.st = "searching" <=> q.st = "searching"
  /\ q.st = "searching" => t.client = q.client

LEMMA KeepsStays ==
  ASSUME NEW q, NEW t, RunFits(q, Len(decidedAt), Len(clients)), Keeps(q, t)
  PROVE  Stays(q, t)
BY DEF Keeps, Stays, RunFits, Measures, Live

\* The runs stay, and so do the holders, while clients are started.
LEMMA HoldersStayOn ==
  ASSUME IInv, runs' \in Seq(RunStates), Len(runs) <= Len(runs'),
         clients' \in Seq(ClientStates), Len(clients') = Len(clients), UNCHANGED engineRef,
         \A c \in Clients : clients'[c].holder = clients[c].holder,
         \A j \in Runs : Stays(runs[j], runs'[j]),
         \A j \in DOMAIN runs' : j \notin Runs => runs'[j].st # "searching"
  PROVE  HoldersFit'
<1>1. /\ Runs = 1..Len(runs) /\ Len(runs) \in Nat /\ Clients = 1..Len(clients)
      /\ Len(clients) \in Nat /\ engineRef \in 0..Len(clients) /\ clients \in Seq(ClientStates)
      /\ DOMAIN clients' = Clients /\ DOMAIN runs' = 1..Len(runs') /\ Len(runs') \in Nat
  BY DEF IInv, RunsFit, HoldersFit, Runs, Clients
<1>2. ASSUME NEW k \in Clients, clients'[k].holder # 0
      PROVE  /\ clients'[k].holder \in DOMAIN runs'
             /\ runs'[clients'[k].holder].st = "searching"
             /\ runs'[clients'[k].holder].client = k
  <2>1. clients'[k].holder = clients[k].holder
    OBVIOUS
  <2>2. clients[k].holder \in Runs /\ runs[clients[k].holder].st = "searching"
        /\ runs[clients[k].holder].client = k
    BY <1>2, <2>1 DEF IInv, HoldersFit
  <2> QED
    BY <1>1, <2>1, <2>2 DEF Stays
<1>3. ASSUME NEW j \in DOMAIN runs', runs'[j].st = "searching"
      PROVE  clients'[runs'[j].client].holder = j
  <2>1. j \in Runs /\ runs[j].st = "searching" /\ runs'[j].client = runs[j].client
    BY <1>3 DEF Stays
  <2>2. runs[j].client \in Clients /\ clients[runs[j].client].holder = j
    BY <1>1, <2>1, RunType DEF IInv, HoldersFit, RunFits
  <2> QED
    BY <2>1, <2>2
<1> QED
  BY <1>1, <1>2, <1>3 DEF HoldersFit, Runs, Clients

\* Coming to deciding a client is warmed up, by the runs there are or a new one.
LEMMA WarmsFit ==
  ASSUME IInv, NEW rs \in Seq(RunStates), Len(rs) = Len(runs),
         \A j \in Runs : Stays(runs[j], rs[j]), Warms(rs), UNCHANGED <<engineRef, decidedAt>>
  PROVE  /\ RunsFit' /\ HoldersFit' /\ Len(runs) <= Len(runs')
         /\ \A j \in DOMAIN runs' : Asked(runs'[j]) => j \in Runs /\ Asked(rs[j])
<1>1. runs \in Seq(RunStates) /\ Len(runs) \in Nat /\ Runs = 1..Len(runs) /\ DOMAIN rs = Runs
      /\ clients \in Seq(ClientStates) /\ Len(clients) \in Nat /\ engineRef \in 0..Len(clients)
      /\ decidedAt \in Seq(Nat) /\ Len(decidedAt) \in Nat
  BY DEF IInv, RunsFit, HoldersFit, RevealFits, Runs
<1>2. CASE runs' = rs /\ UNCHANGED clients
  <2>1. RunsFit'
    BY <1>1, <1>2 DEF RunsFit, Runs, Stays
  <2>2. HoldersFit'
    BY <1>1, <1>2, HoldersStayOn
  <2> QED
    BY <1>1, <1>2, <2>1, <2>2
<1>3. CASE runs' = Append(rs, Fresh("warm", 0)) /\ UNCHANGED clients
  <2> DEFINE f == Fresh("warm", 0)
  <2>1. "warm" \in Kinds
    BY DEF Kinds
  <2>2. f \in RunStates /\ RunFits(f, Len(decidedAt), Len(clients))
        /\ f.st = "again" /\ f.kind = "warm"
    BY <1>1, <2>1, FreshIsARun, FreshFits DEF Fresh
  <2> HIDE DEF f
  <2>3. runs' \in Seq(RunStates) /\ Len(runs') = Len(runs) + 1 /\ DOMAIN runs' = 1..(Len(runs) + 1)
        /\ runs'[Len(runs) + 1] = f /\ \A j \in Runs : runs'[j] = rs[j]
    BY <1>1, <1>3, <2>2 DEF f
  <2>4. \A j \in DOMAIN runs' : j \in Runs \/ j = Len(runs) + 1
    BY <1>1, <2>3
  <2>5. RunsFit'
    BY <1>1, <1>3, <2>2, <2>3, <2>4 DEF RunsFit, Runs, Stays
  <2>6. HoldersFit'
    BY <1>1, <1>3, <2>2, <2>3, <2>4, HoldersStayOn
  <2>7. ~Asked(f)
    BY <2>2 DEF Asked
  <2> QED
    BY <1>1, <2>3, <2>4, <2>5, <2>6, <2>7
<1>4. CASE /\ engineRef # 0
           /\ runs' = Orphaned(rs, clients, engineRef)
           /\ clients' = Started(clients, engineRef)
  <2>1. engineRef \in DOMAIN clients
    BY <1>1, <1>4
  <2>2. runs' \in Seq(RunStates) /\ Len(runs') = Len(runs) /\ DOMAIN runs' = Runs
    BY <1>1, <1>4, OrphanedFits
  <2>3. ASSUME NEW j \in Runs
        PROVE  Stays(runs[j], runs'[j]) /\ (Asked(runs'[j]) => Asked(rs[j]))
    <3>1. rs[j] \in RunStates /\ Stays(runs[j], rs[j])
      BY <1>1
    <3>2. \/ runs'[j] = rs[j]
          \/ rs[j].st = "loading" /\ runs'[j] = [rs[j] EXCEPT !.st = "orphaned"]
      BY <1>1, <1>4 DEF Orphaned, Waiting
    <3>3. CASE runs'[j] = rs[j]
      BY <3>1, <3>3
    <3>4. CASE rs[j].st = "loading" /\ runs'[j] = [rs[j] EXCEPT !.st = "orphaned"]
      <4>1. runs'[j].st = "orphaned" /\ runs'[j].kind = rs[j].kind
            /\ runs'[j].of = rs[j].of /\ runs'[j].at = rs[j].at /\ runs'[j].got = rs[j].got
            /\ runs'[j].wanted = rs[j].wanted /\ runs'[j].client = rs[j].client
        BY <3>1, <3>4 DEF RunStates
      <4> QED
        BY <3>1, <3>4, <4>1 DEF Stays, RunFits, Measures, Live, Asked
    <3> QED
      BY <3>2, <3>3, <3>4
  <2>4. /\ clients' \in Seq(ClientStates) /\ Len(clients') = Len(clients)
        /\ \A k \in Clients : clients'[k].holder = clients[k].holder
    BY <1>1, <1>4, <2>1, StartedFits DEF Clients
  <2>5. RunsFit'
    BY <1>1, <2>2, <2>3, <2>4 DEF RunsFit, Runs, Stays
  <2>6. HoldersFit'
    BY <1>1, <2>2, <2>3, <2>4, HoldersStayOn
  <2> QED
    BY <1>1, <2>2, <2>3, <2>5, <2>6
<1> QED
  BY <1>2, <1>3, <1>4 DEF Warms

\* The decision is over: nobody is asked any more, and at most a client is warmed up.
LEMMA BackFits ==
  ASSUME IInv, BackToDeciding, UNCHANGED <<engineRef, decidedAt>>
  PROVE  /\ RunsFit' /\ HoldersFit' /\ Len(runs) <= Len(runs')
         /\ \A j \in DOMAIN runs' : ~Asked(runs'[j])
<1> DEFINE rs == Cancelled(runs)
<1>1. runs \in Seq(RunStates)
  BY DEF IInv, RunsFit
<1>2. /\ rs \in Seq(RunStates) /\ Len(rs) = Len(runs)
      /\ \A j \in Runs : ~Asked(rs[j]) /\ Keeps(runs[j], rs[j])
  BY <1>1, CancelledFits DEF Runs
<1>3. Warms(rs)
  BY DEF BackToDeciding
<1> HIDE DEF rs
<1>4. \A j \in Runs : Stays(runs[j], rs[j])
  BY <1>2, RunType, KeepsStays
<1> QED
  BY <1>2, <1>3, <1>4, WarmsFit

LEMMA NextDecisionStep == IInv /\ NextDecision => IInv'
<1> SUFFICES ASSUME IInv, NextDecision PROVE IInv'
  OBVIOUS
<1>1. BackToDeciding /\ stage = "revealed"
      /\ UNCHANGED <<mounted, engineRef, failures, decidedAt, answered, reviewed, panel, lists,
                     sent, kept>>
  BY DEF NextDecision, panelVars, recordVars
<1>2. stage' = "deciding" /\ decision' = 0 /\ shown' = 0 /\ failure' = 0
  BY <1>1 DEF BackToDeciding
<1>3. RunsFit'
  BY <1>1, BackFits
<1>4. HoldersFit'
  BY <1>1, BackFits
<1>5. RevealFits'
  <2>1. mounted' \in BOOLEAN /\ reviewed' \in BOOLEAN /\ decidedAt' \in Seq(Nat)
    BY <1>1 DEF IInv, RevealFits
  <2> QED
    BY <1>2, <2>1 DEF RevealFits
<1>6. BoardFits'
  <2>1. PICK k \in DOMAIN game :
          \/ \E side \in Sides : PlaysAt(k, side)
          \/ /\ k < Len(game)
             /\ board' = game[k + 1]
             /\ UNCHANGED <<game, turns>>
    BY DEF NextDecision
  <2>2. CASE \E side \in Sides : PlaysAt(k, side)
    BY <2>2, PlaysAtFits DEF IInv
  <2>3. CASE /\ k < Len(game)
             /\ board' = game[k + 1]
             /\ UNCHANGED <<game, turns>>
    <3>1. game \in Seq(Nat)
      BY DEF IInv, BoardFits
    <3>2. k + 1 \in DOMAIN game
      BY <2>3, <3>1
    <3> QED
      BY <2>3, <3>2 DEF IInv, BoardFits, Positions
  <2> QED
    BY <2>1, <2>2, <2>3
<1>7. OpponentFits'
  BY <1>1, BackFits, NobodyIsAsked
<1>8. AtWork'
  BY <1>2 DEF AtWork
<1>9. PanelFits' /\ RecordFits'
  <2>1. Len(runs) <= Len(runs') /\ Len(runs) \in Nat /\ Len(runs') \in Nat
    BY <1>1, <1>3, BackFits DEF IInv, RunsFit
  <2> QED
    BY <1>1, <2>1 DEF IInv, PanelFits, RecordFits, KeptCoversItsGames, Nothing
<1> QED
  BY <1>3, <1>4, <1>5, <1>6, <1>7, <1>8, <1>9 DEF IInv

LEMMA LoadGameStep == IInv /\ LoadGame => IInv'
<1> SUFFICES ASSUME IInv, LoadGame PROVE IInv'
  OBVIOUS
<1> DEFINE new == Len(turns) + 1
<1>1. BackToDeciding /\ board' = new /\ game' = <<new>> /\ panel' = NoPanel
      /\ UNCHANGED <<mounted, engineRef, failures, decidedAt, reviewed, lists, sent, kept>>
  BY DEF LoadGame, recordVars
<1>2. stage' = "deciding" /\ decision' = 0 /\ shown' = 0 /\ failure' = 0
  BY <1>1 DEF BackToDeciding
<1>3. RunsFit'
  BY <1>1, BackFits
<1>4. HoldersFit'
  BY <1>1, BackFits
<1>5. RevealFits'
  <2>1. mounted' \in BOOLEAN /\ reviewed' \in BOOLEAN /\ decidedAt' \in Seq(Nat)
    BY <1>1 DEF IInv, RevealFits
  <2> QED
    BY <1>2, <2>1 DEF RevealFits
<1>6. BoardFits'
  <2>1. turns \in Seq(Sides) /\ new \in Nat /\ Len(turns) \in Nat
    BY DEF IInv, BoardFits
  <2>2. PICK side \in Sides : turns' = Append(turns, side)
    BY DEF LoadGame
  <2>3. turns' \in Seq(Sides) /\ DOMAIN turns' = 1..new /\ new \in 1..new
    BY <2>1, <2>2
  <2>4. game' \in Seq(Nat) /\ DOMAIN game' = {1} /\ game'[1] = new
    BY <1>1, <2>1
  <2>5. Positions' = {new}
    BY <2>4 DEF Positions
  <2> QED
    BY <1>1, <2>3, <2>4, <2>5 DEF BoardFits
<1>7. OpponentFits'
  BY <1>1, BackFits, NobodyIsAsked
<1>8. AtWork'
  BY <1>2 DEF AtWork
<1>9. PanelFits' /\ RecordFits'
  <2>1. Len(runs') \in Nat /\ lists \in Nat
    BY <1>3 DEF IInv, RunsFit, PanelFits
  <2>2. PanelFits'
    BY <1>1, <2>1 DEF PanelFits, NoPanel
  <2> QED
    BY <1>1, <2>2 DEF IInv, RecordFits, KeptCoversItsGames, Nothing
<1> QED
  BY <1>3, <1>4, <1>5, <1>6, <1>7, <1>8, <1>9 DEF IInv

\* One run more, on the same clients.
LEMMA StartRuns ==
  ASSUME IInv, NEW kind \in Kinds, NEW of \in Nat, runs' = Starts(kind, of),
         kind = "reveal" => of \in 1..Len(decidedAt'), UNCHANGED <<clients, engineRef>>,
         decidedAt' \in Seq(Nat), Len(decidedAt) <= Len(decidedAt')
  PROVE  /\ RunsFit' /\ HoldersFit' /\ Len(runs') = Len(runs) + 1
<1> DEFINE rs == Starts(kind, of)
<1>1. /\ rs \in Seq(RunStates) /\ Len(rs) = Len(runs) + 1
      /\ DOMAIN rs = 1..(Len(runs) + 1) /\ rs[Len(runs) + 1] = Fresh(kind, of)
      /\ \A j \in Runs : rs[j] = runs[j]
  BY StartsFits
<1>2. Len(runs) \in Nat /\ Runs = 1..Len(runs) /\ Len(clients) \in Nat /\ Len(decidedAt') \in Nat
      /\ engineRef \in 0..Len(clients)
  BY DEF IInv, RunsFit, HoldersFit, Runs
<1> HIDE DEF rs
<1>3. \A j \in Runs : Keeps(runs[j], rs[j])
  BY <1>1, KeepsItself
<1>4. RunFits(Fresh(kind, of), Len(decidedAt'), Len(clients)) /\ Fresh(kind, of).st # "searching"
  BY <1>2, FreshFits DEF Fresh
<1>5. \A j \in DOMAIN rs : j \notin Runs => rs[j] = Fresh(kind, of)
  BY <1>1, <1>2
<1>6. RunsFit'
  BY <1>1, <1>2, <1>3, <1>4, <1>5, RunsKept DEF rs
<1>7. HoldersFit'
  BY <1>1, <1>2, <1>3, <1>4, <1>5, HoldersKept DEF rs
<1> QED
  BY <1>1, <1>6, <1>7 DEF rs

\* The board and the reveal are not touched, and the new run is not an opponent's.
LEMMA StartStep ==
  ASSUME IInv, NEW kind \in Kinds \ {"reveal", "opponent"}, NEW of \in Nat,
         runs' = Starts(kind, of), PanelFits',
         UNCHANGED <<mounted, engineVars, revealVars, boardVars, reviewed, recordVars>>
  PROVE  IInv'
<1> USE DEF engineVars, revealVars, boardVars, gameVars, recordVars
<1>1. RunsFit' /\ HoldersFit'
  <2>1. decidedAt' \in Seq(Nat) /\ Len(decidedAt) <= Len(decidedAt')
    BY DEF IInv, RevealFits
  <2> QED
    BY <2>1, StartRuns
<1>2. RevealFits' /\ BoardFits' /\ RecordFits'
  <2>1. UNCHANGED <<mounted, reviewed, stage, decision, shown, failure, decidedAt, board, game,
                    turns, answered, sent, kept>>
    OBVIOUS
  <2>2. RecordFits'
    BY <2>1 DEF IInv, RecordFits, KeptCoversItsGames, Nothing
  <2>3. RevealFits' /\ BoardFits'
    BY <2>1 DEF IInv, RevealFits, BoardFits, Positions
  <2> QED
    BY <2>2, <2>3
<1>3. /\ DOMAIN runs' = 1..(Len(runs) + 1) /\ runs'[Len(runs) + 1] = Fresh(kind, of)
      /\ \A j \in Runs : runs'[j] = runs[j]
      /\ Runs = 1..Len(runs) /\ Len(runs) \in Nat
  BY StartsFits DEF IInv, RunsFit, Runs
<1>4. ~Asked(Fresh(kind, of))
  BY DEF Fresh, Asked
<1>5. OpponentFits'
  <2>1. \A j \in DOMAIN runs' : j \in Runs \/ j = Len(runs) + 1
    BY <1>3
  <2>2. \A j \in DOMAIN runs' : Asked(runs'[j]) =>
          j \in Runs /\ Asked(runs[j]) /\ runs'[j].of = runs[j].of
    BY <1>3, <1>4, <2>1
  <2> QED
    BY <2>2, OpponentStays DEF IInv
<1>6. AtWork'
  <2>1. \A j \in Runs : Works(runs[j], decision, clients) =>
          j \in DOMAIN runs' /\ Works(runs'[j], decision, clients')
    BY <1>3
  <2> QED
    BY <2>1, WorkGoesOn DEF IInv
<1> QED
  BY <1>1, <1>2, <1>5, <1>6 DEF IInv

LEMMA BoardIsNat == IInv => board \in Nat
BY DEF IInv, BoardFits, Positions

LEMMA AnalyseStep == IInv /\ (Analyse \/ Review) => IInv'
<1> SUFFICES ASSUME IInv, Analyse \/ Review PROVE IInv'
  OBVIOUS
<1>1. PICK kind \in {"analysis", "review"} : runs' = Starts(kind, board)
  BY DEF Analyse, Review
<1>2. UNCHANGED <<mounted, engineVars, revealVars, boardVars, reviewed, recordVars, panelVars>>
  BY DEF Analyse, Review
<1>3. kind \in Kinds \ {"reveal", "opponent"}
  BY DEF Kinds
<1>4. Len(runs') = Len(runs) + 1 /\ Len(runs) \in Nat
  BY <1>1, <1>3, BoardIsNat, StartsFits DEF IInv, RunsFit
<1>5. PanelFits'
  BY <1>2, <1>4 DEF panelVars, IInv, PanelFits
<1> QED
  BY <1>1, <1>2, <1>3, <1>5, BoardIsNat, StartStep

LEMMA ScanStep == IInv /\ Scan => IInv'
<1> SUFFICES ASSUME IInv, Scan PROVE IInv'
  OBVIOUS
<1>1. "import" \in Kinds \ {"reveal", "opponent"} /\ panel.list \in Nat /\ lists \in Nat
      /\ panel \in [list : Nat, scan : Nat, reading : Nat]
  BY DEF Kinds, IInv, PanelFits
<1>2. runs' = Starts("import", panel.list) /\ panel' = [panel EXCEPT !.scan = Len(runs) + 1]
      /\ UNCHANGED lists
      /\ UNCHANGED <<mounted, engineVars, revealVars, boardVars, reviewed, recordVars>>
  BY DEF Scan
<1>3. Len(runs') = Len(runs) + 1 /\ Len(runs) \in Nat
  BY <1>1, <1>2, StartsFits DEF IInv, RunsFit
<1>4. PanelFits'
  <2>1. panel' \in [list : Nat, scan : Nat, reading : Nat] /\ panel'.scan = Len(runs) + 1
    BY <1>1, <1>2, <1>3
  <2> QED
    BY <1>1, <1>2, <1>3, <2>1 DEF PanelFits
<1> QED
  BY <1>1, <1>2, <1>4, StartStep

LEMMA OpponentIsAskedStep == IInv /\ OpponentIsAsked => IInv'
<1> SUFFICES ASSUME IInv, OpponentIsAsked PROVE IInv'
  OBVIOUS
<1>1. mounted /\ stage = "deciding" /\ turns[board] = "opponent" /\ answered # board
      /\ answered' = board /\ runs' = Starts("opponent", board)
      /\ UNCHANGED <<mounted, engineRef, clients, stage, decision, shown, failure, decidedAt,
                     board, game, turns, reviewed, panel, lists, sent, kept>>
  BY DEF OpponentIsAsked, Pressed, engineVars, revealVars, gameVars, panelVars, recordVars
<1>2. "opponent" \in Kinds /\ board \in Nat
  BY BoardIsNat DEF Kinds
<1>3. /\ DOMAIN runs' = 1..(Len(runs) + 1) /\ runs'[Len(runs) + 1] = Fresh("opponent", board)
      /\ \A j \in Runs : runs'[j] = runs[j]
      /\ Runs = 1..Len(runs) /\ Len(runs) \in Nat /\ Len(runs') = Len(runs) + 1
  BY <1>1, <1>2, StartsFits DEF IInv, RunsFit, Runs
<1>4. RunsFit' /\ HoldersFit'
  <2>1. decidedAt' \in Seq(Nat) /\ Len(decidedAt) <= Len(decidedAt')
    BY <1>1 DEF IInv, RevealFits
  <2> QED
    BY <1>1, <1>2, <2>1, StartRuns
<1>5. RecordFits' /\ PanelFits'
  BY <1>1, <1>3 DEF IInv, RecordFits, PanelFits, KeptCoversItsGames, Nothing
<1>6. BoardFits' /\ RevealFits'
  BY <1>1 DEF IInv, BoardFits, RevealFits, Positions
<1>7. OpponentFits'
  <2>1. \A j \in Runs : ~Asked(runs[j])
    BY <1>1 DEF IInv, OpponentFits
  <2>2. \A j \in DOMAIN runs' : Asked(runs'[j]) => j = Len(runs) + 1
    BY <1>3, <2>1
  <2>3. Fresh("opponent", board).of = board
    BY DEF Fresh
  <2>4. ASSUME NEW j \in DOMAIN runs', Asked(runs'[j])
        PROVE  /\ mounted' /\ stage' = "deciding"
               /\ runs'[j].of = board' /\ answered' = board' /\ turns'[board'] = "opponent"
    BY <1>1, <1>3, <2>2, <2>3, <2>4
  <2> QED
    BY <2>2, <2>4 DEF OpponentFits, Runs
<1>8. AtWork'
  BY <1>1 DEF AtWork
<1> QED
  BY <1>4, <1>5, <1>6, <1>7, <1>8 DEF IInv

LEMMA CommitStep == IInv /\ Commit => IInv'
<1> SUFFICES ASSUME IInv, Commit PROVE IInv'
  OBVIOUS
<1> DEFINE started == Starts("commit", board)
           rs == Cancelled(started)
           k == Len(runs) + 1
<1>1. runs' = rs /\ stage' = "committing"
      /\ UNCHANGED <<mounted, engineRef, clients, decision, shown, failure, decidedAt, board, game,
                     turns, answered, reviewed, panel, lists, sent, kept>>
  BY DEF Commit, engineVars, boardVars, gameVars, panelVars, recordVars
<1>2. board \in Nat /\ "commit" \in Kinds
  BY BoardIsNat DEF Kinds
<1>3. /\ started \in Seq(RunStates) /\ Len(started) = k /\ DOMAIN started = 1..k
      /\ started[k] = Fresh("commit", board) /\ \A j \in Runs : started[j] = runs[j]
  BY <1>2, StartsFits
<1>4. Len(runs) \in Nat /\ Runs = 1..Len(runs) /\ Len(clients) \in Nat /\ Len(decidedAt) \in Nat
      /\ engineRef \in 0..Len(clients) /\ decidedAt \in Seq(Nat)
  BY DEF IInv, RunsFit, HoldersFit, RevealFits, Runs
<1> HIDE DEF started
<1>5. /\ rs \in Seq(RunStates) /\ DOMAIN rs = 1..k /\ Len(rs) = k
      /\ \A j \in DOMAIN rs : ~Asked(rs[j]) /\ Keeps(started[j], rs[j])
  BY <1>3, CancelledFits
<1> HIDE DEF rs
<1>6. \A j \in Runs : Keeps(runs[j], rs[j])
  BY <1>3, <1>4, <1>5
<1>7. RunFits(rs[k], Len(decidedAt), Len(clients)) /\ rs[k].st = "storing"
  <2>1. RunFits(Fresh("commit", board), Len(decidedAt), Len(clients))
    BY <1>2, <1>4, FreshFits
  <2>2. Fresh("commit", board).st = "storing"
    BY DEF Fresh
  <2>3. k \in DOMAIN rs /\ Keeps(Fresh("commit", board), rs[k])
    BY <1>3, <1>4, <1>5
  <2> QED
    BY <2>1, <2>2, <2>3 DEF Keeps, RunFits, Measures, Live
<1>8. \A j \in DOMAIN rs : j \notin Runs => j = k
  BY <1>4, <1>5
<1>9. Len(runs) <= Len(rs)
  BY <1>4, <1>5
<1>10. RunsFit'
  BY <1>1, <1>4, <1>5, <1>6, <1>7, <1>8, <1>9, RunsKept
<1>11. HoldersFit'
  BY <1>1, <1>4, <1>5, <1>6, <1>7, <1>8, <1>9, HoldersKept
<1>12. RevealFits' /\ BoardFits' /\ RecordFits'
  BY <1>1 DEF IInv, RevealFits, BoardFits, RecordFits, KeptCoversItsGames, Positions, Nothing
<1>13. PanelFits'
  BY <1>1, <1>4, <1>5 DEF IInv, PanelFits
<1>14. OpponentFits'
  BY <1>1, <1>5, NobodyIsAsked
<1>15. AtWork'
  BY <1>1 DEF AtWork
<1> QED
  BY <1>10, <1>11, <1>12, <1>13, <1>14, <1>15 DEF IInv

LEMMA CommitStoredStep ==
  ASSUME IInv, NEW i \in Runs, CommitStored(i)
  PROVE  IInv'
<1> DEFINE n == Len(decidedAt) + 1
           f == Fresh("reveal", n)
           started == [runs EXCEPT ![i] = f]
           rs == Cancelled(started)
<1>1. runs[i].st = "storing" /\ decidedAt' = Append(decidedAt, runs[i].of) /\ stage' = "revealed"
      /\ failure' = 0 /\ decision' = n /\ runs' = rs
      /\ UNCHANGED <<mounted, engineRef, clients, shown, board, game, turns, answered, reviewed,
                     panel, lists, sent, kept>>
  BY DEF CommitStored, engineVars, boardVars, gameVars, panelVars, recordVars
<1>2. decidedAt \in Seq(Nat) /\ Len(decidedAt) \in Nat /\ n \in Nat /\ runs[i].of \in Nat
      /\ mounted \in BOOLEAN /\ reviewed \in BOOLEAN /\ shown \in 0..Len(decidedAt)
      /\ runs \in Seq(RunStates) /\ Runs = 1..Len(runs) /\ Len(runs) \in Nat
      /\ Len(clients) \in Nat /\ engineRef \in 0..Len(clients) /\ clients \in Seq(ClientStates)
  <2>1. runs[i] \in RunStates /\ runs \in Seq(RunStates) /\ Len(runs) \in Nat
    BY RunType
  <2>2. runs[i].of \in Nat
    BY <2>1 DEF RunStates
  <2>3. Runs = 1..Len(runs)
    BY <2>1 DEF Runs
  <2>4. Len(clients) \in Nat /\ engineRef \in 0..Len(clients) /\ clients \in Seq(ClientStates)
    BY DEF IInv, HoldersFit
  <2>5. decidedAt \in Seq(Nat) /\ Len(decidedAt) \in Nat /\ n \in Nat
        /\ mounted \in BOOLEAN /\ reviewed \in BOOLEAN /\ shown \in 0..Len(decidedAt)
    BY DEF IInv, RevealFits
  <2> QED
    BY <2>1, <2>2, <2>3, <2>4, <2>5
<1>3. decidedAt' \in Seq(Nat) /\ Len(decidedAt') = n /\ n \in 1..n /\ Len(decidedAt) <= n
  BY <1>1, <1>2
<1>4. f \in RunStates /\ RunFits(f, n, Len(clients)) /\ f.st = "again" /\ f.kind = "reveal"
      /\ f.of = n
  <2>1. "reveal" \in Kinds
    BY DEF Kinds
  <2> QED
    BY <1>2, <1>3, <2>1, FreshIsARun, FreshFits DEF Fresh
<1> HIDE DEF f, n
<1>5. started \in Seq(RunStates) /\ DOMAIN started = Runs /\ Len(started) = Len(runs)
      /\ started[i] = f /\ \A j \in Runs : j # i => started[j] = runs[j]
  BY <1>2, <1>4
<1> HIDE DEF started
<1>6. /\ rs \in Seq(RunStates) /\ DOMAIN rs = Runs /\ Len(rs) = Len(runs)
      /\ \A j \in Runs : ~Asked(rs[j]) /\ Keeps(started[j], rs[j])
  BY <1>5, CancelledFits
<1> HIDE DEF rs
<1>7. RunFits(rs[i], n, Len(clients)) /\ rs[i].st = "again" /\ rs[i].kind = "reveal" /\ rs[i].of = n
  BY <1>4, <1>5, <1>6 DEF Keeps, RunFits, Measures, Live
<1>8. \A j \in Runs : j # i => Keeps(runs[j], rs[j])
  BY <1>5, <1>6
<1>9. RunsFit'
  <2>1. \A j \in DOMAIN runs' :
          \/ j \in Runs /\ Moves(runs[j], runs'[j], Len(clients'))
          \/ RunFits(runs'[j], Len(decidedAt'), Len(clients'))
    BY <1>1, <1>3, <1>6, <1>7, <1>8, RunType, KeepsMoves
  <2> QED
    BY <1>1, <1>2, <1>3, <1>6, <2>1, RunsMove DEF IInv
<1>10. HoldersFit'
  <2>1. ASSUME NEW c \in Clients, clients[c].holder # 0
        PROVE  /\ clients[c].holder \in Runs
               /\ rs[clients[c].holder].st = "searching"
               /\ rs[clients[c].holder].client = c
    <3>1. clients[c].holder \in Runs /\ runs[clients[c].holder].st = "searching"
          /\ runs[clients[c].holder].client = c
      BY <2>1 DEF IInv, HoldersFit
    <3>2. clients[c].holder # i
      BY <1>1, <3>1
    <3> QED
      BY <1>8, <3>1, <3>2 DEF Keeps
  <2>2. ASSUME NEW j \in Runs, rs[j].st = "searching"
        PROVE  clients[rs[j].client].holder = j
    <3>1. j # i
      BY <1>7, <2>2
    <3>2. runs[j].st = "searching" /\ rs[j].client = runs[j].client
      BY <1>8, <2>2, <3>1 DEF Keeps
    <3> QED
      BY <3>2 DEF IInv, HoldersFit
  <2> QED
    BY <1>1, <1>2, <1>6, <2>1, <2>2 DEF HoldersFit, Runs, Clients
<1>11. RevealFits'
  <2>1. {decision', shown', failure'} \subseteq 0..n /\ n # 0
    BY <1>1, <1>2, <1>3 DEF n
  <2> QED
    BY <1>1, <1>2, <1>3, <2>1 DEF RevealFits
<1>12. BoardFits' /\ RecordFits' /\ PanelFits'
  <2>1. BoardFits'
    BY <1>1 DEF IInv, BoardFits, Positions
  <2>2. Len(runs') = Len(runs)
    BY <1>1, <1>6
  <2> QED
    BY <1>1, <2>1, <2>2 DEF IInv, RecordFits, PanelFits, KeptCoversItsGames, Nothing
<1>13. OpponentFits'
  BY <1>1, <1>6, NobodyIsAsked
<1>14. AtWork'
  <2>1. Works(runs'[i], decision', clients')
    BY <1>1, <1>7 DEF Works
  <2>2. i \in DOMAIN runs'
    BY <1>1, <1>6
  <2> QED
    BY <2>1, <2>2 DEF AtWork, Runs
<1> QED
  BY <1>9, <1>10, <1>11, <1>12, <1>13, <1>14 DEF IInv

LEMMA CommitFailsStep ==
  ASSUME IInv, NEW i \in Runs, CommitFails(i)
  PROVE  IInv'
<1> DEFINE o == Over(runs[i])
           rs == [runs EXCEPT ![i] = o]
<1>1. runs[i].st = "storing" /\ stage' = "deciding" /\ Warms(rs)
      /\ UNCHANGED <<mounted, engineRef, decision, shown, failure, decidedAt, board, game, turns,
                     answered, reviewed, panel, lists, sent, kept>>
  BY DEF CommitFails, boardVars, gameVars, panelVars, recordVars
<1>2. runs \in Seq(RunStates) /\ Runs = 1..Len(runs) /\ Len(runs) \in Nat
  BY DEF IInv, RunsFit, Runs
<1>3. o \in RunStates /\ o.st = "over" /\ ~Asked(o) /\ RunFits(o, Len(decidedAt), Len(clients))
  BY RunType, OverIsARun, OverFits
<1> HIDE DEF o
<1>4. rs \in Seq(RunStates) /\ Len(rs) = Len(runs) /\ rs[i] = o
      /\ \A j \in Runs : j # i => rs[j] = runs[j]
  BY <1>2, <1>3
<1>5. \A j \in Runs : Stays(runs[j], rs[j])
  <2>1. Stays(runs[i], rs[i])
    BY <1>1, <1>3, <1>4 DEF Stays
  <2>2. \A j \in Runs : Stays(runs[j], runs[j])
    BY RunType DEF Stays
  <2> QED
    BY <1>4, <2>1, <2>2
<1> HIDE DEF rs
<1>6. /\ RunsFit' /\ HoldersFit' /\ Len(runs) <= Len(runs')
      /\ \A j \in DOMAIN runs' : Asked(runs'[j]) => j \in Runs /\ Asked(rs[j])
  BY <1>1, <1>4, <1>5, WarmsFit
<1>7. RevealFits' /\ BoardFits' /\ RecordFits'
  BY <1>1 DEF IInv, RevealFits, BoardFits, RecordFits, KeptCoversItsGames, Positions, Nothing
<1>8. PanelFits'
  <2>1. Len(runs') \in Nat
    BY <1>6 DEF RunsFit
  <2> QED
    BY <1>1, <1>2, <1>6, <2>1 DEF IInv, PanelFits
<1>9. OpponentFits'
  <2>1. \A j \in DOMAIN runs' : Asked(runs'[j]) => j \in Runs /\ j # i /\ Asked(runs[j])
    BY <1>3, <1>4, <1>6
  <2>2. CASE stage = "deciding"
    <3>1. runs' = rs
      BY <1>1, <2>2 DEF Warms
    <3>2. \A j \in DOMAIN runs' : Asked(runs'[j]) =>
            j \in Runs /\ Asked(runs[j]) /\ runs'[j].of = runs[j].of
      BY <1>4, <2>1, <3>1
    <3> QED
      BY <1>1, <2>2, <3>2, OpponentStays DEF IInv
  <2>3. CASE stage # "deciding"
    <3>1. \A j \in Runs : ~Asked(runs[j])
      BY <2>3 DEF IInv, OpponentFits
    <3> QED
      BY <2>1, <3>1, NobodyIsAsked
  <2> QED
    BY <2>2, <2>3
<1>10. AtWork'
  BY <1>1 DEF AtWork
<1> QED
  BY <1>6, <1>7, <1>8, <1>9, <1>10 DEF IInv

LEMMA RetryRevealStep == IInv /\ RetryReveal => IInv'
<1> SUFFICES ASSUME IInv, RetryReveal PROVE IInv'
  OBVIOUS
<1> DEFINE n == Len(decidedAt)
           rs == Starts("reveal", n)
           k == Len(runs) + 1
<1>1. stage = "revealed" /\ decision' = n /\ failure' = 0 /\ engineRef' = 0
      /\ UNCHANGED <<mounted, stage, shown, decidedAt, board, game, turns, answered, reviewed,
                     panel, lists, sent, kept>>
  BY DEF RetryReveal, boardVars, gameVars, panelVars, recordVars
<1>2. decidedAt \in Seq(Nat) /\ n \in Nat /\ decision = n /\ n # 0
  BY <1>1 DEF IInv, RevealFits
<1>3. "reveal" \in Kinds
  BY DEF Kinds
<1>4. /\ rs \in Seq(RunStates) /\ Len(rs) = k /\ DOMAIN rs = 1..k
      /\ rs[k] = Fresh("reveal", n) /\ \A j \in Runs : rs[j] = runs[j]
  BY <1>2, <1>3, StartsFits
<1>5. Len(runs) \in Nat /\ Runs = 1..Len(runs) /\ Len(clients) \in Nat
      /\ engineRef \in 0..Len(clients) /\ Clients = 1..Len(clients)
  BY DEF IInv, RunsFit, HoldersFit, Runs, Clients
<1>6. \A j \in DOMAIN rs : j \notin Runs => j = k
  BY <1>4, <1>5
<1>7. RunFits(rs[k], n, Len(clients)) /\ rs[k].st = "again" /\ rs[k].kind = "reveal"
      /\ rs[k].of = n /\ k \notin Runs /\ k \in DOMAIN rs /\ Len(runs) <= Len(rs)
  <2>1. RunFits(Fresh("reveal", n), n, Len(clients))
    BY <1>2, <1>3, <1>5, FreshFits
  <2>2. Fresh("reveal", n).st = "again" /\ Fresh("reveal", n).kind = "reveal"
        /\ Fresh("reveal", n).of = n
    BY DEF Fresh
  <2> QED
    BY <1>4, <1>5, <2>1, <2>2
<1>8. (engineRef = 0 /\ runs' = rs /\ UNCHANGED clients)
      \/ (engineRef # 0 /\ Disposes(engineRef, rs))
  BY DEF RetryReveal
<1> HIDE DEF rs, n, k
<1>9. \A j \in Runs : Keeps(runs[j], rs[j])
  BY <1>4, KeepsItself
<1>10. \A j \in DOMAIN rs : j \notin Runs => rs[j].st # "searching"
  BY <1>6, <1>7
<1>11. engineRef' \in 0..Len(clients) /\ decidedAt' \in Seq(Nat) /\ Len(decidedAt') = n
       /\ Len(decidedAt) = n
  BY <1>1, <1>2, <1>5 DEF n
<1>12. /\ RunsFit' /\ HoldersFit' /\ DOMAIN runs' = DOMAIN rs /\ Len(runs') = Len(rs)
       /\ runs'[k] = rs[k] /\ \A j \in DOMAIN rs : Asked(runs'[j]) => Asked(rs[j])
  <2>1. CASE engineRef = 0 /\ runs' = rs /\ UNCHANGED clients
    <3>1. \A j \in DOMAIN rs : j \notin Runs => RunFits(rs[j], Len(decidedAt'), Len(clients))
      BY <1>6, <1>7, <1>11
    <3>2. RunsFit'
      <4>1. Len(decidedAt) <= Len(decidedAt') /\ decidedAt' \in Seq(Nat)
        BY <1>2, <1>11
      <4>2. runs' = rs /\ UNCHANGED clients
        BY <2>1
      <4> QED
        BY <1>4, <1>7, <1>9, <3>1, <4>1, <4>2, RunsKept
    <3>3. HoldersFit'
      BY <1>4, <1>7, <1>9, <1>10, <1>11, <2>1, HoldersKept
    <3> QED
      BY <2>1, <3>2, <3>3
  <2>2. CASE engineRef # 0 /\ Disposes(engineRef, rs)
    <3>1. engineRef \in Clients
      BY <1>5, <2>2
    <3>2. HoldersFit' /\ Len(clients') = Len(clients)
      BY <1>4, <1>7, <1>9, <1>10, <1>11, <2>2, <3>1, DisposesHolders
    <3>3. /\ runs' \in Seq(RunStates) /\ Len(runs') = Len(rs) /\ DOMAIN runs' = DOMAIN rs
          /\ \A j \in DOMAIN rs : j \notin Runs => runs'[j] = rs[j]
          /\ \A j \in Runs : Moves(runs[j], runs'[j], Len(clients))
          /\ \A j \in DOMAIN rs : Asked(runs'[j]) => Asked(rs[j])
      BY <1>4, <1>7, <1>9, <2>2, <3>1, DisposesRuns
    <3>4. \A j \in DOMAIN runs' :
            \/ j \in Runs /\ Moves(runs[j], runs'[j], Len(clients'))
            \/ RunFits(runs'[j], Len(decidedAt'), Len(clients'))
      BY <1>6, <1>7, <1>11, <3>2, <3>3
    <3>5. RunsFit'
      BY <1>2, <1>11, <3>3, <3>4, RunsMove DEF IInv
    <3> QED
      BY <1>7, <3>2, <3>3, <3>5
  <2> QED
    BY <1>8, <2>1, <2>2
<1>13. RevealFits'
  <2>1. {decision', shown', failure'} \subseteq 0..n
    BY <1>1, <1>2 DEF IInv, RevealFits, n
  <2> QED
    BY <1>1, <1>2, <1>11, <2>1 DEF IInv, RevealFits, Positions
<1>14. BoardFits' /\ RecordFits' /\ PanelFits'
  <2>1. BoardFits'
    BY <1>1 DEF IInv, BoardFits, Positions
  <2>2. RecordFits'
    BY <1>1 DEF IInv, RecordFits, KeptCoversItsGames, Nothing
  <2>3. PanelFits'
    <3>1. Len(runs') = Len(runs) + 1
      BY <1>4, <1>12 DEF k
    <3> QED
      BY <1>1, <1>5, <3>1 DEF IInv, PanelFits
  <2> QED
    BY <2>1, <2>2, <2>3
<1>15. OpponentFits'
  <2>1. \A j \in Runs : ~Asked(runs[j])
    BY <1>1 DEF IInv, OpponentFits
  <2>2. ~Asked(rs[k])
    BY <1>7 DEF Asked
  <2>3. \A j \in DOMAIN runs' : ~Asked(runs'[j])
    BY <1>4, <1>6, <1>12, <2>1, <2>2
  <2> QED
    BY <2>3, NobodyIsAsked
<1>16. AtWork'
  <2>1. Works(runs'[k], decision', clients')
    BY <1>1, <1>7, <1>12 DEF Works
  <2> QED
    BY <1>7, <1>12, <2>1 DEF AtWork, Runs
<1> QED
  BY <1>12, <1>13, <1>14, <1>15, <1>16 DEF IInv

LEMMA BrowseStep == IInv /\ Browse => IInv'
<1> SUFFICES ASSUME IInv, Browse PROVE IInv'
  OBVIOUS
<1> DEFINE rs == Cancelled(runs)
<1>1. board' \in Positions /\ runs' = rs
      /\ UNCHANGED <<mounted, engineRef, clients, stage, decision, shown, failure, decidedAt, game,
                     turns, answered, reviewed, panel, lists, sent, kept>>
  BY DEF Browse, engineVars, revealVars, panelVars, recordVars
<1>2. /\ rs \in Seq(RunStates) /\ DOMAIN rs = Runs /\ Len(rs) = Len(runs) /\ Len(runs) \in Nat
      /\ \A j \in Runs : ~Asked(rs[j]) /\ Keeps(runs[j], rs[j])
  BY CancelledFits DEF IInv, RunsFit, Runs
<1> HIDE DEF rs
<1>3. RunsFit'
  BY <1>1, <1>2, RunsKept DEF IInv, RevealFits
<1>4. HoldersFit'
  BY <1>1, <1>2, HoldersKept DEF IInv, HoldersFit
<1>5. RecordFits' /\ PanelFits'
  BY <1>1, <1>2 DEF IInv, RecordFits, PanelFits, KeptCoversItsGames, Nothing
<1>6. BoardFits' /\ RevealFits'
  BY <1>1 DEF IInv, BoardFits, RevealFits, Positions
<1>7. OpponentFits'
  BY <1>1, <1>2, NobodyIsAsked
<1>8. AtWork'
  <2>1. \A j \in Runs : Works(runs[j], decision, clients) =>
          j \in DOMAIN runs' /\ Works(runs'[j], decision, clients')
    BY <1>1, <1>2, KeepsWork
  <2> QED
    BY <1>1, <2>1, WorkGoesOn DEF IInv
<1> QED
  BY <1>3, <1>4, <1>5, <1>6, <1>7, <1>8 DEF IInv

LEMMA PanelStep == IInv /\ (SearchGames \/ ClosePanel) => IInv'
<1> SUFFICES ASSUME IInv, SearchGames \/ ClosePanel PROVE IInv'
  OBVIOUS
<1>1. UNCHANGED <<mounted, engineRef, clients, runs, stage, decision, shown, failure, decidedAt,
                  board, game, turns, answered, reviewed, sent, kept>>
  BY DEF SearchGames, ClosePanel, engineVars, revealVars, boardVars, gameVars, recordVars
<1>2. RunsFit' /\ HoldersFit'
  BY <1>1 DEF IInv, RunsFit, HoldersFit, Runs, Clients
<1>3. RevealFits' /\ BoardFits'
  BY <1>1 DEF IInv, RevealFits, BoardFits, Positions
<1>4. OpponentFits' /\ AtWork'
  BY <1>1 DEF IInv, OpponentFits, AtWork, Runs
<1>5. RecordFits'
  BY <1>1 DEF IInv, RecordFits, KeptCoversItsGames, Nothing
<1>6. PanelFits'
  <2>1. panel \in [list : Nat, scan : Nat, reading : Nat] /\ panel.scan \in 0..Len(runs)
        /\ lists \in Nat /\ Len(runs) \in Nat
    BY DEF IInv, PanelFits, RunsFit
  <2>2. CASE SearchGames
    <3>1. lists' = lists + 1 /\ panel' = [panel EXCEPT !.list = lists + 1, !.reading = 0]
      BY <2>2 DEF SearchGames
    <3>2. lists + 1 \in Nat
      BY <2>1
    <3>3. panel' \in [list : Nat, scan : Nat, reading : Nat] /\ panel'.scan = panel.scan
      BY <2>1, <3>1, <3>2
    <3> QED
      BY <1>1, <2>1, <3>1, <3>2, <3>3 DEF PanelFits
  <2>3. CASE ClosePanel
    <3>1. panel' = NoPanel /\ UNCHANGED lists
      BY <2>3 DEF ClosePanel
    <3>2. NoPanel \in [list : Nat, scan : Nat, reading : Nat] /\ NoPanel.scan = 0
      BY DEF NoPanel
    <3> QED
      BY <1>1, <2>1, <3>1, <3>2 DEF PanelFits
  <2> QED
    BY <2>2, <2>3
<1> QED
  BY <1>2, <1>3, <1>4, <1>5, <1>6 DEF IInv

LEMMA StopScanStep == IInv /\ StopScan => IInv'
<1> SUFFICES ASSUME IInv, StopScan PROVE IInv'
  OBVIOUS
<1> DEFINE i == panel.scan
           r == [runs[i] EXCEPT !.wanted = FALSE]
<1>1. UNCHANGED <<mounted, engineRef, clients, stage, decision, shown, failure, decidedAt,
                  board, game, turns, answered, reviewed, panel, lists, sent, kept>>
  BY DEF StopScan, engineVars, revealVars, boardVars, gameVars, panelVars, recordVars
<1>2. i \in Runs /\ runs \in Seq(RunStates) /\ Len(runs) \in Nat
  BY DEF StopScan, IInv, PanelFits, RunsFit, Runs
<1>3. runs[i] \in RunStates /\ runs' = [runs EXCEPT ![i] = r]
  BY <1>2 DEF StopScan, Runs
<1> HIDE DEF i
<1>4. r \in RunStates /\ ~Asked(r) /\ Keeps(runs[i], r)
  <2>1. r \in RunStates /\ r.wanted = FALSE /\ r.kind = runs[i].kind /\ r.of = runs[i].of
        /\ r.at = runs[i].at /\ r.got = runs[i].got /\ r.st = runs[i].st
        /\ r.client = runs[i].client
    BY <1>3 DEF RunStates
  <2> HIDE DEF r
  <2> QED
    BY <2>1 DEF Asked, Keeps
<1> HIDE DEF r
<1>5. /\ runs' \in Seq(RunStates) /\ DOMAIN runs' = Runs /\ Len(runs') = Len(runs)
      /\ runs'[i] = r /\ \A j \in Runs : j # i => runs'[j] = runs[j]
  BY <1>2, <1>3, <1>4 DEF Runs
<1>6. \A j \in Runs : Keeps(runs[j], runs'[j])
  BY <1>4, <1>5, KeepsItself
<1>7. RunsFit'
  BY <1>1, <1>2, <1>5, <1>6, RunsKept DEF IInv, RevealFits
<1>8. HoldersFit'
  BY <1>1, <1>2, <1>5, <1>6, HoldersKept DEF IInv, HoldersFit
<1>9. RecordFits' /\ PanelFits'
  BY <1>1, <1>5 DEF IInv, RecordFits, PanelFits, KeptCoversItsGames, Nothing
<1>10. BoardFits' /\ RevealFits'
  BY <1>1 DEF IInv, BoardFits, RevealFits, Positions
<1>11. OpponentFits'
  BY <1>1, <1>2, <1>3, <1>4, OthersAreAsked
<1>12. AtWork'
  <2>1. \A j \in Runs : Works(runs[j], decision, clients) =>
          j \in DOMAIN runs' /\ Works(runs'[j], decision, clients')
    BY <1>1, <1>5, <1>6, KeepsWork
  <2> QED
    BY <1>1, <2>1, WorkGoesOn DEF IInv
<1> QED
  BY <1>7, <1>8, <1>9, <1>10, <1>11, <1>12 DEF IInv

LEMMA LeaveStep == IInv /\ Leave => IInv'
<1> SUFFICES ASSUME IInv, Leave PROVE IInv'
  OBVIOUS
<1> DEFINE rs == Cancelled(runs)
<1>1. mounted' = FALSE /\ panel' = NoPanel
      /\ UNCHANGED <<engineRef, stage, decision, shown, failure, decidedAt, board, game, turns,
                     answered, reviewed, lists, sent, kept>>
      /\ ((engineRef = 0 /\ runs' = rs /\ UNCHANGED clients)
           \/ (engineRef # 0 /\ Disposes(engineRef, rs)))
  BY DEF Leave, revealVars, boardVars, gameVars, recordVars
<1>2. /\ rs \in Seq(RunStates) /\ DOMAIN rs = Runs /\ Len(rs) = Len(runs) /\ Len(runs) \in Nat
      /\ \A j \in Runs : ~Asked(rs[j]) /\ Keeps(runs[j], rs[j])
  BY CancelledFits DEF IInv, RunsFit, Runs
<1>3. Len(clients) \in Nat /\ engineRef \in 0..Len(clients) /\ Clients = 1..Len(clients)
      /\ decidedAt \in Seq(Nat) /\ Len(decidedAt) \in Nat
  BY DEF IInv, HoldersFit, RevealFits, Clients
<1> HIDE DEF rs
<1>4. /\ RunsFit' /\ HoldersFit' /\ Len(runs') = Len(runs)
      /\ \A j \in DOMAIN runs' : ~Asked(runs'[j])
  <2>1. CASE engineRef = 0 /\ runs' = rs /\ UNCHANGED clients
    <3>1. RunsFit'
      BY <1>1, <1>2, <1>3, <2>1, RunsKept
    <3>2. HoldersFit'
      BY <1>1, <1>2, <1>3, <2>1, HoldersKept
    <3> QED
      BY <1>2, <2>1, <3>1, <3>2
  <2>2. CASE engineRef # 0 /\ Disposes(engineRef, rs)
    <3>1. engineRef \in Clients /\ engineRef' \in 0..Len(clients) /\ Len(runs) <= Len(rs)
      BY <1>1, <1>2, <1>3, <2>2
    <3>2. HoldersFit' /\ Len(clients') = Len(clients)
      BY <1>2, <2>2, <3>1, DisposesHolders
    <3>3. /\ runs' \in Seq(RunStates) /\ Len(runs') = Len(rs) /\ DOMAIN runs' = DOMAIN rs
          /\ \A j \in Runs : Moves(runs[j], runs'[j], Len(clients))
          /\ \A j \in DOMAIN rs : Asked(runs'[j]) => Asked(rs[j])
      BY <1>2, <2>2, <3>1, DisposesRuns
    <3>4. \A j \in DOMAIN runs' : j \in Runs /\ Moves(runs[j], runs'[j], Len(clients'))
      BY <1>2, <3>2, <3>3
    <3>5. RunsFit'
      BY <1>1, <1>3, <3>3, <3>4, RunsMove DEF IInv
    <3> QED
      BY <1>2, <3>2, <3>3, <3>5
  <2> QED
    BY <1>1, <2>1, <2>2
<1>5. RevealFits' /\ BoardFits'
  BY <1>1 DEF IInv, RevealFits, BoardFits, Positions
<1>6. RecordFits'
  BY <1>1 DEF IInv, RecordFits, KeptCoversItsGames, Nothing
<1>7. PanelFits'
  BY <1>1, <1>2, <1>4 DEF IInv, PanelFits, NoPanel
<1>8. OpponentFits'
  BY <1>4, NobodyIsAsked
<1>9. AtWork'
  BY <1>1 DEF AtWork
<1> QED
  BY <1>4, <1>5, <1>6, <1>7, <1>8, <1>9 DEF IInv

LEMMA StutterStep == IInv /\ UNCHANGED vars => IInv'
<1> SUFFICES ASSUME IInv, UNCHANGED vars PROVE IInv'
  OBVIOUS
<1>1. UNCHANGED <<mounted, engineRef, clients, runs, stage, decision, shown, failure, decidedAt,
                  board, game, turns, answered, reviewed, panel, lists, sent, kept>>
  BY DEF vars, engineVars, revealVars, boardVars, gameVars, panelVars, recordVars
<1>2. RunsFit' /\ HoldersFit'
  BY <1>1 DEF IInv, RunsFit, HoldersFit, Runs, Clients
<1>3. RevealFits' /\ BoardFits'
  BY <1>1 DEF IInv, RevealFits, BoardFits, Positions
<1>4. OpponentFits' /\ AtWork'
  BY <1>1 DEF IInv, OpponentFits, AtWork, Runs
<1>5. RecordFits' /\ PanelFits'
  BY <1>1 DEF IInv, RecordFits, PanelFits, KeptCoversItsGames, Nothing
<1> QED
  BY <1>2, <1>3, <1>4, <1>5 DEF IInv

-----------------------------------------------------------------------------
(* The theorems.                                                           *)

LEMMA NextInv == IInv /\ [Next]_vars => IInv'
<1> SUFFICES ASSUME IInv, [Next]_vars PROVE IInv'
  OBVIOUS
<1>1. CASE UNCHANGED vars
  BY <1>1, StutterStep
<1>2. ASSUME NEW i \in Runs, Continues(i) \/ ModuleLoads(i) \/ ModuleFails(i) \/ Answered(i)
                               \/ CommitStored(i) \/ CommitFails(i)
      PROVE  IInv'
  <2>1. CASE Continues(i)
    BY <2>1, AskStep, TakeStep, AskAgainStep, LoopFailsStep, RevealCatchesStep, OthersCatchStep
       DEF Continues
  <2>2. CASE ModuleLoads(i) \/ ModuleFails(i) \/ CommitStored(i) \/ CommitFails(i)
    BY <2>2, ModuleLoadsStep, ModuleFailsStep, CommitStoredStep, CommitFailsStep
  <2>3. CASE Answered(i)
    BY <2>3, LoopGoesOnStep, LoopEndsStep, RevealGoesOnStep, RevealEndsStep, RevealTellsStep,
       OpponentEndsStep, AnalysisEndsStep DEF Answered
  <2> QED
    BY <1>2, <2>1, <2>2, <2>3
<1>3. ASSUME NEW c \in Clients, EngineReady(c) \/ EngineFails(c) \/ StaleTimer(c)
      PROVE  IInv'
  <2>1. CASE EngineReady(c)
    BY <2>1, EngineReadyStep
  <2>2. CASE EngineFails(c) \/ StaleTimer(c)
    BY <2>2, FailsStep DEF EngineFails, StaleTimer
  <2> QED
    BY <1>3, <2>1, <2>2
<1>4. CASE Commit \/ RetryReveal \/ NextDecision \/ LoadGame \/ Browse \/ OpponentIsAsked
  BY <1>4, CommitStep, RetryRevealStep, NextDecisionStep, LoadGameStep, BrowseStep,
     OpponentIsAskedStep
<1>5. CASE Analyse \/ Review \/ SearchGames \/ ClosePanel \/ Scan \/ StopScan \/ Leave
  BY <1>5, AnalyseStep, PanelStep, ScanStep, StopScanStep, LeaveStep
<1> QED
  BY <1>1, <1>2, <1>3, <1>4, <1>5 DEF Next

THEOREM InvariantHolds == Spec => []IInv
BY InitInv, NextInv, PTL DEF Spec

-----------------------------------------------------------------------------
(* What the invariant implies.                                             *)

LEMMA TypesFit == IInv => TypeOK
<1> SUFFICES ASSUME IInv PROVE TypeOK
  OBVIOUS
<1>1. /\ mounted \in BOOLEAN /\ reviewed \in BOOLEAN /\ stage \in {"deciding", "committing", "revealed"}
      /\ engineRef \in 0..Len(clients) /\ Len(decidedAt) \in Nat
      /\ board \in Positions /\ Positions \subseteq DOMAIN turns /\ panel.scan \in 0..Len(runs)
      /\ stage = "revealed" => decision # 0
  BY DEF IInv, RevealFits, HoldersFit, BoardFits, PanelFits
<1>2. {decision, shown, failure} \subseteq 0..Len(decidedAt)
  BY DEF IInv, RevealFits
<1>3. ASSUME NEW c \in Clients
      PROVE  clients[c].promise \in {"none", "pending", "ready"} /\ clients[c].holder \in 0..Len(runs)
  <2>1. clients[c] \in ClientStates
    BY DEF IInv, HoldersFit, Clients
  <2>2. clients[c].holder = 0 \/ clients[c].holder \in Runs
    BY DEF IInv, HoldersFit
  <2>3. Runs = 1..Len(runs) /\ Len(runs) \in Nat
    BY DEF IInv, RunsFit, Runs
  <2> QED
    BY <2>1, <2>2, <2>3 DEF ClientStates
<1>4. ASSUME NEW i \in Runs
      PROVE  runs[i].kind \in Kinds /\ runs[i].st \in States /\ runs[i].client \in 0..Len(clients)
  <2>1. runs[i] \in RunStates /\ RunFits(runs[i], Len(decidedAt), Len(clients))
    BY DEF IInv, RunsFit, Runs
  <2> QED
    BY <2>1 DEF RunStates, RunFits
<1> QED
  BY <1>1, <1>2, <1>3, <1>4 DEF TypeOK

LEMMA SearchesFit == IInv => OneSearchEach
<1> SUFFICES ASSUME IInv, NEW i \in Runs
             PROVE  runs[i].st = "searching" <=>
                      \E c \in Clients : clients[c].holder = i /\ runs[i].client = c
  BY DEF OneSearchEach
<1>1. /\ RunFits(runs[i], Len(decidedAt), Len(clients)) /\ Clients = 1..Len(clients)
      /\ Len(clients) \in Nat /\ Runs = 1..Len(runs) /\ Len(runs) \in Nat
  BY DEF IInv, RunsFit, HoldersFit, Runs, Clients
<1>2. ASSUME runs[i].st = "searching"
      PROVE  runs[i].client \in Clients /\ clients[runs[i].client].holder = i
  BY <1>1, <1>2 DEF IInv, HoldersFit, RunFits
<1>3. ASSUME NEW c \in Clients, clients[c].holder = i
      PROVE  runs[i].st = "searching"
  BY <1>1, <1>3 DEF IInv, HoldersFit
<1> QED
  BY <1>2, <1>3

\* The verdict that goes to the record was measured in the position of the
\* decision it is sent under, root and played move, however many runs share the
\* engine and whatever the screen has come to show (runReveal, submitReveal).
THEOREM VerdictsAreAlwaysTheirOwn == Spec => []VerdictsAreTheirOwn
<1>1. IInv => VerdictsAreTheirOwn
  BY TypesFit, SearchesFit DEF IInv, RecordFits, VerdictsAreTheirOwn
<1> QED
  BY <1>1, InvariantHolds, PTL

\* A reading that is kept has every position of its games once and in order,
\* for games of any length and any interruptions of the scan (scoreOne,
\* analyzePositions, scan).
THEOREM KeptAlwaysCoversItsGames == Spec => []KeptCoversItsGames
<1>1. IInv => KeptCoversItsGames
  BY DEF IInv, RecordFits
<1> QED
  BY <1>1, InvariantHolds, PTL

\* While a decision is waited for, a reveal of that decision is under way that
\* will be answered or refused: the screen never waits with nobody at work
\* (runReveal, "no control that advances").
THEOREM SomebodyIsAlwaysAtWork == Spec => []SomebodyIsAtWork
<1>1. IInv => SomebodyIsAtWork
  BY DEF IInv, AtWork, Works, SomebodyIsAtWork
<1> QED
  BY <1>1, InvariantHolds, PTL

-----------------------------------------------------------------------------
(* A reply and the board it is played on.                                  *)

\* Coming back to deciding leaves the searches that are under way to go on.
LEMMA BackSearchesOn ==
  ASSUME IInv, BackToDeciding, NEW i \in Runs, runs[i].st = "searching"
  PROVE  runs'[i].st = "searching"
<1> DEFINE rs == Cancelled(runs)
<1>1. runs \in Seq(RunStates) /\ Len(runs) \in Nat /\ Runs = 1..Len(runs) /\ i \in DOMAIN runs
  BY DEF IInv, RunsFit, Runs
<1>2. rs \in Seq(RunStates) /\ DOMAIN rs = DOMAIN runs /\ Len(rs) = Len(runs)
      /\ rs[i].st = "searching"
  BY <1>1, CancelledFits DEF Keeps
<1>3. Warms(rs)
  BY DEF BackToDeciding
<1> HIDE DEF rs
<1>4. CASE runs' = rs
  BY <1>2, <1>4
<1>5. CASE runs' = Append(rs, Fresh("warm", 0))
  <2>1. runs'[i] = rs[i]
    BY <1>1, <1>2, <1>5
  <2> QED
    BY <1>2, <2>1
<1>6. CASE runs' = Orphaned(rs, clients, engineRef)
  <2>1. runs'[i] = rs[i]
    BY <1>1, <1>2, <1>6 DEF Orphaned, Waiting
  <2> QED
    BY <1>2, <2>1
<1> QED
  BY <1>3, <1>4, <1>5, <1>6 DEF Warms

\* A step that changes the board while a search of the opponent comes to its
\* end is the end of that search.
LEMMA OnlyTheReplyMoves ==
  ASSUME IInv, [Next]_vars, NEW i \in Runs, runs[i].st = "searching",
         runs'[i].st = "over", board' # board
  PROVE  OpponentEnds(i)
<1>1. CASE UNCHANGED vars
  BY <1>1 DEF vars, boardVars, gameVars
<1>2. ASSUME NEW j \in Runs, Continues(j) \/ ModuleLoads(j) \/ ModuleFails(j) \/ Answered(j)
                               \/ CommitStored(j) \/ CommitFails(j)
      PROVE  OpponentEnds(i)
  <2>1. CASE Continues(j) \/ ModuleLoads(j)
    BY <2>1 DEF Continues, Ask, Take, AskAgain, LoopFails, RevealCatches, OthersCatch, ModuleLoads,
                boardVars, gameVars
  <2>2. CASE LoopGoesOn(j) \/ LoopEnds(j) \/ RevealGoesOn(j) \/ RevealEnds(j) \/ RevealTells(j)
             \/ AnalysisEnds(j)
    BY <2>2 DEF LoopGoesOn, LoopEnds, RevealGoesOn, RevealEnds, RevealTells, AnalysisEnds, boardVars,
                gameVars
  <2>3. CASE OpponentEnds(j)
    <3>1. runs' = [runs EXCEPT ![j] = Over(runs[j])]
      BY <2>3 DEF OpponentEnds, Ends
    <3>2. i # j => runs'[i] = runs[i]
      BY <3>1 DEF Runs
    <3> QED
      BY <2>3, <3>2
  <2>4. CASE ModuleFails(j) \/ CommitStored(j) \/ CommitFails(j)
    BY <2>4 DEF ModuleFails, CommitStored, CommitFails, boardVars, gameVars
  <2> QED
    BY <1>2, <2>1, <2>2, <2>3, <2>4 DEF Answered
<1>3. ASSUME NEW c \in Clients, EngineReady(c) \/ EngineFails(c) \/ StaleTimer(c)
      PROVE  FALSE
  BY <1>3 DEF EngineReady, EngineFails, StaleTimer, Fails, boardVars, gameVars
<1>4. CASE Commit \/ RetryReveal \/ OpponentIsAsked \/ Analyse \/ Review \/ SearchGames
           \/ ClosePanel \/ Scan \/ StopScan \/ Leave
  BY <1>4 DEF Commit, RetryReveal, OpponentIsAsked, Analyse, Review, SearchGames, ClosePanel, Scan,
              StopScan, Leave, boardVars, gameVars
<1>5. CASE NextDecision \/ LoadGame
  BY <1>5, BackSearchesOn DEF NextDecision, LoadGame
<1>6. CASE Browse
  <2>1. runs' = Cancelled(runs) /\ runs \in Seq(RunStates) /\ i \in DOMAIN runs
    BY <1>6 DEF Browse, IInv, RunsFit, Runs
  <2>2. Keeps(runs[i], runs'[i])
    BY <2>1, CancelledFits
  <2> QED
    BY <2>2 DEF Keeps
<1> QED
  BY <1>1, <1>2, <1>3, <1>4, <1>5, <1>6 DEF Next

\* The opponent's reply is played in the position it was asked for, while the
\* player decides and the move is the opponent's, however long its search took
\* and whatever was done on the page meanwhile (the effect of the opponent and
\* its cleanup).
THEOREM RepliesAlwaysFitTheBoard == Spec => RepliesFitTheBoard
<1>1. IInv /\ [Next]_vars =>
        [\A i \in Runs :
           runs[i].kind = "opponent" /\ runs[i].st = "searching"
           /\ runs'[i].st = "over" /\ board' # board
             => /\ mounted /\ stage = "deciding"
                /\ board = runs[i].of /\ turns[board] = "opponent"]_vars
  <2> SUFFICES ASSUME IInv, [Next]_vars, NEW i \in Runs, runs[i].kind = "opponent",
                      runs[i].st = "searching", runs'[i].st = "over", board' # board
               PROVE  /\ mounted /\ stage = "deciding"
                      /\ board = runs[i].of /\ turns[board] = "opponent"
    OBVIOUS
  <2>1. OpponentEnds(i)
    BY OnlyTheReplyMoves
  <2>2. runs[i].wanted
    BY <2>1 DEF OpponentEnds, gameVars
  <2>3. Asked(runs[i])
    BY <2>2 DEF Asked, Live
  <2> QED
    BY <2>3 DEF IInv, OpponentFits
<1> QED
  BY <1>1, InvariantHolds, PTL DEF Spec, RepliesFitTheBoard
=============================================================================
