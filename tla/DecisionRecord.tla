--------------------------- MODULE DecisionRecord ---------------------------
(***************************************************************************)
(* What the rest of the application relies on about one decision on the    *)
(* record: four facts, each written once and never changed.  The engine's  *)
(* verdict needs a committed decision; the price of the alternative needs  *)
(* an alternative and comes from the search that produced the verdict.     *)
(*                                                                         *)
(* Searches are numbered; 0 stands for a column that is still null.        *)
(***************************************************************************)
EXTENDS Naturals

CONSTANTS Moves,         \* alternatives a player may name
          NoRow,         \* no counterfactual row
          NoMove,        \* a row that says "nothing else"
          MaxSearches    \* bound on engine searches

VARIABLES decision,      \* "absent" or "stored"
          answer,        \* NoRow, NoMove or a move
          verdict,       \* the search whose verdict is stored, 0 if none
          price          \* the search that priced the alternative, 0 if none

recordVars == <<decision, answer, verdict, price>>

Init == /\ decision = "absent"
        /\ answer = NoRow
        /\ verdict = 0
        /\ price = 0

Commit == /\ decision = "absent"
          /\ decision' = "stored"
          /\ UNCHANGED <<answer, verdict, price>>

Answer == /\ decision = "stored"
          /\ answer = NoRow
          /\ answer' \in Moves \cup {NoMove}
          /\ UNCHANGED <<decision, verdict, price>>

Reveal == /\ decision = "stored"
          /\ verdict = 0
          /\ verdict' \in 1..MaxSearches
          /\ UNCHANGED <<decision, answer, price>>

Price == /\ answer \in Moves
         /\ verdict # 0
         /\ price = 0
         /\ price' = verdict
         /\ UNCHANGED <<decision, answer, verdict>>

Next == Commit \/ Answer \/ Reveal \/ Price

Spec == Init /\ [][Next]_recordVars
=============================================================================
