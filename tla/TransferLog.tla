---------------------------- MODULE TransferLog -----------------------------
(***************************************************************************)
(* What the record promises about the transfer tests of one rule: a test   *)
(* fixes its positions when it starts, they are answered in that order,    *)
(* each once, and a test is reported once, when all of them are.           *)
(***************************************************************************)
EXTENDS Naturals, Sequences

CONSTANTS Boards, Transfers, PositionCount, NotReported, Days

VARIABLES fens,          \* the positions of each transfer, <<>> if not started
          answered,      \* the boards of the decisions recorded for it
          reported       \* the day it was reported

logVars == <<fens, answered, reported>>

Init == /\ fens = [t \in Transfers |-> <<>>]
        /\ answered = [t \in Transfers |-> <<>>]
        /\ reported = [t \in Transfers |-> NotReported]

Start(t) ==
  /\ fens[t] = <<>>
  /\ \E boards \in [1..PositionCount -> Boards] : fens' = [fens EXCEPT ![t] = boards]
  /\ UNCHANGED <<answered, reported>>

\* The next position, and no other.
Observe(t) ==
  /\ Len(answered[t]) < Len(fens[t])
  /\ answered' = [answered EXCEPT ![t] = Append(@, fens[t][Len(@) + 1])]
  /\ UNCHANGED <<fens, reported>>

Report(t) ==
  /\ fens[t] # <<>>
  /\ answered[t] = fens[t]
  /\ reported[t] = NotReported
  /\ \E day \in Days : reported' = [reported EXCEPT ![t] = day]
  /\ UNCHANGED <<fens, answered>>

Next == \E t \in Transfers : Start(t) \/ Observe(t) \/ Report(t)

Spec == Init /\ [][Next]_logVars
=============================================================================
