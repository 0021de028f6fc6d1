---------------------------- MODULE SearchService ----------------------------
(***************************************************************************)
(* What the chess engine promises to the screens that share it, with no    *)
(* worker, no protocol and no counter: one search holds the engine at a    *)
(* time, taking the engine away rejects the search that held it, and what  *)
(* a search is answered with was computed for its own position.            *)
(*                                                                         *)
(* A search is identified with the position it asks about.                 *)
(***************************************************************************)
CONSTANTS
    Searches,   \* the searches the callers may ask for
    NoSearch    \* the absence of a search

VARIABLES
    call,       \* call[s]: where the promise returned for s stands
    holder,     \* the search the engine is working for, or NoSearch
    answer      \* answer[s]: the origin of the move and of the lines s got

serviceVars == <<call, holder, answer>>

Settled == {"answered", "partial", "superseded", "failed"}

NoAnswer == [best |-> NoSearch, lines |-> {}]

Init ==
    /\ call = [s \in Searches |-> "idle"]
    /\ holder = NoSearch
    /\ answer = [s \in Searches |-> NoAnswer]

\* A caller asks; the engine may still be loading.
Ask(s) ==
    /\ call[s] = "idle"
    /\ call' = [call EXCEPT ![s] = "waiting"]
    /\ UNCHANGED <<holder, answer>>

\* An asked search takes the engine; whoever held it is rejected as superseded.
Take(s) ==
    /\ call[s] = "waiting"
    /\ call' = [t \in Searches |->
                  IF t = s THEN "searching"
                  ELSE IF t = holder THEN "superseded" ELSE call[t]]
    /\ holder' = s
    /\ UNCHANGED answer

\* An asked search is refused: the engine could not be loaded.
Refuse(s) ==
    /\ call[s] = "waiting"
    /\ call' = [call EXCEPT ![s] = "failed"]
    /\ UNCHANGED <<holder, answer>>

\* The holder is answered, with its own move and lines of its own position.
Answer(s) ==
    /\ holder = s /\ s # NoSearch
    /\ call' = [call EXCEPT ![s] = "answered"]
    /\ \E kept \in SUBSET {s} :
         answer' = [answer EXCEPT ![s] = [best |-> s, lines |-> kept]]
    /\ holder' = NoSearch

\* The holder ran out of time and keeps what was computed for it so far.
GiveUp(s) ==
    /\ holder = s /\ s # NoSearch
    /\ call' = [call EXCEPT ![s] = "partial"]
    /\ \E kept \in SUBSET {s} :
         answer' = [answer EXCEPT ![s] = [best |-> NoSearch, lines |-> kept]]
    /\ holder' = NoSearch

\* The engine is put away under the search that holds it.
Withdraw(s) ==
    /\ holder = s /\ s # NoSearch
    /\ call' = [call EXCEPT ![s] = "superseded"]
    /\ holder' = NoSearch
    /\ UNCHANGED answer

Next ==
    \E s \in Searches :
        \/ Ask(s) \/ Take(s) \/ Refuse(s)
        \/ Answer(s) \/ GiveUp(s) \/ Withdraw(s)

Spec == Init /\ [][Next]_serviceVars
==============================================================================
