-------------------------- MODULE EngineClientProofs --------------------------
(***************************************************************************)
(* Proofs about EngineClient for every set of searches and every number of *)
(* attempts: type correctness, the inductive invariant on the debt, and    *)
(* the refinement of SearchService.                                        *)
(***************************************************************************)
EXTENDS EngineClient, TLAPS

(***************************************************************************)
(* The debt argument.  DebtCovered alone is not inductive: a bestmove that *)
(* finds no debt answers `current`, and to know that the worker's oldest   *)
(* search is `current` one needs that there is at most one of them         *)
(* (DebtCovered) and that the newest is `current` (HolderIsLast).          *)
(***************************************************************************)
IInv ==
    /\ TypeOK
    /\ OwnAnswer
    /\ DebtCovered
    /\ HolderIsLast
    /\ SearchingHolds
    /\ Alive \/ owing = <<>>

USE DEF Attempts, Settled, Calls, Answers, NoAnswer, readyVars, workerVars, searchVars, Alive

-------------------------------------------------------------------------------
(* The steps of start() and fail() touch only the ready promise and the    *)
(* worker; both are used by several actions.                               *)

LEMMA StartType ==
    ASSUME TypeOK, StartReused \/ StartFresh \/ StartThrows
    PROVE  /\ attempt' \in 0..MaxAttempts
           /\ promise' \in [Attempts -> {"none", "pending", "resolved", "rejected"}]
           /\ readyPromise' \in 0..MaxAttempts
           /\ resolver' \in 0..MaxAttempts
           /\ readyTimers' \in SUBSET Attempts
           /\ worker' \in {"null", "greeted", "asked", "up"}
           /\ owing' \in Seq(Searches)
           /\ owing' = <<>> \/ (owing' = owing /\ worker' = worker)
<1>1. CASE StartReused
  BY <1>1 DEF TypeOK, StartReused
<1>2. CASE StartFresh
  <2>1. attempt + 1 \in Attempts /\ attempt + 1 \in 0..MaxAttempts
    BY <1>2, MaxAttemptsAssumption DEF TypeOK, StartFresh
  <2> QED
    BY <1>2, <2>1 DEF TypeOK, StartFresh
<1>3. CASE StartThrows
  <2>1. attempt + 1 \in Attempts /\ attempt + 1 \in 0..MaxAttempts
    BY <1>3, MaxAttemptsAssumption DEF TypeOK, StartThrows
  <2> QED
    BY <1>3, <2>1 DEF TypeOK, StartThrows
<1> QED
  BY <1>1, <1>2, <1>3

LEMMA FailType ==
    ASSUME TypeOK, Fail
    PROVE  /\ promise' \in [Attempts -> {"none", "pending", "resolved", "rejected"}]
           /\ resolver' = 0 /\ readyPromise' = 0
           /\ worker' = "null" /\ owing' = <<>>
BY DEF TypeOK, Fail

-------------------------------------------------------------------------------
\* Each step of the callers, the worker and the timers preserves the types.
LEMMA TypeStep == TypeOK /\ [Next]_vars => TypeOK'
<1>1. TypeOK /\ [Next]_vars => TypeOK'
  <2> SUFFICES ASSUME TypeOK, [Next]_vars PROVE TypeOK'
    OBVIOUS
  <2>1. ASSUME NEW s \in Searches, Search(s) PROVE TypeOK'
    <3>1. StartReused \/ StartFresh \/ StartThrows
      BY <2>1 DEF Search
    <3> QED
      BY <2>1, <3>1, StartType DEF TypeOK, Search
  <2>2. ASSUME NEW s \in Searches, Begin(s) PROVE TypeOK'
    <3>1. Superseding(call) \in [Searches -> Calls] /\ OwedAfterStop \in Nat
      BY DEF TypeOK, Superseding, OwedAfterStop
    <3>2. call' \in [Searches -> Calls]
      BY <2>2, <3>1 DEF Begin
    <3>3. owing' \in Seq(Searches)
      BY <2>2 DEF TypeOK, Begin
    <3> QED
      BY <2>2, <3>1, <3>2, <3>3 DEF TypeOK, Begin
  <2>3. ASSUME NEW s \in Searches, Refused(s) PROVE TypeOK'
    BY <2>3 DEF TypeOK, Refused
  <2>4. CASE Dispose
    BY <2>4, MaxAttemptsAssumption DEF TypeOK, Dispose, Superseding, OwedAfterStop
  <2>5. CASE UciOk
    BY <2>5 DEF TypeOK, UciOk
  <2>6. CASE ReadyOk
    BY <2>6, MaxAttemptsAssumption DEF TypeOK, ReadyOk
  <2>7. CASE Info
    BY <2>7 DEF TypeOK, Info
  <2>8. CASE BestMove
    <3>1. owing' \in Seq(Searches) /\ Head(owing) \in Searches
      BY <2>8 DEF TypeOK, BestMove
    <3>2. owed' \in Nat /\ current' \in Searches \cup {NoSearch}
      BY <2>8 DEF TypeOK, BestMove
    <3>3. [best |-> Head(owing), lines |-> lines] \in Answers
      BY <3>1 DEF TypeOK
    <3>4. call' \in [Searches -> Calls] /\ answer' \in [Searches -> Answers]
      <4>1. CASE UNCHANGED <<call, answer>>
        BY <4>1 DEF TypeOK
      <4>2. CASE /\ call' = [call EXCEPT ![current] = "answered"]
                 /\ answer' = [answer EXCEPT ![current] =
                                 [best |-> Head(owing), lines |-> lines]]
        BY <4>2, <3>3 DEF TypeOK
      <4> QED
        BY <2>8, <4>1, <4>2 DEF BestMove
    <3> QED
      BY <2>8, <3>1, <3>2, <3>4 DEF TypeOK, BestMove
  <2>9. CASE ReadyTimeout
    <3>1. readyTimers' \in SUBSET Attempts
      BY <2>9 DEF TypeOK, ReadyTimeout
    <3>2. CASE Fail
      BY <3>1, <3>2, FailType, MaxAttemptsAssumption DEF TypeOK, Fail
    <3>3. CASE ~Fail
      BY <2>9, <3>1, <3>3 DEF TypeOK, ReadyTimeout
    <3> QED
      BY <3>2, <3>3
  <2>10. CASE SearchTimeout
    BY <2>10 DEF TypeOK, SearchTimeout
  <2>11. CASE WorkerError
    BY <2>11, FailType, MaxAttemptsAssumption DEF TypeOK, WorkerError, Fail
  <2>12. CASE UNCHANGED vars
    BY <2>12 DEF TypeOK, vars
  <2> QED
    BY <2>1, <2>2, <2>3, <2>4, <2>5, <2>6, <2>7, <2>8, <2>9, <2>10, <2>11, <2>12
    DEF Next, Caller, Engine, Timers
<1> QED
  BY <1>1

\* Every variable keeps its type, whatever the callers, the worker and the
\* timers do.
THEOREM TypeCorrect == Spec => []TypeOK
<1>1. Init => TypeOK
  BY MaxAttemptsAssumption DEF Init, TypeOK
<1> QED
  BY <1>1, TypeStep, PTL DEF Spec

-------------------------------------------------------------------------------
\* start() disturbs nothing but a worker that owes nothing any more.
LEMMA StartKeepsDebt ==
    ASSUME IInv, NEW s \in Searches, Search(s)
    PROVE  /\ owing' = <<>> \/ (owing' = owing /\ worker' = worker)
           /\ Alive' \/ owing' = <<>>
<1>1. StartReused \/ StartFresh \/ StartThrows
  BY DEF Search
<1> QED
  BY <1>1 DEF IInv, StartReused, StartFresh, StartThrows

LEMMA InitInv == Init => IInv
BY MaxAttemptsAssumption
DEF Init, IInv, TypeOK, OwnAnswer, DebtCovered, HolderIsLast, SearchingHolds, Holding

\* Taking the engine: the holder's bestmove moves from what is awaited to what
\* is thrown away, and the new one is awaited.
LEMMA BeginInv ==
    ASSUME IInv, TypeOK', NEW s \in Searches, Begin(s)
    PROVE  IInv'
<1> USE DEF IInv, Begin, Superseding, OwedAfterStop
<1>1. s # current /\ s # NoSearch
  BY NoSearchAssumption DEF HolderIsLast
<1>2. /\ call'[s] = "searching"
      /\ current # NoSearch => call'[current] = "superseded"
      /\ \A u \in Searches \ {s, current} : call'[u] = call[u]
  BY <1>1 DEF TypeOK
<1>3. OwnAnswer'
  BY <1>2 DEF TypeOK, OwnAnswer
<1>4. Len(owing') = Len(owing) + 1 /\ owing'[Len(owing')] = s
  BY DEF TypeOK
<1>5. DebtCovered'
  BY <1>1, <1>4 DEF TypeOK, DebtCovered, Holding
<1>6. HolderIsLast'
  BY <1>2, <1>4 DEF HolderIsLast
<1>7. SearchingHolds'
  <2>1. ASSUME NEW u \in Searches, call'[u] = "searching" PROVE u = s
    <3>1. u # current
      BY <1>1, <1>2, <2>1, NoSearchAssumption
    <3>2. u # s => call[u] = "searching"
      BY <1>2, <2>1, <3>1
    <3> QED
      BY <3>1, <3>2 DEF SearchingHolds
  <2> QED
    BY <2>1 DEF SearchingHolds
<1>8. Alive'
  OBVIOUS
<1> HIDE DEF Begin
<1> QED
  BY <1>3, <1>5, <1>6, <1>7, <1>8

\* A bestmove: with no debt, the worker owes at most one, and it is the holder's.
LEMMA BestMoveInv ==
    ASSUME IInv, TypeOK', BestMove
    PROVE  IInv'
<1> USE DEF IInv, BestMove
<1>1. /\ Len(owing) \in Nat /\ Len(owing) > 0
      /\ Len(owing') = Len(owing) - 1
      /\ owing' # <<>> => owing'[Len(owing')] = owing[Len(owing)]
  BY DEF TypeOK
<1>2. CASE owed > 0 /\ owed' = owed - 1 /\ UNCHANGED <<current, call, answer>>
  <2>1. DebtCovered'
    BY <1>1, <1>2 DEF TypeOK, DebtCovered, Holding
  <2>2. HolderIsLast' /\ SearchingHolds' /\ OwnAnswer'
    BY <1>1, <1>2 DEF HolderIsLast, SearchingHolds, OwnAnswer
  <2> QED
    BY <2>1, <2>2
<1>3. CASE owed = 0 /\ current = NoSearch /\ UNCHANGED <<owed, current, call, answer>>
  <2>1. FALSE
    BY <1>1, <1>3 DEF TypeOK, DebtCovered, Holding
  <2> QED
    BY <2>1
<1>4. CASE /\ owed = 0 /\ current # NoSearch
           /\ call' = [call EXCEPT ![current] = "answered"]
           /\ answer' = [answer EXCEPT ![current] =
                           [best |-> Head(owing), lines |-> lines]]
           /\ current' = NoSearch
           /\ UNCHANGED owed
  <2>1. Len(owing) = 1
    BY <1>1, <1>4 DEF TypeOK, DebtCovered, Holding
  <2>2. Head(owing) = current /\ owing' = <<>>
    <3>1. Head(owing) = owing[1] /\ owing[1] = current
      BY <1>4, <2>1 DEF TypeOK, HolderIsLast
    <3>2. owing' \in Seq(Searches) /\ Len(owing') = 0
      BY <1>1, <2>1 DEF TypeOK
    <3> QED
      BY <3>1, <3>2
  <2>3. /\ answer'[current] = [best |-> current, lines |-> lines]
        /\ call'[current] = "answered"
        /\ \A u \in Searches \ {current} : answer'[u] = answer[u] /\ call'[u] = call[u]
    BY <1>4, <2>2 DEF TypeOK
  <2>4. OwnAnswer'
    BY <1>4, <2>3 DEF OwnAnswer, HolderIsLast
  <2>5. DebtCovered' /\ HolderIsLast'
    BY <1>4, <2>2 DEF TypeOK, DebtCovered, HolderIsLast, Holding
  <2>6. SearchingHolds'
    BY <1>4, <2>3 DEF SearchingHolds
  <2> QED
    BY <2>2, <2>4, <2>5, <2>6
<1> QED
  BY <1>2, <1>3, <1>4

\* The 12 s timer turns the awaited bestmove into a debt.
LEMMA SearchTimeoutInv ==
    ASSUME IInv, TypeOK', SearchTimeout
    PROVE  IInv'
<1> USE DEF IInv, SearchTimeout
<1>1. /\ answer'[current] = [best |-> NoSearch, lines |-> lines]
      /\ call'[current] = "partial"
      /\ \A u \in Searches \ {current} : answer'[u] = answer[u] /\ call'[u] = call[u]
  BY DEF TypeOK
<1>2. OwnAnswer'
  BY <1>1 DEF OwnAnswer, HolderIsLast
<1>3. DebtCovered' /\ HolderIsLast'
  BY DEF TypeOK, DebtCovered, HolderIsLast, Holding
<1>4. SearchingHolds'
  BY <1>1 DEF SearchingHolds
<1> QED
  BY <1>2, <1>3, <1>4

\* dispose(): the same move as taking the engine, with the worker gone.
LEMMA DisposeInv ==
    ASSUME IInv, TypeOK', Dispose
    PROVE  IInv'
<1> USE DEF IInv, Dispose, Superseding
<1>1. /\ current # NoSearch => call'[current] = "superseded"
      /\ \A u \in Searches \ {current} : call'[u] = call[u]
  BY DEF TypeOK
<1>2. OwnAnswer' /\ SearchingHolds'
  BY <1>1 DEF OwnAnswer, SearchingHolds
<1>3. DebtCovered' /\ HolderIsLast'
  BY DEF DebtCovered, HolderIsLast
<1> QED
  BY <1>2, <1>3

LEMMA NextInv == IInv /\ [Next]_vars => IInv'
<1> SUFFICES ASSUME IInv, [Next]_vars PROVE IInv'
  OBVIOUS
<1>0. TypeOK'
  BY TypeStep DEF IInv
<1>1. ASSUME NEW s \in Searches, Search(s) PROVE IInv'
  <2>1. owing' = <<>> \/ (owing' = owing /\ worker' = worker)
    BY <1>1, StartKeepsDebt
  <2>2. Alive' \/ owing' = <<>>
    BY <1>1, StartKeepsDebt
  <2>3. \A u \in Searches : call'[u] # "waiting" => call'[u] = call[u]
    BY <1>1 DEF IInv, TypeOK, Search
  <2>4. OwnAnswer' /\ SearchingHolds'
    BY <1>1, <2>3 DEF IInv, Search, OwnAnswer, SearchingHolds
  <2>5. current # NoSearch => call'[current] = call[current]
    BY <1>1 DEF IInv, TypeOK, Search, HolderIsLast
  <2>6. HolderIsLast'
    BY <1>1, <2>1, <2>5 DEF IInv, Search, HolderIsLast
  <2>7. DebtCovered'
    BY <1>1, <2>1 DEF IInv, TypeOK, Search, DebtCovered, Holding
  <2> QED
    BY <1>0, <2>2, <2>4, <2>6, <2>7 DEF IInv
<1>2. ASSUME NEW s \in Searches, Begin(s) PROVE IInv'
  BY <1>0, <1>2, BeginInv
<1>3. ASSUME NEW s \in Searches, Refused(s) PROVE IInv'
  <2>1. /\ call'[s] = "failed" /\ call[s] = "waiting"
        /\ \A u \in Searches \ {s} : call'[u] = call[u]
    BY <1>3 DEF IInv, TypeOK, Refused
  <2>2. OwnAnswer' /\ SearchingHolds'
    BY <1>3, <2>1 DEF IInv, Refused, OwnAnswer, SearchingHolds
  <2>3. DebtCovered' /\ HolderIsLast' /\ (Alive' \/ owing' = <<>>)
    BY <1>3, <2>1 DEF IInv, TypeOK, Refused, DebtCovered, HolderIsLast, Holding
  <2> QED
    BY <1>0, <2>2, <2>3 DEF IInv
<1>4. CASE Dispose
  BY <1>0, <1>4, DisposeInv
<1>5. CASE UciOk \/ ReadyOk
  BY <1>0, <1>5 DEF IInv, UciOk, ReadyOk, OwnAnswer, DebtCovered, HolderIsLast,
                    SearchingHolds, Holding
<1>6. CASE Info
  <2>1. current # NoSearch /\ owed = 0 => Head(owing) = current
    BY <1>6 DEF IInv, TypeOK, Info, DebtCovered, HolderIsLast, Holding
  <2>2. HolderIsLast'
    BY <1>6, <2>1 DEF IInv, TypeOK, Info, HolderIsLast
  <2> QED
    BY <1>0, <1>6, <2>2 DEF IInv, Info, OwnAnswer, DebtCovered, SearchingHolds, Holding
<1>7. CASE BestMove
  BY <1>0, <1>7, BestMoveInv
<1>8. CASE ReadyTimeout \/ WorkerError
  <2>1. \/ owing' = <<>> /\ UNCHANGED searchVars
        \/ UNCHANGED <<owing, worker, searchVars>>
    BY <1>8 DEF ReadyTimeout, WorkerError, Fail
  <2>2. DebtCovered' /\ HolderIsLast'
    BY <2>1 DEF IInv, TypeOK, DebtCovered, HolderIsLast, Holding
  <2>3. OwnAnswer' /\ SearchingHolds' /\ (Alive' \/ owing' = <<>>)
    BY <2>1 DEF IInv, OwnAnswer, SearchingHolds
  <2> QED
    BY <1>0, <2>2, <2>3 DEF IInv
<1>9. CASE SearchTimeout
  BY <1>0, <1>9, SearchTimeoutInv
<1>10. CASE UNCHANGED vars
  BY <1>0, <1>10 DEF vars, IInv, OwnAnswer, DebtCovered, HolderIsLast, SearchingHolds, Holding
<1> QED
  BY <1>1, <1>2, <1>3, <1>4, <1>5, <1>6, <1>7, <1>8, <1>9, <1>10
  DEF Next, Caller, Engine, Timers

\* The inductive invariant holds throughout.
THEOREM InvariantHolds == Spec => []IInv
BY InitInv, NextInv, PTL DEF Spec

\* Whatever is superseded, timed out, crashed or disposed of, a search that is
\* answered is answered with the bestmove and the lines of its own position.
THEOREM AnswersAreOwn == Spec => []OwnAnswer
<1>1. IInv => OwnAnswer
  BY DEF IInv
<1> QED
  BY <1>1, InvariantHolds, PTL

\* The client never forgets a bestmove it is still going to receive.
THEOREM DebtIsCovered == Spec => []DebtCovered
<1>1. IInv => DebtCovered
  BY DEF IInv
<1> QED
  BY <1>1, InvariantHolds, PTL

-------------------------------------------------------------------------------
\* Caller, client and worker agree on the one search that is running.
THEOREM EngineHasOneHolder == Spec => []OneHolder
<1>1. IInv => OneHolder
  BY DEF IInv, OneHolder
<1> QED
  BY <1>1, InvariantHolds, PTL

-------------------------------------------------------------------------------
(* The refinement: `current` is the holder; loading, failing and counting  *)
(* are stutters, and BestMove is an Answer because of the debt argument.   *)

serviceState == <<call, current, answer>>

LEMMA InitRefines == Init => Service!Init
BY DEF Init, Service!Init, NoAnswer, Service!NoAnswer

LEMMA TakeRefines ==
    ASSUME IInv, NEW s \in Searches, Begin(s)
    PROVE  Service!Take(s)
<1>1. s # current /\ call[s] = "waiting"
  <2>1. HolderIsLast /\ call[s] = "waiting"
    BY DEF IInv, Begin
  <2> QED
    BY <2>1, NoSearchAssumption DEF HolderIsLast
<1>2. call' = [t \in Searches |-> IF t = s THEN "searching"
                                  ELSE IF t = current THEN "superseded" ELSE call[t]]
  BY <1>1, NoSearchAssumption DEF IInv, TypeOK, Begin, Superseding
<1> QED
  BY <1>1, <1>2 DEF Begin, Service!Take

LEMMA AnswerRefines ==
    ASSUME IInv, BestMove, current # NoSearch, current' = NoSearch
    PROVE  Service!Answer(current)
<1>1. /\ owed = 0
      /\ call' = [call EXCEPT ![current] = "answered"]
      /\ answer' = [answer EXCEPT ![current] = [best |-> Head(owing), lines |-> lines]]
  BY DEF BestMove
<1>2. /\ Alive /\ owing # <<>>
      /\ Len(owing) \in Nat /\ Len(owing) > 0 /\ owing \in Seq(Searches)
  BY DEF IInv, TypeOK, BestMove
<1>3. Len(owing) = 1
  <2>1. Len(owing) <= owed + 1
    BY <1>2 DEF IInv, DebtCovered, Holding
  <2>2. Len(owing) <= 1
    BY <1>1, <2>1
  <2>3. Len(owing) \in Nat /\ Len(owing) > 0
    BY <1>2
  <2> QED
    BY <2>2, <2>3
<1>4. Head(owing) = current /\ lines \in SUBSET {current}
  <2>1. /\ owing[Len(owing)] = current
        /\ lines \in SUBSET {current}
    BY <1>2 DEF IInv, HolderIsLast
  <2>2. Head(owing) = owing[Len(owing)]
    BY <1>2, <1>3
  <2> QED
    BY <2>1, <2>2
<1> QED
  BY <1>1, <1>4 DEF Service!Answer

LEMMA StepRefines == IInv /\ [Next]_vars => [Service!Next]_serviceState
<1> SUFFICES ASSUME IInv, [Next]_vars PROVE [Service!Next]_serviceState
  OBVIOUS
<1>0. current # NoSearch => current \in Searches
  BY DEF IInv, TypeOK
<1>1. ASSUME NEW s \in Searches, Search(s) PROVE Service!Ask(s)
  BY <1>1 DEF Search, Service!Ask
<1>2. ASSUME NEW s \in Searches, Begin(s) PROVE Service!Take(s)
  BY <1>2, TakeRefines
<1>3. ASSUME NEW s \in Searches, Refused(s) PROVE Service!Refuse(s)
  BY <1>3 DEF Refused, Service!Refuse
<1>4. CASE Dispose
  <2>1. CASE current = NoSearch
    BY <1>4, <2>1 DEF Dispose, Superseding, serviceState
  <2>2. CASE current # NoSearch
    <3>1. Service!Withdraw(current)
      BY <1>4, <2>2 DEF Dispose, Superseding, Service!Withdraw
    <3> QED
      BY <1>0, <2>2, <3>1 DEF Service!Next
  <2> QED
    BY <2>1, <2>2
<1>5. CASE UciOk \/ ReadyOk \/ Info
  BY <1>5 DEF UciOk, ReadyOk, Info, serviceState
<1>6. CASE BestMove
  <2>1. CASE current # NoSearch /\ current' = NoSearch
    BY <1>0, <1>6, <2>1, AnswerRefines DEF Service!Next
  <2>2. CASE ~(current # NoSearch /\ current' = NoSearch)
    BY <1>6, <2>2 DEF BestMove, serviceState
  <2> QED
    BY <2>1, <2>2
<1>7. CASE ReadyTimeout \/ WorkerError
  BY <1>7 DEF ReadyTimeout, WorkerError, Fail, serviceState
<1>8. CASE SearchTimeout
  <2>1. lines \in SUBSET {current}
    BY <1>8 DEF IInv, HolderIsLast, SearchTimeout
  <2>2. Service!GiveUp(current)
    BY <1>8, <2>1 DEF SearchTimeout, Service!GiveUp
  <2> QED
    BY <1>0, <1>8, <2>2 DEF SearchTimeout, Service!Next
<1>9. CASE UNCHANGED vars
  BY <1>9 DEF vars, serviceState
<1>10. ASSUME NEW s \in Searches, Search(s) \/ Begin(s) \/ Refused(s)
       PROVE  Service!Next
  BY <1>1, <1>2, <1>3, <1>10 DEF Service!Next
<1> QED
  BY <1>4, <1>5, <1>6, <1>7, <1>8, <1>9, <1>10 DEF Next, Caller, Engine, Timers

\* StockfishClient implements the abstract service: every search is settled at
\* most once, by its own answer, by its successor, or by a failure to load.
THEOREM ClientRefinesService == Spec => ImplementsService
<1>1. Init => Service!Init
  BY InitRefines
<1>2. IInv /\ [Next]_vars => [Service!Next]_<<call, current, answer>>
  BY StepRefines DEF serviceState
<1> QED
  BY <1>1, <1>2, InvariantHolds, PTL
  DEF Spec, ImplementsService, Service!Spec, Service!serviceVars

===============================================================================
