----------------------------- MODULE EngineClient -----------------------------
(***************************************************************************)
(* StockfishClient (client/src/lib/stockfish.ts): one Web Worker, started  *)
(* lazily, shared by every screen; a search takes the engine away from the *)
(* one before it, and UCI puts no request id on a `bestmove`.              *)
(*                                                                         *)
(* The worker is outside src/ and is modelled from how the client uses it: *)
(* commands are handled in order, every `go` ends in exactly one bestmove, *)
(* `stop` on an idle engine says nothing, and a terminated worker delivers *)
(* nothing more.  Since every `go` is preceded by a `stop`, what the       *)
(* worker still has to say is the queue of searches it owes a bestmove.    *)
(*                                                                         *)
(* A search stands for its position; depth, node budget and MultiPV are    *)
(* abstracted, and the lines held are abstracted to the searches whose     *)
(* `info` produced them.                                                   *)
(***************************************************************************)
EXTENDS Naturals, Sequences

CONSTANTS
    Searches,     \* the searches callers may ask for, each at most once
    NoSearch,     \* `current === null`
    MaxAttempts   \* bound: how many times start() builds a new promise

ASSUME NoSearchAssumption == NoSearch \notin Searches
ASSUME MaxAttemptsAssumption == MaxAttempts \in Nat \ {0}

VARIABLES
    attempt,       \* how many ready promises start() has built
    promise,       \* promise[k]: the state of the k-th ready promise
    readyPromise,  \* the attempt start() hands out, 0 when null
    resolver,      \* the attempt resolveReady/rejectReady settle, 0 when null
    readyTimers,   \* attempts whose 60 s timer has not fired; never cleared
    worker,        \* "null", or how far the live worker's handshake has come
    owing,         \* searches the live worker owes a bestmove, oldest first
    current,       \* the search that holds the engine; its 12 s timer is armed
    owed,          \* owedBestMoves
    lines,         \* origins of the lines held in the map
    call,          \* call[s]: where the promise of search s stands
    waitsOn,       \* waitsOn[s]: the ready promise s awaits
    answer         \* history: the origin of what s was answered with

readyVars == <<attempt, promise, readyPromise, resolver, readyTimers>>
workerVars == <<worker, owing>>
searchVars == <<current, owed, lines, call, answer>>
vars == <<attempt, promise, readyPromise, resolver, readyTimers, worker,
          owing, current, owed, lines, call, waitsOn, answer>>

Attempts == 1..MaxAttempts
Settled == {"answered", "partial", "superseded", "failed"}
Calls == {"idle", "waiting", "searching"} \cup Settled
Alive == worker # "null"
NoAnswer == [best |-> NoSearch, lines |-> {}]
Answers == [best : Searches \cup {NoSearch}, lines : SUBSET Searches]

TypeOK ==
    /\ attempt \in 0..MaxAttempts
    /\ promise \in [Attempts -> {"none", "pending", "resolved", "rejected"}]
    /\ readyPromise \in 0..MaxAttempts
    /\ resolver \in 0..MaxAttempts
    /\ readyTimers \in SUBSET Attempts
    /\ worker \in {"null", "greeted", "asked", "up"}
    /\ owing \in Seq(Searches)
    /\ current \in Searches \cup {NoSearch}
    /\ owed \in Nat
    /\ lines \in SUBSET Searches
    /\ call \in [Searches -> Calls]
    /\ waitsOn \in [Searches -> 0..MaxAttempts]
    /\ answer \in [Searches -> Answers]

Init ==
    /\ attempt = 0
    /\ promise = [k \in Attempts |-> "none"]
    /\ readyPromise = 0
    /\ resolver = 0
    /\ readyTimers = {}
    /\ worker = "null"
    /\ owing = <<>>
    /\ current = NoSearch
    /\ owed = 0
    /\ lines = {}
    /\ call = [s \in Searches |-> "idle"]
    /\ waitsOn = [s \in Searches |-> 0]
    /\ answer = [s \in Searches |-> NoAnswer]

-------------------------------------------------------------------------------
(* Starting the engine, and giving up on it.                               *)

\* The continuation of an `await` runs before the next message or timer: the
\* event loop reaches neither while a settled promise still has a waiter.
Drained ==
    \A s \in Searches : call[s] = "waiting" => promise[waitsOn[s]] = "pending"

\* start() hands out the promise it already has.
StartReused == readyPromise # 0 /\ UNCHANGED <<readyVars, workerVars>>

\* start() builds a worker and greets it; the ready timer is armed for good.
StartFresh ==
    /\ readyPromise = 0 /\ attempt < MaxAttempts
    /\ attempt' = attempt + 1
    /\ promise' = [promise EXCEPT ![attempt + 1] = "pending"]
    /\ readyPromise' = attempt + 1
    /\ resolver' = attempt + 1
    /\ readyTimers' = readyTimers \cup {attempt + 1}
    /\ worker' = "greeted"
    /\ owing' = <<>>

\* createWorker throws inside the promise executor: the promise is rejected,
\* the resolvers are already assigned, and no timer is armed.
StartThrows ==
    /\ readyPromise = 0 /\ attempt < MaxAttempts
    /\ attempt' = attempt + 1
    /\ promise' = [promise EXCEPT ![attempt + 1] = "rejected"]
    /\ readyPromise' = attempt + 1
    /\ resolver' = attempt + 1
    /\ UNCHANGED <<readyTimers, workerVars>>

\* MUTANT: fail() clears the resolvers without rejecting.
FailSilently ==
    /\ resolver' = 0
    /\ worker' = "null"
    /\ owing' = <<>>
    /\ readyPromise' = 0
    /\ UNCHANGED <<attempt, promise, searchVars, waitsOn>>

\* fail(): reject the attempt whose resolvers are held, drop the worker and the
\* promise.  The running search, its timer and the debt are left as they are.
Fail ==
    /\ promise' = IF resolver = 0 THEN promise
                  ELSE [promise EXCEPT ![resolver] =
                          IF @ = "pending" THEN "rejected" ELSE @]
    /\ resolver' = 0
    /\ worker' = "null"
    /\ owing' = <<>>
    /\ readyPromise' = 0
    /\ UNCHANGED <<attempt, searchVars, waitsOn>>

\* A ready timer fires, oldest first, and gives up if any attempt is pending.
ReadyTimeout ==
    \E k \in readyTimers :
        /\ Drained
        /\ \A j \in readyTimers : k <= j
        /\ readyTimers' = readyTimers \ {k}
        /\ \/ resolver # 0 /\ Fail
           \/ /\ resolver = 0
              /\ UNCHANGED <<attempt, promise, readyPromise, resolver,
                             workerVars, searchVars, waitsOn>>

\* The worker's onerror: a load that failed, or a crash later on.
WorkerError ==
    /\ Alive /\ Drained
    /\ Fail
    /\ UNCHANGED readyTimers

-------------------------------------------------------------------------------
(* Searching.                                                              *)

\* The synchronous half of search(): call start() and await what it returns.
Search(s) ==
    /\ call[s] = "idle"
    /\ StartReused \/ StartFresh \/ StartThrows
    /\ call' = [call EXCEPT ![s] = "waiting"]
    /\ waitsOn' = [waitsOn EXCEPT ![s] = readyPromise']
    /\ UNCHANGED <<current, owed, lines, answer>>

\* MUTANT: stopCurrent() leaves the holder's promise unsettled.
SupersedingSilently(status) == status

\* MUTANT: stopCurrent() forgets that the holder still owes its bestmove.
OwedForgotten == owed

\* stopCurrent(): the search that holds the engine is rejected and counted.
Superseding(status) ==
    IF current = NoSearch THEN status
    ELSE [status EXCEPT ![current] = "superseded"]
OwedAfterStop == IF current = NoSearch THEN owed ELSE owed + 1

\* The half of search() after the await: take the engine and post `go`.
Begin(s) ==
    /\ call[s] = "waiting" /\ promise[waitsOn[s]] = "resolved" /\ Alive
    /\ call' = [Superseding(call) EXCEPT ![s] = "searching"]
    /\ owed' = OwedAfterStop
    /\ lines' = {}
    /\ current' = s
    /\ owing' = Append(owing, s)
    /\ UNCHANGED <<readyVars, worker, waitsOn, answer>>

\* The await threw, or the worker was put away while the caller waited.
Refused(s) ==
    /\ call[s] = "waiting"
    /\ \/ promise[waitsOn[s]] = "rejected"
       \/ promise[waitsOn[s]] = "resolved" /\ ~Alive
    /\ call' = [call EXCEPT ![s] = "failed"]
    /\ UNCHANGED <<readyVars, workerVars, current, owed, lines, waitsOn, answer>>

\* MUTANT: the timer does not count the bestmove it stops waiting for.
SearchTimeoutUncounted ==
    /\ current # NoSearch /\ Drained
    /\ call' = [call EXCEPT ![current] = "partial"]
    /\ answer' = [answer EXCEPT ![current] = [best |-> NoSearch, lines |-> lines]]
    /\ current' = NoSearch
    /\ UNCHANGED <<readyVars, workerVars, owed, lines, waitsOn>>

\* The 12 s timer: the search is resolved with the lines it has and still owes.
SearchTimeout ==
    /\ current # NoSearch /\ Drained
    /\ owed' = owed + 1
    /\ call' = [call EXCEPT ![current] = "partial"]
    /\ answer' = [answer EXCEPT ![current] = [best |-> NoSearch, lines |-> lines]]
    /\ current' = NoSearch
    /\ UNCHANGED <<readyVars, workerVars, lines, waitsOn>>

\* dispose(): the holder is superseded, the worker terminated, the promise
\* dropped.  The resolvers and the ready timers stay.
Dispose ==
    /\ call' = Superseding(call)
    /\ owed' = OwedAfterStop
    /\ current' = NoSearch
    /\ worker' = "null"
    /\ owing' = <<>>
    /\ readyPromise' = 0
    /\ UNCHANGED <<attempt, promise, resolver, readyTimers, lines, waitsOn,
                   answer>>

-------------------------------------------------------------------------------
(* handleMessage().                                                        *)

\* `uciok` is answered with `isready`.
UciOk ==
    /\ worker = "greeted" /\ Drained
    /\ worker' = "asked"
    /\ UNCHANGED <<readyVars, owing, searchVars, waitsOn>>

\* `readyok` resolves the attempt whose resolvers are held.
ReadyOk ==
    /\ worker = "asked" /\ Drained
    /\ worker' = "up"
    /\ promise' = IF resolver = 0 THEN promise
                  ELSE [promise EXCEPT ![resolver] =
                          IF @ = "pending" THEN "resolved" ELSE @]
    /\ resolver' = 0
    /\ UNCHANGED <<attempt, readyPromise, readyTimers, owing, searchVars,
                   waitsOn>>

\* `info`, from the search the worker is on: kept for the current search unless
\* an abandoned search still owes its bestmove.
Info ==
    /\ worker \in {"asked", "up"} /\ Drained /\ owing # <<>>
    /\ lines' = IF owed > 0 \/ current = NoSearch THEN lines
                ELSE lines \cup {Head(owing)}
    /\ UNCHANGED <<readyVars, workerVars, current, owed, call, waitsOn, answer>>

\* MUTANT: the original defect, a bestmove resolves whatever is current.
BestMoveHasty ==
    /\ worker \in {"asked", "up"} /\ Drained /\ owing # <<>>
    /\ owing' = Tail(owing)
    /\ \/ current = NoSearch /\ UNCHANGED <<current, call, answer>>
       \/ /\ current # NoSearch
          /\ call' = [call EXCEPT ![current] = "answered"]
          /\ answer' = [answer EXCEPT ![current] =
                          [best |-> Head(owing), lines |-> lines]]
          /\ current' = NoSearch
    /\ UNCHANGED <<readyVars, worker, owed, lines, waitsOn>>

\* MUTANT: every bestmove is taken for a debt.
BestMoveUnconditional ==
    /\ worker \in {"asked", "up"} /\ Drained /\ owing # <<>>
    /\ owing' = Tail(owing)
    /\ owed' = owed - 1
    /\ UNCHANGED <<readyVars, worker, current, lines, call, waitsOn, answer>>

\* `bestmove`, from the oldest search the worker owes: pays a debt if there is
\* one, is dropped if nobody is waiting, and otherwise answers the current one.
BestMove ==
    /\ worker \in {"asked", "up"} /\ Drained /\ owing # <<>>
    /\ owing' = Tail(owing)
    /\ \/ owed > 0 /\ owed' = owed - 1 /\ UNCHANGED <<current, call, answer>>
       \/ owed = 0 /\ current = NoSearch /\ UNCHANGED <<owed, current, call, answer>>
       \/ /\ owed = 0 /\ current # NoSearch
          /\ call' = [call EXCEPT ![current] = "answered"]
          /\ answer' = [answer EXCEPT ![current] =
                          [best |-> Head(owing), lines |-> lines]]
          /\ current' = NoSearch
          /\ UNCHANGED owed
    /\ UNCHANGED <<readyVars, worker, lines, waitsOn>>

-------------------------------------------------------------------------------
Caller == (\E s \in Searches : Search(s) \/ Begin(s) \/ Refused(s)) \/ Dispose
Engine == UciOk \/ ReadyOk \/ Info \/ BestMove
Timers == ReadyTimeout \/ SearchTimeout

Next == Caller \/ Engine \/ Timers \/ WorkerError

Spec == Init /\ [][Next]_vars

-------------------------------------------------------------------------------
(* Safety.                                                                 *)

Holding == IF current = NoSearch THEN 0 ELSE 1

\* A bestmove that answers a search is that search's own, and the lines it is
\* answered with were computed for its position: UCI tags nothing, so this rests
\* on the debt alone (handleMessage, stopCurrent, the 12 s timer).
OwnAnswer ==
    \A s \in Searches :
        /\ call[s] = "answered" => answer[s].best = s
        /\ answer[s].lines \subseteq {s}

\* The worker never owes more bestmoves than the client is prepared to absorb:
\* those it will throw away and the one it is waiting for (owedBestMoves).
DebtCovered == Alive => Len(owing) <= owed + Holding

\* The search that holds the engine is the last one the worker was given, and
\* the lines held are its own.
HolderIsLast ==
    current # NoSearch =>
        /\ call[current] = "searching"
        /\ owing # <<>> => owing[Len(owing)] = current
        /\ lines \subseteq {current}

\* Whoever searches holds the engine, so no caller is left with a promise that
\* neither a bestmove, the timer nor a successor will settle.
SearchingHolds == \A s \in Searches : call[s] = "searching" => s = current

\* There is one search at a time for the client, its caller and the worker:
\* the one the caller awaits, that was posted last, whose lines are collected.
OneHolder == HolderIsLast /\ SearchingHolds

-------------------------------------------------------------------------------
(* What the comments of the file say, and its code does not do.            *)

\* stockfish.ts:110 "Every abandoned search owes exactly one `bestmove`; we
\* count them and throw them away": what is counted is what is owed.
DebtExact == Alive => Len(owing) = owed + Holding

\* stockfish.ts:343 "Give up on THIS attempt, and only on this attempt": a
\* ready timer that fires rejects the promise it was armed for and no other.
OnlyThisAttempt ==
    [][\A k \in readyTimers \ readyTimers' : \A j \in Attempts \ {k} :
          promise'[j] = promise[j]]_vars

-------------------------------------------------------------------------------
(* Liveness: the timers alone settle every search, however the worker      *)
(* behaves, but for those that a restart after a dispose() has stranded.   *)

Fairness ==
    /\ WF_vars(ReadyTimeout)
    /\ WF_vars(SearchTimeout)
    /\ \A s \in Searches : WF_vars(Begin(s)) /\ WF_vars(Refused(s))

LiveSpec == Spec /\ Fairness

\* Awaits a ready promise whose resolvers a later start() has overwritten.
Stranded(s) ==
    /\ call[s] = "waiting"
    /\ promise[waitsOn[s]] = "pending"
    /\ attempt > waitsOn[s]

\* Every search a caller asked for is settled, one way or another ("an engine
\* that never arrives has to end in a sentence rather than a spinner"), unless
\* its client was disposed of while loading and then searched again.
EverySearchSettles ==
    \A s \in Searches : call[s] # "idle" ~> call[s] \in Settled \/ Stranded(s)

-------------------------------------------------------------------------------
(* The service the screens rely on, with `current` as the holder.          *)

Service == INSTANCE SearchService WITH holder <- current

ImplementsService == Service!Spec
===============================================================================
