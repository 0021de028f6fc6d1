---------------------------- MODULE RecordReveal ----------------------------
(***************************************************************************)
(* One decision from the press of the commit button to the stored verdict: *)
(* the page (Home.tsx: onCommit, onAnswerProbe, runReveal, retryReveal),   *)
(* the four calls it may make, and what each call does to the tables on    *)
(* the server (record-service.ts over DrizzleRecordStore), one database    *)
(* statement per step.  Rows of different decisions never meet, so one     *)
(* decision is enough.                                                     *)
(*                                                                         *)
(* The network may lose the answer to any call: the page then goes on as   *)
(* if the call had failed while the server carries on with it, at any      *)
(* later time, or never.  A statement may fail, which ends its call.       *)
(***************************************************************************)
EXTENDS Naturals

CONSTANTS Moves,         \* moves the player may name, the chosen one included
          Chosen,        \* the committed move
          NoRow,         \* no counterfactual row
          NoMove,        \* a null move
          MaxSearches,   \* bound: searches the player may ask for
          Says           \* what each search finds, as the record stores it

Searches == 1..MaxSearches

ASSUME RevealAssumption == /\ Chosen \in Moves
                           /\ NoRow \notin Moves
                           /\ NoMove \notin Moves
                           /\ NoRow # NoMove
                           /\ MaxSearches \in Nat \ {0}
                           /\ DOMAIN Says = Searches

Calls == {"commit", "answer", "first", "second"}
RevealCalls == {"first", "second"}

\* No payload has been built.
NoPayload == [search |-> 0, cost |-> 0]

VARIABLES
  \* the page
  stage, arm, named, alternative, runs, payload,
  \* the calls: how far the server is with each, and what it has read
  pc, body, seen,
  \* the tables: decisions, decision_counterfactuals (two columns),
  \* decision_reveals
  decision, answer, price, verdict

pageVars == <<stage, arm, named, alternative, runs, payload>>
callVars == <<pc, body, seen>>
tables == <<decision, answer, price, verdict>>
vars == <<pageVars, callVars, tables>>

Payloads == [search : 0..MaxSearches, cost : 0..MaxSearches]
Stages == {"deciding", "committing", "uncommitted", "probe", "answering",
           "searching", "engineFailed", "writing", "rewriting",
           "revealed", "writeFailed"}
Steps == {"idle", "begin", "check", "insert", "answers", "hasReveal",
          "record", "score", "reread", "done", "refused", "conflict", "failed"}
Over == {"done", "refused", "conflict", "failed"}

TypeOK ==
  /\ stage \in Stages
  /\ arm \in {"undrawn", "probed", "not-probed"}
  /\ named \in Moves \cup {NoMove}
  /\ alternative \in Moves \cup {NoMove}
  /\ runs \in 0..MaxSearches
  /\ payload \in Payloads
  /\ pc \in [Calls -> Steps]
  /\ body \in [RevealCalls -> Payloads]
  /\ seen \in [RevealCalls ->
                 [verdict : 0..MaxSearches,
                  answer : Moves \cup {NoMove, NoRow},
                  price : 0..MaxSearches]]
  /\ decision \in {"absent", "stored"}
  /\ answer \in Moves \cup {NoMove, NoRow}
  /\ price \in 0..MaxSearches
  /\ verdict \in 0..MaxSearches

Init ==
  /\ stage = "deciding"
  /\ arm = "undrawn"
  /\ named = NoMove
  /\ alternative = NoMove
  /\ runs = 0
  /\ payload = NoPayload
  /\ pc = [c \in Calls |-> "idle"]
  /\ body = [c \in RevealCalls |-> NoPayload]
  /\ seen = [c \in RevealCalls |-> [verdict |-> 0, answer |-> NoRow, price |-> 0]]
  /\ decision = "absent"
  /\ answer = NoRow
  /\ price = 0
  /\ verdict = 0

\* A call moves to step s; a call to the server starts at "begin".
To(c, s) == pc' = [pc EXCEPT ![c] = s]

-----------------------------------------------------------------------------
(* The page.                                                               *)

\* The call the page is awaiting fails for it when the server refused or
\* failed, or when the answer is lost on the way -- whatever the server did
\* or will still do with it.
SeenToFail(c) == pc[c] # "idle"

\* onCommit up to the await of the mutation; the arm is drawn in
\* buildCommitEvent and travels with the decision.
PressCommit ==
  /\ stage = "deciding"
  /\ stage' = "committing"
  /\ arm' \in {"probed", "not-probed"}
  /\ To("commit", "begin")
  /\ UNCHANGED <<named, alternative, runs, payload, body, seen, tables>>

\* A stored decision of the probed arm asks its question; the other arm goes
\* straight to runReveal.
CommitHeard ==
  /\ stage = "committing"
  /\ pc["commit"] = "done"
  /\ IF arm = "probed"
       THEN stage' = "probe" /\ UNCHANGED runs
       ELSE stage' = "searching" /\ runs' = 1
  /\ UNCHANGED <<arm, named, alternative, payload, callVars, tables>>

\* MUTANT: the reveal is started anyway.
CommitFailedRunsAnyway ==
  /\ stage = "committing"
  /\ SeenToFail("commit")
  /\ stage' = "searching"
  /\ runs' = 1
  /\ UNCHANGED <<arm, named, alternative, payload, callVars, tables>>

\* "A decision that was not stored must never look like one that was": back to
\* the board, and the next press is another decision.
CommitFailed ==
  /\ stage = "committing"
  /\ SeenToFail("commit")
  /\ stage' = "uncommitted"
  /\ UNCHANGED <<arm, named, alternative, runs, payload, callVars, tables>>

\* onAnswerProbe: a move, or "I had nothing else" (null).
AnswerProbe ==
  /\ stage = "probe"
  /\ stage' = "answering"
  /\ named' \in Moves \cup {NoMove}
  /\ To("answer", "begin")
  /\ UNCHANGED <<arm, alternative, runs, payload, body, seen, tables>>

AnswerHeard ==
  /\ stage = "answering"
  /\ pc["answer"] = "done"
  /\ stage' = "searching"
  /\ runs' = 1
  /\ alternative' = named
  /\ UNCHANGED <<arm, named, payload, callVars, tables>>

\* A failed write does not cost the player the reveal; it goes on with no
\* alternative to score.
AnswerFailed ==
  /\ stage = "answering"
  /\ SeenToFail("answer")
  /\ stage' = "searching"
  /\ runs' = 1
  /\ alternative' = NoMove
  /\ UNCHANGED <<arm, named, payload, callVars, tables>>

\* The engine answered: the payload is built once and sent.  The alternative
\* is priced from the same lines, or not at all when it is not among them.
EngineAnswers ==
  /\ stage = "searching"
  /\ stage' = "writing"
  /\ \E cost \in {0, runs} :
       /\ alternative = NoMove => cost = 0
       /\ payload' = [search |-> runs, cost |-> cost]
  /\ body' = [body EXCEPT !["first"] = payload']
  /\ To("first", "begin")
  /\ UNCHANGED <<arm, named, alternative, runs, seen, tables>>

\* No evaluation: nothing is written.
EngineFails ==
  /\ stage = "searching"
  /\ stage' = "engineFailed"
  /\ UNCHANGED <<arm, named, alternative, runs, payload, callVars, tables>>

\* retryReveal: the same run on a new engine.
RetryReveal ==
  /\ stage = "engineFailed"
  /\ runs < MaxSearches
  /\ runs' = runs + 1
  /\ stage' = "searching"
  /\ UNCHANGED <<arm, named, alternative, payload, callVars, tables>>

\* MUTANT: the payload is computed again, from another search.
ResendRecomputed ==
  LET next == IF payload.search < MaxSearches THEN payload.search + 1 ELSE 1
  IN  [search |-> next, cost |-> IF payload.cost = 0 THEN 0 ELSE next]

\* retryOnce: the second attempt sends the first attempt's bytes.
Resend == payload

WriteFailsOnce ==
  /\ stage = "writing"
  /\ SeenToFail("first")
  /\ stage' = "rewriting"
  /\ body' = [body EXCEPT !["second"] = Resend]
  /\ To("second", "begin")
  /\ UNCHANGED <<arm, named, alternative, runs, payload, seen, tables>>

WriteFailsTwice ==
  /\ stage = "rewriting"
  /\ SeenToFail("second")
  /\ stage' = "writeFailed"
  /\ UNCHANGED <<arm, named, alternative, runs, payload, callVars, tables>>

WriteHeard ==
  /\ \/ stage = "writing" /\ pc["first"] = "done"
     \/ stage = "rewriting" /\ pc["second"] = "done"
  /\ stage' = "revealed"
  /\ UNCHANGED <<arm, named, alternative, runs, payload, callVars, tables>>

-----------------------------------------------------------------------------
(* The server: one database statement per step.                            *)

\* commitDecision: its checks of the event may refuse, and its writes are one
\* insert.
CommitChecks ==
  /\ pc["commit"] = "begin"
  /\ \E s \in {"insert", "refused"} : To("commit", s)
  /\ UNCHANGED <<pageVars, body, seen, tables>>

InsertDecision ==
  /\ pc["commit"] = "insert"
  /\ To("commit", "done")
  /\ decision' = "stored"
  /\ UNCHANGED <<pageVars, body, seen, answer, price, verdict>>

\* recordCounterfactual: the alternative may not be the committed move; then
\* the store reads the decision and its arm.
AnswerBegins ==
  /\ pc["answer"] = "begin"
  /\ To("answer", IF named = Chosen \/ decision = "absent" \/ arm # "probed"
                    THEN "refused" ELSE "check")
  /\ UNCHANGED <<pageVars, body, seen, tables>>

\* ... refuses once the engine has spoken ...
AnswerChecks ==
  /\ pc["answer"] = "check"
  /\ To("answer", IF verdict # 0 THEN "refused" ELSE "insert")
  /\ UNCHANGED <<pageVars, body, seen, tables>>

\* ... and inserts, append-only (decision_id is the primary key).
InsertAnswer ==
  /\ pc["answer"] = "insert"
  /\ IF answer = NoRow
       THEN answer' = named /\ To("answer", "done")
       ELSE UNCHANGED answer /\ To("answer", "failed")
  /\ UNCHANGED <<pageVars, body, seen, decision, price, verdict>>

\* reveal: getAtom reads the reveal row ...
RevealBegins(c) ==
  /\ pc[c] = "begin"
  /\ To(c, IF decision = "absent" THEN "refused" ELSE "answers")
  /\ seen' = [seen EXCEPT ![c] = [verdict |-> verdict, answer |-> @.answer,
                                price |-> @.price]]
  /\ UNCHANGED <<pageVars, body, tables>>

\* ... and then the counterfactual row.
ReadAnswers(c) ==
  /\ pc[c] = "answers"
  /\ To(c, "hasReveal")
  /\ seen' = [seen EXCEPT ![c] = [verdict |-> @.verdict,
                                answer |-> answer, price |-> price]]
  /\ UNCHANGED <<pageVars, body, tables>>

\* sameVerdict: the six stored fields of the result, compared with the atom
\* read before.
SameVerdict(c) == /\ seen[c].verdict # 0
                  /\ Says[seen[c].verdict] = Says[body[c].search]

\* MUTANT: a replay completes nothing.
FillsNothing(c) == FALSE

\* A replay fills the price when the atom it read has an unpriced move.
FillsPrice(c) == /\ body[c].cost # 0
                 /\ seen[c].answer \in Moves
                 /\ seen[c].price = 0

\* MUTANT: the price is written before the reveal.
HasRevealScoresFirst(c) ==
  /\ pc[c] = "hasReveal"
  /\ To(c, IF verdict = 0 /\ body[c].cost = 0 THEN "record"
           ELSE IF ~SameVerdict(c) /\ verdict # 0 THEN "conflict"
           ELSE IF body[c].cost # 0 THEN "score" ELSE "reread")
  /\ UNCHANGED <<pageVars, body, seen, tables>>

\* hasReveal: a first reveal is recorded, a replay completed, another verdict
\* refused.
HasReveal(c) ==
  /\ pc[c] = "hasReveal"
  /\ To(c, IF verdict = 0 THEN "record"
           ELSE IF ~SameVerdict(c) THEN "conflict"
           ELSE IF FillsPrice(c) THEN "score" ELSE "reread")
  /\ UNCHANGED <<pageVars, body, seen, tables>>

\* recordReveal: an insert under the primary key, then the price.
InsertReveal(c) ==
  /\ pc[c] = "record"
  /\ IF verdict = 0
       THEN /\ verdict' = body[c].search
            /\ To(c, IF body[c].cost # 0 THEN "score" ELSE "reread")
       ELSE UNCHANGED verdict /\ To(c, "failed")
  /\ UNCHANGED <<pageVars, body, seen, decision, answer, price>>

\* scoreCounterfactual: needs a row that names a move; the update has no guard
\* of its own.  The row it selects is never deleted and its move never
\* changes, so its two statements are one step.
ScoreCounterfactual(c) ==
  /\ pc[c] = "score"
  /\ IF answer \in Moves
       THEN price' = body[c].cost /\ To(c, "reread")
       ELSE UNCHANGED price /\ To(c, "refused")
  /\ UNCHANGED <<pageVars, body, seen, decision, answer, verdict>>

\* The atom is read once more and returned.
Reread(c) ==
  /\ pc[c] = "reread"
  /\ To(c, "done")
  /\ UNCHANGED <<pageVars, body, seen, tables>>

\* A statement fails, or the process dies: what was written stays.
StatementFails(c) ==
  /\ pc[c] \notin Over \cup {"idle"}
  /\ To(c, "failed")
  /\ UNCHANGED <<pageVars, body, seen, tables>>

-----------------------------------------------------------------------------
Page ==
  \/ PressCommit \/ CommitHeard \/ CommitFailed
  \/ AnswerProbe \/ AnswerHeard \/ AnswerFailed
  \/ EngineAnswers \/ EngineFails \/ RetryReveal
  \/ WriteFailsOnce \/ WriteFailsTwice \/ WriteHeard

Server ==
  \/ CommitChecks \/ InsertDecision
  \/ AnswerBegins \/ AnswerChecks \/ InsertAnswer
  \/ \E c \in RevealCalls :
       \/ RevealBegins(c) \/ ReadAnswers(c) \/ HasReveal(c)
       \/ InsertReveal(c) \/ ScoreCounterfactual(c) \/ Reread(c)
  \/ \E c \in Calls : StatementFails(c)

Next == Page \/ Server

Spec == Init /\ [][Next]_vars

-----------------------------------------------------------------------------
(* Properties.                                                             *)

\* GATE-COMMIT: no search has been started for a decision that is not on the
\* record, even when the answer to the commit was lost (Home.tsx onCommit).
EngineWaitsForTheRecord == runs > 0 => decision = "stored"

\* The alternative a reveal is going to price is the one on the record: a
\* reading of a move the record does not hold would be a reading of nothing
\* (Home.tsx onAnswerProbe).
ScoredMoveIsOnRecord == alternative # NoMove => answer = alternative

\* The page never runs ahead of the record.
PageFollowsTheRecord == EngineWaitsForTheRecord /\ ScoredMoveIsOnRecord

\* When the page is told that the reveal is stored, it is stored with this
\* payload's verdict, and with its price when it carried one -- also when the
\* first attempt died between the two writes and the second completed it
\* (reveal in record-service.ts, retryOnce).
SuccessMeansComplete ==
  stage = "revealed" => /\ verdict = payload.search
                        /\ payload.cost # 0 => price = payload.cost

\* Verdict and price on the record come from one search, in whatever order the
\* server runs the two attempts of retryOnce (Home.tsx runReveal: "two numbers
\* from two trees under one decision").
PriceFromTheVerdictsSearch == price # 0 => price = verdict

\* One decision on the record behaves like an append-only record.
Record == INSTANCE DecisionRecord
ImplementsRecord == Record!Spec

\* A reveal is refused as a CONFLICT only when it says something else than the
\* stored one.
ConflictMeansDifferent ==
  \A c \in RevealCalls : pc[c] = "conflict" => Says[verdict] # Says[body[c].search]

=============================================================================
