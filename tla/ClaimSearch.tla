---------------------------- MODULE ClaimSearch ----------------------------
(***************************************************************************)
(* How a claim about the player comes out of the record: currentClaim and  *)
(* registerHypothesis of record-service.ts, with the population that       *)
(* evidence-policy.ts admits, the search of detector.ts, and the server's  *)
(* statements, while decisions are committed and revealed in other tabs.   *)
(*                                                                         *)
(* A decision keeps what the search tells apart: its regime (protocol,     *)
(* timing, exposure; 0 if it may not be read at all), its phase, whether   *)
(* the engine has spoken, and the second it was stored in: seconds are all *)
(* that createdAt keeps, and all the store's order knows of.  Its number   *)
(* is its place in the order of the commits.  Whether two phases separate  *)
(* is a choice; how many decisions that takes is not.                      *)
(***************************************************************************)
EXTENDS Naturals, Sequences, FiniteSets

CONSTANTS
    Callers,           \* queries of the claim, or registrations, at work at a time
    Phases,            \* the buckets
    Regimes,           \* in the order of their ids
    MinBucketN,        \* MIN_BUCKET_N
    PreMinBucketN,     \* PREREGISTERED_MIN_BUCKET_N
    PerSecond,         \* bound: decisions that are stored within one second
    MaxDecisions,      \* bound: decisions
    MaxOpen,           \* bound: admitted decisions whose verdict is still out
    MaxSearches,       \* bound: queries that have read their list and not searched it
    MaxHypotheses      \* bound: registrations

ASSUME SearchAssumption ==
    /\ Regimes \subseteq Nat \ {0}
    /\ {MinBucketN, PreMinBucketN, PerSecond} \subseteq Nat \ {0}
    /\ {MaxDecisions, MaxOpen, MaxSearches, MaxHypotheses} \subseteq Nat

VARIABLES
    record,      \* decisions, in the order the store lists them
    hypotheses,  \* preregistered_hypotheses, as they came
    claims,      \* claims, by their phase
    call         \* what each caller has read

vars == <<record, hypotheses, claims, call>>

Numbers == 1..MaxDecisions
NoClaim == [support |-> {}, under |-> 0]
Idle == [pc |-> "idle", atoms |-> <<>>, count |-> 0, phase |-> "none", found |-> NoClaim]

Decision == [no : Numbers, second : Nat \ {0}, regime : Regimes \cup {0},
             phase : Phases \cup {"none"}, seen : BOOLEAN]
Hypothesis == [phase : Phases, before : 0..MaxDecisions]
Claim == [support : SUBSET (0..MaxDecisions), under : Nat]
Call == [pc : {"idle", "search", "save", "register"}, atoms : Seq(Decision),
         count : 0..MaxDecisions, phase : Phases \cup {"none"}, found : Claim]

TypeOK ==
    /\ record \in Seq(Decision) /\ Len(record) <= MaxDecisions
    /\ hypotheses \in Seq(Hypothesis)
    /\ claims \in [Phases -> Claim]
    /\ call \in [Callers -> Call]

\* The second of the last row.
Latest == IF record = <<>> THEN 0 ELSE record[Len(record)].second

\* What may be decided next, in the same second or a later one.  Of a decision
\* that is not admitted nothing is read.
Taken ==
    LET new == [no : {Len(record) + 1}, second : {Latest, Latest + 1} \ {0},
                regime : Regimes \cup {0}, phase : Phases \cup {"none"}, seen : {FALSE}]
    IN  {d \in new : d.regime = 0 <=> d.phase = "none"}

Init ==
    /\ record = <<>>
    /\ hypotheses = <<>>
    /\ claims = [p \in Phases |-> NoClaim]
    /\ call = [c \in Callers |-> Idle]

\* admit: the positions of a list that may be read.
Admitted(atoms) == {k \in DOMAIN atoms : atoms[k].regime # 0}

Numbered(list) == {list[k].no : k \in DOMAIN list}
Fact(no) == CHOOSE d \in {record[k] : k \in DOMAIN record} : d.no = no

-----------------------------------------------------------------------------
(* The record grows.                                                       *)

OfSecond(second) == {k \in DOMAIN record : record[k].second = second}

\* A decision is stored.  The server lists by createdAt, to the second, and
\* then by decisionId: within a second a later one may come before.
Commit(d) ==
    /\ Len(record) < MaxDecisions
    /\ Cardinality(OfSecond(d.second)) < PerSecond
    /\ d.regime # 0 => Cardinality({k \in Admitted(record) : ~record[k].seen}) < MaxOpen
    /\ \E n \in 0..Len(record) :
         /\ (n + 1)..Len(record) \subseteq OfSecond(d.second)
         /\ record' = SubSeq(record, 1, n) \o <<d>> \o SubSeq(record, n + 1, Len(record))
    /\ UNCHANGED <<hypotheses, claims, call>>

\* The engine's verdict is stored (of the others nobody reads it).
Reveal(k) ==
    /\ k \in Admitted(record) /\ ~record[k].seen
    /\ record' = [record EXCEPT ![k].seen = TRUE]
    /\ UNCHANGED <<hypotheses, claims, call>>

-----------------------------------------------------------------------------
(* registerHypothesis.                                                     *)

\* The boundary is the store's count ...
CountDecisions(c) ==
    /\ call[c].pc = "idle"
    /\ Len(hypotheses) + Cardinality({other \in Callers : call[other].pc = "register"}) < MaxHypotheses
    /\ call' = [call EXCEPT ![c] = [Idle EXCEPT !.pc = "register", !.count = Len(record)]]
    /\ UNCHANGED <<record, hypotheses, claims>>

\* ... and is stored with the phase the imported games named.
SaveHypothesis(c) ==
    /\ call[c].pc = "register"
    /\ \E p \in Phases :
         hypotheses' = Append(hypotheses, [phase |-> p, before |-> call[c].count])
    /\ call' = [call EXCEPT ![c] = Idle]
    /\ UNCHANGED <<record, claims>>

-----------------------------------------------------------------------------
(* currentClaim.                                                           *)

ListAtoms(c) ==
    /\ call[c].pc = "idle"
    /\ Cardinality({other \in Callers : call[other].pc = "search"}) < MaxSearches
    /\ call' = [call EXCEPT ![c] = [Idle EXCEPT !.pc = "search", !.atoms = record]]
    /\ UNCHANGED <<record, hypotheses, claims>>

\* forDiscovery: strata are by regime and by the engine build, which an
\* unrevealed decision has none of.
Stratum(d) == <<d.regime, d.seen>>
Before(s, t) == s[1] < t[1] \/ (s[1] = t[1] /\ ~s[2] /\ t[2])

\* discoverySearchPopulation: the largest stratum, of two the first by its id.
Chosen(atoms, ks) ==
    LET strata == {Stratum(atoms[k]) : k \in ks}
        size == [s \in strata |-> Cardinality({k \in ks : Stratum(atoms[k]) = s})]
        largest == {s \in strata : \A t \in strata : size[s] >= size[t]}
    IN  {k \in ks : /\ Stratum(atoms[k]) \in largest
                    /\ \A t \in largest : ~Before(t, Stratum(atoms[k]))}

\* Mutant: the regimes are pooled.
ScoredPooled(atoms, ks) == {k \in ks : atoms[k].seen}

\* scoreDecisions, of decisions that were all asked for a confidence.
Scored(atoms, ks) == {k \in Chosen(atoms, ks) : atoms[k].seen}

WideEnough(atoms) == Cardinality(Scored(atoms, Admitted(atoms))) >= 2 * MinBucketN

\* Mutant: the boundary is one short.
SinceOffByOne(atoms, hypothesis) == {k \in Admitted(atoms) : k >= hypothesis.before}

\* What has been decided since a hypothesis: the list is cut first, and filtered
\* then, because the boundary counts rows.
Since(atoms, hypothesis) == {k \in Admitted(atoms) : k > hypothesis.before}

\* listDecisionIds, a read of its own: the id that is now at a position.
Label(k) == IF k \in DOMAIN record THEN record[k].no ELSE 0

\* The newest hypothesis narrows the search as long as the record is too small
\* for the whole search and has grown (isTestable).
Newest == hypotheses[Len(hypotheses)]
Narrowing(atoms) ==
    hypotheses # <<>> /\ ~WideEnough(atoms) /\ Len(atoms) > Newest.before

\* To its phase, to what was decided since, and to a lower floor.
Population(atoms) ==
    Scored(atoms, IF Narrowing(atoms) THEN Since(atoms, Newest) ELSE Admitted(atoms))
Searched(atoms) == IF Narrowing(atoms) THEN {Newest.phase} ELSE Phases
Least(atoms) == IF Narrowing(atoms) THEN PreMinBucketN ELSE MinBucketN

Inside(atoms, p) == {k \in Population(atoms) : atoms[k].phase = p}
Found(atoms, p) == [support |-> {Label(k) : k \in Inside(atoms, p)},
                    under |-> IF Narrowing(atoms) THEN Len(hypotheses) ELSE 0]

\* detect and selectClaim: of the phases that have enough decisions inside and
\* outside, at most one separates from the rest and is kept; one that is kept
\* already is read back.  (The reads of the ids, the hypothesis and the claim
\* are one step: what could come between them does as much before or after.)
Search(c) ==
    /\ call[c].pc = "search"
    /\ LET atoms == call[c].atoms
       IN  \/ call' = [call EXCEPT ![c] = Idle]
           \/ \E p \in Searched(atoms) :
                /\ claims[p] = NoClaim
                /\ Cardinality(Inside(atoms, p)) >= Least(atoms)
                /\ Cardinality(Population(atoms) \ Inside(atoms, p)) >= Least(atoms)
                /\ call' = [call EXCEPT ![c] =
                     [Idle EXCEPT !.pc = "save", !.phase = p, !.found = Found(atoms, p)]]
    /\ UNCHANGED <<record, hypotheses, claims>>

\* Mutant: the row is written as it is, as the browser's store does.
UpsertWhole(p, found) == claims' = [claims EXCEPT ![p] = found]

\* saveClaim: of a row that is there only the grade is written, which is left
\* to DrillClaim.
Upsert(p, found) == claims' = [claims EXCEPT ![p] = IF @ = NoClaim THEN found ELSE @]

SaveClaim(c) ==
    /\ call[c].pc = "save"
    /\ Upsert(call[c].phase, call[c].found)
    /\ call' = [call EXCEPT ![c] = Idle]
    /\ UNCHANGED <<record, hypotheses>>

-----------------------------------------------------------------------------
Next ==
    \/ \E d \in Taken : Commit(d)
    \/ \E k \in DOMAIN record : Reveal(k)
    \/ \E c \in Callers : CountDecisions(c) \/ SaveHypothesis(c) \/ ListAtoms(c)
                          \/ Search(c) \/ SaveClaim(c)

Spec == Init /\ [][Next]_vars

-----------------------------------------------------------------------------
(* What holds, up to what the store's seconds can tell.                    *)

\* What a claim the narrowed search found rests on was decided after its
\* hypothesis was counted, or in one second with a decision that was, whatever
\* was committed, revealed or registered between the reads (currentClaim,
\* registerHypothesis).
TestedOnTheFuture ==
    \A p \in Phases : claims[p].under # 0 =>
      LET before == hypotheses[claims[p].under].before
      IN  \A no \in claims[p].support \cap 1..before :
            \E k \in OfSecond(Fact(no).second) : record[k].no > before

\* The state has its shape, and the decisions a claim names, or others of their
\* seconds, are what it says of them: on the record, revealed, of its phase, of
\* one regime.  It names as many as the search that found it needs.  All this
\* although atoms and ids are two reads of a record that grows and whose last
\* second is still being sorted (currentClaim, discoverySearchPopulation,
\* scoreDecisions).
SupportIsOnePopulation ==
    /\ TypeOK
    /\ \A p \in Phases : claims[p] # NoClaim =>
         LET support == claims[p].support
         IN  /\ support \subseteq Numbered(record)
             /\ \E r \in Regimes : \A no \in support :
                  \E k \in OfSecond(Fact(no).second) :
                    record[k].seen /\ record[k].phase = p /\ record[k].regime = r
             /\ Cardinality(support) >=
                  (IF claims[p].under = 0 THEN MinBucketN ELSE PreMinBucketN)

\* A claim keeps the evidence it was stored with, also when two callers find it
\* at once (saveClaim).
EvidenceIsFinal ==
    [][\A p \in Phases : claims[p] # NoClaim =>
         claims'[p].support = claims[p].support /\ claims'[p].under = claims[p].under]_vars

-----------------------------------------------------------------------------
(* What the source says and the code does not do.                          *)

\* "It shortens the silence and then gets out of the way" (currentClaim): once
\* the record is large enough for the whole search it stays so.
WideStaysWide == [][WideEnough(record) => WideEnough(record')]_vars

\* "the prefix is exactly what existed then" (currentClaim): no decision that was
\* on the record when a hypothesis was counted is evidence for it.
PrefixIsExact ==
    \A p \in Phases : claims[p].under # 0 =>
      claims[p].support \cap 1..hypotheses[claims[p].under].before = {}

=============================================================================
