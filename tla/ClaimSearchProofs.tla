------------------------- MODULE ClaimSearchProofs -------------------------
(***************************************************************************)
(* For any callers, phases, regimes and floors, and any number of          *)
(* decisions in a second: a claim keeps its evidence, that evidence is one *)
(* population, and a hypothesis is tested on what was decided after it was *)
(* registered, all up to what the store's seconds can tell.                *)
(*                                                                         *)
(* The argument: the store's list is sorted by second and only its last    *)
(* second is still being sorted, so that a position keeps its second for   *)
(* ever, although not its decision.  What was read of a position and the   *)
(* id that is read there later are therefore of one second.  And a         *)
(* decision behind the n-th position that is one of the first n has traded *)
(* places with a later one, which can only be of its second.               *)
(***************************************************************************)
EXTENDS ClaimSearch, SequenceTheorems, FiniteSetTheorems, TLAPS

\* e is d, or d after its verdict has come.
Later(d, e) ==
  /\ e.no = d.no /\ e.second = d.second
  /\ e.phase = d.phase /\ e.regime = d.regime /\ (d.seen => e.seen)

\* A list numbers its decisions 1 to its length, and is sorted by the second, as
\* the commits were.
InOrder(list) ==
  /\ \A k \in 1..Len(list) : list[k].no \in 1..Len(list)
  /\ \A j, k \in 1..Len(list) : list[j].no = list[k].no => j = k
  /\ \A j, k \in 1..Len(list) : j <= k => list[j].second <= list[k].second
  /\ \A j, k \in 1..Len(list) : list[j].no <= list[k].no => list[j].second <= list[k].second

\* A list is an earlier state of another: every position has its second, and
\* every decision is still there.
Earlier(old, list) ==
  /\ Len(old) <= Len(list)
  /\ \A k \in 1..Len(old) : /\ list[k].second = old[k].second
                            /\ \E j \in 1..Len(list) : Later(old[k], list[j])

\* What a claim says of the hypothesis it was found under.
LooksForward(claim, list, hyps) ==
  claim.under # 0 =>
    /\ claim.under \in 1..Len(hyps)
    /\ \A no \in claim.support :
         \/ no > hyps[claim.under].before
         \/ \E i, j \in 1..Len(list) :
              /\ list[i].no = no /\ list[j].second = list[i].second
              /\ list[j].no > hyps[claim.under].before

\* The floor of the search that found a claim.
Floor(claim) == IF claim.under = 0 THEN MinBucketN ELSE PreMinBucketN

\* What a claim says of its decisions.
RestsOn(claim, p, list) ==
  /\ \E r \in Regimes : \A no \in claim.support :
       \E i, j \in 1..Len(list) :
         /\ list[i].no = no /\ list[j].second = list[i].second
         /\ list[j].seen /\ list[j].phase = p /\ list[j].regime = r
  /\ Cardinality(claim.support) >= Floor(claim)

Borne(claim, p, list, hyps) == LooksForward(claim, list, hyps) /\ RestsOn(claim, p, list)

ListsAreOld == \A c \in Callers : Earlier(call[c].atoms, record)
FoundIsBorne ==
  \A c \in Callers : call[c].pc = "save" => Borne(call[c].found, call[c].phase, record, hypotheses)
ClaimsAreBorne ==
  \A p \in Phases : claims[p] # NoClaim => Borne(claims[p], p, record, hypotheses)

IInv == TypeOK /\ InOrder(record) /\ ListsAreOld /\ FoundIsBorne /\ ClaimsAreBorne

USE SearchAssumption

-----------------------------------------------------------------------------
(* Lists.                                                                  *)

LEMMA RowsHaveSeconds ==
  ASSUME NEW s \in Seq(Decision), NEW k \in 1..Len(s)
  PROVE  s[k] \in Decision /\ s[k].second \in Nat
<1>1. s[k] \in Decision
  BY ElementOfSeq
<1> QED
  BY <1>1 DEF Decision

LEMMA EarlierThanItself ==
  ASSUME NEW list \in Seq(Decision)
  PROVE  Earlier(list, list) /\ Earlier(<<>>, list)
BY DEF Earlier, Later

LEMMA EarlierStill ==
  ASSUME NEW a \in Seq(Decision), NEW b \in Seq(Decision), NEW c \in Seq(Decision),
         Earlier(a, b), Earlier(b, c)
  PROVE  Earlier(a, c)
<1>1. Len(a) \in Nat /\ Len(b) \in Nat /\ Len(c) \in Nat /\ Len(a) <= Len(b) /\ Len(b) <= Len(c)
  BY DEF Earlier
<1>2. ASSUME NEW k \in 1..Len(a)
      PROVE  c[k].second = a[k].second /\ \E j \in 1..Len(c) : Later(a[k], c[j])
  <2>1. k \in 1..Len(b)
    BY <1>1
  <2>2. c[k].second = a[k].second
    BY <2>1 DEF Earlier
  <2>3. PICK i \in 1..Len(b) : Later(a[k], b[i])
    BY DEF Earlier
  <2>4. PICK j \in 1..Len(c) : Later(b[i], c[j])
    BY DEF Earlier
  <2>5. Later(a[k], c[j])
    BY <2>3, <2>4 DEF Later
  <2> QED
    BY <2>2, <2>5
<1>3. Len(a) <= Len(c)
  BY <1>1
<1> QED
  BY <1>2, <1>3, Zenon DEF Earlier

\* A decision that comes last among the commits and is put somewhere among those
\* of its second leaves the list in order and every position its second.
LEMMA Inserted ==
  ASSUME NEW s \in Seq(Decision), InOrder(s), NEW d \in Decision, d.no = Len(s) + 1,
         NEW n \in 0..Len(s), \A k \in (n + 1)..Len(s) : s[k].second = d.second,
         \A k \in 1..Len(s) : s[k].second <= d.second,
         NEW t \in Seq(Decision), Len(t) = Len(s) + 1,
         \A k \in 1..(Len(s) + 1) :
           t[k] = IF k <= n THEN s[k] ELSE IF k = n + 1 THEN d ELSE s[k - 1]
  PROVE  InOrder(t) /\ Earlier(s, t)
<1>1. Len(s) \in Nat /\ n \in Nat /\ n <= Len(s)
  OBVIOUS
<1> DEFINE home(k) == IF k <= n THEN k ELSE k + 1
           from(k) == IF k <= n THEN k ELSE k - 1
<1>2. \A k \in 1..Len(s) : home(k) \in 1..Len(t) /\ t[home(k)] = s[k]
  BY <1>1
<1>3. t[n + 1] = d /\ n + 1 \in 1..Len(t)
  BY <1>1
<1>4. \A k \in 1..Len(t) : k # n + 1 => from(k) \in 1..Len(s) /\ t[k] = s[from(k)]
  BY <1>1
<1>5. \A k \in 1..Len(s) : s[k].no \in 1..Len(s) /\ s[k].second \in Nat
  BY RowsHaveSeconds DEF InOrder
<1>6. d.second \in Nat
  BY DEF Decision
<1>7. \A k \in 1..Len(t) : t[k].no \in 1..Len(t)
  <2> SUFFICES ASSUME NEW k \in 1..Len(t) PROVE t[k].no \in 1..Len(t)
    OBVIOUS
  <2>1. CASE k = n + 1
    BY <1>1, <1>3, <2>1
  <2>2. CASE k # n + 1
    <3>1. t[k].no \in 1..Len(s)
      BY <1>4, <1>5, <2>2
    <3> QED
      BY <1>1, <3>1
  <2> QED
    BY <2>1, <2>2
<1>8. ASSUME NEW j \in 1..Len(t), NEW k \in 1..Len(t), t[j].no = t[k].no
      PROVE  j = k
  <2>1. CASE j # n + 1 /\ k # n + 1
    <3>1. s[from(j)].no = s[from(k)].no /\ from(j) \in 1..Len(s) /\ from(k) \in 1..Len(s)
      BY <1>4, <1>8, <2>1
    <3>2. from(j) = from(k)
      <4> HIDE DEF from
      <4> QED
        BY <3>1 DEF InOrder
    <3> QED
      BY <1>1, <2>1, <3>2
  <2>2. ASSUME NEW i \in 1..Len(t), i # n + 1 PROVE t[i].no # d.no
    <3>1. t[i].no \in 1..Len(s)
      BY <1>4, <1>5, <2>2
    <3> QED
      BY <1>1, <3>1
  <2> QED
    BY <1>3, <1>8, <2>1, <2>2
<1>9. ASSUME NEW j \in 1..Len(t), NEW k \in 1..Len(t), j <= k
      PROVE  t[j].second <= t[k].second
  <2>1. CASE j # n + 1 /\ k # n + 1
    <3>1. from(j) \in 1..Len(s) /\ from(k) \in 1..Len(s) /\ from(j) <= from(k)
      BY <1>1, <1>4, <1>9, <2>1
    <3>2. s[from(j)].second <= s[from(k)].second
      <4> HIDE DEF from
      <4> QED
        BY <3>1 DEF InOrder
    <3> QED
      BY <1>4, <2>1, <3>2
  <2>2. CASE k = n + 1 /\ j # n + 1
    BY <1>3, <1>4, <2>2
  <2>3. CASE j = n + 1 /\ k # n + 1
    <3>1. from(k) \in (n + 1)..Len(s)
      BY <1>1, <1>4, <1>9, <2>3
    <3>2. t[k].second = d.second
      BY <1>4, <2>3, <3>1
    <3> QED
      BY <1>3, <1>6, <2>3, <3>2
  <2>4. CASE j = n + 1 /\ k = n + 1
    BY <1>3, <1>6, <2>4
  <2> QED
    BY <2>1, <2>2, <2>3, <2>4
<1>10. ASSUME NEW j \in 1..Len(t), NEW k \in 1..Len(t), t[j].no <= t[k].no
       PROVE  t[j].second <= t[k].second
  <2>1. CASE j # n + 1 /\ k # n + 1
    <3>1. /\ from(j) \in 1..Len(s) /\ from(k) \in 1..Len(s)
          /\ t[j] = s[from(j)] /\ t[k] = s[from(k)]
      BY <1>4, <2>1
    <3> HIDE DEF from
    <3> QED
      BY <1>10, <3>1 DEF InOrder
  <2>2. CASE k = n + 1 /\ j # n + 1
    BY <1>3, <1>4, <2>2
  <2>3. CASE j = n + 1 /\ k # n + 1
    <3>1. t[k].no \in 1..Len(s)
      BY <1>4, <1>5, <2>3
    <3> QED
      BY <1>1, <1>3, <1>10, <2>3, <3>1
  <2>4. CASE j = n + 1 /\ k = n + 1
    BY <1>3, <1>6, <2>4
  <2> QED
    BY <2>1, <2>2, <2>3, <2>4
<1>11. InOrder(t)
  BY <1>7, <1>8, <1>9, <1>10 DEF InOrder
<1>12. ASSUME NEW k \in 1..Len(s)
       PROVE  t[k].second = s[k].second /\ \E j \in 1..Len(t) : Later(s[k], t[j])
  <2>1. t[home(k)] = s[k] /\ home(k) \in 1..Len(t)
    BY <1>2
  <2>2. Later(s[k], t[home(k)])
    BY <2>1 DEF Later
  <2>3. t[k].second = s[k].second
    <3>1. CASE k <= n
      BY <1>1, <3>1
    <3>2. CASE k = n + 1
      BY <1>1, <1>3, <3>2
    <3>3. CASE k > n + 1
      <4>1. k - 1 \in (n + 1)..Len(s) /\ k \in (n + 1)..Len(s) /\ t[k] = s[k - 1]
        BY <1>1, <3>3
      <4> QED
        BY <4>1
    <3> QED
      BY <1>1, <3>1, <3>2, <3>3
  <2> HIDE DEF home
  <2> QED
    BY <2>1, <2>2, <2>3
<1>13. Earlier(s, t)
  BY <1>1, <1>12 DEF Earlier
<1> QED
  BY <1>11, <1>13

\* A verdict changes nothing of that.
LEMMA Revealed ==
  ASSUME NEW s \in Seq(Decision), InOrder(s), NEW i \in 1..Len(s),
         NEW t, t = [s EXCEPT ![i].seen = TRUE]
  PROVE  t \in Seq(Decision) /\ Len(t) = Len(s) /\ InOrder(t) /\ Earlier(s, t)
<1>1. s[i] \in Decision
  BY ElementOfSeq
<1>2. [s[i] EXCEPT !.seen = TRUE] \in Decision /\ Later(s[i], [s[i] EXCEPT !.seen = TRUE])
  BY <1>1 DEF Decision, Later
<1>3. t = [s EXCEPT ![i] = [s[i] EXCEPT !.seen = TRUE]]
  OBVIOUS
<1>4. t \in Seq(Decision) /\ Len(t) = Len(s)
  BY <1>2, <1>3, ExceptSeq
<1>5. \A k \in 1..Len(s) : t[k] = IF k = i THEN [s[i] EXCEPT !.seen = TRUE] ELSE s[k]
  <2> DEFINE e == [s[i] EXCEPT !.seen = TRUE]
  <2>1. DOMAIN s = 1..Len(s)
    OBVIOUS
  <2>2. t = [s EXCEPT ![i] = e]
    BY <1>3
  <2> HIDE DEF e
  <2>3. \A k \in 1..Len(s) : t[k] = IF k = i THEN e ELSE s[k]
    BY <2>1, <2>2
  <2> QED
    BY <2>3 DEF e
<1>6. \A k \in 1..Len(s) : Later(s[k], t[k])
  BY <1>2, <1>5 DEF Later
<1>7. \A k \in 1..Len(s) : t[k].no = s[k].no /\ t[k].second = s[k].second
  BY <1>6 DEF Later
<1>8. InOrder(t)
  BY <1>4, <1>7 DEF InOrder
<1>9. Earlier(s, t)
  <2>1. Len(s) <= Len(t)
    BY <1>4
  <2>2. \A k \in 1..Len(s) : \E j \in 1..Len(t) : Later(s[k], t[j])
    BY <1>4, <1>6
  <2> QED
    BY <1>7, <2>1, <2>2, Zenon DEF Earlier
<1> QED
  BY <1>4, <1>8, <1>9

\* A decision behind the n-th position that is one of the first n is of one
\* second with one that is not: the first n positions cannot hold n decisions
\* without it of the first n, and both orders agree on the seconds.
LEMMA OfOneSecond ==
  ASSUME NEW list \in Seq(Decision), InOrder(list), NEW n \in Nat,
         NEW k \in 1..Len(list), k > n, list[k].no <= n
  PROVE  \E j \in 1..Len(list) : list[j].second = list[k].second /\ list[j].no > n
<1>1. \A i \in 1..Len(list) : list[i].no \in 1..Len(list) /\ list[i].second \in Nat
  BY RowsHaveSeconds DEF InOrder
<1>2. PICK j \in 1..n : list[j].no > n
  <2> SUFFICES ASSUME \A j \in 1..n : list[j].no <= n
               PROVE  FALSE
    BY <1>1
  <2> DEFINE S == (1..n) \cup {k}
             f == [i \in S |-> list[i].no]
  <2>1. IsFiniteSet(1..n) /\ Cardinality(1..n) = n
    <3>1. 1 \in Int /\ n \in Int
      OBVIOUS
    <3>2. /\ IsFiniteSet(1..n)
          /\ Cardinality(1..n) = IF 1 > n THEN 0 ELSE n - 1 + 1
      BY <3>1, FS_Interval, Zenon
    <3> QED
      BY <3>2
  <2>2. IsFiniteSet(S) /\ Cardinality(S) = n + 1
    <3>1. k \notin 1..n
      OBVIOUS
    <3>2. /\ IsFiniteSet(S)
          /\ Cardinality(S) = IF k \in 1..n THEN Cardinality(1..n) ELSE Cardinality(1..n) + 1
      BY <2>1, FS_AddElement, Zenon
    <3> QED
      BY <2>1, <3>1, <3>2
  <2>3. \A i \in S : i \in 1..Len(list) /\ list[i].no \in 1..n
    BY <1>1
  <2>4. f \in [S -> 1..n]
    BY <2>3
  <2>5. Cardinality(1..n) < Cardinality(S)
    BY <2>1, <2>2
  <2>6. PICK x \in S, y \in S : x # y /\ f[x] = f[y]
    <3> HIDE DEF f, S
    <3> QED
      BY <2>1, <2>2, <2>4, <2>5, FS_PigeonHole
  <2>7. list[x].no = list[y].no /\ x \in 1..Len(list) /\ y \in 1..Len(list)
    BY <2>3, <2>6
  <2> QED
    BY <2>6, <2>7 DEF InOrder
<1>3. j \in 1..Len(list) /\ j <= k /\ list[k].no <= list[j].no
  BY <1>1, <1>2
<1>4. list[j].second <= list[k].second /\ list[k].second <= list[j].second
  BY <1>3 DEF InOrder
<1> QED
  BY <1>1, <1>2, <1>3, <1>4

-----------------------------------------------------------------------------
(* Claims.                                                                 *)

\* What a claim says stays true when the record grows and hypotheses are added.
LEMMA BorneStill ==
  ASSUME NEW old \in Seq(Decision), NEW list \in Seq(Decision), Earlier(old, list),
         NEW hyps \in Seq(Hypothesis), NEW more \in Seq(Hypothesis),
         Len(hyps) <= Len(more), \A h \in 1..Len(hyps) : more[h] = hyps[h],
         NEW claim, NEW p, Borne(claim, p, old, hyps)
  PROVE  Borne(claim, p, list, more)
<1>1. ASSUME NEW i \in 1..Len(old), NEW j \in 1..Len(old), old[j].second = old[i].second
      PROVE  \E a, b \in 1..Len(list) :
               /\ list[a].no = old[i].no /\ list[b].second = list[a].second
               /\ Later(old[j], list[b])
  <2>1. PICK a \in 1..Len(list) : Later(old[i], list[a])
    BY DEF Earlier
  <2>2. PICK b \in 1..Len(list) : Later(old[j], list[b])
    BY DEF Earlier
  <2>3. list[a].no = old[i].no /\ list[b].second = list[a].second
    BY <1>1, <2>1, <2>2 DEF Later
  <2> QED
    BY <2>2, <2>3
<1>2. LooksForward(claim, list, more)
  <2> SUFFICES ASSUME claim.under # 0
               PROVE  /\ claim.under \in 1..Len(more)
                      /\ \A no \in claim.support :
                           \/ no > more[claim.under].before
                           \/ \E i, j \in 1..Len(list) :
                                /\ list[i].no = no /\ list[j].second = list[i].second
                                /\ list[j].no > more[claim.under].before
    BY DEF LooksForward
  <2> DEFINE before == hyps[claim.under].before
  <2>1. claim.under \in 1..Len(hyps) /\ more[claim.under].before = before
    BY DEF Borne, LooksForward
  <2>2. claim.under \in 1..Len(more)
    <3>1. Len(hyps) \in Nat /\ Len(more) \in Nat
      OBVIOUS
    <3> QED
      BY <2>1, <3>1
  <2>3. ASSUME NEW no \in claim.support, ~(no > before)
        PROVE  \E i, j \in 1..Len(list) :
                 /\ list[i].no = no /\ list[j].second = list[i].second
                 /\ list[j].no > before
    <3>1. PICK i \in 1..Len(old), j \in 1..Len(old) :
            old[i].no = no /\ old[j].second = old[i].second /\ old[j].no > before
      BY <2>3 DEF Borne, LooksForward
    <3>2. PICK a \in 1..Len(list), b \in 1..Len(list) :
            /\ list[a].no = old[i].no /\ list[b].second = list[a].second
            /\ Later(old[j], list[b])
      BY <1>1, <3>1
    <3>3. list[a].no = no /\ list[b].no > before
      BY <3>1, <3>2 DEF Later
    <3> QED
      BY <3>2, <3>3
  <2> HIDE DEF before
  <2> QED
    BY <2>1, <2>2, <2>3
<1>3. RestsOn(claim, p, list)
  <2>1. PICK r \in Regimes : \A no \in claim.support :
          \E i, j \in 1..Len(old) :
            /\ old[i].no = no /\ old[j].second = old[i].second
            /\ old[j].seen /\ old[j].phase = p /\ old[j].regime = r
    BY DEF Borne, RestsOn
  <2>2. ASSUME NEW no \in claim.support
        PROVE  \E i, j \in 1..Len(list) :
                 /\ list[i].no = no /\ list[j].second = list[i].second
                 /\ list[j].seen /\ list[j].phase = p /\ list[j].regime = r
    <3>1. PICK i \in 1..Len(old), j \in 1..Len(old) :
            /\ old[i].no = no /\ old[j].second = old[i].second
            /\ old[j].seen /\ old[j].phase = p /\ old[j].regime = r
      BY <2>1
    <3>2. PICK a \in 1..Len(list), b \in 1..Len(list) :
            /\ list[a].no = old[i].no /\ list[b].second = list[a].second
            /\ Later(old[j], list[b])
      BY <1>1, <3>1
    <3>3. list[a].no = no /\ list[b].seen /\ list[b].phase = p /\ list[b].regime = r
      BY <3>1, <3>2 DEF Later
    <3> QED
      BY <3>2, <3>3
  <2>3. Cardinality(claim.support) >= Floor(claim)
    BY DEF Borne, RestsOn
  <2> QED
    BY <2>2, <2>3 DEF RestsOn
<1> QED
  BY <1>2, <1>3 DEF Borne

\* A step that lets the record and the hypotheses grow, and whose callers and
\* claims stay as they are or say what is true, keeps the invariant.
LEMMA StepKeeps ==
  ASSUME IInv, TypeOK', InOrder(record'), Earlier(record, record'),
         Len(hypotheses) <= Len(hypotheses'),
         \A h \in 1..Len(hypotheses) : hypotheses'[h] = hypotheses[h],
         \A c \in Callers :
           \/ call'[c] = call[c]
           \/ /\ Earlier(call'[c].atoms, record')
              /\ call'[c].pc = "save" =>
                   Borne(call'[c].found, call'[c].phase, record', hypotheses'),
         \A p \in Phases :
           \/ claims'[p] = claims[p]
           \/ Borne(claims'[p], p, record', hypotheses')
  PROVE  IInv'
<1>1. /\ record \in Seq(Decision) /\ record' \in Seq(Decision)
      /\ hypotheses \in Seq(Hypothesis) /\ hypotheses' \in Seq(Hypothesis)
      /\ \A c \in Callers : call[c].atoms \in Seq(Decision)
  BY DEF IInv, TypeOK, Call
<1>2. ASSUME NEW claim, NEW p, Borne(claim, p, record, hypotheses)
      PROVE  Borne(claim, p, record', hypotheses')
  BY <1>1, <1>2, BorneStill
<1>3. ASSUME NEW c \in Callers
      PROVE  Earlier(call'[c].atoms, record')
  <2>1. Earlier(call[c].atoms, record)
    BY DEF IInv, ListsAreOld
  <2>2. Earlier(call[c].atoms, record')
    BY <1>1, <2>1, EarlierStill
  <2> QED
    BY <2>2
<1>4. ASSUME NEW c \in Callers, call'[c].pc = "save"
      PROVE  Borne(call'[c].found, call'[c].phase, record', hypotheses')
  <2>1. CASE call'[c] = call[c]
    <3>1. Borne(call[c].found, call[c].phase, record, hypotheses)
      BY <1>4, <2>1 DEF IInv, FoundIsBorne
    <3>2. Borne(call[c].found, call[c].phase, record', hypotheses')
      BY <1>2, <3>1
    <3> QED
      BY <2>1, <3>2
  <2> QED
    BY <1>4, <2>1
<1>5. ASSUME NEW p \in Phases, claims'[p] # NoClaim
      PROVE  Borne(claims'[p], p, record', hypotheses')
  <2>1. CASE claims'[p] = claims[p]
    <3>1. Borne(claims[p], p, record, hypotheses)
      BY <1>5, <2>1 DEF IInv, ClaimsAreBorne
    <3>2. Borne(claims[p], p, record', hypotheses')
      BY <1>2, <3>1
    <3> QED
      BY <2>1, <3>2
  <2> QED
    BY <2>1
<1> QED
  BY <1>3, <1>4, <1>5 DEF IInv, ListsAreOld, FoundIsBorne, ClaimsAreBorne

LEMMA IdleIsACall ==
  Idle \in Call /\ Idle.atoms = <<>> /\ Idle.pc = "idle" /\ Idle.found = NoClaim
BY DEF Idle, Call, NoClaim, Claim

LEMMA InitInv == Init => IInv
<1> SUFFICES ASSUME Init PROVE IInv
  OBVIOUS
<1>1. TypeOK
  BY IdleIsACall DEF Init, TypeOK, NoClaim, Claim
<1>2. record \in Seq(Decision) /\ Len(record) = 0
  BY DEF Init
<1>3. InOrder(record)
  BY <1>2 DEF InOrder
<1>4. ListsAreOld
  BY <1>2, IdleIsACall, EarlierThanItself DEF Init, ListsAreOld
<1>5. FoundIsBorne /\ ClaimsAreBorne
  BY IdleIsACall DEF Init, FoundIsBorne, ClaimsAreBorne
<1> QED
  BY <1>1, <1>3, <1>4, <1>5 DEF IInv

-----------------------------------------------------------------------------
(* The record grows.                                                       *)

LEMMA CommitInserts ==
  ASSUME TypeOK, InOrder(record), NEW d \in Taken, Commit(d)
  PROVE  /\ record' \in Seq(Decision) /\ Len(record') <= MaxDecisions
         /\ InOrder(record') /\ Earlier(record, record')
<1>1. record \in Seq(Decision) /\ Len(record) \in Nat /\ Len(record) < MaxDecisions /\ MaxDecisions \in Nat
  BY DEF TypeOK, Commit
<1>2. \A k \in 1..Len(record) : record[k] \in Decision /\ record[k].second \in Nat
  BY <1>1, RowsHaveSeconds
<1>3. Latest \in Nat /\ \A k \in 1..Len(record) : record[k].second <= Latest
  <2>1. CASE record = <<>>
    BY <1>1, <2>1 DEF Latest
  <2>2. CASE record # <<>>
    <3>1. Len(record) \in 1..Len(record) /\ Latest = record[Len(record)].second
      BY <1>1, <2>2 DEF Latest
    <3> QED
      BY <1>1, <1>2, <3>1 DEF InOrder
  <2> QED
    BY <2>1, <2>2
<1>4. /\ d.no = Len(record) + 1 /\ d.second \in {Latest, Latest + 1} \ {0}
      /\ d \in [no : {Len(record) + 1}, second : {Latest, Latest + 1} \ {0},
                regime : Regimes \cup {0}, phase : Phases \cup {"none"}, seen : {FALSE}]
  BY DEF Taken
<1>5. d \in Decision
  <2>1. Len(record) + 1 \in Numbers
    BY <1>1 DEF Numbers
  <2>2. d.second \in Nat \ {0}
    BY <1>3, <1>4
  <2> QED
    BY <1>4, <2>1, <2>2 DEF Decision
<1>6. \A k \in 1..Len(record) : record[k].second <= d.second
  BY <1>2, <1>3, <1>4
<1>7. PICK n \in 0..Len(record) :
        /\ (n + 1)..Len(record) \subseteq OfSecond(d.second)
        /\ record' = SubSeq(record, 1, n) \o <<d>> \o SubSeq(record, n + 1, Len(record))
  BY DEF Commit
<1> DEFINE front == SubSeq(record, 1, n)
           back == SubSeq(record, n + 1, Len(record))
<1>8. n \in Nat /\ n <= Len(record)
  BY <1>1
<1>9. /\ front \in Seq(Decision) /\ Len(front) = n
      /\ \A k \in 1..n : front[k] = record[k]
  <2>1. \A k \in 1..n : record[k] \in Decision
    BY <1>1, <1>2, <1>8
  <2>2. /\ front \in Seq(Decision)
        /\ Len(front) = IF 1 <= n THEN n - 1 + 1 ELSE 0
        /\ \A k \in 1..(n - 1 + 1) : front[k] = record[1 + k - 1]
    BY <1>8, <2>1, SubSeqProperties
  <2> QED
    BY <1>8, <2>2
<1>10. /\ back \in Seq(Decision) /\ Len(back) = Len(record) - n
       /\ \A k \in 1..(Len(record) - n) : back[k] = record[n + k]
  <2>1. \A k \in (n + 1)..Len(record) : record[k] \in Decision
    BY <1>1, <1>2, <1>8
  <2>2. /\ back \in Seq(Decision)
        /\ Len(back) = IF n + 1 <= Len(record) THEN Len(record) - (n + 1) + 1 ELSE 0
        /\ \A k \in 1..(Len(record) - (n + 1) + 1) : back[k] = record[n + 1 + k - 1]
    BY <1>1, <1>8, <2>1, SubSeqProperties
  <2> QED
    BY <1>1, <1>8, <2>2
<1> HIDE DEF front, back
<1>11. record' = (front \o <<d>>) \o back
  BY <1>7 DEF front, back
<1>12. /\ front \o <<d>> \in Seq(Decision) /\ Len(front \o <<d>>) = n + 1
       /\ \A k \in 1..(n + 1) : (front \o <<d>>)[k] = IF k <= n THEN record[k] ELSE d
  <2>1. <<d>> \in Seq(Decision) /\ Len(<<d>>) = 1 /\ <<d>>[1] = d
    BY <1>5
  <2>2. /\ front \o <<d>> \in Seq(Decision) /\ Len(front \o <<d>>) = n + 1
        /\ \A k \in 1..(n + 1) : (front \o <<d>>)[k] = IF k <= n THEN front[k] ELSE <<d>>[k - n]
    BY <1>9, <2>1, ConcatProperties
  <2>3. ASSUME NEW k \in 1..(n + 1)
        PROVE  (front \o <<d>>)[k] = IF k <= n THEN record[k] ELSE d
    <3>1. CASE k <= n
      BY <1>8, <1>9, <2>2, <3>1
    <3>2. CASE ~(k <= n)
      <4>1. k - n = 1
        BY <1>8, <3>2
      <4> QED
        BY <2>1, <2>2, <3>2, <4>1
    <3> QED
      BY <3>1, <3>2
  <2> QED
    BY <2>2, <2>3
<1> DEFINE head == front \o <<d>>
<1>13. /\ record' \in Seq(Decision) /\ Len(record') = Len(record) + 1
       /\ \A k \in 1..(Len(record) + 1) :
            record'[k] = IF k <= n THEN record[k] ELSE IF k = n + 1 THEN d ELSE record[k - 1]
  <2>1. head \in Seq(Decision) /\ Len(head) = n + 1 /\ record' = head \o back
        /\ \A k \in 1..(n + 1) : head[k] = IF k <= n THEN record[k] ELSE d
    BY <1>11, <1>12
  <2> HIDE DEF head
  <2>2. /\ record' \in Seq(Decision) /\ Len(record') = n + 1 + (Len(record) - n)
        /\ \A k \in 1..(n + 1 + (Len(record) - n)) :
             record'[k] = IF k <= n + 1 THEN head[k] ELSE back[k - (n + 1)]
    <3>1. /\ head \o back \in Seq(Decision)
          /\ Len(head \o back) = Len(head) + Len(back)
          /\ \A k \in 1..(Len(head) + Len(back)) :
               (head \o back)[k] = IF k <= Len(head) THEN head[k] ELSE back[k - Len(head)]
      BY <1>10, <2>1, ConcatProperties, Zenon
    <3> QED
      BY <1>10, <2>1, <3>1
  <2>3. n + 1 + (Len(record) - n) = Len(record) + 1
    BY <1>1, <1>8
  <2>4. ASSUME NEW k \in 1..(Len(record) + 1)
        PROVE  record'[k] = IF k <= n THEN record[k] ELSE IF k = n + 1 THEN d ELSE record[k - 1]
    <3>1. CASE k <= n + 1
      BY <1>8, <2>1, <2>2, <2>3, <3>1
    <3>2. CASE ~(k <= n + 1)
      <4>1. k - (n + 1) \in 1..(Len(record) - n) /\ n + (k - (n + 1)) = k - 1
        BY <1>1, <1>8, <3>2
      <4>2. back[k - (n + 1)] = record[k - 1]
        BY <1>10, <4>1
      <4>3. record'[k] = back[k - (n + 1)]
        BY <2>2, <2>3, <3>2
      <4> QED
        BY <1>8, <3>2, <4>2, <4>3
    <3> QED
      BY <3>1, <3>2
  <2> QED
    BY <2>2, <2>3, <2>4
<1>14. \A k \in (n + 1)..Len(record) : record[k].second = d.second
  BY <1>7 DEF OfSecond
<1>15. InOrder(record') /\ Earlier(record, record')
  <2>1. record \in Seq(Decision) /\ InOrder(record) /\ n \in 0..Len(record)
    BY <1>1
  <2>2. d \in Decision /\ d.no = Len(record) + 1
    BY <1>4, <1>5
  <2> QED
    BY <1>6, <1>13, <1>14, <2>1, <2>2, Inserted, Zenon
<1> QED
  BY <1>1, <1>13, <1>15

LEMMA CommitStep ==
  ASSUME IInv, NEW d \in Taken, Commit(d)
  PROVE  IInv'
<1>1. UNCHANGED <<hypotheses, claims, call>>
  BY DEF Commit
<1>2. /\ record' \in Seq(Decision) /\ Len(record') <= MaxDecisions
      /\ InOrder(record') /\ Earlier(record, record')
  BY CommitInserts DEF IInv
<1>3. TypeOK'
  BY <1>1, <1>2 DEF IInv, TypeOK
<1>4. Len(hypotheses) \in Nat
  BY DEF IInv, TypeOK
<1> QED
  BY <1>1, <1>2, <1>3, <1>4, StepKeeps

LEMMA RevealStep ==
  ASSUME IInv, NEW k \in DOMAIN record, Reveal(k)
  PROVE  IInv'
<1>1. UNCHANGED <<hypotheses, claims, call>> /\ record' = [record EXCEPT ![k].seen = TRUE]
  BY DEF Reveal
<1>2. record \in Seq(Decision) /\ k \in 1..Len(record)
  BY DEF IInv, TypeOK
<1>3. /\ record' \in Seq(Decision) /\ Len(record') = Len(record)
      /\ InOrder(record') /\ Earlier(record, record')
  BY <1>1, <1>2, Revealed DEF IInv
<1>4. TypeOK'
  BY <1>1, <1>3 DEF IInv, TypeOK
<1>5. Len(hypotheses) \in Nat
  BY DEF IInv, TypeOK
<1> QED
  BY <1>1, <1>3, <1>4, <1>5, StepKeeps

-----------------------------------------------------------------------------
(* The steps of a caller that finds nothing.                               *)

LEMMA CallStep ==
  ASSUME IInv, NEW c \in Callers, NEW after \in Call, call' = [call EXCEPT ![c] = after],
         after.pc # "save", after.atoms \in {<<>>, record}, UNCHANGED <<record, hypotheses, claims>>
  PROVE  IInv'
<1>1. record \in Seq(Decision) /\ Len(hypotheses) \in Nat
  BY DEF IInv, TypeOK
<1>2. Earlier(record, record) /\ Earlier(<<>>, record)
  BY <1>1, EarlierThanItself
<1>3. TypeOK'
  BY DEF IInv, TypeOK
<1>4. \A other \in Callers : call'[other] = call[other] \/ call'[other] = after
  BY DEF IInv, TypeOK
<1>5. Earlier(after.atoms, record)
  BY <1>2
<1> QED
  BY <1>1, <1>2, <1>3, <1>4, <1>5, StepKeeps DEF IInv

LEMMA CountStep ==
  ASSUME IInv, NEW c \in Callers, CountDecisions(c)
  PROVE  IInv'
<1> DEFINE counted == [Idle EXCEPT !.pc = "register", !.count = Len(record)]
<1>1. Len(record) \in 0..MaxDecisions
  BY DEF IInv, TypeOK
<1>2. counted \in Call /\ counted.atoms = <<>> /\ counted.pc = "register"
  BY <1>1, IdleIsACall DEF Call, Idle
<1>3. call' = [call EXCEPT ![c] = counted] /\ UNCHANGED <<record, hypotheses, claims>>
  BY DEF CountDecisions
<1> HIDE DEF counted
<1> QED
  BY <1>2, <1>3, CallStep

LEMMA SaveHypothesisStep ==
  ASSUME IInv, NEW c \in Callers, SaveHypothesis(c)
  PROVE  IInv'
<1>1. PICK p \in Phases :
        hypotheses' = Append(hypotheses, [phase |-> p, before |-> call[c].count])
  BY DEF SaveHypothesis
<1>2. call' = [call EXCEPT ![c] = Idle] /\ UNCHANGED <<record, claims>>
  BY DEF SaveHypothesis
<1>3. [phase |-> p, before |-> call[c].count] \in Hypothesis
  <2>1. call[c] \in Call
    BY DEF IInv, TypeOK
  <2> QED
    BY <2>1 DEF Call, Hypothesis
<1>4. /\ hypotheses' \in Seq(Hypothesis) /\ Len(hypotheses) <= Len(hypotheses')
      /\ \A h \in 1..Len(hypotheses) : hypotheses'[h] = hypotheses[h]
  BY <1>1, <1>3 DEF IInv, TypeOK
<1>5. TypeOK'
  BY <1>2, <1>4, IdleIsACall DEF IInv, TypeOK
<1>6. Earlier(record, record) /\ Earlier(<<>>, record)
  BY EarlierThanItself DEF IInv, TypeOK
<1>7. \A other \in Callers : call'[other] = call[other] \/ call'[other] = Idle
  BY <1>2 DEF IInv, TypeOK
<1>8. \A other \in Callers :
        \/ call'[other] = call[other]
        \/ Earlier(call'[other].atoms, record) /\ call'[other].pc # "save"
  BY <1>6, <1>7, IdleIsACall
<1> QED
  BY <1>2, <1>4, <1>5, <1>6, <1>8, StepKeeps DEF IInv

LEMMA ListStep ==
  ASSUME IInv, NEW c \in Callers, ListAtoms(c)
  PROVE  IInv'
<1> DEFINE listing == [Idle EXCEPT !.pc = "search", !.atoms = record]
<1>1. listing \in Call /\ listing.atoms = record /\ listing.pc = "search"
  BY IdleIsACall DEF IInv, TypeOK, Call, Idle
<1>2. call' = [call EXCEPT ![c] = listing] /\ UNCHANGED <<record, hypotheses, claims>>
  BY DEF ListAtoms
<1> HIDE DEF listing
<1> QED
  BY <1>1, <1>2, CallStep

LEMMA SaveClaimStep ==
  ASSUME IInv, NEW c \in Callers, SaveClaim(c)
  PROVE  IInv'
<1>1. UNCHANGED <<record, hypotheses>> /\ call' = [call EXCEPT ![c] = Idle] /\ call[c].pc = "save"
  BY DEF SaveClaim
<1>2. call[c] \in Call /\ call[c].found \in Claim
  BY DEF IInv, TypeOK, Call
<1>3. claims' = [claims EXCEPT ![call[c].phase] = IF @ = NoClaim THEN call[c].found ELSE @]
  BY DEF SaveClaim, Upsert
<1>4. /\ claims' \in [Phases -> Claim]
      /\ \A p \in Phases :
           \/ claims'[p] = claims[p]
           \/ p = call[c].phase /\ claims'[p] = call[c].found
  <2>1. claims \in [Phases -> Claim]
    BY DEF IInv, TypeOK
  <2> DEFINE kept(p) == IF claims[p] = NoClaim THEN call[c].found ELSE claims[p]
  <2>2. claims' = [claims EXCEPT ![call[c].phase] = kept(call[c].phase)]
    BY <1>3
  <2>3. \A p \in Phases : kept(p) \in Claim /\ kept(p) \in {claims[p], call[c].found}
    BY <1>2, <2>1
  <2> HIDE DEF kept
  <2>4. \A p \in Phases : claims'[p] = IF p = call[c].phase THEN kept(p) ELSE claims[p]
    BY <2>1, <2>2
  <2>5. claims' \in [Phases -> Claim]
    BY <2>1, <2>2, <2>3
  <2>6. ASSUME NEW p \in Phases, claims'[p] # claims[p]
        PROVE  p = call[c].phase /\ claims'[p] = call[c].found
    BY <2>3, <2>4, <2>6
  <2> QED
    BY <2>5, <2>6
<1>5. TypeOK'
  BY <1>1, <1>4, IdleIsACall DEF IInv, TypeOK
<1>6. Earlier(record, record) /\ Earlier(<<>>, record)
  BY EarlierThanItself DEF IInv, TypeOK
<1>7. \A other \in Callers : call'[other] = call[other] \/ call'[other] = Idle
  BY <1>1 DEF IInv, TypeOK
<1>8. \A other \in Callers :
        \/ call'[other] = call[other]
        \/ Earlier(call'[other].atoms, record) /\ call'[other].pc # "save"
  BY <1>6, <1>7, IdleIsACall
<1>9. \A p \in Phases : claims'[p] = claims[p] \/ Borne(claims'[p], p, record, hypotheses)
  BY <1>1, <1>4 DEF IInv, FoundIsBorne
<1>10. Len(hypotheses) \in Nat
  BY DEF IInv, TypeOK
<1> QED
  BY <1>1, <1>5, <1>6, <1>8, <1>9, <1>10, StepKeeps DEF IInv

-----------------------------------------------------------------------------
(* What a search finds.                                                    *)

\* Two decisions that were chosen are of one regime, because the strata are
\* ordered and the first of the largest is one stratum.
LEMMA ChosenIsOneStratum ==
  ASSUME NEW atoms \in Seq(Decision), NEW ks \in SUBSET Admitted(atoms),
         NEW j \in Chosen(atoms, ks), NEW k \in Chosen(atoms, ks)
  PROVE  atoms[j].regime = atoms[k].regime
<1> DEFINE s == Stratum(atoms[j])
           t == Stratum(atoms[k])
<1>1. ~Before(s, t) /\ ~Before(t, s)
  BY DEF Chosen
<1>2. atoms[j].regime \in Nat /\ atoms[k].regime \in Nat
  <2>1. j \in 1..Len(atoms) /\ k \in 1..Len(atoms)
    BY DEF Chosen, Admitted
  <2>2. atoms[j] \in Decision /\ atoms[k] \in Decision
    BY <2>1, ElementOfSeq
  <2>3. Regimes \cup {0} \subseteq Nat
    OBVIOUS
  <2>4. atoms[j].regime \in Regimes \cup {0} /\ atoms[k].regime \in Regimes \cup {0}
    BY <2>2 DEF Decision
  <2> HIDE DEF s, t
  <2> QED
    BY <2>3, <2>4
<1>3. s[1] = atoms[j].regime /\ t[1] = atoms[k].regime
  BY DEF Stratum
<1>4. ~(s[1] < t[1]) /\ ~(t[1] < s[1])
  BY <1>1 DEF Before
<1> QED
  BY <1>2, <1>3, <1>4

\* What is inside a phase of the population searched: decisions of the list,
\* admitted, revealed, of that phase and of one regime.
LEMMA PopulationIsOne ==
  ASSUME NEW atoms \in Seq(Decision), NEW p
  PROVE  /\ \A k \in Inside(atoms, p) : /\ k \in 1..Len(atoms) /\ atoms[k].regime \in Regimes
                                        /\ atoms[k].seen /\ atoms[k].phase = p
         /\ \A j, k \in Inside(atoms, p) : atoms[j].regime = atoms[k].regime
<1> DEFINE ks == IF Narrowing(atoms) THEN Since(atoms, Newest) ELSE Admitted(atoms)
<1>1. ks \in SUBSET Admitted(atoms)
  BY DEF Since
<1>2. Population(atoms) = Scored(atoms, ks)
  BY DEF Population
<1> HIDE DEF ks
<1>3. \A k \in Inside(atoms, p) : k \in Chosen(atoms, ks) /\ atoms[k].seen /\ atoms[k].phase = p
  BY <1>2 DEF Inside, Scored
<1>4. ASSUME NEW k \in Chosen(atoms, ks)
      PROVE  k \in 1..Len(atoms) /\ atoms[k].regime \in Regimes
  <2>1. k \in 1..Len(atoms) /\ atoms[k].regime # 0
    BY <1>1 DEF Chosen, Admitted
  <2>2. atoms[k] \in Decision
    BY <2>1, ElementOfSeq
  <2> QED
    BY <2>1, <2>2 DEF Decision
<1>5. ASSUME NEW j \in Chosen(atoms, ks), NEW k \in Chosen(atoms, ks)
      PROVE  atoms[j].regime = atoms[k].regime
  BY <1>1, ChosenIsOneStratum
<1> QED
  BY <1>3, <1>4, <1>5

\* The search takes from a list only what the list has, and a narrowed search
\* only what lies behind the boundary.
LEMMA SearchedIsListed ==
  ASSUME NEW atoms \in Seq(Decision), NEW p, NEW k \in Inside(atoms, p)
  PROVE  /\ k \in 1..Len(atoms)
         /\ Narrowing(atoms) => k > Newest.before
<1>2. atoms \in Seq(Decision)
  OBVIOUS
<1>3. k \in Population(atoms)
  BY DEF Inside
<1>4. ASSUME NEW ks, k \in Scored(atoms, ks) PROVE k \in ks
  BY <1>4 DEF Scored, Chosen
<1>5. CASE Narrowing(atoms)
  <2>1. k \in Since(atoms, Newest)
    BY <1>3, <1>4, <1>5 DEF Population
  <2> QED
    BY <1>2, <2>1 DEF Since, Admitted
<1>6. CASE ~Narrowing(atoms)
  <2>1. k \in Admitted(atoms)
    BY <1>3, <1>4, <1>6 DEF Population
  <2> QED
    BY <1>2, <1>6, <2>1 DEF Admitted
<1> QED
  BY <1>5, <1>6

\* The ids that are read later are of the seconds of what was searched, and as many.
LEMMA FoundSupport ==
  ASSUME IInv, NEW c \in Callers, NEW p
  PROVE  LET atoms == call[c].atoms
             support == Found(atoms, p).support
         IN  /\ atoms \in Seq(Decision) /\ record \in Seq(Decision)
             /\ \A k \in Inside(atoms, p) :
                  k \in 1..Len(atoms) /\ k \in 1..Len(record) /\ record[k].second = atoms[k].second
             /\ \A no \in support : \E k \in Inside(atoms, p) : record[k].no = no
             /\ support \in SUBSET (0..MaxDecisions)
             /\ Cardinality(support) = Cardinality(Inside(atoms, p))
<1> DEFINE atoms == call[c].atoms
           inside == Inside(atoms, p)
           support == Found(atoms, p).support
<1>1. atoms \in Seq(Decision) /\ record \in Seq(Decision) /\ Earlier(atoms, record)
  BY DEF IInv, TypeOK, Call, ListsAreOld
<1>2. \A k \in inside : k \in 1..Len(atoms)
  <2> HIDE DEF atoms
  <2> QED
    BY <1>1, SearchedIsListed
<1> HIDE DEF inside
<1>3. \A k \in inside : k \in 1..Len(record) /\ record[k].second = atoms[k].second
  <2>1. Len(atoms) \in Nat /\ Len(record) \in Nat
    BY <1>1
  <2> HIDE DEF atoms
  <2> QED
    BY <1>1, <1>2, <2>1 DEF Earlier
<1>4. \A k \in inside : Label(k) = record[k].no
  BY <1>1, <1>3 DEF Label
<1>5. support = {record[k].no : k \in inside}
  <2>1. support = {Label(k) : k \in inside}
    BY DEF Found, inside
  <2> QED
    BY <1>4, <2>1
<1> HIDE DEF support
<1>6. \A no \in support : \E k \in inside : record[k].no = no
  BY <1>5
<1>7. support \in SUBSET (0..MaxDecisions)
  <2>1. \A k \in inside : record[k].no \in 1..Len(record)
    BY <1>3 DEF IInv, InOrder
  <2>2. Len(record) \in Nat /\ Len(record) <= MaxDecisions /\ MaxDecisions \in Nat
    BY DEF IInv, TypeOK
  <2> QED
    BY <1>5, <2>1, <2>2
<1>8. Cardinality(support) = Cardinality(inside)
  <2> DEFINE f == [k \in inside |-> record[k].no]
  <2>1. IsFiniteSet(inside)
    <3>1. Len(atoms) \in Nat
      BY <1>1
    <3> HIDE DEF atoms
    <3>2. IsFiniteSet(1..Len(atoms))
      BY <3>1, FS_Interval
    <3>3. inside \in SUBSET (1..Len(atoms))
      BY <1>2
    <3> QED
      BY <3>2, <3>3, FS_Subset
  <2>2. f \in [inside -> support]
    BY <1>5
  <2>3. \A j, k \in inside : record[j].no = record[k].no => j = k
    BY <1>3 DEF IInv, InOrder
  <2>4. \A j, k \in inside : f[j] = f[k] => j = k
    BY <2>3
  <2>5. \A no \in support : \E k \in inside : f[k] = no
    BY <1>5
  <2> HIDE DEF f
  <2>6. f \in Bijection(inside, support)
    BY <2>2, <2>4, <2>5 DEF Bijection, Injection, Surjection, IsInjective
  <2>7. ExistsBijection(inside, support)
    BY <2>6 DEF ExistsBijection
  <2> QED
    BY <2>1, <2>7, FS_Bijection
<1> QED
  BY <1>1, <1>2, <1>3, <1>6, <1>7, <1>8 DEF inside, support

LEMMA FoundLooksForward ==
  ASSUME IInv, NEW c \in Callers, NEW p
  PROVE  /\ Found(call[c].atoms, p) \in Claim
         /\ LooksForward(Found(call[c].atoms, p), record, hypotheses)
<1> DEFINE atoms == call[c].atoms
           found == Found(atoms, p)
<1>1. /\ atoms \in Seq(Decision) /\ record \in Seq(Decision)
      /\ hypotheses \in Seq(Hypothesis) /\ Len(hypotheses) \in Nat
      /\ \A k \in Inside(atoms, p) : k \in 1..Len(record)
      /\ \A no \in found.support : \E k \in Inside(atoms, p) : record[k].no = no
      /\ found.support \in SUBSET (0..MaxDecisions)
  <2>1. hypotheses \in Seq(Hypothesis)
    BY DEF IInv, TypeOK
  <2>2. Len(hypotheses) \in Nat
    BY <2>1
  <2>3. /\ atoms \in Seq(Decision) /\ record \in Seq(Decision)
        /\ \A k \in Inside(atoms, p) : k \in 1..Len(record)
        /\ \A no \in found.support : \E k \in Inside(atoms, p) : record[k].no = no
        /\ found.support \in SUBSET (0..MaxDecisions)
    BY FoundSupport
  <2> HIDE DEF atoms, found
  <2> QED
    BY <2>1, <2>2, <2>3
<1> HIDE DEF atoms
<1>2. found.under = IF Narrowing(atoms) THEN Len(hypotheses) ELSE 0
  BY DEF Found
<1>3. found \in Claim
  <2>1. found.under \in Nat
    BY <1>1, <1>2
  <2> QED
    BY <1>1, <2>1 DEF Found, Claim
<1> HIDE DEF found
<1>4. ASSUME Narrowing(atoms)
      PROVE  /\ Len(hypotheses) \in 1..Len(hypotheses)
             /\ \A no \in found.support :
                  \/ no > hypotheses[Len(hypotheses)].before
                  \/ \E i, j \in 1..Len(record) :
                       /\ record[i].no = no /\ record[j].second = record[i].second
                       /\ record[j].no > hypotheses[Len(hypotheses)].before
  <2>1. Len(hypotheses) \in 1..Len(hypotheses)
    BY <1>1, <1>4 DEF Narrowing
  <2> DEFINE before == hypotheses[Len(hypotheses)].before
  <2>2. before \in Nat /\ before = Newest.before
    <3>1. hypotheses[Len(hypotheses)] \in Hypothesis
      BY <1>1, <2>1, ElementOfSeq
    <3> QED
      BY <3>1 DEF Hypothesis, Newest
  <2> HIDE DEF before
  <2>3. ASSUME NEW no \in found.support, ~(no > before)
        PROVE  \E i, j \in 1..Len(record) :
                 /\ record[i].no = no /\ record[j].second = record[i].second
                 /\ record[j].no > before
    <3>1. PICK k \in Inside(atoms, p) : record[k].no = no
      BY <1>1
    <3>2. k \in 1..Len(record) /\ k > before
      BY <1>1, <1>4, <2>2, <3>1, SearchedIsListed
    <3>3. record[k].no <= before
      <4>1. no \in Nat
        BY <1>1
      <4> QED
        BY <2>2, <2>3, <3>1, <4>1
    <3>4. PICK j \in 1..Len(record) : record[j].second = record[k].second /\ record[j].no > before
      BY <1>1, <2>2, <3>2, <3>3, OfOneSecond DEF IInv
    <3> QED
      BY <3>1, <3>2, <3>4
  <2> QED
    BY <2>1, <2>3 DEF before
<1>5. LooksForward(found, record, hypotheses)
  BY <1>2, <1>4 DEF LooksForward
<1> QED
  BY <1>3, <1>5 DEF found, atoms

LEMMA FoundRests ==
  ASSUME IInv, NEW c \in Callers, NEW p,
         Cardinality(Inside(call[c].atoms, p)) >= Least(call[c].atoms)
  PROVE  RestsOn(Found(call[c].atoms, p), p, record)
<1> DEFINE atoms == call[c].atoms
           found == Found(atoms, p)
<1>1. /\ atoms \in Seq(Decision) /\ record \in Seq(Decision) /\ Earlier(atoms, record)
      /\ \A k \in Inside(atoms, p) :
           k \in 1..Len(atoms) /\ k \in 1..Len(record) /\ record[k].second = atoms[k].second
      /\ \A no \in found.support : \E k \in Inside(atoms, p) : record[k].no = no
      /\ Cardinality(found.support) = Cardinality(Inside(atoms, p))
  <2>1. Earlier(atoms, record)
    BY DEF IInv, ListsAreOld
  <2> QED
    BY <2>1, FoundSupport
<1>2. Cardinality(Inside(atoms, p)) >= Least(atoms) /\ Len(hypotheses) \in Nat
      /\ (hypotheses # <<>> => Len(hypotheses) # 0)
  BY DEF IInv, TypeOK
<1> HIDE DEF atoms
<1>3. /\ \A k \in Inside(atoms, p) : /\ k \in 1..Len(atoms) /\ atoms[k].regime \in Regimes
                                     /\ atoms[k].seen /\ atoms[k].phase = p
      /\ \A j, k \in Inside(atoms, p) : atoms[j].regime = atoms[k].regime
  BY <1>1, PopulationIsOne
<1>4. Cardinality(found.support) >= Floor(found)
  <2>1. found.under = IF Narrowing(atoms) THEN Len(hypotheses) ELSE 0
    BY DEF Found
  <2>2. Narrowing(atoms) => Len(hypotheses) # 0
    BY <1>2 DEF Narrowing
  <2> HIDE DEF found
  <2>3. Floor(found) = Least(atoms)
    BY <2>1, <2>2 DEF Floor, Least
  <2> QED
    BY <1>1, <1>2, <2>3
<1> HIDE DEF found
<1>5. PICK first \in Inside(atoms, p) : TRUE
  <2>1. Least(atoms) \in Nat \ {0}
    BY DEF Least
  <2> DEFINE inside == Inside(atoms, p)
  <2>2. Cardinality(inside) >= Least(atoms)
    BY <1>2
  <2> HIDE DEF inside
  <2>3. inside # {}
    <3> SUFFICES ASSUME inside = {} PROVE FALSE
      OBVIOUS
    <3>1. Cardinality(inside) = 0
      BY FS_EmptySet, Zenon
    <3> QED
      BY <2>1, <2>2, <3>1
  <2> USE DEF inside
  <2> QED
    BY <2>3
<1>6. ASSUME NEW no \in found.support
      PROVE  \E i, j \in 1..Len(record) :
               /\ record[i].no = no /\ record[j].second = record[i].second
               /\ record[j].seen /\ record[j].phase = p /\ record[j].regime = atoms[first].regime
  <2>1. PICK k \in Inside(atoms, p) : record[k].no = no
    BY <1>1
  <2>2. PICK j \in 1..Len(record) : Later(atoms[k], record[j])
    BY <1>1 DEF Earlier
  <2>3. atoms[k].seen /\ atoms[k].phase = p /\ atoms[k].regime = atoms[first].regime
        /\ k \in 1..Len(record) /\ record[k].second = atoms[k].second
    BY <1>1, <1>3
  <2>4. record[j].second = record[k].second /\ record[j].seen /\ record[j].phase = p
        /\ record[j].regime = atoms[first].regime
    BY <2>2, <2>3 DEF Later
  <2> QED
    BY <2>1, <2>3, <2>4
<1>7. atoms[first].regime \in Regimes
  BY <1>3
<1>8. RestsOn(found, p, record)
  BY <1>4, <1>6, <1>7 DEF RestsOn
<1> QED
  BY <1>8 DEF found, atoms

LEMMA SearchStep ==
  ASSUME IInv, NEW c \in Callers, Search(c)
  PROVE  IInv'
<1>1. UNCHANGED <<record, hypotheses, claims>>
  BY DEF Search
<1>2. CASE call' = [call EXCEPT ![c] = Idle]
  BY <1>1, <1>2, IdleIsACall, CallStep
<1>3. ASSUME NEW p \in Searched(call[c].atoms),
             Cardinality(Inside(call[c].atoms, p)) >= Least(call[c].atoms),
             call' = [call EXCEPT ![c] = [Idle EXCEPT !.pc = "save", !.phase = p,
                                                      !.found = Found(call[c].atoms, p)]]
      PROVE  IInv'
  <2> DEFINE found == Found(call[c].atoms, p)
             after == [Idle EXCEPT !.pc = "save", !.phase = p, !.found = found]
  <2>1. p \in Phases
    <3>1. CASE Narrowing(call[c].atoms)
      <4>1. hypotheses \in Seq(Hypothesis) /\ Len(hypotheses) \in 1..Len(hypotheses)
        BY <3>1 DEF IInv, TypeOK, Narrowing
      <4>2. Newest \in Hypothesis
        BY <4>1, ElementOfSeq DEF Newest
      <4> QED
        BY <3>1, <4>2 DEF Searched, Hypothesis
    <3>2. CASE ~Narrowing(call[c].atoms)
      BY <3>2 DEF Searched
    <3> QED
      BY <3>1, <3>2
  <2>2. found \in Claim /\ Borne(found, p, record, hypotheses)
    BY <1>3, FoundLooksForward, FoundRests DEF Borne
  <2>3. call' = [call EXCEPT ![c] = after]
    BY <1>3
  <2> HIDE DEF found
  <2>4. after \in Call /\ after.atoms = <<>> /\ after.found = found /\ after.phase = p
    BY <2>1, <2>2, IdleIsACall DEF Call, Idle
  <2> HIDE DEF after
  <2>5. TypeOK'
    BY <1>1, <2>3, <2>4 DEF IInv, TypeOK
  <2>6. \A other \in Callers : call'[other] = call[other] \/ call'[other] = after
    BY <2>3 DEF IInv, TypeOK
  <2>7. Earlier(record, record) /\ Earlier(<<>>, record) /\ Len(hypotheses) \in Nat
    BY EarlierThanItself DEF IInv, TypeOK
  <2>8. Earlier(after.atoms, record) /\ Borne(after.found, after.phase, record, hypotheses)
    BY <2>2, <2>4, <2>7
  <2> QED
    BY <1>1, <2>5, <2>6, <2>7, <2>8, StepKeeps DEF IInv
<1> QED
  BY <1>2, <1>3 DEF Search

-----------------------------------------------------------------------------
LEMMA NextInv == IInv /\ [Next]_vars => IInv'
<1> SUFFICES ASSUME IInv, [Next]_vars PROVE IInv'
  OBVIOUS
<1>1. ASSUME NEW d \in Taken, Commit(d) PROVE IInv'
  BY <1>1, CommitStep
<1>2. ASSUME NEW k \in DOMAIN record, Reveal(k) PROVE IInv'
  BY <1>2, RevealStep
<1>3. ASSUME NEW c \in Callers, CountDecisions(c) PROVE IInv'
  BY <1>3, CountStep
<1>4. ASSUME NEW c \in Callers, SaveHypothesis(c) PROVE IInv'
  BY <1>4, SaveHypothesisStep
<1>5. ASSUME NEW c \in Callers, ListAtoms(c) PROVE IInv'
  BY <1>5, ListStep
<1>6. ASSUME NEW c \in Callers, Search(c) PROVE IInv'
  BY <1>6, SearchStep
<1>7. ASSUME NEW c \in Callers, SaveClaim(c) PROVE IInv'
  BY <1>7, SaveClaimStep
<1>8. CASE UNCHANGED vars
  BY <1>8 DEF vars, IInv, TypeOK, ListsAreOld, FoundIsBorne, ClaimsAreBorne
<1> QED
  BY <1>1, <1>2, <1>3, <1>4, <1>5, <1>6, <1>7, <1>8 DEF Next

\* A row is found by its number.
LEMMA FactIsARow ==
  ASSUME IInv, NEW k \in 1..Len(record)
  PROVE  Fact(record[k].no) = record[k]
<1> DEFINE held == {record[j] : j \in DOMAIN record}
           no == record[k].no
<1>1. DOMAIN record = 1..Len(record)
  BY DEF IInv, TypeOK
<1>2. record[k] \in held /\ record[k].no = no
  BY <1>1
<1>3. \A d \in held : d.no = no => d = record[k]
  BY <1>1 DEF IInv, InOrder
<1>4. Fact(no) = CHOOSE d \in held : d.no = no
  BY DEF Fact
<1> HIDE DEF held, no
<1>5. Fact(no) = record[k]
  BY <1>2, <1>3, <1>4
<1> QED
  BY <1>5 DEF no

\* Whatever is committed, in one second or in many, revealed or registered
\* between the reads of a query, a claim that a hypothesis narrowed rests on
\* what was decided after the hypothesis was counted, or in one second with a
\* decision that was (currentClaim, registerHypothesis).
THEOREM HypothesesLookForward == Spec => []TestedOnTheFuture
<1>1. Init => IInv
  BY InitInv
<1>2. IInv /\ [Next]_vars => IInv'
  BY NextInv
<1>3. IInv => TestedOnTheFuture
  <2> SUFFICES ASSUME IInv, NEW p \in Phases, claims[p].under # 0,
                      NEW no \in claims[p].support,
                      no \in 1..hypotheses[claims[p].under].before
               PROVE  \E k \in OfSecond(Fact(no).second) :
                        record[k].no > hypotheses[claims[p].under].before
    BY DEF TestedOnTheFuture
  <2> DEFINE before == hypotheses[claims[p].under].before
  <2>1. claims[p] # NoClaim
    BY DEF NoClaim
  <2>2. LooksForward(claims[p], record, hypotheses)
    BY <2>1 DEF IInv, ClaimsAreBorne, Borne
  <2>3. before \in Nat
    <3>1. claims[p].under \in 1..Len(hypotheses) /\ hypotheses \in Seq(Hypothesis)
      BY <2>2 DEF LooksForward, IInv, TypeOK
    <3>2. hypotheses[claims[p].under] \in Hypothesis
      BY <3>1, ElementOfSeq
    <3> QED
      BY <3>2 DEF Hypothesis
  <2>4. no \in 1..before
    OBVIOUS
  <2>5. no > before \/ \E i, j \in 1..Len(record) :
                         /\ record[i].no = no /\ record[j].second = record[i].second
                         /\ record[j].no > before
    BY <2>2 DEF LooksForward
  <2> HIDE DEF before
  <2>6. PICK i \in 1..Len(record), j \in 1..Len(record) :
          /\ record[i].no = no /\ record[j].second = record[i].second
          /\ record[j].no > before
    <3>1. ~(no > before)
      BY <2>3, <2>4
    <3> QED
      BY <2>5, <3>1, Zenon
  <2>7. Fact(no) = record[i]
    BY <2>6, FactIsARow
  <2>8. j \in OfSecond(Fact(no).second)
    BY <2>6, <2>7 DEF OfSecond, IInv, TypeOK
  <2> QED
    BY <2>6, <2>8 DEF before
<1> QED
  BY <1>1, <1>2, <1>3, PTL DEF Spec

\* The state has its shape, and a claim names decisions that are on the record,
\* as many as the search that found it needs; they, or others of their seconds,
\* are revealed, of its phase and of one regime, however the two reads of a
\* query lie to the commits and the verdicts of other tabs (currentClaim,
\* discoverySearchPopulation, scoreDecisions).
THEOREM ClaimsNameOnePopulation == Spec => []SupportIsOnePopulation
<1>1. Init => IInv
  BY InitInv
<1>2. IInv /\ [Next]_vars => IInv'
  BY NextInv
<1>3. IInv => SupportIsOnePopulation
  <2> SUFFICES ASSUME IInv, NEW p \in Phases, claims[p] # NoClaim
               PROVE  /\ claims[p].support \subseteq Numbered(record)
                      /\ \E r \in Regimes : \A no \in claims[p].support :
                           \E k \in OfSecond(Fact(no).second) :
                             record[k].seen /\ record[k].phase = p /\ record[k].regime = r
                      /\ Cardinality(claims[p].support) >= Floor(claims[p])
    BY DEF SupportIsOnePopulation, Floor, IInv
  <2>1. RestsOn(claims[p], p, record)
    BY DEF IInv, ClaimsAreBorne, Borne
  <2>2. DOMAIN record = 1..Len(record)
    BY DEF IInv, TypeOK
  <2>3. PICK r \in Regimes : \A no \in claims[p].support :
          \E i, j \in 1..Len(record) :
            /\ record[i].no = no /\ record[j].second = record[i].second
            /\ record[j].seen /\ record[j].phase = p /\ record[j].regime = r
    BY <2>1 DEF RestsOn
  <2>4. claims[p].support \subseteq Numbered(record)
    BY <2>2, <2>3 DEF Numbered
  <2>5. ASSUME NEW no \in claims[p].support
        PROVE  \E k \in OfSecond(Fact(no).second) :
                 record[k].seen /\ record[k].phase = p /\ record[k].regime = r
    <3>1. PICK i \in 1..Len(record), j \in 1..Len(record) :
            /\ record[i].no = no /\ record[j].second = record[i].second
            /\ record[j].seen /\ record[j].phase = p /\ record[j].regime = r
      BY <2>3
    <3>2. Fact(no) = record[i]
      BY <3>1, FactIsARow
    <3>3. j \in OfSecond(Fact(no).second)
      BY <2>2, <3>1, <3>2 DEF OfSecond
    <3> QED
      BY <3>1, <3>3
  <2> QED
    BY <2>1, <2>4, <2>5 DEF RestsOn
<1> QED
  BY <1>1, <1>2, <1>3, PTL DEF Spec

-----------------------------------------------------------------------------
\* There is a row, or none, for every phase.
Rows == claims = [p \in Phases |-> claims[p]]

\* A claim keeps the evidence it was stored with, however many decisions a
\* second holds and however many callers find it at once (saveClaim).
THEOREM EvidenceStays == Spec => EvidenceIsFinal
<1> DEFINE Kept == \A p \in Phases : claims[p] # NoClaim =>
                     claims'[p].support = claims[p].support /\ claims'[p].under = claims[p].under
<1>1. Init => Rows
  BY DEF Init, Rows
<1>2. Rows /\ [Next]_vars => Rows' /\ [Kept]_vars
  <2> SUFFICES ASSUME Rows, [Next]_vars PROVE Rows' /\ [Kept]_vars
    OBVIOUS
  <2>1. CASE UNCHANGED claims
    BY <2>1 DEF Rows
  <2>2. ASSUME NEW c \in Callers, SaveClaim(c) PROVE Rows' /\ Kept
    BY <2>2 DEF Rows, SaveClaim, Upsert
  <2> QED
    BY <2>1, <2>2 DEF Next, vars, Commit, Reveal, CountDecisions, SaveHypothesis,
                      ListAtoms, Search
<1> QED
  BY <1>1, <1>2, PTL DEF Spec, EvidenceIsFinal
=============================================================================
