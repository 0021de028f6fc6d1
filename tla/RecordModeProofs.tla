-------------------------- MODULE RecordModeProofs --------------------------
(***************************************************************************)
(* What the pages of one browser keep, for any number of tabs, identities  *)
(* and decisions, whenever an identity switches: critical sections read    *)
(* what is current, what a tab was told is kept stays in its view, the     *)
(* blobs are the records of RecordLog, and a record on the server is not   *)
(* begun again in the browser.                                             *)
(***************************************************************************)
EXTENDS RecordMode, TLAPS

\* Nobody shares a lock.
Mutex == \A t, u \in Tabs : lock[t] # NoKey /\ lock[t] = lock[u] => t = u

\* Whoever is inside has the lock of the record it is going to write, and has
\* read that record, unless the record is one that a stray write reaches.
Inside ==
  \A t \in Tabs : lock[t] # NoKey =>
    /\ op[t] # Delete
    /\ lock[t] = identity[t] \/ identity[t] \in strayed
    /\ t \in volatile \/ identity[t] \notin strayed => got[t] = View(t)
    /\ t \notin volatile => identity[t] \notin newer \ strayed

\* Nothing was promised to a tab that has still to find a newer blob.
Unread == \A t \in Tabs : t \notin volatile /\ identity[t] \in newer => mine[t] = {}

IInv == TypeOK /\ Mutex /\ Inside /\ Unread /\ KeptIsSeen

-----------------------------------------------------------------------------
(* The steps of the browser's own store.                                   *)

USE StoreAssumption DEF tab, inside, Outside, Fault

LEMMA InitInv == Init => IInv
BY DEF Init, IInv, TypeOK, Mutex, Inside, Unread, KeptIsSeen, View, Ops

LEMMA SwitchStep ==
  ASSUME IInv, NEW t \in Tabs, NEW k \in Keys, SwitchIdentity(t, k)
  PROVE  IInv'
<1> USE DEF IInv, SwitchIdentity
<1>1. TypeOK'
  BY DEF TypeOK
<1>2. Mutex'
  BY DEF Mutex
<1>3. Inside'
  BY DEF TypeOK, Inside, View
<1>4. Unread' /\ KeptIsSeen'
  BY DEF TypeOK, Unread, KeptIsSeen, View
<1> QED
  BY <1>1, <1>2, <1>3, <1>4

LEMMA RequestStep ==
  ASSUME IInv, NEW t \in Tabs, NEW what \in Ops, Request(t, what)
  PROVE  IInv'
<1> USE DEF IInv, Request
<1>1. TypeOK'
  BY DEF TypeOK
<1>2. Mutex' /\ Inside' /\ Unread' /\ KeptIsSeen'
  BY DEF Mutex, Inside, Unread, KeptIsSeen, View
<1> QED
  BY <1>1, <1>2

LEMMA LookStep ==
  ASSUME IInv, NEW t \in Tabs, Look(t)
  PROVE  IInv'
<1> USE DEF IInv, Look
<1>1. TypeOK'
  BY DEF TypeOK
<1>2. Mutex'
  BY DEF Mutex
<1>3. Inside' /\ Unread' /\ KeptIsSeen'
  BY DEF TypeOK, Inside, Unread, KeptIsSeen, View
<1> QED
  BY <1>1, <1>2, <1>3

LEMMA EnterStep ==
  ASSUME IInv, NEW r \in requests, Enter(r)
  PROVE  IInv'
<1> USE DEF IInv, Enter, LetIn
<1>0. r \in [tab : Tabs, lock : Keys, op : Ops] /\ r.tab \in Tabs /\ r.lock \in Keys /\ r.op \in Ops
  BY DEF TypeOK
<1>1. TypeOK'
  BY <1>0 DEF TypeOK, Reads, View
<1>2. Mutex'
  BY <1>0 DEF TypeOK, Mutex, Grantable, Free
<1>3. Inside'
  BY <1>0 DEF TypeOK, Inside, Reads, Grantable, View
<1>4. Unread' /\ KeptIsSeen'
  BY <1>0 DEF TypeOK, Unread, KeptIsSeen, Reads, View
<1> QED
  BY <1>1, <1>2, <1>3, <1>4

\* What is written holds what was read, which is the record.
LEMMA ResultGrows ==
  ASSUME IInv, NEW t \in Tabs, ~Outside(t), Allowed(t)
  PROVE  /\ Result(t) \subseteq Log!Row
         /\ t \in volatile \/ identity[t] \notin strayed => View(t) \subseteq Result(t)
         /\ lock[t] \in Keys
         /\ op[t] = Import \/ op[t] \in Log!Row
BY DEF IInv, TypeOK, Inside, Allowed, Result, Ops

LEMMA ThrowStep ==
  ASSUME IInv, NEW t \in Tabs, Throw(t)
  PROVE  IInv'
<1> USE DEF IInv, Throw, Release
<1>1. TypeOK'
  BY DEF TypeOK, Ops
<1>2. Mutex'
  BY DEF TypeOK, Mutex
<1>3. Inside' /\ Unread' /\ KeptIsSeen'
  BY DEF TypeOK, Inside, Unread, KeptIsSeen, View
<1> QED
  BY <1>1, <1>2, <1>3

\* Under one key, only the holder of its lock is at a record no write strayed to.
LEMMA Alone ==
  ASSUME IInv, NEW t \in Tabs, NEW u \in Tabs, lock[t] # NoKey, lock[u] # NoKey,
         identity[t] = identity[u], identity[t] \notin strayed
  PROVE  t = u
BY DEF IInv, Mutex, Inside

LEMMA WriteStep ==
  ASSUME IInv, NEW t \in Tabs, Write(t)
  PROVE  IInv'
<1> USE DEF IInv, Write, Release, Told
<1>0. /\ Result(t) \subseteq Log!Row
      /\ t \in volatile \/ identity[t] \notin strayed => View(t) \subseteq Result(t)
      /\ lock[t] \in Keys
  BY ResultGrows
<1>1. TypeOK'
  BY <1>0 DEF TypeOK, Ops
<1>2. Mutex'
  BY DEF TypeOK, Mutex
<1>3. Inside'
  <2>1. CASE t \in volatile
    BY <2>1 DEF TypeOK, Inside, View
  <2>2. CASE t \notin volatile
    BY <2>2, Alone DEF TypeOK, Inside, View, Outside
  <2> QED
    BY <2>1, <2>2
<1>4. Unread'
  BY <1>0 DEF TypeOK, Unread, Inside
<1>5. KeptIsSeen'
  BY <1>0 DEF TypeOK, KeptIsSeen, View
<1> QED
  BY <1>1, <1>2, <1>3, <1>4, <1>5

LEMMA RefusedStep ==
  ASSUME IInv, NEW t \in Tabs, WriteRefused(t)
  PROVE  IInv'
<1> USE DEF IInv, WriteRefused, Release, Told, Downgraded
<1>0. /\ Result(t) \subseteq Log!Row
      /\ t \in volatile \/ identity[t] \notin strayed => View(t) \subseteq Result(t)
  BY ResultGrows
<1>1. TypeOK'
  BY <1>0 DEF TypeOK, Ops
<1>2. Mutex'
  BY DEF TypeOK, Mutex
<1>3. Inside' /\ Unread'
  BY DEF TypeOK, Inside, Unread, View
<1>4. KeptIsSeen'
  BY <1>0 DEF TypeOK, KeptIsSeen, View
<1> QED
  BY <1>1, <1>2, <1>3, <1>4

LEMMA EraseStep ==
  ASSUME IInv, NEW r \in requests, Erase(r)
  PROVE  IInv'
<1> USE DEF IInv, Erase, LetIn
<1>0. r \in [tab : Tabs, lock : Keys, op : Ops] /\ r.tab \in Tabs /\ identity[r.tab] \in Keys
  BY DEF TypeOK
<1>1. \A t \in Tabs : lock[t] # NoKey /\ identity[t] \notin strayed' => identity[t] # identity[r.tab]
  BY <1>0 DEF TypeOK, Inside, Grantable, Free
<1>2. TypeOK'
  BY <1>0 DEF TypeOK
<1>3. Mutex'
  BY DEF Mutex
<1>4. Inside'
  BY <1>0, <1>1 DEF TypeOK, Inside, Grantable, View
<1>5. Unread' /\ KeptIsSeen'
  BY <1>0 DEF TypeOK, Unread, KeptIsSeen, View
<1> QED
  BY <1>2, <1>3, <1>4, <1>5

LEMMA UpgradeStep ==
  ASSUME IInv, NEW k \in Keys, Upgrade(k)
  PROVE  IInv'
<1> USE DEF IInv, Upgrade
<1>1. TypeOK'
  BY DEF TypeOK
<1>2. Mutex'
  BY DEF Mutex
<1>3. Inside'
  BY DEF TypeOK, Inside, Free, View
<1>4. Unread' /\ KeptIsSeen'
  BY DEF TypeOK, Unread, KeptIsSeen, View
<1> QED
  BY <1>1, <1>2, <1>3, <1>4

LEMMA ReloadStep ==
  ASSUME IInv, NEW t \in Tabs, Reload(t)
  PROVE  IInv'
<1> USE DEF IInv, Reload, Release
<1>1. TypeOK'
  BY DEF TypeOK, Ops
<1>2. Mutex'
  BY DEF TypeOK, Mutex
<1>3. Inside'
  BY DEF TypeOK, Inside, View
<1>4. Unread' /\ KeptIsSeen'
  BY DEF TypeOK, Unread, KeptIsSeen, View
<1> QED
  BY <1>1, <1>2, <1>3, <1>4

LEMMA StoreStep ==
  ASSUME IInv, Next
  PROVE  IInv'
<1>1. CASE \E t \in Tabs, k \in Keys : SwitchIdentity(t, k)
  BY <1>1, SwitchStep
<1>2. CASE \E t \in Tabs, what \in Ops : Request(t, what)
  BY <1>2, RequestStep
<1>3. CASE \E t \in Tabs : Look(t)
  BY <1>3, LookStep
<1>4. CASE \E t \in Tabs : Throw(t)
  BY <1>4, ThrowStep
<1>5. CASE \E t \in Tabs : Write(t)
  BY <1>5, WriteStep
<1>6. CASE \E t \in Tabs : WriteRefused(t)
  BY <1>6, RefusedStep
<1>7. CASE \E t \in Tabs : Reload(t)
  BY <1>7, ReloadStep
<1>8. CASE \E r \in requests : Enter(r)
  BY <1>8, EnterStep
<1>9. CASE \E r \in requests : Erase(r)
  BY <1>9, EraseStep
<1>10. CASE \E k \in Keys : Upgrade(k)
  BY <1>10, UpgradeStep
<1> QED
  BY <1>1, <1>2, <1>3, <1>4, <1>5, <1>6, <1>7, <1>8, <1>9, <1>10 DEF Next

\* Nothing of the store changes but the bound on its faults.
LEMMA FrameStep ==
  ASSUME IInv, UNCHANGED <<disk, newer, tab, requests, inside, mine, strayed, asked>>,
         faults' \in 0..MaxFaults
  PROVE  IInv'
BY DEF IInv, TypeOK, Mutex, Inside, Unread, KeptIsSeen, View

-----------------------------------------------------------------------------
(* The page over the store.                                                *)

\* Every step of a page is a step of the store, or leaves the store alone.
LEMMA ModeStepsAreStoreSteps ==
  ASSUME ModeNext
  PROVE  Next \/ UNCHANGED vars \/ Toggle
<1>1. CASE \E t \in Tabs, k \in Keys : Session(t, k)
  BY <1>1 DEF Session, Next
<1>2. CASE \E t \in Tabs, row \in Log!Row : WriteHere(t, row)
  BY <1>2 DEF WriteHere, Next, Ops
<1>3. CASE \E t \in Tabs : Probe(t) \/ WriteThere(t)
  BY <1>3 DEF Probe, WriteThere
<1>4. CASE \E t \in Tabs : Control(t)
  BY <1>4 DEF Control, Next, Ops
<1>5. CASE \E t \in Tabs : ReloadPage(t)
  BY <1>5 DEF ReloadPage, Next
<1>6. CASE \E t \in Tabs : Look(t) \/ Throw(t) \/ Write(t) \/ WriteRefused(t)
  BY <1>6 DEF Next
<1>7. CASE \E r \in requests : Enter(r) \/ Erase(r)
  BY <1>7 DEF Next
<1>8. CASE \E k \in Keys : Upgrade(k)
  BY <1>8 DEF Next
<1> QED
  BY <1>1, <1>2, <1>3, <1>4, <1>5, <1>6, <1>7, <1>8 DEF ModeNext

modeVars == <<vars, up, page>>

LEMMA ModeStep ==
  ASSUME IInv, [ModeNext]_modeVars
  PROVE  IInv'
<1>1. CASE UNCHANGED vars
  BY <1>1, FrameStep DEF vars, IInv, TypeOK
<1>2. CASE Toggle
  BY <1>2, FrameStep DEF Toggle, IInv, TypeOK
<1>3. CASE Next
  BY <1>3, StoreStep
<1> QED
  BY <1>1, <1>2, <1>3, ModeStepsAreStoreSteps DEF modeVars

\* Where pages keep their records, and whatever storage, tabs and server do
\* to them, the invariant of the store holds.
THEOREM StoreInvariant == ModeSpec => []IInv
<1>1. ModeInit => IInv
  BY InitInv DEF ModeInit
<1>2. IInv /\ [ModeNext]_modeVars => IInv'
  BY ModeStep
<1> QED
  BY <1>1, <1>2, PTL DEF ModeSpec, modeVars

\* What a critical section writes over is what it has read, for any number of
\* tabs: in the memory of a tab always, in the storage of a record unless some
\* write asked for under another identity was let at that record.
THEOREM ReadsStayCurrent == ModeSpec => []ReadsAreCurrent
<1>1. IInv => ReadsAreCurrent
  BY DEF IInv, Inside, ReadsAreCurrent, Outside
<1> QED
  BY <1>1, StoreInvariant, PTL

\* What a tab was told is kept stays in its view, also when the storage fills,
\* as long as no write asked for under another identity was let at its record.
THEOREM KeptStaysSeen == ModeSpec => []KeptIsSeen
<1>1. IInv => KeptIsSeen
  BY DEF IInv
<1> QED
  BY <1>1, StoreInvariant, PTL

-----------------------------------------------------------------------------
(* The refinement: writing to the storage appends or restores, everything  *)
(* that stays in a tab is a stutter.                                       *)

LEMMA WriteRefines ==
  ASSUME IInv, NEW t \in Tabs, Write(t), t \notin volatile
  PROVE  Log!Next
<1> DEFINE k == identity[t]
<1>1. /\ k \in Keys
      /\ Result(t) \subseteq Log!Row
      /\ op[t] = Import \/ op[t] \in Log!Row
      /\ disk' = [disk EXCEPT ![k] = Result(t)]
      /\ newer' = newer \ {k}
      /\ strayed' = strayed
  BY ResultGrows DEF IInv, TypeOK, Write
<1>2. CASE k \in strayed
  <2>1. Log!Overwrite(k)
    BY <1>1, <1>2 DEF Log!Overwrite
  <2> QED
    BY <1>1, <2>1 DEF Log!Next
<1>3. ASSUME k \notin strayed
      PROVE  k \notin newer /\ newer' = newer /\ got[t] = disk[k]
  BY <1>1, <1>3 DEF IInv, Inside, View, Write, Outside
<1>4. CASE k \notin strayed /\ op[t] = Import
  <2>1. disk[k] = {} /\ Result(t) = File
    BY <1>3, <1>4 DEF Write, Allowed, Result
  <2>2. Log!Restore(k)
    BY <1>1, <1>3, <1>4, <2>1 DEF Log!Restore
  <2> QED
    BY <1>1, <2>2 DEF Log!Next
<1>5. CASE k \notin strayed /\ op[t] # Import
  <2>1. op[t] \in Log!Row /\ Log!Accepts(op[t], disk[k])
    BY <1>1, <1>3, <1>5 DEF Write, Allowed
  <2>2. Result(t) = disk[k] \cup {op[t]}
    BY <1>3, <1>5 DEF Result
  <2>3. disk' = [disk EXCEPT ![k] = @ \cup {op[t]}]
    BY <1>1, <2>2
  <2>4. Log!Append(k, op[t])
    BY <1>1, <1>3, <1>5, <2>1, <2>3 DEF Log!Append
  <2> QED
    BY <1>1, <2>1, <2>4 DEF Log!Next
<1> QED
  BY <1>2, <1>4, <1>5

logVars == <<disk, newer, strayed>>

\* The key a request is let at is still its own, or is strayed to.
LEMMA LetInRefines ==
  ASSUME IInv, NEW r \in requests, LetIn(r)
  PROVE  strayed' = strayed \/ strayed' = strayed \cup {identity[r.tab]}
BY DEF LetIn

LEMMA RefineStep ==
  ASSUME IInv, [ModeNext]_modeVars
  PROVE  [Log!Next]_logVars
<1>1. CASE UNCHANGED vars
  BY <1>1 DEF vars, logVars
<1>2. CASE Toggle
  BY <1>2 DEF Toggle, logVars
<1>3. CASE Next
  <2>1. CASE \E t \in Tabs :
              \/ \E k \in Keys : SwitchIdentity(t, k)
              \/ \E what \in Ops : Request(t, what)
              \/ Look(t) \/ Throw(t) \/ WriteRefused(t) \/ Reload(t)
    BY <2>1 DEF SwitchIdentity, Request, Look, Throw, WriteRefused, Reload, logVars
  <2>2. ASSUME NEW r \in requests, Enter(r) PROVE [Log!Next]_logVars
    <3>1. r.tab \in Tabs /\ identity[r.tab] \in Keys
      BY DEF IInv, TypeOK
    <3>2. UNCHANGED logVars \/ Log!Stray(identity[r.tab])
      BY <2>2, LetInRefines DEF Enter, Log!Stray, logVars
    <3> QED
      BY <3>1, <3>2 DEF Log!Next
  <2>3. ASSUME NEW t \in Tabs, Write(t) PROVE [Log!Next]_logVars
    <3>1. CASE t \in volatile
      BY <2>3, <3>1 DEF Write, logVars
    <3>2. CASE t \notin volatile
      BY <2>3, <3>2, WriteRefines
    <3> QED
      BY <3>1, <3>2
  <2>4. ASSUME NEW r \in requests, Erase(r) PROVE Log!Next
    <3>1. r.tab \in Tabs /\ identity[r.tab] \in Keys
      BY DEF IInv, TypeOK
    <3>2. Log!Erase(identity[r.tab])
      BY <2>4, LetInRefines DEF Erase, Log!Erase
    <3> QED
      BY <3>1, <3>2 DEF Log!Next
  <2>5. ASSUME NEW k \in Keys, Upgrade(k) PROVE Log!Next
    <3>1. Log!Upgrade(k)
      BY <2>5 DEF Upgrade, Log!Upgrade
    <3> QED
      BY <3>1 DEF Log!Next
  <2> QED
    BY <1>3, <2>1, <2>2, <2>3, <2>4, <2>5 DEF Next
<1> QED
  BY <1>1, <1>2, <1>3, ModeStepsAreStoreSteps DEF modeVars

\* The blobs of all tabs together are the records of RecordLog: appended to,
\* erased or restored as a whole, and never written over when newer; only the
\* records that a write asked for under another identity was let at may be
\* written over.
THEOREM StoreRefinesLog == ModeSpec => ImplementsLog
<1>1. ModeInit => Log!Init
  BY DEF ModeInit, Init, Log!Init
<1>2. IInv /\ [ModeNext]_modeVars => [Log!Next]_logVars
  BY RefineStep
<1> QED
  BY <1>1, <1>2, StoreInvariant, PTL DEF ModeSpec, modeVars, ImplementsLog, Log!Spec, logVars

-----------------------------------------------------------------------------
(* The two latches.                                                        *)

\* What the server was seen to hold is remembered, and nothing else is sent.
Known ==
  /\ identity \in [Tabs -> Keys]
  /\ probe \in [Tabs -> {"unknown", "usable", "failed"}]
  /\ confirmed \in [Tabs -> SUBSET Accounts]
  /\ kept \in [Tabs -> SUBSET Accounts]
  /\ sent \in [Tabs -> SUBSET Accounts]
  /\ \A t \in Tabs : /\ Usable(t) => identity[t] \in confirmed[t]
                     /\ sent[t] \subseteq confirmed[t]

LEMMA KnownStep ==
  ASSUME Known, [ModeNext]_modeVars
  PROVE  Known'
<1> USE DEF Known, Usable, SignedIn, Accounts, page
<1>1. ASSUME NEW t \in Tabs, NEW k \in Keys, Session(t, k) PROVE Known'
  <2>1. PICK answer \in {"unknown", probe[t]} : Render(t, answer, k)
    BY <1>1 DEF Session
  <2>2. identity' = [identity EXCEPT ![t] = k]
    BY <1>1 DEF Session, SwitchIdentity
  <2> QED
    BY <2>1, <2>2 DEF Render
<1>2. ASSUME NEW t \in Tabs, Probe(t) PROVE Known'
  BY <1>2 DEF Probe, Render, vars
<1>3. ASSUME NEW t \in Tabs, NEW row \in Log!Row, WriteHere(t, row) PROVE Known'
  BY <1>3 DEF WriteHere, Request
<1>4. ASSUME NEW t \in Tabs, WriteThere(t) PROVE Known'
  BY <1>4 DEF WriteThere, Local, Lost, vars
<1>5. ASSUME NEW t \in Tabs, Control(t) PROVE Known'
  BY <1>5 DEF Control, Request
<1>6. ASSUME NEW t \in Tabs, ReloadPage(t) PROVE Known'
  BY <1>6 DEF ReloadPage, Reload
<1>7. CASE UNCHANGED <<identity, page>>
  BY <1>7
<1>8. CASE \E t \in Tabs : (Look(t) \/ Throw(t) \/ Write(t) \/ WriteRefused(t)) /\ UNCHANGED <<up, page>>
  BY <1>7, <1>8 DEF Look, Throw, Write, WriteRefused
<1>9. CASE \E r \in requests : (Enter(r) \/ Erase(r)) /\ UNCHANGED <<up, page>>
  BY <1>7, <1>9 DEF Enter, Erase
<1>10. CASE (\E k \in Keys : Upgrade(k) /\ UNCHANGED <<up, page>>) \/ Toggle
  BY <1>7, <1>10 DEF Upgrade, Toggle
<1> QED
  BY <1>1, <1>2, <1>3, <1>4, <1>5, <1>6, <1>7, <1>8, <1>9, <1>10 DEF ModeNext, modeVars, vars

LEMMA UpStep ==
  ASSUME up \in BOOLEAN, [ModeNext]_modeVars
  PROVE  up' \in BOOLEAN
<1>1. CASE UNCHANGED up
  BY <1>1
<1>2. CASE up' = ~up
  BY <1>2
<1> QED
  BY <1>1, <1>2, Zenon
  DEF ModeNext, modeVars, Session, Probe, WriteHere, WriteThere, Control, ReloadPage, Toggle

LEMMA KnownInit == ModeInit => Known
BY DEF ModeInit, Init, Known, Usable, SignedIn, Accounts

\* Every variable of the pages and of their store keeps its type.
THEOREM TypeCorrect == ModeSpec => []ModeTypeOK
<1> DEFINE PageOK == Known /\ up \in BOOLEAN
<1>1. ModeInit => PageOK
  BY KnownInit DEF ModeInit
<1>2. PageOK /\ [ModeNext]_modeVars => PageOK'
  BY KnownStep, UpStep
<1>3. IInv /\ PageOK => ModeTypeOK
  BY DEF IInv, Known, ModeTypeOK
<1> HIDE DEF PageOK
<1> QED
  BY <1>1, <1>2, <1>3, StoreInvariant, PTL DEF ModeSpec, modeVars

\* The controls ask for no row.
LEMMA NoControlRow == Import \notin Log!Row /\ Delete \notin Log!Row
BY DEF Import, Delete, Log!Row

LEMMA LatchStep ==
  ASSUME Known, [ModeNext]_modeVars, NEW r \in requests', r \notin requests,
         r.op \in Log!Row, r.lock \in sent[r.tab]
  PROVE  r.lock \in kept[r.tab]
<1> USE DEF Known, Usable, SignedIn, Accounts, Request
<1>1. ASSUME NEW t \in Tabs, NEW row \in Log!Row, WriteHere(t, row) PROVE r.lock \in kept[r.tab]
  <2>1. r = [tab |-> t, lock |-> identity[t], op |-> row]
    BY <1>1 DEF WriteHere
  <2> QED
    BY <1>1, <2>1 DEF WriteHere, Local, Lost, KeptHere
<1>2. ASSUME NEW t \in Tabs, Control(t) PROVE FALSE
  BY <1>2, NoControlRow DEF Control
<1>3. requests' \subseteq requests \/ \E t \in Tabs : Control(t) \/ \E row \in Log!Row : WriteHere(t, row)
  BY Zenon DEF ModeNext, modeVars, vars, Session, SwitchIdentity, Probe, WriteThere, ReloadPage, Reload,
         Look, Throw, Write, WriteRefused, Enter, Erase, Upgrade, Toggle
<1> QED
  BY <1>1, <1>2, <1>3

\* A write for an account is not asked for in the browser by a page that has
\* put rows of that account on the server, unless it had marked the account as
\* kept in the browser before.
THEOREM RecordStaysOnServer == ModeSpec => StartsNoRecordHere
<1>1. ModeInit => Known
  BY KnownInit
<1>2. Known /\ [ModeNext]_modeVars => Known'
  BY KnownStep
<1>3. Known /\ [ModeNext]_modeVars =>
        [\A r \in requests' \ requests :
           r.op \in Log!Row /\ r.lock \in sent[r.tab] => r.lock \in kept[r.tab]]_<<requests, sent, kept>>
  BY LatchStep
<1> QED
  BY <1>1, <1>2, <1>3, PTL DEF ModeSpec, modeVars, StartsNoRecordHere
=============================================================================
