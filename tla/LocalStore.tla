----------------------------- MODULE LocalStore -----------------------------
(***************************************************************************)
(* The record this browser keeps (local-record-store.ts): one blob per     *)
(* identity under localStorage, written by several tabs, each write a      *)
(* read-modify-write under a Web Lock; a copy in the tab's memory when the *)
(* storage refuses or the blob cannot be read.  A blob is the set of its   *)
(* rows.  The code of a critical section runs without interruption in its  *)
(* own tab, not against the other tabs.                                    *)
(***************************************************************************)
EXTENDS Naturals, FiniteSets

CONSTANTS Tabs, Keys, Decisions,
          File,          \* the rows of a record exported before
          SignedOut,     \* the key of a page whose session is not known
          NoKey, NoRow,
          MaxRequests,   \* bound: writes asked for
          MaxFaults      \* bound: full storage, reloads, upgrades

VARIABLES
  disk,        \* localStorage: the rows under each key
  newer,       \* keys whose blob a newer build has written
  identity,    \* whose record each tab points at
  volatile,    \* tabs that keep the record in memory: session # null
  memory,      \* their record
  requests,    \* locks asked for and not granted
  lock,        \* the lock a tab holds, inside its critical section
  op,          \* what it is there for
  got,         \* what it has read
  mine,        \* rows a tab was told are kept, since it took up the identity
  strayed,     \* history: keys a write was let at under the lock of another
  asked, faults

tab == <<identity, volatile, memory>>
inside == <<lock, op, got>>
vars == <<disk, newer, tab, requests, inside, mine, strayed, asked, faults>>

Log == INSTANCE RecordLog WITH log <- disk

Import == <<"import", NoRow>>
Delete == <<"delete", NoRow>>
Ops == Log!Row \cup {Import, Delete}

ASSUME StoreAssumption ==
  /\ SignedOut \in Keys /\ NoKey \notin Keys /\ NoRow \notin Decisions
  /\ File \subseteq Log!Row
  /\ MaxRequests \in Nat /\ MaxFaults \in Nat

TypeOK ==
  /\ disk \in [Keys -> SUBSET Log!Row]
  /\ newer \subseteq Keys
  /\ identity \in [Tabs -> Keys]
  /\ volatile \subseteq Tabs
  /\ memory \in [Tabs -> SUBSET Log!Row]
  /\ requests \subseteq [tab : Tabs, lock : Keys, op : Ops]
  /\ lock \in [Tabs -> Keys \cup {NoKey}]
  /\ op \in [Tabs -> Ops]
  /\ got \in [Tabs -> SUBSET Log!Row]
  /\ mine \in [Tabs -> SUBSET Log!Row]
  /\ strayed \subseteq Keys
  /\ asked \in 0..MaxRequests /\ faults \in 0..MaxFaults

Init ==
  /\ disk = [k \in Keys |-> {}] /\ newer = {}
  /\ identity = [t \in Tabs |-> SignedOut]
  /\ volatile = {} /\ memory = [t \in Tabs |-> {}]
  /\ requests = {}
  /\ lock = [t \in Tabs |-> NoKey] /\ op = [t \in Tabs |-> Delete] /\ got = [t \in Tabs |-> {}]
  /\ mine = [t \in Tabs |-> {}] /\ strayed = {}
  /\ asked = 0 /\ faults = 0

\* Between two critical sections of its own a tab runs everything else.
Outside(t) == lock[t] = NoKey
Free(k) == \A u \in Tabs : lock[u] # k
View(t) == IF t \in volatile THEN memory[t] ELSE disk[identity[t]]
Fault == faults < MaxFaults /\ faults' = faults + 1

\* setLocalRecordIdentity, in a render: also while a write of this tab waits
\* for its lock.
SwitchIdentity(t, k) ==
  /\ Outside(t) /\ k # identity[t]
  /\ identity' = [identity EXCEPT ![t] = k]
  /\ volatile' = volatile \ {t} /\ memory' = [memory EXCEPT ![t] = {}]
  /\ mine' = [mine EXCEPT ![t] = {}]
  /\ UNCHANGED <<disk, newer, requests, inside, strayed, asked, faults>>

\* serialised: the lock is named after the identity of this moment.
Request(t, what) ==
  /\ Outside(t)
  /\ asked < MaxRequests /\ asked' = asked + 1
  /\ requests' = requests \cup {[tab |-> t, lock |-> identity[t], op |-> what]}
  /\ UNCHANGED <<disk, newer, tab, inside, mine, strayed, faults>>

\* Mutant: no Web Locks, the tabs do not wait for one another.
GrantableToAll(r) == Outside(r.tab)
Grantable(r) == Outside(r.tab) /\ Free(r.lock)

\* Mutant: a blob of a newer build is read as an empty record.
ReadsAnything(t) ==
  /\ got' = [got EXCEPT ![t] = IF t \notin volatile /\ identity[t] \in newer THEN {} ELSE View(t)]
  /\ UNCHANGED <<volatile, memory>>

\* read: the record in memory, or the blob under the key of this moment.  A
\* blob of a newer build is refused, and the tab goes on in memory.
Reads(t) ==
  LET refused == t \notin volatile /\ identity[t] \in newer IN
  /\ got' = [got EXCEPT ![t] = IF refused THEN {} ELSE View(t)]
  /\ volatile' = IF refused THEN volatile \cup {t} ELSE volatile
  /\ memory' = IF refused THEN [memory EXCEPT ![t] = {}] ELSE memory

\* The key is that of the moment the lock is granted: it may be another one.
LetIn(r) == strayed' = strayed \cup ({identity[r.tab]} \ {r.lock})

\* A screen lists the record, outside any lock.
Look(t) ==
  /\ Outside(t) /\ t \notin volatile /\ identity[t] \in newer
  /\ volatile' = volatile \cup {t} /\ memory' = [memory EXCEPT ![t] = {}]
  /\ UNCHANGED <<disk, newer, identity, requests, inside, mine, strayed, asked, faults>>

\* The critical section of update and importLocalRecord, up to its write.
Enter(r) ==
  /\ Grantable(r) /\ r.op # Delete
  /\ Reads(r.tab) /\ LetIn(r)
  /\ lock' = [lock EXCEPT ![r.tab] = r.lock]
  /\ op' = [op EXCEPT ![r.tab] = r.op]
  /\ requests' = requests \ {r}
  /\ UNCHANGED <<disk, newer, identity, mine, asked, faults>>

\* The checks of the mutators, and of an import.
Allowed(t) == IF op[t] = Import THEN got[t] = {} ELSE Log!Accepts(op[t], got[t])
Result(t) == IF op[t] = Import THEN File ELSE got[t] \cup {op[t]}

Release(t) ==
  /\ lock' = [lock EXCEPT ![t] = NoKey]
  /\ op' = [op EXCEPT ![t] = Delete]
  /\ got' = [got EXCEPT ![t] = {}]

\* A check throws: nothing is written.
Throw(t) ==
  /\ ~Outside(t) /\ ~Allowed(t)
  /\ Release(t)
  /\ UNCHANGED <<disk, newer, tab, requests, mine, strayed, asked, faults>>

Told(t) == mine' = [mine EXCEPT ![t] = @ \cup Result(t)]

\* write, to the memory of a tab that has no storage, or to the storage, in the
\* place of whatever is there by then.
Write(t) ==
  /\ ~Outside(t) /\ Allowed(t)
  /\ IF t \in volatile
     THEN /\ memory' = [memory EXCEPT ![t] = Result(t)]
          /\ UNCHANGED <<disk, newer>>
     ELSE /\ disk' = [disk EXCEPT ![identity[t]] = Result(t)]
          /\ newer' = newer \ {identity[t]}
          /\ UNCHANGED memory
  /\ Told(t) /\ Release(t)
  /\ UNCHANGED <<identity, volatile, requests, strayed, asked, faults>>

\* Mutant: the downgrade keeps what was stored, without this write.
DowngradedWithout(t) == got[t]
Downgraded(t) == Result(t)

\* write, when the storage is full: the tab goes on in memory, carrying this
\* write.
WriteRefused(t) ==
  /\ ~Outside(t) /\ Allowed(t) /\ t \notin volatile
  /\ Fault
  /\ volatile' = volatile \cup {t}
  /\ memory' = [memory EXCEPT ![t] = Downgraded(t)]
  /\ Told(t) /\ Release(t)
  /\ UNCHANGED <<disk, newer, identity, requests, strayed, asked>>

\* deleteLocalRecord: one removal, under the lock.
Erase(r) ==
  /\ Grantable(r) /\ r.op = Delete
  /\ LetIn(r)
  /\ disk' = [disk EXCEPT ![identity[r.tab]] = {}]
  /\ newer' = newer \ {identity[r.tab]}
  /\ volatile' = volatile \ {r.tab} /\ memory' = [memory EXCEPT ![r.tab] = {}]
  /\ mine' = [t \in Tabs |-> IF identity[t] = identity[r.tab] THEN {} ELSE mine[t]]
  /\ requests' = requests \ {r}
  /\ UNCHANGED <<identity, inside, asked, faults>>

\* A page of a newer build writes the record, under the same lock.
Upgrade(k) ==
  /\ k \notin newer /\ Free(k)
  /\ Fault
  /\ newer' = newer \cup {k}
  /\ mine' = [t \in Tabs |-> IF identity[t] = k /\ t \notin volatile THEN {} ELSE mine[t]]
  /\ UNCHANGED <<disk, tab, requests, inside, strayed, asked>>

\* The tab is reloaded or killed, also between reading and writing.
Reload(t) ==
  /\ Fault
  /\ identity' = [identity EXCEPT ![t] = SignedOut]
  /\ volatile' = volatile \ {t} /\ memory' = [memory EXCEPT ![t] = {}]
  /\ requests' = {r \in requests : r.tab # t}
  /\ Release(t)
  /\ mine' = [mine EXCEPT ![t] = {}]
  /\ UNCHANGED <<disk, newer, strayed, asked>>

Next ==
  \/ \E t \in Tabs :
       \/ \E k \in Keys : SwitchIdentity(t, k)
       \/ \E what \in Ops : Request(t, what)
       \/ Look(t) \/ Throw(t) \/ Write(t) \/ WriteRefused(t) \/ Reload(t)
  \/ \E r \in requests : Enter(r) \/ Erase(r)
  \/ \E k \in Keys : Upgrade(k)

Spec == Init /\ [][Next]_vars

-----------------------------------------------------------------------------
(* Properties.                                                             *)

\* What a critical section has read is still the record when it writes (update,
\* "the critical section below genuinely serialises"): always in the memory of
\* a tab, and in the storage of a record until a write that was asked for under
\* another identity is let at it.
ReadsAreCurrent ==
  \A t \in Tabs : ~Outside(t) /\ (t \in volatile \/ identity[t] \notin strayed) =>
                    got[t] = View(t)

\* What a tab was told is kept, it goes on seeing: whether the storage took it
\* or refused it, until the record is erased, a newer build takes it over, the
\* tab takes up another, or a write that was asked for under another identity
\* is let at it.
KeptIsSeen == \A t \in Tabs : identity[t] \notin strayed => mine[t] \subseteq View(t)

\* The blobs of all tabs together are the append-only records of RecordLog.
ImplementsLog == Log!Spec

-----------------------------------------------------------------------------
(* What the source says and the code does not do.                          *)

\* A row goes into the record of the identity it was written for ("What it can
\* do is stop merging the ones it WAS given").
WritesWhereAsked == \A t \in Tabs : ~Outside(t) => lock[t] = identity[t]

\* No row that was told as kept is lost to another tab ("THE READ IS INSIDE THE
\* LOCK").
NothingKeptIsLost == \A t \in Tabs : mine[t] \subseteq View(t)
=============================================================================
