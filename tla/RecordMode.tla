----------------------------- MODULE RecordMode -----------------------------
(***************************************************************************)
(* Where a page keeps the record (useRecordMode and the write hooks of     *)
(* record-api.ts), over the browser's own store of LocalStore: the server  *)
(* once it has said it can hold it, this browser otherwise, and two        *)
(* latches, so that a record does not change its place under a page.       *)
(***************************************************************************)
EXTENDS LocalStore

VARIABLES
  up,          \* whether the server answers and has its database
  probe,       \* the page's last answer to "can you store": unknown, usable, failed
  confirmed,   \* confirmedServerRecords
  kept,        \* keptLocalRecords
  sent         \* accounts for which the page has stored rows on the server

page == <<probe, confirmed, kept, sent>>

Accounts == Keys \ {SignedOut}

ModeTypeOK ==
  /\ TypeOK
  /\ up \in BOOLEAN
  /\ probe \in [Tabs -> {"unknown", "usable", "failed"}]
  /\ confirmed \in [Tabs -> SUBSET Accounts]
  /\ kept \in [Tabs -> SUBSET Accounts]
  /\ sent \in [Tabs -> SUBSET Accounts]

ModeInit ==
  /\ Init
  /\ up \in BOOLEAN
  /\ probe = [t \in Tabs |-> "unknown"]
  /\ confirmed = [t \in Tabs |-> {}] /\ kept = [t \in Tabs |-> {}] /\ sent = [t \in Tabs |-> {}]

SignedIn(t) == identity[t] # SignedOut
Usable(t) == SignedIn(t) /\ probe[t] = "usable"

\* Mutant: only the server that answers now counts.
LostNever(t) == FALSE
\* "server-lost": it was holding this account's record, and has stopped answering.
Lost(t) == SignedIn(t) /\ ~Usable(t) /\ identity[t] \in confirmed[t]

\* "kept-local": it answers, and this page has written into the browser.
KeptHere(t) == Usable(t) /\ identity[t] \in kept[t]

Local(t) == ~Lost(t) /\ (~Usable(t) \/ KeptHere(t))

-----------------------------------------------------------------------------

\* The page renders with a probe's answer and an identity.
Render(t, answer, k) ==
  /\ probe' = [probe EXCEPT ![t] = answer]
  /\ confirmed' = [confirmed EXCEPT ![t] = IF answer = "usable" /\ k # SignedOut THEN @ \cup {k} ELSE @]
  /\ UNCHANGED <<kept, sent>>

\* The session resolves or ends; what was probed before may still be cached.
Session(t, k) ==
  /\ SwitchIdentity(t, k)
  /\ \E answer \in {"unknown", probe[t]} : Render(t, answer, k)
  /\ UNCHANGED up

Probe(t) ==
  /\ Outside(t) /\ SignedIn(t)
  /\ Render(t, IF up THEN "usable" ELSE "failed", identity[t])
  /\ UNCHANGED <<vars, up>>

\* A write hook on the local path.  Decisions and reveals are marked before
\* they are written.
WriteHere(t, row) ==
  /\ Local(t)
  /\ Request(t, row)
  /\ kept' = IF SignedIn(t) /\ row[1] # "answer" THEN [kept EXCEPT ![t] = @ \cup {identity[t]}] ELSE kept
  /\ UNCHANGED <<up, probe, confirmed, sent>>

\* The same hook on the server path, where the server stores the row.
WriteThere(t) ==
  /\ Outside(t) /\ ~Local(t) /\ up
  /\ sent' = [sent EXCEPT ![t] = @ \cup {identity[t]}]
  /\ UNCHANGED <<vars, up, probe, confirmed, kept>>

\* The controls of the browser's own record.
Control(t) ==
  /\ \E what \in {Import, Delete} : Request(t, what)
  /\ UNCHANGED <<up, page>>

\* The server, or the way to it, goes down or comes back.
Toggle ==
  /\ Fault /\ up' = ~up
  /\ UNCHANGED <<disk, newer, tab, requests, inside, mine, strayed, asked, page>>

ReloadPage(t) ==
  /\ Reload(t)
  /\ probe' = [probe EXCEPT ![t] = "unknown"]
  /\ confirmed' = [confirmed EXCEPT ![t] = {}]
  /\ kept' = [kept EXCEPT ![t] = {}]
  /\ sent' = [sent EXCEPT ![t] = {}]
  /\ UNCHANGED up

ModeNext ==
  \/ \E t \in Tabs :
       \/ \E k \in Keys : Session(t, k)
       \/ \E row \in Log!Row : WriteHere(t, row)
       \/ Probe(t) \/ WriteThere(t) \/ Control(t) \/ ReloadPage(t)
       \/ (Look(t) \/ Throw(t) \/ Write(t) \/ WriteRefused(t)) /\ UNCHANGED <<up, page>>
  \/ \E r \in requests : (Enter(r) \/ Erase(r)) /\ UNCHANGED <<up, page>>
  \/ \E k \in Keys : Upgrade(k) /\ UNCHANGED <<up, page>>
  \/ Toggle

ModeSpec == ModeInit /\ [][ModeNext]_<<vars, up, page>>

-----------------------------------------------------------------------------

\* An account whose rows this page has put on the server, and of which it had
\* not marked anything as kept in the browser before that, is not written into
\* the browser by it: no decision, answer or reveal of it is asked for there,
\* whatever the probe answers later (useRecordMode, "server-lost").
StartsNoRecordHere ==
  [][\A r \in requests' \ requests :
       r.op \in Log!Row /\ r.lock \in sent[r.tab] => r.lock \in kept[r.tab]]_<<requests, sent, kept>>

\* A page keeps the record of an account in one place
\* (record-api.ts: "a record this session wrote here stays here").
OneHome == \A t \in Tabs : kept[t] \cap sent[t] = {}
=============================================================================
