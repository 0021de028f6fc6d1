----------------------------- MODULE RecordLog -----------------------------
(***************************************************************************)
(* What the browser promises of the record it keeps under each identity's  *)
(* key: rows are appended one at a time and never lost or replaced, except *)
(* that the player may erase a record, and may restore a file into an      *)
(* empty one.  A record written by a newer build is only ever erased.  All *)
(* this holds of the records that are reached by no write asked for under  *)
(* another identity.                                                       *)
(***************************************************************************)
CONSTANTS Keys, Decisions,
          File           \* the rows of a record exported before

Row == {"decision", "answer", "reveal"} \X Decisions

VARIABLES log,      \* the rows kept under each key
          newer,    \* keys whose record a newer build has written
          strayed   \* keys whose record a write for another identity has reached

\* A row is written once, after its decision; the answer to the probe before
\* the engine has spoken.
Accepts(row, rows) ==
  /\ row \notin rows
  /\ row[1] # "decision" => <<"decision", row[2]>> \in rows
  /\ row[1] = "answer" => <<"reveal", row[2]>> \notin rows

Init == log = [k \in Keys |-> {}] /\ newer = {} /\ strayed = {}

Append(k, row) ==
  /\ k \notin newer
  /\ Accepts(row, log[k])
  /\ log' = [log EXCEPT ![k] = @ \cup {row}]
  /\ UNCHANGED <<newer, strayed>>

Restore(k) ==
  /\ k \notin newer
  /\ log[k] = {}
  /\ log' = [log EXCEPT ![k] = File]
  /\ UNCHANGED <<newer, strayed>>

Erase(k) ==
  /\ log' = [log EXCEPT ![k] = {}]
  /\ newer' = newer \ {k}
  /\ strayed' \in {strayed, strayed \cup {k}}

Upgrade(k) ==
  /\ newer' = newer \cup {k}
  /\ UNCHANGED <<log, strayed>>

Stray(k) ==
  /\ strayed' = strayed \cup {k}
  /\ UNCHANGED <<log, newer>>

\* Two writes may then have read the same rows, and the later one wins.
Overwrite(k) ==
  /\ k \in strayed
  /\ \E rows \in SUBSET Row : log' = [log EXCEPT ![k] = rows]
  /\ newer' = newer \ {k}
  /\ UNCHANGED strayed

Next == \E k \in Keys :
  \/ Restore(k) \/ Erase(k) \/ Upgrade(k) \/ Stray(k) \/ Overwrite(k)
  \/ \E row \in Row : Append(k, row)

Spec == Init /\ [][Next]_<<log, newer, strayed>>
=============================================================================
