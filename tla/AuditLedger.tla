---------------------------- MODULE AuditLedger ----------------------------
(***************************************************************************)
(* What the audit log of DocLinks promises the owner of a document: a      *)
(* ledger of what was done to it, which only ever grows by one record at   *)
(* its end, and in which a deletion stands only when it has happened. The  *)
(* rows, the hashes, the requests that append at the same time and their   *)
(* failures are left out.                                                  *)
(***************************************************************************)
EXTENDS Sequences

CONSTANT Docs  \* documents, each with its ledger

VARIABLES
  stored,  \* SUBSET Docs: the documents that are there
  ledger   \* [Docs -> Seq(Records)]

vars == <<stored, ledger>>

Records == {"doc.access", "deleted by admin_action", "deleted by owner_bulk_delete"}

\* The action of the document's page deletes a row or reports that it did not: it has one
\* record at most. Of several bulk deletions each may record its own.
MayRecord(d, what) ==
  \/ what = "doc.access"
  \/ /\ d \notin stored
     /\ what = "deleted by admin_action" => \A n \in DOMAIN ledger[d] : ledger[d][n] # what

Init ==
  /\ stored = Docs
  /\ ledger = [d \in Docs |-> <<>>]

Delete(d) ==
  /\ stored' = stored \ {d}
  /\ UNCHANGED ledger

Record(d, what) ==
  /\ MayRecord(d, what)
  /\ ledger' = [ledger EXCEPT ![d] = Append(@, what)]
  /\ UNCHANGED stored

Next == \E d \in Docs : Delete(d) \/ \E what \in Records : Record(d, what)

Spec == Init /\ [][Next]_vars
=============================================================================
