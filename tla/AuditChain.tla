---------------------------- MODULE AuditChain ----------------------------
(***************************************************************************)
(* The immutable audit log: one chain of rows per stream, here the stream  *)
(* "doc:<id>" of a document. Every view, decryption, share and moderation  *)
(* of the document appends to it by best effort, and so does its deletion, *)
(* from the document's page or in bulk, in strict mode.                    *)
(*                                                                         *)
(* appendImmutableAudit reads the head of the stream in one statement and  *)
(* inserts the next row in another. Nothing is locked in between: what     *)
(* keeps the chain together is "unique (stream_key, seq)", which refuses   *)
(* one of two rows that follow the same head. A trigger refuses updates    *)
(* and deletes of rows.                                                    *)
(***************************************************************************)
EXTENDS Naturals

CONSTANTS
  Docs,        \* documents, each with its stream
  Readers,     \* requests that serve, share or moderate a document
  Singles,     \* requests of deleteDocAction
  Bulks,       \* items of bulkDeleteDocsAction
  NoDoc,       \* no document
  MaxTouches,  \* bound: appends the Readers begin
  MaxFaults    \* bound: statements that throw, replies lost, requests killed

ASSUME AuditAssumption ==
  /\ NoDoc \notin Docs
  /\ Readers \cap Singles = {} /\ Readers \cap Bulks = {} /\ Singles \cap Bulks = {}
  /\ MaxTouches \in Nat /\ MaxFaults \in Nat

VARIABLES
  docs,     \* SUBSET Docs: the documents that have a row
  log,      \* [Docs -> SUBSET Entry]: immutable_audit_log, by stream
  pc,       \* [Requests -> Pcs]
  task,     \* [Requests -> Task]: the locals of the request and of its append
  hashes,   \* event hashes computed so far
  touches,  \* appends begun by the Readers
  faults,   \* faults so far
  told,     \* documents a deletion of which failed after its purge, and whose
            \*   user saw it fail (history)
  passed    \* the same, for what nobody saw: an item of a bulk deletion, or a
            \*   request that was killed (history)

vars == <<docs, log, pc, task, hashes, touches, faults, told, passed>>

-----------------------------------------------------------------------------
Deleters == Singles \cup Bulks
Requests == Readers \cup Deleters

\* "via" of the payload tells the two kinds of deletion apart.
Actions == {"doc.access", "deleted by admin_action", "deleted by owner_bulk_delete"}

\* The hash covers the sequence number, the previous hash, the time and the payload: a
\* number that no other append has. A previous_hash of 0 is the null of the first row.
Entry == [seq : Nat, previous : Nat, hash : Nat, action : Actions]

Pcs == {"idle", "purge", "head", "insert"}
Task == [doc : Docs \cup {NoDoc}, seq : Nat, previous : Nat]
NoTask == [doc |-> NoDoc, seq |-> 0, previous |-> 0]

Init ==
  /\ docs = Docs /\ log = [d \in Docs |-> {}]
  /\ pc = [r \in Requests |-> "idle"] /\ task = [r \in Requests |-> NoTask]
  /\ hashes = 0 /\ touches = 0 /\ faults = 0
  /\ told = {} /\ passed = {}

Fault == faults < MaxFaults /\ faults' = faults + 1

Begin(r, d, where) ==
  /\ pc[r] = "idle"
  /\ pc' = [pc EXCEPT ![r] = where]
  /\ task' = [task EXCEPT ![r] = [NoTask EXCEPT !.doc = d]]

Finish(r) ==
  /\ pc' = [pc EXCEPT ![r] = "idle"]
  /\ task' = [task EXCEPT ![r] = NoTask]

-----------------------------------------------------------------------------
(* What appends: operations on a document, and deletions.                  *)

\* A request reads the document, does its work, and appends: possibly long after, so
\* that the document may have gone.
Touch(r, d) ==
  /\ touches < MaxTouches /\ touches' = touches + 1
  /\ Begin(r, d, "head")
  /\ UNCHANGED <<docs, log, hashes, faults, told, passed>>

\* Up to the statements that delete: the pointer is read, which throws when there is no
\* row, and the object is deleted.
StartDelete(x, d) ==
  /\ d \in docs
  /\ Begin(x, d, "purge")
  /\ UNCHANGED <<docs, log, hashes, touches, faults, told, passed>>

\* Mutant of GoesOn: deleteDocAction does not look either.
GoesOnAnyway(x) == TRUE

\* deleteDocAction throws when no row was deleted; the bulk action does not look.
GoesOn(x) == x \in Bulks \/ task[x].doc \in docs

\* The last statement of purgeDocGraphRows. (The ones before it delete shares, aliases,
\* grants and scan jobs, and nothing here looks at those.)
PurgeDocRow(x) ==
  /\ pc[x] = "purge"
  /\ docs' = docs \ {task[x].doc}
  /\ \/ GoesOn(x) /\ pc' = [pc EXCEPT ![x] = "head"] /\ UNCHANGED task
     \/ ~GoesOn(x) /\ Finish(x)
  /\ UNCHANGED <<log, hashes, touches, faults, told, passed>>

-----------------------------------------------------------------------------
(* appendImmutableAudit.                                                   *)

\* order by seq desc limit 1
Heads(d) == {e \in log[d] : \A f \in log[d] : f.seq <= e.seq}

ReadHead(r) ==
  /\ pc[r] = "head"
  /\ LET d == task[r].doc IN
       \/ /\ log[d] = {}
          /\ task' = [task EXCEPT ![r].seq = 1, ![r].previous = 0]
       \/ \E e \in Heads(d) :
            task' = [task EXCEPT ![r].seq = e.seq + 1, ![r].previous = e.hash]
  /\ pc' = [pc EXCEPT ![r] = "insert"]
  /\ UNCHANGED <<docs, log, hashes, touches, faults, told, passed>>

\* Mutant of SeqTaken: the table has no unique constraint.
NeverTaken(r) == FALSE

\* immutable_audit_log_stream_seq_uniq
SeqTaken(r) == \E e \in log[task[r].doc] : e.seq = task[r].seq

\* Mutant of ActionOf: the payload does not tell who deleted.
ActionUnnamed(r) == IF r \in Deleters THEN "doc.deleted" ELSE "doc.access"

ActionOf(r) ==
  IF r \in Singles THEN "deleted by admin_action"
  ELSE IF r \in Bulks THEN "deleted by owner_bulk_delete" ELSE "doc.access"

NewEntry(r) ==
  [seq |-> task[r].seq, previous |-> task[r].previous, hash |-> hashes + 1, action |-> ActionOf(r)]

Appended(r) ==
  /\ log' = [log EXCEPT ![task[r].doc] = @ \cup {NewEntry(r)}]
  /\ hashes' = hashes + 1

Insert(r) ==
  /\ pc[r] = "insert" /\ ~SeqTaken(r)
  /\ Appended(r) /\ Finish(r)
  /\ UNCHANGED <<docs, touches, faults, told, passed>>

\* Mutant of Throws: a deletion appends by best effort, too.
ThrowsNothing(r) == UNCHANGED <<told, passed>>

\* What becomes of an error after the purge. In strict mode it reaches the deletion:
\* deleteDocAction shows it, the loop of the bulk action goes on with the next document.
\* Otherwise it is swallowed.
Throws(r) ==
  /\ told' = IF r \in Singles THEN told \cup {task[r].doc} ELSE told
  /\ passed' = IF r \in Bulks THEN passed \cup {task[r].doc} ELSE passed

InsertRefused(r) ==
  /\ pc[r] = "insert" /\ SeqTaken(r)
  /\ Throws(r) /\ Finish(r)
  /\ UNCHANGED <<docs, log, hashes, touches, faults>>

\* A statement of the append throws, or the reply to its insert is lost.
AppendFails(r) ==
  /\ pc[r] \in {"head", "insert"} /\ Fault
  /\ \/ UNCHANGED <<log, hashes>>
     \/ pc[r] = "insert" /\ ~SeqTaken(r) /\ Appended(r)
  /\ Throws(r) /\ Finish(r)
  /\ UNCHANGED <<docs, touches>>

\* The purge throws, before its last statement or after it.
PurgeFails(x) ==
  /\ pc[x] = "purge" /\ Fault
  /\ \/ UNCHANGED <<docs, told, passed>>
     \/ docs' = docs \ {task[x].doc} /\ Throws(x)
  /\ Finish(x)
  /\ UNCHANGED <<log, hashes, touches>>

RequestDies(r) ==
  /\ pc[r] # "idle" /\ Fault
  /\ passed' = IF pc[r] \in {"head", "insert"} /\ r \in Deleters
               THEN passed \cup {task[r].doc} ELSE passed
  /\ Finish(r)
  /\ UNCHANGED <<docs, log, hashes, touches, told>>

-----------------------------------------------------------------------------
AppendStep(r) == ReadHead(r) \/ Insert(r) \/ InsertRefused(r) \/ AppendFails(r)

Delete(x) == (\E d \in Docs : StartDelete(x, d)) \/ PurgeDocRow(x) \/ PurgeFails(x)

Next ==
  \/ \E r \in Readers, d \in Docs : Touch(r, d)
  \/ \E x \in Deleters : Delete(x)
  \/ \E r \in Requests : AppendStep(r) \/ RequestDies(r)

Spec == Init /\ [][Next]_vars

-----------------------------------------------------------------------------
(* Properties                                                              *)

TypeOK ==
  /\ docs \subseteq Docs /\ log \in [Docs -> SUBSET Entry]
  /\ pc \in [Requests -> Pcs] /\ task \in [Requests -> Task]
  /\ hashes \in Nat /\ touches \in Nat /\ faults \in Nat
  /\ told \subseteq Docs /\ passed \subseteq Docs

\* However many append at once, and whatever they lose, a stream is one chain: every
\* entry is the first or follows the entry whose hash it names, no two follow the same
\* one, and no number is skipped.
ChainIsUnbroken ==
  \A d \in Docs : \A e \in log[d] :
    /\ \/ e.seq = 1 /\ e.previous = 0
       \/ \E f \in log[d] : f.seq + 1 = e.seq /\ f.hash = e.previous
    /\ \A f \in log[d] : (f.seq = e.seq \/ f.previous = e.previous \/ f.hash = e.hash) => f = e

Deletions(d) == {e \in log[d] : e.action # "doc.access"}
Recording(x, d) == pc[x] \in {"head", "insert"} /\ task[x].doc = d

\* The record and the deletion agree. A deletion on record has happened, and the action
\* of the document's page records it once, whoever else deletes at the moment. And a
\* document is gone without a record of it only while a deletion is about to append, or
\* when somebody saw it fail, or in a bulk deletion or by a killed request.
DeletionsAreOnRecord ==
  \A d \in Docs :
    /\ Deletions(d) # {} => d \notin docs
    /\ \A e, f \in log[d] :
         e.action = "deleted by admin_action" /\ f.action = e.action => e = f
    /\ d \notin docs => \/ Deletions(d) # {}
                        \/ \E x \in Deleters : Recording(x, d)
                        \/ d \in told \cup passed

\* The numbers of a stream, and what was done under each.
Numbers(d)   == {e.seq : e \in log[d]}
EntryAt(d, n) == CHOOSE e \in log[d] : e.seq = n
Ledger == [d \in Docs |-> [n \in Numbers(d) |-> EntryAt(d, n).action]]

(***************************************************************************)
(* Read in the order of its numbers, a stream is a ledger (AuditLedger):   *)
(* whatever appends fail, collide or lose their reply, each step leaves it *)
(* as it was or puts one record at its end, never before or in the place   *)
(* of another, and a deletion is put there only after the document has     *)
(* gone.                                                                   *)
(***************************************************************************)
Promise == INSTANCE AuditLedger WITH stored <- docs, ledger <- Ledger

KeepsLedger == Promise!Spec
=============================================================================
