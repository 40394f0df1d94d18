-------------------------- MODULE AuditChain_proofs --------------------------
(* Theorems about AuditChain, for any number of documents and requests. *)
EXTENDS AuditChain, SequenceTheorems, TLAPS

-----------------------------------------------------------------------------
(* Types.                                                                  *)

LEMMA EntriesAreTyped ==
  ASSUME TypeOK, NEW r \in Requests, task[r].doc \in Docs
  PROVE  NewEntry(r) \in Entry
<1>1. ActionOf(r) \in Actions
  BY DEF ActionOf, Actions
<1>2. task[r] \in Task /\ hashes + 1 \in Nat
  BY DEF TypeOK
<1> QED BY <1>1, <1>2 DEF NewEntry, Entry, Task

\* A request that is not idle has a document; this is what the types leave open.
BusyHaveDocs == \A r \in Requests : pc[r] # "idle" => task[r].doc \in Docs

TypeInv == TypeOK /\ BusyHaveDocs

LEMMA KindsAreRequests == Readers \subseteq Requests /\ Deleters \subseteq Requests
                          /\ Singles \subseteq Deleters /\ Bulks \subseteq Deleters
BY DEF Requests, Deleters

LEMMA FinishKeepsTypes ==
  ASSUME TypeInv, NEW r \in Requests, Finish(r)
  PROVE  /\ pc' \in [Requests -> Pcs] /\ task' \in [Requests -> Task]
         /\ BusyHaveDocs'
<1>1. NoTask \in Task
  BY DEF NoTask, Task
<1> QED BY <1>1 DEF TypeInv, TypeOK, BusyHaveDocs, Finish, Pcs

LEMMA BeginKeepsTypes ==
  ASSUME TypeInv, NEW r \in Requests, NEW d \in Docs, NEW where \in Pcs, Begin(r, d, where)
  PROVE  /\ pc' \in [Requests -> Pcs] /\ task' \in [Requests -> Task]
         /\ BusyHaveDocs'
<1>1. [NoTask EXCEPT !.doc = d] \in Task /\ [NoTask EXCEPT !.doc = d].doc = d
  BY DEF NoTask, Task
<1> QED BY <1>1 DEF TypeInv, TypeOK, BusyHaveDocs, Begin

LEMMA AppendedKeepsTypes ==
  ASSUME TypeInv, NEW r \in Requests, pc[r] # "idle", Appended(r)
  PROVE  log' \in [Docs -> SUBSET Entry] /\ hashes' \in Nat
<1>1. task[r].doc \in Docs
  BY DEF TypeInv, BusyHaveDocs
<1>2. NewEntry(r) \in Entry
  BY <1>1, EntriesAreTyped DEF TypeInv
<1> QED BY <1>1, <1>2 DEF Appended, TypeInv, TypeOK

LEMMA ThrowsKeepsTypes ==
  ASSUME TypeInv, NEW r \in Requests, pc[r] # "idle", Throws(r)
  PROVE  told' \subseteq Docs /\ passed' \subseteq Docs
BY DEF Throws, TypeInv, TypeOK, BusyHaveDocs

LEMMA ReadHeadKeepsTasks ==
  ASSUME TypeInv, NEW r \in Requests, ReadHead(r)
  PROVE  task' \in [Requests -> Task] /\ \A q \in Requests : task'[q].doc = task[q].doc
<1>1. CASE task' = [task EXCEPT ![r].seq = 1, ![r].previous = 0]
  BY <1>1 DEF TypeInv, TypeOK, Task
<1>2. ASSUME NEW e \in Heads(task[r].doc),
             task' = [task EXCEPT ![r].seq = e.seq + 1, ![r].previous = e.hash]
      PROVE  task' \in [Requests -> Task] /\ \A q \in Requests : task'[q].doc = task[q].doc
  <2>1. task[r].doc \in Docs
    BY DEF ReadHead, TypeInv, BusyHaveDocs
  <2>2. e \in Entry
    BY <2>1 DEF Heads, TypeInv, TypeOK
  <2>3. e.seq + 1 \in Nat /\ e.hash \in Nat
    BY <2>2 DEF Entry
  <2> QED BY <1>2, <2>3 DEF TypeInv, TypeOK, Task
<1> QED BY <1>1, <1>2 DEF ReadHead

LEMMA NextTypes == TypeInv /\ [Next]_vars => TypeInv'
<1> SUFFICES ASSUME TypeInv, [Next]_vars
             PROVE  TypeInv'
  OBVIOUS
<1> USE KindsAreRequests
<1>1. ASSUME NEW r \in Readers, NEW d \in Docs, Touch(r, d)
      PROVE  TypeInv'
  <2>1. "head" \in Pcs
    BY DEF Pcs
  <2>2. r \in Requests /\ Begin(r, d, "head")
    BY <1>1 DEF Touch
  <2>3. pc' \in [Requests -> Pcs] /\ task' \in [Requests -> Task] /\ BusyHaveDocs'
    BY <2>1, <2>2, BeginKeepsTypes
  <2> QED BY <1>1, <2>3 DEF Touch, TypeInv, TypeOK
<1>2. ASSUME NEW x \in Deleters, NEW d \in Docs, StartDelete(x, d)
      PROVE  TypeInv'
  <2>1. "purge" \in Pcs
    BY DEF Pcs
  <2>2. x \in Requests /\ Begin(x, d, "purge")
    BY <1>2 DEF StartDelete
  <2>3. pc' \in [Requests -> Pcs] /\ task' \in [Requests -> Task] /\ BusyHaveDocs'
    BY <2>1, <2>2, BeginKeepsTypes
  <2> QED BY <1>2, <2>3 DEF StartDelete, TypeInv, TypeOK
<1>3. ASSUME NEW x \in Deleters, PurgeDocRow(x)
      PROVE  TypeInv'
  <2>1. pc' \in [Requests -> Pcs] /\ task' \in [Requests -> Task] /\ BusyHaveDocs'
    <3>1. CASE Finish(x)
      BY <3>1, FinishKeepsTypes
    <3>2. CASE pc' = [pc EXCEPT ![x] = "head"] /\ UNCHANGED task
      BY <3>2, <1>3 DEF PurgeDocRow, TypeInv, TypeOK, BusyHaveDocs, Pcs
    <3> QED BY <3>1, <3>2, <1>3 DEF PurgeDocRow
  <2> QED BY <1>3, <2>1 DEF PurgeDocRow, TypeInv, TypeOK
<1>4. ASSUME NEW x \in Deleters, PurgeFails(x)
      PROVE  TypeInv'
  <2>1. pc' \in [Requests -> Pcs] /\ task' \in [Requests -> Task] /\ BusyHaveDocs'
    BY <1>4, FinishKeepsTypes DEF PurgeFails
  <2>2. told' \subseteq Docs /\ passed' \subseteq Docs /\ docs' \subseteq Docs
    <3>1. CASE UNCHANGED <<docs, told, passed>>
      BY <3>1 DEF TypeInv, TypeOK
    <3>2. CASE docs' = docs \ {task[x].doc} /\ Throws(x)
      BY <3>2, <1>4, ThrowsKeepsTypes DEF PurgeFails, TypeInv, TypeOK
    <3> QED BY <3>1, <3>2, <1>4 DEF PurgeFails
  <2> QED BY <1>4, <2>1, <2>2 DEF PurgeFails, Fault, TypeInv, TypeOK
<1>5. ASSUME NEW r \in Requests, ReadHead(r)
      PROVE  TypeInv'
  <2>1. task' \in [Requests -> Task] /\ \A q \in Requests : task'[q].doc = task[q].doc
    BY <1>5, ReadHeadKeepsTasks
  <2>2. pc' \in [Requests -> Pcs] /\ BusyHaveDocs'
    BY <1>5, <2>1 DEF ReadHead, TypeInv, TypeOK, BusyHaveDocs, Pcs
  <2> QED BY <1>5, <2>1, <2>2 DEF ReadHead, TypeInv, TypeOK
<1>6. ASSUME NEW r \in Requests, Insert(r)
      PROVE  TypeInv'
  <2>1. log' \in [Docs -> SUBSET Entry] /\ hashes' \in Nat
    BY <1>6, AppendedKeepsTypes DEF Insert
  <2>2. pc' \in [Requests -> Pcs] /\ task' \in [Requests -> Task] /\ BusyHaveDocs'
    BY <1>6, FinishKeepsTypes DEF Insert
  <2> QED BY <1>6, <2>1, <2>2 DEF Insert, TypeInv, TypeOK
<1>7. ASSUME NEW r \in Requests, InsertRefused(r)
      PROVE  TypeInv'
  <2>1. told' \subseteq Docs /\ passed' \subseteq Docs
    BY <1>7, ThrowsKeepsTypes DEF InsertRefused
  <2>2. pc' \in [Requests -> Pcs] /\ task' \in [Requests -> Task] /\ BusyHaveDocs'
    BY <1>7, FinishKeepsTypes DEF InsertRefused
  <2> QED BY <1>7, <2>1, <2>2 DEF InsertRefused, TypeInv, TypeOK
<1>8. ASSUME NEW r \in Requests, AppendFails(r)
      PROVE  TypeInv'
  <2>1. told' \subseteq Docs /\ passed' \subseteq Docs
    BY <1>8, ThrowsKeepsTypes DEF AppendFails
  <2>2. pc' \in [Requests -> Pcs] /\ task' \in [Requests -> Task] /\ BusyHaveDocs'
    BY <1>8, FinishKeepsTypes DEF AppendFails
  <2>3. log' \in [Docs -> SUBSET Entry] /\ hashes' \in Nat
    BY <1>8, AppendedKeepsTypes DEF AppendFails, TypeInv, TypeOK
  <2> QED BY <1>8, <2>1, <2>2, <2>3 DEF AppendFails, Fault, TypeInv, TypeOK
<1>9. ASSUME NEW r \in Requests, RequestDies(r)
      PROVE  TypeInv'
  <2>1. passed' \subseteq Docs
    BY <1>9 DEF RequestDies, TypeInv, TypeOK, BusyHaveDocs
  <2>2. pc' \in [Requests -> Pcs] /\ task' \in [Requests -> Task] /\ BusyHaveDocs'
    BY <1>9, FinishKeepsTypes DEF RequestDies
  <2> QED BY <1>9, <2>1, <2>2 DEF RequestDies, Fault, TypeInv, TypeOK
<1>10. CASE UNCHANGED vars
  BY <1>10 DEF vars, TypeInv, TypeOK, BusyHaveDocs
<1> QED BY <1>1, <1>2, <1>3, <1>4, <1>5, <1>6, <1>7, <1>8, <1>9, <1>10
        DEF Next, AppendStep, Delete

LEMMA InitTypes == Init => TypeInv
<1>1. NoTask \in Task
  BY DEF NoTask, Task
<1> QED BY <1>1 DEF Init, TypeInv, TypeOK, BusyHaveDocs, Pcs

LEMMA TypesHold == Spec => []TypeInv
BY InitTypes, NextTypes, PTL DEF Spec

\* The tables, the log and the locals of every request keep their types.
THEOREM TypeCorrect == Spec => []TypeOK
<1>1. TypeInv => TypeOK
  BY DEF TypeInv
<1> QED BY <1>1, TypesHold, PTL

-----------------------------------------------------------------------------
(* The chain. An append that is about to insert follows an entry that is   *)
(* there, for entries stay; the constraint lets one of those that follow   *)
(* the same entry through. Hashes are never given twice.                   *)

Follows(seq, previous, entries) ==
  \/ seq = 1 /\ previous = 0
  \/ \E f \in entries : f.seq + 1 = seq /\ f.hash = previous

ChainInv ==
  /\ \A d \in Docs : \A e \in log[d] :
       /\ e.hash > 0 /\ e.hash <= hashes
       /\ e.seq > 0
       /\ Follows(e.seq, e.previous, log[d])
       /\ \A f \in log[d] : f.seq = e.seq \/ f.hash = e.hash => f = e
  /\ \A r \in Requests : pc[r] = "insert" =>
       Follows(task[r].seq, task[r].previous, log[task[r].doc])

LEMMA ChainImpliesUnbroken == TypeInv /\ ChainInv => ChainIsUnbroken
<1> SUFFICES ASSUME TypeInv, ChainInv, NEW d \in Docs, NEW e \in log[d], NEW f \in log[d],
                    f.previous = e.previous
             PROVE  f.seq = e.seq
  BY DEF ChainInv, ChainIsUnbroken, Follows
<1>1. \A g \in log[d] : g.seq \in Nat /\ g.hash \in Nat /\ g.previous \in Nat
  BY DEF TypeInv, TypeOK, Entry
<1>2. \A g \in log[d] : g.hash > 0
  BY DEF ChainInv
<1>3. Follows(e.seq, e.previous, log[d]) /\ Follows(f.seq, f.previous, log[d])
  BY DEF ChainInv
<1>4. CASE e.previous = 0
  BY <1>1, <1>2, <1>3, <1>4 DEF Follows
<1>5. CASE e.previous # 0
  <2>1. PICK g \in log[d] : g.seq + 1 = e.seq /\ g.hash = e.previous
    BY <1>3, <1>5 DEF Follows
  <2>2. PICK h \in log[d] : h.seq + 1 = f.seq /\ h.hash = f.previous
    BY <1>3, <1>5 DEF Follows
  <2>3. g = h
    BY <2>1, <2>2 DEF ChainInv
  <2> QED BY <2>1, <2>2, <2>3
<1> QED BY <1>4, <1>5

LEMMA FollowsMore ==
  ASSUME NEW entries, NEW more, entries \subseteq more, NEW s, NEW p, Follows(s, p, entries)
  PROVE  Follows(s, p, more)
BY DEF Follows

\* One more entry, behind the head it was computed from and with a number of its own.
LEMMA AppendedKeepsChain ==
  ASSUME TypeInv, ChainInv, NEW r \in Requests, pc[r] = "insert", ~SeqTaken(r),
         Appended(r), Finish(r)
  PROVE  ChainInv'
<1> DEFINE D == task[r].doc
           N == NewEntry(r)
<1>1. D \in Docs /\ log \in [Docs -> SUBSET Entry] /\ hashes \in Nat
  BY DEF TypeInv, TypeOK, BusyHaveDocs
<1>2. /\ log' = [log EXCEPT ![D] = @ \cup {N}]
      /\ hashes' = hashes + 1
  BY DEF Appended
<1>3. /\ N.seq = task[r].seq /\ N.previous = task[r].previous /\ N.hash = hashes + 1
  BY DEF NewEntry
<1>4. Follows(N.seq, N.previous, log[D])
  BY <1>3 DEF ChainInv
<1>5. \A d \in Docs : log[d] \subseteq log'[d]
  BY <1>1, <1>2
<1>6. \A d \in Docs : \A e \in log[d] : e.seq \in Nat /\ e.hash \in Nat /\ e.previous \in Nat
  BY <1>1 DEF Entry
<1>7. N.seq > 0
  <2>1. CASE N.seq = 1
    BY <2>1
  <2>2. ASSUME NEW f \in log[D], f.seq + 1 = N.seq
        PROVE  N.seq > 0
    BY <2>2, <1>1, <1>6
  <2> QED BY <1>4, <2>1, <2>2 DEF Follows
<1>8. \A f \in log[D] : f.seq # N.seq /\ f.hash # N.hash
  <2> SUFFICES ASSUME NEW f \in log[D]
               PROVE  f.seq # N.seq /\ f.hash # N.hash
    OBVIOUS
  <2>1. f.seq # N.seq
    BY <1>3 DEF SeqTaken
  <2>2. f.hash <= hashes /\ f.hash \in Nat
    BY <1>1, <1>6 DEF ChainInv
  <2> QED BY <2>1, <2>2, <1>1, <1>3
<1>9. ASSUME NEW d \in Docs, NEW e \in log'[d]
      PROVE  /\ e.hash > 0 /\ e.hash <= hashes'
             /\ e.seq > 0
             /\ Follows(e.seq, e.previous, log'[d])
             /\ \A f \in log'[d] : f.seq = e.seq \/ f.hash = e.hash => f = e
  <2>1. CASE e \in log[d]
    <3>1. /\ e.hash > 0 /\ e.hash <= hashes /\ e.seq > 0
          /\ Follows(e.seq, e.previous, log[d])
          /\ \A f \in log[d] : f.seq = e.seq \/ f.hash = e.hash => f = e
      BY <2>1 DEF ChainInv
    <3>2. e.hash <= hashes'
      BY <3>1, <1>1, <1>2, <1>6, <2>1
    <3>3. Follows(e.seq, e.previous, log'[d])
      BY <3>1, <1>5, FollowsMore
    <3>4. \A f \in log'[d] : f.seq = e.seq \/ f.hash = e.hash => f = e
      BY <3>1, <1>1, <1>2, <1>8, <2>1
    <3> QED BY <3>1, <3>2, <3>3, <3>4
  <2>2. CASE e \notin log[d]
    <3>1. d = D /\ e = N
      BY <2>2, <1>1, <1>2
    <3>2. e.hash > 0 /\ e.hash <= hashes'
      BY <3>1, <1>1, <1>2, <1>3
    <3>3. Follows(e.seq, e.previous, log'[d])
      BY <3>1, <1>1, <1>4, <1>5, FollowsMore
    <3>4. \A f \in log'[d] : f.seq = e.seq \/ f.hash = e.hash => f = e
      BY <3>1, <1>1, <1>2, <1>8
    <3> QED BY <3>1, <3>2, <3>3, <3>4, <1>7
  <2> QED BY <2>1, <2>2
<1>10. ASSUME NEW q \in Requests, pc'[q] = "insert"
       PROVE  Follows(task'[q].seq, task'[q].previous, log'[task'[q].doc])
  <2>1. q # r /\ pc[q] = "insert" /\ task'[q] = task[q]
    BY <1>10 DEF Finish, TypeInv, TypeOK
  <2>2. task[q].doc \in Docs
    BY <2>1 DEF TypeInv, BusyHaveDocs
  <2>3. Follows(task[q].seq, task[q].previous, log[task[q].doc])
    BY <2>1 DEF ChainInv
  <2> QED BY <2>1, <2>2, <2>3, <1>5, FollowsMore
<1> QED BY <1>9, <1>10 DEF ChainInv

\* A step that appends nothing and lets no request come to its insert.
LEMMA NobodyComesToInsert ==
  ASSUME ChainInv, UNCHANGED <<log, hashes>>,
         \A q \in Requests : pc'[q] = "insert" => pc[q] = "insert" /\ task'[q] = task[q]
  PROVE  ChainInv'
<1>1. \A q \in Requests : pc'[q] = "insert" =>
        Follows(task'[q].seq, task'[q].previous, log'[task'[q].doc])
  BY DEF ChainInv
<1> QED BY <1>1 DEF ChainInv

LEMMA FinishedHaveNothingToInsert ==
  ASSUME TypeInv, NEW r \in Requests, Finish(r)
  PROVE  \A q \in Requests : pc'[q] = "insert" => pc[q] = "insert" /\ task'[q] = task[q]
BY DEF Finish, TypeInv, TypeOK

LEMMA NextChain == TypeInv /\ ChainInv /\ [Next]_vars => ChainInv'
<1> SUFFICES ASSUME TypeInv, ChainInv, [Next]_vars
             PROVE  ChainInv'
  OBVIOUS
<1> USE KindsAreRequests
<1>1. ASSUME NEW r \in Readers, NEW d \in Docs, Touch(r, d)
      PROVE  ChainInv'
  <2>1. \A q \in Requests : pc'[q] = "insert" => pc[q] = "insert" /\ task'[q] = task[q]
    BY <1>1 DEF Touch, Begin, TypeInv, TypeOK
  <2> QED BY <1>1, <2>1, NobodyComesToInsert DEF Touch
<1>2. ASSUME NEW x \in Deleters, NEW d \in Docs, StartDelete(x, d)
      PROVE  ChainInv'
  <2>1. \A q \in Requests : pc'[q] = "insert" => pc[q] = "insert" /\ task'[q] = task[q]
    BY <1>2 DEF StartDelete, Begin, TypeInv, TypeOK
  <2> QED BY <1>2, <2>1, NobodyComesToInsert DEF StartDelete
<1>3. ASSUME NEW x \in Deleters, PurgeDocRow(x)
      PROVE  ChainInv'
  <2>1. \A q \in Requests : pc'[q] = "insert" => pc[q] = "insert" /\ task'[q] = task[q]
    BY <1>3 DEF PurgeDocRow, Finish, TypeInv, TypeOK
  <2> QED BY <1>3, <2>1, NobodyComesToInsert DEF PurgeDocRow
<1>4. ASSUME NEW x \in Deleters, PurgeFails(x)
      PROVE  ChainInv'
  BY <1>4, FinishedHaveNothingToInsert, NobodyComesToInsert DEF PurgeFails
<1>5. ASSUME NEW r \in Requests, ReadHead(r)
      PROVE  ChainInv'
  <2>1. /\ task[r].doc \in Docs /\ task \in [Requests -> Task] /\ pc \in [Requests -> Pcs]
    BY <1>5 DEF ReadHead, TypeInv, TypeOK, BusyHaveDocs
  <2>2. Follows(task'[r].seq, task'[r].previous, log[task[r].doc]) /\ task'[r].doc = task[r].doc
    <3>1. CASE task' = [task EXCEPT ![r].seq = 1, ![r].previous = 0]
      BY <3>1, <2>1 DEF Follows, Task
    <3>2. ASSUME NEW e \in Heads(task[r].doc),
                 task' = [task EXCEPT ![r].seq = e.seq + 1, ![r].previous = e.hash]
          PROVE  Follows(task'[r].seq, task'[r].previous, log[task[r].doc]) /\ task'[r].doc = task[r].doc
      BY <3>2, <2>1 DEF Follows, Heads, Task
    <3> QED BY <3>1, <3>2, <1>5 DEF ReadHead
  <2>3. \A q \in Requests : q # r => task'[q] = task[q] /\ pc'[q] = pc[q]
    BY <1>5, <2>1 DEF ReadHead
  <2>4. \A q \in Requests : pc'[q] = "insert" =>
          Follows(task'[q].seq, task'[q].previous, log'[task'[q].doc])
    BY <1>5, <2>2, <2>3 DEF ReadHead, ChainInv
  <2> QED BY <1>5, <2>4 DEF ReadHead, ChainInv
<1>6. ASSUME NEW r \in Requests, Insert(r)
      PROVE  ChainInv'
  BY <1>6, AppendedKeepsChain DEF Insert
<1>7. ASSUME NEW r \in Requests, InsertRefused(r)
      PROVE  ChainInv'
  BY <1>7, FinishedHaveNothingToInsert, NobodyComesToInsert DEF InsertRefused
<1>8. ASSUME NEW r \in Requests, AppendFails(r)
      PROVE  ChainInv'
  <2>1. CASE UNCHANGED <<log, hashes>>
    BY <2>1, <1>8, FinishedHaveNothingToInsert, NobodyComesToInsert DEF AppendFails
  <2>2. CASE pc[r] = "insert" /\ ~SeqTaken(r) /\ Appended(r)
    BY <2>2, <1>8, AppendedKeepsChain DEF AppendFails
  <2> QED BY <2>1, <2>2, <1>8 DEF AppendFails
<1>9. ASSUME NEW r \in Requests, RequestDies(r)
      PROVE  ChainInv'
  BY <1>9, FinishedHaveNothingToInsert, NobodyComesToInsert DEF RequestDies
<1>10. CASE UNCHANGED vars
  BY <1>10, NobodyComesToInsert DEF vars
<1> QED BY <1>1, <1>2, <1>3, <1>4, <1>5, <1>6, <1>7, <1>8, <1>9, <1>10
        DEF Next, AppendStep, Delete

\* Every stream stays one unbroken chain, for any number of concurrent appends, though
\* nothing is locked between the read of the head and the insert.
THEOREM ChainAlwaysUnbroken == Spec => []ChainIsUnbroken
<1>1. Init => ChainInv
  BY DEF Init, ChainInv
<1>2. Spec => []ChainInv
  BY <1>1, TypesHold, NextChain, PTL DEF Spec
<1> QED BY <1>2, TypesHold, ChainImpliesUnbroken, PTL

-----------------------------------------------------------------------------
(* The record of deletions. The DELETE of the row tells one single request *)
(* that it removed it, and only that one goes on to record; a row that is  *)
(* gone never comes back.                                                  *)

ByPage(e) == e.action = "deleted by admin_action"

RecordInv ==
  /\ \A x \in Deleters, d \in Docs : Recording(x, d) => d \notin docs
  /\ \A x, y \in Singles, d \in Docs : Recording(x, d) /\ Recording(y, d) => x = y
  /\ \A x \in Singles, d \in Docs : Recording(x, d) => \A e \in log[d] : ~ByPage(e)
  /\ \A d \in Docs :
       /\ Deletions(d) # {} => d \notin docs
       /\ \A e, f \in log[d] : ByPage(e) /\ ByPage(f) => e = f
       /\ d \notin docs => \/ Deletions(d) # {}
                           \/ \E x \in Deleters : Recording(x, d)
                           \/ d \in told \cup passed

LEMMA RecordImpliesProperty == RecordInv => DeletionsAreOnRecord
BY DEF RecordInv, DeletionsAreOnRecord, ByPage

\* A step that concerns neither the rows nor a deletion's recording.
LEMMA SteadyKeepsRecord ==
  ASSUME RecordInv, UNCHANGED <<docs, log, told, passed>>,
         \A x \in Deleters, d \in Docs : Recording(x, d)' <=> Recording(x, d)
  PROVE  RecordInv'
<1>1. \A d \in Docs : Deletions(d)' = Deletions(d)
  BY DEF Deletions
<1>2. Singles \subseteq Deleters
  BY KindsAreRequests
<1>3. \A x, y \in Singles, d \in Docs : (Recording(x, d) /\ Recording(y, d))' => x = y
  BY <1>2 DEF RecordInv
<1>4. \A x \in Singles, d \in Docs : Recording(x, d)' => \A e \in log'[d] : ~ByPage(e)
  BY <1>2 DEF RecordInv
<1>5. \A d \in Docs :
        /\ Deletions(d)' # {} => d \notin docs'
        /\ \A e, f \in log'[d] : ByPage(e) /\ ByPage(f) => e = f
        /\ d \notin docs' => \/ Deletions(d)' # {}
                             \/ \E x \in Deleters : Recording(x, d)'
                             \/ d \in told' \cup passed'
  BY <1>1 DEF RecordInv
<1> QED BY <1>3, <1>4, <1>5 DEF RecordInv, ByPage

LEMMA FinishedRecordsNothing ==
  ASSUME TypeInv, NEW r \in Requests, Finish(r)
  PROVE  \A x \in Deleters, d \in Docs : Recording(x, d)' <=> x # r /\ Recording(x, d)
BY KindsAreRequests DEF Finish, Recording, TypeInv, TypeOK

\* A request that ends without an append: what it deleted is told of or passed over.
LEMMA LeavingKeepsRecord ==
  ASSUME TypeInv, RecordInv, NEW r \in Requests, Finish(r), log' = log,
         docs' \subseteq docs, told \subseteq told', passed \subseteq passed',
         \A d \in docs : d \notin docs' => d \in told' \cup passed',
         r \in Deleters => \A d \in Docs : Recording(r, d) => d \in told' \cup passed'
  PROVE  RecordInv'
<1>1. \A d \in Docs : Deletions(d)' = Deletions(d)
  BY DEF Deletions
<1>2. \A x \in Deleters, d \in Docs : Recording(x, d)' <=> x # r /\ Recording(x, d)
  BY FinishedRecordsNothing
<1>3. Singles \subseteq Deleters
  BY KindsAreRequests
<1>4. \A x \in Deleters, d \in Docs : Recording(x, d)' => d \notin docs'
  BY <1>2 DEF RecordInv
<1>5. \A x, y \in Singles, d \in Docs : Recording(x, d)' /\ Recording(y, d)' => x = y
  BY <1>2, <1>3 DEF RecordInv
<1>6. \A x \in Singles, d \in Docs : Recording(x, d)' => \A e \in log'[d] : ~ByPage(e)
  BY <1>2, <1>3 DEF RecordInv
<1>7. ASSUME NEW d \in Docs
      PROVE  /\ Deletions(d)' # {} => d \notin docs'
             /\ \A e, f \in log'[d] : ByPage(e) /\ ByPage(f) => e = f
             /\ d \notin docs' => \/ Deletions(d)' # {}
                                  \/ \E x \in Deleters : Recording(x, d)'
                                  \/ d \in told' \cup passed'
  <2>1. Deletions(d)' # {} => d \notin docs'
    BY <1>1 DEF RecordInv
  <2>2. \A e, f \in log'[d] : ByPage(e) /\ ByPage(f) => e = f
    BY DEF RecordInv
  <2>3. ASSUME d \notin docs', Deletions(d)' = {}, d \notin told' \cup passed'
        PROVE  \E x \in Deleters : Recording(x, d)'
    <3>1. d \notin docs /\ d \notin told \cup passed /\ Deletions(d) = {}
      BY <2>3, <1>1
    <3>2. PICK x \in Deleters : Recording(x, d)
      BY <3>1 DEF RecordInv
    <3>3. x # r
      BY <2>3, <3>2
    <3> QED BY <3>2, <3>3, <1>2
  <2> QED BY <2>1, <2>2, <2>3
<1> QED BY <1>4, <1>5, <1>6, <1>7 DEF RecordInv, ByPage

\* An append that is recorded, and its request ends.
LEMMA RecordingKeepsRecord ==
  ASSUME TypeInv, RecordInv, NEW r \in Requests, pc[r] = "insert", Appended(r), Finish(r),
         docs' = docs, told \subseteq told', passed \subseteq passed'
  PROVE  RecordInv'
<1> DEFINE D == task[r].doc
           N == NewEntry(r)
<1>1. D \in Docs /\ log \in [Docs -> SUBSET Entry]
  BY DEF TypeInv, TypeOK, BusyHaveDocs
<1>2. /\ log'[D] = log[D] \cup {N}
      /\ \A d \in Docs : d # D => log'[d] = log[d]
  BY <1>1 DEF Appended
<1>3. \A x \in Deleters, d \in Docs : Recording(x, d)' <=> x # r /\ Recording(x, d)
  BY FinishedRecordsNothing
<1>4. Singles \subseteq Deleters
  BY KindsAreRequests
<1>5. /\ N.action # "doc.access" => r \in Deleters
      /\ ByPage(N) <=> r \in Singles
      /\ r \in Deleters => N.action # "doc.access"
  BY DEF NewEntry, ActionOf, ByPage, Deleters
<1>6. r \in Deleters => Recording(r, D)
  BY DEF Recording
<1>7. \A d \in Docs : Deletions(d) \subseteq Deletions(d)'
  <2>1. \A d \in Docs : log[d] \subseteq log'[d]
    BY <1>1, <1>2
  <2> QED BY <2>1 DEF Deletions
<1>8. \A x \in Deleters, d \in Docs : Recording(x, d)' => d \notin docs'
  BY <1>3 DEF RecordInv
<1>9. \A x, y \in Singles, d \in Docs : Recording(x, d)' /\ Recording(y, d)' => x = y
  BY <1>3, <1>4 DEF RecordInv
<1>10. ASSUME NEW x \in Singles, NEW d \in Docs, Recording(x, d)', NEW e \in log'[d]
       PROVE  ~ByPage(e)
  <2>1. x # r /\ Recording(x, d)
    BY <1>3, <1>4, <1>10
  <2>2. CASE e \in log[d]
    BY <2>1, <2>2 DEF RecordInv
  <2>3. CASE e \notin log[d]
    <3>1. d = D /\ e = N
      BY <1>1, <1>2, <1>10, <2>3
    <3>2. ~(r \in Singles)
      BY <2>1, <3>1, <1>4, <1>6 DEF RecordInv
    <3> QED BY <3>1, <3>2, <1>5
  <2> QED BY <2>2, <2>3
<1>11. ASSUME NEW d \in Docs
       PROVE  /\ Deletions(d)' # {} => d \notin docs'
              /\ \A e, f \in log'[d] : ByPage(e) /\ ByPage(f) => e = f
              /\ d \notin docs' => \/ Deletions(d)' # {}
                                   \/ \E x \in Deleters : Recording(x, d)'
                                   \/ d \in told' \cup passed'
  <2>1. CASE d # D
    <3>1. log'[d] = log[d] /\ Deletions(d)' = Deletions(d)
      BY <2>1, <1>2 DEF Deletions
    <3>2. \A x \in Deleters : Recording(x, d) => x # r
      BY <2>1 DEF Recording
    <3>3. d \notin docs' => \/ Deletions(d)' # {}
                            \/ \E x \in Deleters : Recording(x, d)'
                            \/ d \in told' \cup passed'
      BY <3>1, <3>2, <1>3 DEF RecordInv
    <3> QED BY <3>1, <3>3 DEF RecordInv
  <2>2. CASE d = D
    <3>1. Deletions(d)' # {} => d \notin docs'
      <4>1. CASE r \in Deleters
        BY <2>2, <4>1, <1>1, <1>6 DEF RecordInv
      <4>2. CASE r \notin Deleters
        <5>1. Deletions(d)' = Deletions(d)
          BY <2>2, <4>2, <1>2, <1>5 DEF Deletions
        <5> QED BY <5>1 DEF RecordInv
      <4> QED BY <4>1, <4>2
    <3>2. ASSUME NEW e \in log'[D], NEW f \in log'[D], ByPage(e), ByPage(f)
          PROVE  e = f
      <4>1. CASE r \in Singles
        <5>1. \A g \in log[D] : ~ByPage(g)
          BY <4>1, <1>1, <1>4, <1>6 DEF RecordInv
        <5> QED BY <5>1, <3>2, <1>2
      <4>2. CASE r \notin Singles
        <5>1. e \in log[D] /\ f \in log[D]
          BY <4>2, <3>2, <1>2, <1>5
        <5> QED BY <5>1, <3>2, <1>1 DEF RecordInv
      <4> QED BY <4>1, <4>2
    <3>3. d \notin docs' => \/ Deletions(d)' # {}
                            \/ \E x \in Deleters : Recording(x, d)'
                            \/ d \in told' \cup passed'
      <4>1. CASE r \in Deleters
        <5>1. N \in log'[D] /\ N.action # "doc.access"
          BY <4>1, <1>2, <1>5
        <5>2. Deletions(d)' # {}
          BY <2>2, <5>1 DEF Deletions
        <5> QED BY <5>2
      <4>2. CASE r \notin Deleters
        BY <4>2, <1>3, <1>7 DEF RecordInv
      <4> QED BY <4>1, <4>2
    <3> QED BY <2>2, <3>1, <3>2, <3>3
  <2> QED BY <2>1, <2>2
<1> QED BY <1>8, <1>9, <1>10, <1>11 DEF RecordInv, ByPage

\* The purge makes the row go, and the request comes to record it.
LEMMA PurgingKeepsRecord ==
  ASSUME TypeInv, RecordInv, NEW x \in Deleters, PurgeDocRow(x), GoesOn(x),
         pc' = [pc EXCEPT ![x] = "head"], UNCHANGED task
  PROVE  RecordInv'
<1> DEFINE D == task[x].doc
<1>1. D \in Docs /\ x \in Requests /\ pc \in [Requests -> Pcs]
  BY KindsAreRequests DEF PurgeDocRow, TypeInv, TypeOK, BusyHaveDocs
<1>2. docs' = docs \ {D} /\ UNCHANGED <<log, told, passed>> /\ pc[x] = "purge"
  BY DEF PurgeDocRow
<1>3. \A y \in Deleters, d \in Docs :
        Recording(y, d)' <=> Recording(y, d) \/ (y = x /\ d = D)
  BY <1>1, <1>2, KindsAreRequests DEF Recording
<1>4. \A d \in Docs : Deletions(d)' = Deletions(d)
  BY <1>2 DEF Deletions
<1>5. x \in Singles => D \in docs
  BY AuditAssumption DEF GoesOn
<1>6. Singles \subseteq Deleters
  BY KindsAreRequests
<1>7. \A y \in Deleters, d \in Docs : Recording(y, d)' => d \notin docs'
  BY <1>2, <1>3 DEF RecordInv
<1>8. \A y, z \in Singles, d \in Docs : Recording(y, d)' /\ Recording(z, d)' => y = z
  <2> SUFFICES ASSUME NEW y \in Singles, NEW z \in Singles, NEW d \in Docs,
                      Recording(y, d)', Recording(z, d)'
               PROVE  y = z
    OBVIOUS
  <2>1. CASE Recording(y, d) /\ Recording(z, d)
    BY <2>1 DEF RecordInv
  <2>2. CASE y = x /\ d = D
    <3>1. \A u \in Deleters : ~Recording(u, D)
      BY <2>2, <1>1, <1>5 DEF RecordInv
    <3> QED BY <3>1, <2>2, <1>3, <1>6
  <2>3. CASE z = x /\ d = D
    <3>1. \A u \in Deleters : ~Recording(u, D)
      BY <2>3, <1>1, <1>5 DEF RecordInv
    <3> QED BY <3>1, <2>3, <1>3, <1>6
  <2> QED BY <2>1, <2>2, <2>3, <1>3, <1>6
<1>9. ASSUME NEW y \in Singles, NEW d \in Docs, Recording(y, d)', NEW e \in log'[d]
      PROVE  ~ByPage(e)
  <2>1. CASE Recording(y, d)
    BY <2>1, <1>2, <1>9 DEF RecordInv
  <2>2. CASE y = x /\ d = D
    <3>1. Deletions(D) = {}
      BY <2>2, <1>1, <1>5 DEF RecordInv
    <3> QED BY <3>1, <2>2, <1>2, <1>9 DEF Deletions, ByPage
  <2> QED BY <2>1, <2>2, <1>3, <1>6, <1>9
<1>10. \A d \in Docs :
         /\ Deletions(d)' # {} => d \notin docs'
         /\ \A e, f \in log'[d] : ByPage(e) /\ ByPage(f) => e = f
         /\ d \notin docs' => \/ Deletions(d)' # {}
                              \/ \E y \in Deleters : Recording(y, d)'
                              \/ d \in told' \cup passed'
  BY <1>2, <1>3, <1>4 DEF RecordInv
<1> QED BY <1>7, <1>8, <1>9, <1>10 DEF RecordInv, ByPage

LEMMA ThrownIsToldOrPassed ==
  ASSUME NEW r \in Requests, Throws(r)
  PROVE  /\ told \subseteq told' /\ passed \subseteq passed'
         /\ r \in Deleters => task[r].doc \in told' \cup passed'
BY DEF Throws, Deleters

LEMMA NextRecord == TypeInv /\ RecordInv /\ [Next]_vars => RecordInv'
<1> SUFFICES ASSUME TypeInv, RecordInv, [Next]_vars
             PROVE  RecordInv'
  OBVIOUS
<1> USE KindsAreRequests
<1>1. ASSUME NEW r \in Readers, NEW d \in Docs, Touch(r, d)
      PROVE  RecordInv'
  <2>1. r \notin Deleters
    BY AuditAssumption DEF Deleters
  <2>2. \A x \in Deleters, c \in Docs : Recording(x, c)' <=> Recording(x, c)
    BY <2>1, <1>1 DEF Touch, Begin, Recording, TypeInv, TypeOK
  <2> QED BY <2>2, <1>1, SteadyKeepsRecord DEF Touch
<1>2. ASSUME NEW x \in Deleters, NEW d \in Docs, StartDelete(x, d)
      PROVE  RecordInv'
  <2>1. \A y \in Deleters, c \in Docs : Recording(y, c)' <=> Recording(y, c)
    BY <1>2 DEF StartDelete, Begin, Recording, TypeInv, TypeOK
  <2> QED BY <2>1, <1>2, SteadyKeepsRecord DEF StartDelete
<1>3. ASSUME NEW x \in Deleters, PurgeDocRow(x)
      PROVE  RecordInv'
  <2>1. CASE GoesOn(x) /\ pc' = [pc EXCEPT ![x] = "head"] /\ UNCHANGED task
    BY <2>1, <1>3, PurgingKeepsRecord
  <2>2. CASE ~GoesOn(x) /\ Finish(x)
    <3>1. pc[x] = "purge" /\ task[x].doc \notin docs /\ UNCHANGED <<log, told, passed>>
          /\ docs' = docs \ {task[x].doc}
      BY <2>2, <1>3 DEF PurgeDocRow, GoesOn
    <3>2. docs' = docs
      BY <3>1
    <3>3. \A d \in Docs : ~Recording(x, d)
      BY <3>1 DEF Recording
    <3>4. x \in Requests
      OBVIOUS
    <3> QED BY <2>2, <3>1, <3>2, <3>3, <3>4, LeavingKeepsRecord
  <2> QED BY <2>1, <2>2, <1>3 DEF PurgeDocRow
<1>4. ASSUME NEW x \in Deleters, PurgeFails(x)
      PROVE  RecordInv'
  <2>1. pc[x] = "purge" /\ Finish(x) /\ log' = log /\ x \in Requests
    BY <1>4 DEF PurgeFails
  <2>2. \A d \in Docs : ~Recording(x, d)
    BY <2>1 DEF Recording
  <2>3. CASE UNCHANGED <<docs, told, passed>>
    BY <2>1, <2>2, <2>3, LeavingKeepsRecord
  <2>4. CASE docs' = docs \ {task[x].doc} /\ Throws(x)
    <3>1. /\ told \subseteq told' /\ passed \subseteq passed'
          /\ task[x].doc \in told' \cup passed'
      BY <2>1, <2>4, ThrownIsToldOrPassed
    <3>2. docs' \subseteq docs /\ \A d \in docs : d \notin docs' => d \in told' \cup passed'
      BY <2>4, <3>1
    <3> QED BY <2>1, <2>2, <3>1, <3>2, LeavingKeepsRecord
  <2> QED BY <2>3, <2>4, <1>4 DEF PurgeFails
<1>5. ASSUME NEW r \in Requests, ReadHead(r)
      PROVE  RecordInv'
  <2>1. \A q \in Requests : task'[q].doc = task[q].doc
    BY <1>5, ReadHeadKeepsTasks
  <2>2. \A x \in Deleters, d \in Docs : Recording(x, d)' <=> Recording(x, d)
    BY <1>5, <2>1 DEF ReadHead, Recording, TypeInv, TypeOK
  <2> QED BY <2>2, <1>5, SteadyKeepsRecord DEF ReadHead
<1>6. ASSUME NEW r \in Requests, Insert(r)
      PROVE  RecordInv'
  BY <1>6, RecordingKeepsRecord DEF Insert
<1>7. ASSUME NEW r \in Requests, InsertRefused(r)
      PROVE  RecordInv'
  <2>1. Finish(r) /\ Throws(r) /\ docs' = docs /\ log' = log
    BY <1>7 DEF InsertRefused
  <2>2. r \in Deleters => \A d \in Docs : Recording(r, d) => d \in told' \cup passed'
    BY <2>1, ThrownIsToldOrPassed DEF Recording
  <2> QED BY <2>1, <2>2, ThrownIsToldOrPassed, LeavingKeepsRecord
<1>8. ASSUME NEW r \in Requests, AppendFails(r)
      PROVE  RecordInv'
  <2>1. Finish(r) /\ Throws(r) /\ docs' = docs
    BY <1>8 DEF AppendFails
  <2>2. r \in Deleters => \A d \in Docs : Recording(r, d) => d \in told' \cup passed'
    BY <2>1, ThrownIsToldOrPassed DEF Recording
  <2>3. CASE UNCHANGED <<log, hashes>>
    BY <2>1, <2>2, <2>3, ThrownIsToldOrPassed, LeavingKeepsRecord
  <2>4. CASE pc[r] = "insert" /\ ~SeqTaken(r) /\ Appended(r)
    BY <2>1, <2>4, ThrownIsToldOrPassed, RecordingKeepsRecord
  <2> QED BY <2>3, <2>4, <1>8 DEF AppendFails
<1>9. ASSUME NEW r \in Requests, RequestDies(r)
      PROVE  RecordInv'
  <2>1. Finish(r) /\ docs' = docs /\ log' = log /\ told' = told /\ passed \subseteq passed'
    BY <1>9 DEF RequestDies
  <2>2. r \in Deleters => \A d \in Docs : Recording(r, d) => d \in told' \cup passed'
    BY <1>9 DEF RequestDies, Recording
  <2> QED BY <2>1, <2>2, LeavingKeepsRecord
<1>10. CASE UNCHANGED vars
  BY <1>10, SteadyKeepsRecord DEF vars, Recording
<1> QED BY <1>1, <1>2, <1>3, <1>4, <1>5, <1>6, <1>7, <1>8, <1>9, <1>10
        DEF Next, AppendStep, Delete

\* The record and the deletions agree, for any number of deletions at once: a deletion on
\* record has happened, the page's action records it once, and one that is not on
\* record was seen to fail, was one of a bulk deletion, or was killed.
THEOREM DeletionsAlwaysOnRecord == Spec => []DeletionsAreOnRecord
<1>1. Init => RecordInv
  BY DEF Init, RecordInv, Recording, Deletions, Requests, Deleters, ByPage
<1>2. Spec => []RecordInv
  BY <1>1, TypesHold, NextRecord, PTL DEF Spec
<1> QED BY <1>2, RecordImpliesProperty, PTL

-----------------------------------------------------------------------------
(* The ledger. The numbers of a stream are 1 .. k, and the append that the *)
(* constraint lets through has number k + 1: it follows an entry that is   *)
(* there, and is not there itself.                                         *)

NumbersInv == \A d \in Docs : \E k \in Nat : Numbers(d) = 1..k

LEMMA NewNumberIsNext ==
  ASSUME TypeInv, ChainInv, NEW r \in Requests, pc[r] = "insert", ~SeqTaken(r),
         NEW k \in Nat, Numbers(task[r].doc) = 1..k
  PROVE  task[r].seq = k + 1
<1> DEFINE D == task[r].doc
<1>1. D \in Docs /\ task[r].seq \in Nat
  BY DEF TypeInv, TypeOK, BusyHaveDocs, Task
<1>2. task[r].seq \notin 1..k
  BY DEF SeqTaken, Numbers
<1>3. CASE task[r].seq = 1
  BY <1>2, <1>3
<1>4. ASSUME NEW f \in log[D], f.seq + 1 = task[r].seq
      PROVE  task[r].seq = k + 1
  <2>1. f.seq \in 1..k
    BY DEF Numbers
  <2> QED BY <2>1, <1>2, <1>4
<1>5. Follows(task[r].seq, task[r].previous, log[D])
  BY DEF ChainInv
<1> QED BY <1>3, <1>4, <1>5 DEF Follows

LEMMA AppendedAddsNumber ==
  ASSUME TypeInv, ChainInv, NEW r \in Requests, pc[r] = "insert", ~SeqTaken(r), Appended(r),
         NEW D \in Docs, task[r].doc = D, NEW k \in Nat, Numbers(D) = 1..k
  PROVE  /\ Numbers(D)' = 1..(k + 1)
         /\ \A d \in Docs : d # D => Numbers(d)' = Numbers(d)
<1>1. log \in [Docs -> SUBSET Entry]
  BY DEF TypeInv, TypeOK, BusyHaveDocs
<1>2. /\ log'[D] = log[D] \cup {NewEntry(r)}
      /\ \A d \in Docs : d # D => log'[d] = log[d]
  BY <1>1 DEF Appended
<1>3. NewEntry(r).seq = k + 1
  BY NewNumberIsNext DEF NewEntry
<1>4. {e.seq : e \in log'[D]} = Numbers(D) \cup {k + 1}
  BY <1>2, <1>3 DEF Numbers
<1>5. (1..k) \cup {k + 1} = 1..(k + 1)
  OBVIOUS
<1> QED BY <1>2, <1>4, <1>5 DEF Numbers

\* Only an insert that is let through changes a stream.
LEMMA OnlyAppendsChangeLog ==
  ASSUME [Next]_vars
  PROVE  \/ log' = log
         \/ \E r \in Requests : /\ pc[r] = "insert" /\ ~SeqTaken(r) /\ Appended(r)
                                /\ UNCHANGED docs
BY DEF Next, AppendStep, Delete, Touch, StartDelete, PurgeDocRow, ReadHead, Insert,
       InsertRefused, AppendFails, PurgeFails, RequestDies, vars

\* Only deletions change the rows, and they leave the streams alone.
LEMMA OnlyPurgesChangeDocs ==
  ASSUME TypeInv, [Next]_vars
  PROVE  \/ docs' = docs
         \/ \E d \in Docs : docs' = docs \ {d} /\ log' = log
<1>1. \A x \in Deleters : pc[x] = "purge" => task[x].doc \in Docs
  BY KindsAreRequests DEF TypeInv, BusyHaveDocs
<1> QED BY <1>1 DEF Next, AppendStep, Delete, Touch, StartDelete, PurgeDocRow, ReadHead, Insert,
                    InsertRefused, AppendFails, PurgeFails, RequestDies, vars

LEMMA NextNumbers == TypeInv /\ ChainInv /\ NumbersInv /\ [Next]_vars => NumbersInv'
<1> SUFFICES ASSUME TypeInv, ChainInv, NumbersInv, [Next]_vars
             PROVE  NumbersInv'
  OBVIOUS
<1>1. CASE log' = log
  BY <1>1 DEF NumbersInv, Numbers
<1>2. ASSUME NEW r \in Requests, pc[r] = "insert", ~SeqTaken(r), Appended(r)
      PROVE  NumbersInv'
  <2>1. PICK D \in Docs : task[r].doc = D
    BY <1>2 DEF TypeInv, BusyHaveDocs
  <2>2. PICK k \in Nat : Numbers(D) = 1..k
    BY DEF NumbersInv
  <2>3. /\ Numbers(D)' = 1..(k + 1)
        /\ \A d \in Docs : d # D => Numbers(d)' = Numbers(d)
    BY <1>2, <2>1, <2>2, AppendedAddsNumber
  <2>4. ASSUME NEW d \in Docs
        PROVE  (\E j \in Nat : Numbers(d) = 1..j)'
    <3>1. CASE d = D
      BY <3>1, <2>3
    <3>2. CASE d # D
      BY <3>2, <2>3 DEF NumbersInv
    <3> QED BY <3>1, <3>2
  <2> QED BY <2>4 DEF NumbersInv
<1> QED BY <1>1, <1>2, OnlyAppendsChangeLog

\* What was recorded under a number stays: entries are added, and none has a number
\* that was given before.
LEMMA EntriesHoldTheirPlace ==
  ASSUME ChainInv, ChainInv', NEW d \in Docs, log[d] \subseteq log'[d], NEW n \in Numbers(d)
  PROVE  EntryAt(d, n)' = EntryAt(d, n) /\ EntryAt(d, n) \in log[d]
<1>1. PICK e \in log[d] : e.seq = n
  BY DEF Numbers
<1>2. EntryAt(d, n) = e
  <2>1. \A f \in log[d] : f.seq = n => f = e
    BY <1>1 DEF ChainInv
  <2> QED BY <1>1, <2>1 DEF EntryAt
<1>3. EntryAt(d, n)' = e
  <2>1. e \in log'[d] /\ \A f \in log'[d] : f.seq = n => f = e
    BY <1>1 DEF ChainInv
  <2> QED BY <1>1, <2>1 DEF EntryAt
<1> QED BY <1>2, <1>3

LedgersReadStreams ==
  \A d \in Docs, k \in Nat :
    Numbers(d) = 1..k =>
      /\ Ledger[d] \in Seq(Actions) /\ Len(Ledger[d]) = k
      /\ \A n \in 1..k : /\ Ledger[d][n] = EntryAt(d, n).action
                         /\ EntryAt(d, n) \in log[d]

LEMMA LedgersAreSequences == TypeInv => LedgersReadStreams
<1> SUFFICES ASSUME TypeInv, NEW d \in Docs, NEW k \in Nat, Numbers(d) = 1..k
             PROVE  /\ Ledger[d] \in Seq(Actions) /\ Len(Ledger[d]) = k
                    /\ \A n \in 1..k : /\ Ledger[d][n] = EntryAt(d, n).action
                                       /\ EntryAt(d, n) \in log[d]
  BY DEF LedgersReadStreams
<1>1. Ledger[d] = [n \in 1..k |-> EntryAt(d, n).action]
  BY DEF Ledger
<1>2. \A n \in 1..k : EntryAt(d, n) \in log[d]
  BY DEF Numbers, EntryAt
<1>3. \A n \in 1..k : EntryAt(d, n).action \in Actions
  BY <1>2 DEF TypeInv, TypeOK, Entry
<1>4. Ledger[d] \in [1..k -> Actions]
  BY <1>1, <1>3
<1>5. Ledger[d] \in Seq(Actions) /\ Len(Ledger[d]) = k
  BY <1>4
<1> QED BY <1>1, <1>2, <1>5

\* The append that goes through is a record at the end of the ledger.
LEMMA AppendedExtendsLedger ==
  ASSUME TypeInv, ChainInv, ChainInv', TypeInv', NumbersInv, NEW r \in Requests,
         pc[r] = "insert", ~SeqTaken(r), Appended(r), NEW D \in Docs, task[r].doc = D
  PROVE  Ledger' = [Ledger EXCEPT ![D] = Append(@, ActionOf(r))]
<1> DEFINE what == ActionOf(r)
<1>1. log \in [Docs -> SUBSET Entry]
  BY DEF TypeInv, TypeOK, BusyHaveDocs
<1>2. /\ log'[D] = log[D] \cup {NewEntry(r)}
      /\ \A d \in Docs : d # D => log'[d] = log[d]
  BY <1>1 DEF Appended
<1>3. PICK k \in Nat : Numbers(D) = 1..k
  BY <1>1 DEF NumbersInv
<1>4. /\ Numbers(D)' = 1..(k + 1) /\ k + 1 \in Nat
      /\ \A d \in Docs : d # D => Numbers(d)' = Numbers(d)
  BY <1>3, AppendedAddsNumber
<1>5. /\ Ledger[D] \in Seq(Actions) /\ Len(Ledger[D]) = k
      /\ \A n \in 1..k : Ledger[D][n] = EntryAt(D, n).action
  BY <1>1, <1>3, LedgersAreSequences DEF LedgersReadStreams
<1>6. /\ Ledger'[D] \in Seq(Actions) /\ Len(Ledger'[D]) = k + 1
      /\ \A n \in 1..(k + 1) : Ledger'[D][n] = EntryAt(D, n)'.action
  <2>1. LedgersReadStreams'
    BY LedgersAreSequences, PTL
  <2> QED BY <2>1, <1>4 DEF LedgersReadStreams
<1>7. what \in Actions
  BY DEF ActionOf, Actions
<1>8. \A n \in 1..k : EntryAt(D, n)' = EntryAt(D, n)
  BY <1>1, <1>2, <1>3, EntriesHoldTheirPlace
<1>9. EntryAt(D, k + 1)'.action = what
  <2>1. NewEntry(r).seq = k + 1 /\ NewEntry(r).action = what
    BY <1>3, NewNumberIsNext DEF NewEntry
  <2>2. NewEntry(r) \in log'[D] /\ \A f \in log'[D] : f.seq = k + 1 => f = NewEntry(r)
    BY <1>1, <1>2, <2>1 DEF ChainInv
  <2>3. (CHOOSE f \in log'[D] : f.seq = k + 1) = NewEntry(r)
    BY <2>1, <2>2
  <2>4. EntryAt(D, k + 1)' = NewEntry(r)
    BY <2>3 DEF EntryAt
  <2> QED BY <2>1, <2>4
<1>10. Ledger'[D] = Append(Ledger[D], what)
  <2>1. /\ Append(Ledger[D], what) \in Seq(Actions)
        /\ Len(Append(Ledger[D], what)) = k + 1
        /\ \A n \in 1..k : Append(Ledger[D], what)[n] = Ledger[D][n]
        /\ Append(Ledger[D], what)[k + 1] = what
    BY <1>5, <1>7, AppendProperties
  <2>2. \A n \in 1..(k + 1) : Ledger'[D][n] = Append(Ledger[D], what)[n]
    <3> SUFFICES ASSUME NEW n \in 1..(k + 1)
                 PROVE  Ledger'[D][n] = Append(Ledger[D], what)[n]
      OBVIOUS
    <3>1. CASE n = k + 1
      BY <3>1, <2>1, <1>6, <1>9
    <3>2. CASE n \in 1..k
      <4>1. Ledger'[D][n] = EntryAt(D, n)'.action /\ EntryAt(D, n)' = EntryAt(D, n)
        BY <3>2, <1>6, <1>8
      <4>2. Append(Ledger[D], what)[n] = EntryAt(D, n).action
        BY <3>2, <2>1, <1>5
      <4> QED BY <4>1, <4>2
    <3>3. n = k + 1 \/ n \in 1..k
      OBVIOUS
    <3> QED BY <3>1, <3>2, <3>3
  <2> QED BY <2>1, <2>2, <1>6, SeqEqual
<1>11. ASSUME NEW d \in Docs, d # D
       PROVE  Ledger'[d] = Ledger[d]
  <2>1. Numbers(d)' = Numbers(d) /\ log'[d] = log[d]
    BY <1>2, <1>4, <1>11
  <2>2. \A n \in Numbers(d) : EntryAt(d, n)' = EntryAt(d, n)
    BY <2>1 DEF EntryAt
  <2> QED BY <2>1, <2>2 DEF Ledger
<1> QED BY <1>1, <1>10, <1>11 DEF Ledger

\* A deletion is recorded after its document has gone, and the page's action records
\* it when no record of it is there.
LEMMA RecordsAreDue ==
  ASSUME TypeInv, ChainInv, NumbersInv, RecordInv, NEW r \in Requests, pc[r] = "insert"
  PROVE  Promise!MayRecord(task[r].doc, ActionOf(r))
<1> DEFINE D == task[r].doc
<1>1. D \in Docs
  BY DEF TypeInv, BusyHaveDocs
<1>2. CASE r \notin Deleters
  BY <1>2, KindsAreRequests DEF Promise!MayRecord, ActionOf
<1>3. CASE r \in Deleters
  <2>1. Recording(r, D)
    BY DEF Recording
  <2>2. D \notin docs
    BY <1>1, <1>3, <2>1 DEF RecordInv
  <2>3. ASSUME ActionOf(r) = "deleted by admin_action", NEW n \in DOMAIN Ledger[D]
        PROVE  Ledger[D][n] # ActionOf(r)
    <3>1. r \in Singles
      BY <2>3 DEF ActionOf
    <3>2. PICK k \in Nat : Numbers(D) = 1..k
      BY <1>1 DEF NumbersInv
    <3>3. DOMAIN Ledger[D] = 1..k
      BY <1>1, <3>2 DEF Ledger
    <3>4. Ledger[D][n] = EntryAt(D, n).action /\ EntryAt(D, n) \in log[D]
      BY <1>1, <3>2, <3>3, LedgersAreSequences DEF LedgersReadStreams
    <3> QED BY <1>1, <2>1, <2>3, <3>1, <3>4 DEF RecordInv, ByPage
  <2> QED BY <2>2, <2>3 DEF Promise!MayRecord
<1> QED BY <1>2, <1>3

LEMMA NextKeepsLedger ==
  TypeInv /\ TypeInv' /\ ChainInv /\ ChainInv' /\ NumbersInv /\ RecordInv /\ [Next]_vars
  => [Promise!Next]_(Promise!vars)
<1> SUFFICES ASSUME TypeInv, TypeInv', ChainInv, ChainInv', NumbersInv, RecordInv, [Next]_vars
             PROVE  [Promise!Next]_(Promise!vars)
  OBVIOUS
<1>1. CASE UNCHANGED <<docs, log>>
  BY <1>1 DEF Promise!vars, Ledger, Numbers, EntryAt
<1>2. ASSUME NEW d \in Docs, docs' = docs \ {d}, log' = log
      PROVE  Promise!Next
  <2>1. Ledger' = Ledger
    BY <1>2 DEF Ledger, Numbers, EntryAt
  <2> QED BY <1>2, <2>1 DEF Promise!Next, Promise!Delete
<1>3. ASSUME NEW r \in Requests, pc[r] = "insert", ~SeqTaken(r), Appended(r), UNCHANGED docs
      PROVE  Promise!Next
  <2>1. ActionOf(r) \in Promise!Records
    BY DEF ActionOf, Promise!Records
  <2>2. PICK D \in Docs : task[r].doc = D
    BY <1>3 DEF TypeInv, BusyHaveDocs
  <2>3. Promise!Record(D, ActionOf(r))
    BY <1>3, <2>2, RecordsAreDue, AppendedExtendsLedger DEF Promise!Record
  <2> QED BY <2>1, <2>3 DEF Promise!Next
<1> QED BY <1>1, <1>2, <1>3, OnlyAppendsChangeLog, OnlyPurgesChangeDocs

\* Read in the order of its numbers, the stream of a document is a ledger that grows by
\* one record at a time at its end and holds a deletion only of what has gone, for any
\* number of requests that append without a lock.
THEOREM LedgerKept == Spec => KeepsLedger
<1>1. Init => Promise!Init
  <2> SUFFICES ASSUME Init
               PROVE  Promise!Init
    OBVIOUS
  <2>1. \A d \in Docs : Numbers(d) = {}
    BY DEF Init, Numbers
  <2>2. \A d \in Docs : Ledger[d] = <<>>
    <3> SUFFICES ASSUME NEW d \in Docs
                 PROVE  Ledger[d] = <<>>
      OBVIOUS
    <3>1. Ledger[d] \in Seq(Actions) /\ Len(Ledger[d]) = 0
      <4>1. Numbers(d) = 1..0
        BY <2>1
      <4> QED BY <4>1, InitTypes, LedgersAreSequences DEF LedgersReadStreams
    <3> QED BY <3>1, EmptySeq
  <2> QED BY <2>2 DEF Init, Promise!Init, Ledger
<1>2. Init => ChainInv /\ NumbersInv /\ RecordInv
  <2>1. Init => \A d \in Docs : Numbers(d) = {}
    BY DEF Init, Numbers
  <2>2. Init => NumbersInv
    <3>1. {} = 1..0 /\ 0 \in Nat
      OBVIOUS
    <3> QED BY <2>1, <3>1 DEF NumbersInv
  <2> QED BY <2>2 DEF Init, ChainInv, RecordInv, Recording, Deletions, Requests, Deleters, ByPage
<1>3. Spec => [](ChainInv /\ NumbersInv /\ RecordInv)
  BY <1>2, TypesHold, NextChain, NextNumbers, NextRecord, PTL DEF Spec
<1> QED BY <1>1, <1>3, TypesHold, NextKeepsLedger, PTL DEF Spec, KeepsLedger, Promise!Spec
=============================================================================
