------------------------- MODULE KeyRotation_proofs -------------------------
(***************************************************************************)
(* Proofs about KeyRotation, for every set of documents, keys, workers,    *)
(* jobs and requests, and every size of a batch.                           *)
(***************************************************************************)
EXTENDS KeyRotation, TLAPS, FiniteSetTheorems, WellFoundedInduction

-----------------------------------------------------------------------------
(* A batch is empty only when no document is under the key: of a finite    *)
(* set of documents one has none above it.                                 *)

Less == {p \in Nat \X Nat : p[1] < p[2]}

LEMMA LessIsWellFounded == IsWellFoundedOn(Less, Nat)
BY NatLessThanWellFounded DEF OpToRel, Less

LEMMA NewestExists ==
  ASSUME NEW S \in SUBSET Docs, S # {}
  PROVE  \E d \in S : {e \in S : e > d} = {}
<1> DEFINE Above(d) == {e \in S : e > d}
           Ranks == {Cardinality(Above(d)) : d \in S}
<1>1. IsFiniteSet(S) /\ S \subseteq Nat
  BY KeyAssumption, FS_Subset
<1>2. \A d \in S : IsFiniteSet(Above(d)) /\ Cardinality(Above(d)) \in Nat
  BY <1>1, FS_Subset, FS_CardinalityType
<1>3. Ranks \subseteq Nat /\ Ranks # {}
  BY <1>2
<1>4. PICK n \in Ranks : \A m \in Ranks : ~(<<m, n>> \in Less)
  <2> HIDE DEF Ranks
  <2> QED BY <1>3, LessIsWellFounded, WFMin
<1>5. \A m \in Ranks : n <= m
  <2> HIDE DEF Ranks
  <2>1. SUFFICES ASSUME NEW m \in Ranks PROVE n <= m
    OBVIOUS
  <2>2. m \in Nat /\ n \in Nat /\ <<m, n>> \notin Less
    BY <1>3, <1>4
  <2>3. ~(m < n)
    BY <2>2 DEF Less
  <2> QED BY <2>2, <2>3
<1>6. PICK d \in S : n = Cardinality(Above(d))
  OBVIOUS
<1>7. ASSUME NEW e \in Above(d) PROVE FALSE
  <2>0. d \in Nat /\ e \in Nat /\ e \in S /\ e > d
    BY <1>1, <1>7
  <2>1. Above(e) \subseteq Above(d) /\ e \notin Above(e) /\ e \in S
    <3>1. \A x \in S : x > e => x > d
      BY <1>1, <2>0
    <3>2. ~(e > e)
      BY <2>0
    <3> QED BY <2>0, <3>1, <3>2
  <2>2. Cardinality(Above(e)) <= Cardinality(Above(d)) /\ Cardinality(Above(e)) # Cardinality(Above(d))
    <3> HIDE DEF Above
    <3> QED BY <1>2, <1>7, <2>1, FS_Subset
  <2>3. n <= Cardinality(Above(e))
    BY <1>5, <2>1
  <2> HIDE DEF Above
  <2> QED BY <1>2, <1>6, <2>1, <2>2, <2>3
<1> QED BY <1>7

LEMMA EmptyBatch ==
  ASSUME NEW k, Batch(k) = {}
  PROVE  Under(k) = {}
<1> SUFFICES ASSUME Under(k) # {} PROVE FALSE
  OBVIOUS
<1>1. Under(k) \in SUBSET Docs
  BY DEF Under
<1>2. PICK d \in Under(k) : {e \in Under(k) : e > d} = {}
  BY <1>1, NewestExists
<1>3. Cardinality({e \in Under(k) : e > d}) = 0 /\ BatchSize \in Nat \ {0}
  BY <1>2, FS_EmptySet, KeyAssumption
<1> QED BY <1>3 DEF Batch

-----------------------------------------------------------------------------
(* Type correctness: keys that are at hand are keys.                       *)

AtHand ==
  /\ \A d \in Docs : busy[d] => ukey[d] \in Keys
  /\ \A j \in Jobs : jobs[j].status # "none" => jobs[j].from \in Keys /\ jobs[j].to \in Keys
  /\ \A w \in Workers : pc[w] # "idle" => task[w].from \in Keys /\ task[w].to \in Keys
  /\ \A w \in Workers : pc[w] \in {"report", "fail"} => task[w].job \in Jobs
  /\ \A w \in Workers, j \in Jobs :
       pc[w] # "idle" /\ task[w].job = j => jobs[j].status # "none" /\ jobs[j].from = task[w].from

TypeInv == TypeOK /\ AtHand

LEMMA TaskFields ==
  ASSUME NEW t \in Task
  PROVE  /\ t.job \in Jobs \cup {NoJob} /\ t.from \in Keys \cup {NoKey} /\ t.to \in Keys \cup {NoKey}
         /\ t.batch \subseteq Docs /\ t.read \in [Docs -> Nat] /\ t.base \in Nat /\ t.own \in Nat
         /\ t.done \in BOOLEAN
BY DEF Task

\* What a worker keeps of its task.
Same(t, s) == t.job = s.job /\ t.from = s.from /\ t.to = s.to /\ t.base = s.base

LEMMA TaskDone ==
  ASSUME NEW t \in Task, NEW b \in BOOLEAN
  PROVE  LET n == [t EXCEPT !.done = b] IN n \in Task /\ Same(n, t) /\ n.own = t.own /\ n.done = b
BY DEF Task, Same

LEMMA TaskRow ==
  ASSUME task \in [Workers -> Task], NEW w \in Workers, NEW d \in Docs, NEW n \in Nat
  PROVE  /\ RowDone(w, d, n) \in Task /\ Same(RowDone(w, d, n), task[w])
         /\ RowDone(w, d, n).own = task[w].own + n
         /\ RowDone(w, d, n).batch = task[w].batch \ {d}
         /\ \A e \in Docs : e # d => RowDone(w, d, n).read[e] = task[w].read[e]
<1>1. PICK t \in Task : t = task[w]
  OBVIOUS
<1>2. PICK r \in [Docs -> Nat] : r = [t.read EXCEPT ![d] = 0]
  BY TaskFields
<1>3. PICK o \in Nat : o = t.own + n
  BY TaskFields
<1>4. PICK b \in SUBSET Docs : b = t.batch \ {d}
  BY TaskFields
<1>5. RowDone(w, d, n) = [t EXCEPT !.batch = b, !.read = r, !.own = o]
  BY <1>1, <1>2, <1>3, <1>4 DEF RowDone
<1>6. \A e \in Docs : e # d => r[e] = t.read[e]
  BY <1>2, TaskFields
<1>7. /\ RowDone(w, d, n) \in Task /\ Same(RowDone(w, d, n), t) /\ RowDone(w, d, n).own = o
      /\ RowDone(w, d, n).batch = b /\ RowDone(w, d, n).read = r
  <2> DEFINE x == [t EXCEPT !.batch = b, !.read = r, !.own = o]
  <2>1. x \in Task /\ Same(x, t) /\ x.own = o /\ x.batch = b /\ x.read = r
    BY DEF Task, Same
  <2>2. RowDone(w, d, n) = x
    BY <1>5
  <2> HIDE DEF x
  <2> QED BY <2>1, <2>2
<1> QED BY <1>1, <1>3, <1>4, <1>6, <1>7

LEMMA NoTaskType == NoTask \in Task
BY DEF Task, NoTask

LEMMA JobFields ==
  /\ \A r \in JobRow : r.status \in Statuses /\ r.from \in Keys \cup {NoKey} /\ r.to \in Keys \cup {NoKey}
                       /\ r.rotated \in Nat
  /\ \A s \in Statuses, a, b \in Keys, n \in Nat :
       LET r == [status |-> s, from |-> a, to |-> b, rotated |-> n]
       IN  r \in JobRow /\ r.status = s /\ r.from = a /\ r.to = b /\ r.rotated = n
  /\ \A r \in JobRow, s \in Statuses :
       LET n == [r EXCEPT !.status = s]
       IN  n \in JobRow /\ n.status = s /\ n.from = r.from /\ n.to = r.to /\ n.rotated = r.rotated
BY DEF JobRow

-----------------------------------------------------------------------------
(* What a step of a worker does to it.                                     *)

\* The worker alone moves, to a task with both keys, and to a report of a job.
Goes(w, next) ==
  /\ pc'[w] = next /\ task'[w] \in Task
  /\ \A v \in Workers \ {w} : pc'[v] = pc[v] /\ task'[v] = task[v]
  /\ pc' \in [Workers -> WorkerPcs] /\ task' \in [Workers -> Task]
  /\ next # "idle" => task'[w].from \in Keys /\ task'[w].to \in Keys
  /\ next \in {"report", "fail"} => task'[w].job \in Jobs

Keeps(w) == Same(task'[w], task[w]) /\ task'[w].own = task[w].own

LEMMA Going ==
  ASSUME TypeInv, NEW w \in Workers, NEW next \in WorkerPcs, NEW t \in Task,
         next # "idle" => t.from \in Keys /\ t.to \in Keys,
         next \in {"report", "fail"} => t.job \in Jobs,
         pc' = [pc EXCEPT ![w] = next], task' = [task EXCEPT ![w] = t]
  PROVE  Goes(w, next) /\ task'[w] = t
BY DEF Goes, TypeInv, TypeOK

\* A call without a job is over; one for a job goes on to a report.
LEMMA Returning ==
  ASSUME TypeInv, NEW w \in Workers, pc[w] # "idle", NEW next \in {"report", "fail"}, NEW t \in Task,
         Same(t, task[w]), Return(w, next, t)
  PROVE  \/ Goes(w, "idle")
         \/ task[w].job \in Jobs /\ Goes(w, next) /\ task'[w] = t
<1>1. task[w].from \in Keys /\ task[w].to \in Keys /\ task[w].job \in Jobs \cup {NoJob}
  BY TaskFields DEF TypeInv, TypeOK, AtHand
<1>2. next \in WorkerPcs /\ "idle" \in WorkerPcs
  BY DEF WorkerPcs
<1>3. CASE task[w].job = NoJob
  <2>1. pc' = [pc EXCEPT ![w] = "idle"] /\ task' = [task EXCEPT ![w] = NoTask]
    BY <1>3 DEF Return
  <2> QED BY <1>2, <2>1, NoTaskType, Going
<1>4. CASE task[w].job \in Jobs
  <2>1. pc' = [pc EXCEPT ![w] = next] /\ task' = [task EXCEPT ![w] = t]
    BY <1>4, KeyAssumption DEF Return
  <2> QED BY <1>1, <1>2, <1>4, <2>1, Going DEF Same
<1> QED BY <1>1, <1>3, <1>4

Ends(w) == Goes(w, "idle")
Claims(w, j) ==
  /\ pc[w] = "idle" /\ Goes(w, "begin") /\ task'[w].own = 0
  /\ task'[w].job = j /\ task'[w].from = jobs[j].from /\ task'[w].base = jobs[j].rotated
  /\ jobs[j].status # "none"
Directs(w) == pc[w] = "idle" /\ Goes(w, "begin") /\ task'[w].job = NoJob
Loads(w) ==
  /\ pc[w] = "begin" /\ Goes(w, "rewrap") /\ Keeps(w)
  /\ task'[w].batch \subseteq Under(task[w].from)
  /\ \A d \in task'[w].batch : task'[w].read[d] = docs[d].data
  /\ Usable(task[w].to) \/ w \in excused'
Rewrites(w, d, n) ==
  /\ pc[w] = "rewrap" /\ d \in task[w].batch /\ pc'[w] \in {"rewrap", "count"} /\ Goes(w, pc'[w])
  /\ Same(task'[w], task[w]) /\ task'[w].own = task[w].own + n
  /\ task'[w].batch \subseteq task[w].batch
  /\ \A e \in task'[w].batch : task'[w].read[e] = task[w].read[e]
Reports(w) ==
  /\ pc[w] \in {"begin", "count"} /\ Goes(w, "report") /\ Keeps(w)
  /\ task'[w].done => Under(task[w].from) = {} /\ missed'[task[w].job] = {} /\ UNCHANGED docs
Refuses(w) == pc[w] # "idle" /\ Goes(w, "fail") /\ Keeps(w)

LEMMA WorkerSteps ==
  ASSUME TypeInv, NEW w \in Workers
  PROVE  /\ \A j \in Jobs : ClaimNextKeyRotationJob(w, j) => Claims(w, j)
         /\ \A r \in Requests : RotateDirectly(w, r) => Directs(w)
         /\ LoadBatch(w) => Ends(w) \/ Loads(w) \/ Reports(w)
         /\ KeyRefused(w) \/ RotationThrows(w) => Ends(w) \/ Refuses(w)
         /\ \A d \in Docs : Rewrap(w, d) => Rewrites(w, d, 1)
         /\ \A d \in Docs : RewrapFails(w, d) => Rewrites(w, d, 0)
         /\ CountRemaining(w) => Ends(w) \/ Reports(w)
         /\ ReportBatch(w) \/ ReportFailure(w) \/ WorkerDies(w) => Ends(w)
<1>0. /\ task[w] \in Task /\ task \in [Workers -> Task] /\ pc \in [Workers -> WorkerPcs]
      /\ docs \in [Docs -> DocRow] /\ missed \in [Jobs -> SUBSET Docs] /\ jobs \in [Jobs -> JobRow]
      /\ {"idle", "begin", "rewrap", "count", "report", "fail"} \subseteq WorkerPcs
  BY DEF TypeInv, TypeOK, WorkerPcs
<1>1. ASSUME NEW j \in Jobs, ClaimNextKeyRotationJob(w, j) PROVE Claims(w, j)
  <2>1. jobs[j].from \in Keys /\ jobs[j].to \in Keys /\ jobs[j].rotated \in Nat
    BY <1>0, <1>1, JobFields DEF ClaimNextKeyRotationJob, Live, TypeInv, AtHand
  <2>2. PICK t \in Task :
          /\ t = [NoTask EXCEPT !.job = j, !.from = jobs[j].from, !.to = jobs[j].to, !.base = jobs[j].rotated]
          /\ t.job = j /\ t.from = jobs[j].from /\ t.to = jobs[j].to /\ t.base = jobs[j].rotated /\ t.own = 0
    <3> DEFINE n == [NoTask EXCEPT !.job = j, !.from = jobs[j].from, !.to = jobs[j].to, !.base = jobs[j].rotated]
    <3>1. /\ n \in Task /\ n.job = j /\ n.from = jobs[j].from /\ n.to = jobs[j].to /\ n.base = jobs[j].rotated
          /\ n.own = 0
      BY <2>1 DEF Task, NoTask
    <3> QED BY <3>1
  <2>3. pc' = [pc EXCEPT ![w] = "begin"] /\ task' = [task EXCEPT ![w] = t] /\ pc[w] = "idle" /\ jobs[j].status # "none"
    BY <1>1, <2>2 DEF ClaimNextKeyRotationJob, Live
  <2>4. Goes(w, "begin") /\ task'[w] = t
    BY <1>0, <2>1, <2>2, <2>3, Going
  <2> QED BY <2>2, <2>3, <2>4 DEF Claims
<1>2. ASSUME NEW r \in Requests, RotateDirectly(w, r) PROVE Directs(w)
  <2>1. r[1] \in Keys /\ r[2] \in Keys
    BY KeyAssumption
  <2>2. PICK t \in Task : t = [NoTask EXCEPT !.from = r[1], !.to = r[2]] /\ t.from = r[1] /\ t.to = r[2] /\ t.job = NoJob
    <3> DEFINE n == [NoTask EXCEPT !.from = r[1], !.to = r[2]]
    <3>1. n \in Task /\ n.from = r[1] /\ n.to = r[2] /\ n.job = NoJob
      BY <2>1 DEF Task, NoTask
    <3> QED BY <3>1
  <2>3. pc' = [pc EXCEPT ![w] = "begin"] /\ task' = [task EXCEPT ![w] = t] /\ pc[w] = "idle"
    BY <1>2, <2>2 DEF RotateDirectly
  <2>4. Goes(w, "begin") /\ task'[w] = t
    BY <1>0, <2>1, <2>2, <2>3, Going
  <2> QED BY <2>2, <2>3, <2>4 DEF Directs
<1>3. ASSUME NEW b \in BOOLEAN, Return(w, "report", [task[w] EXCEPT !.done = b]), pc[w] \in {"begin", "count"},
             b => Under(task[w].from) = {} /\ CountedZero(w) /\ UNCHANGED docs
      PROVE  Ends(w) \/ Reports(w)
  <2>1. PICK t \in Task : t = [task[w] EXCEPT !.done = b] /\ Same(t, task[w]) /\ t.own = task[w].own /\ t.done = b
    BY <1>0, TaskDone
  <2>2. Return(w, "report", t)
    BY <1>3, <2>1
  <2>3. CASE task[w].job \in Jobs /\ Goes(w, "report") /\ task'[w] = t
    <3>1. b => missed'[task[w].job] = {}
      BY <1>3, <2>3 DEF CountedZero
    <3> QED BY <1>3, <2>1, <2>3, <3>1 DEF Reports, Keeps
  <2>4. CASE Goes(w, "idle")
    BY <2>4 DEF Ends
  <2> QED BY <1>3, <2>1, <2>2, <2>3, <2>4, Returning
<1>4. ASSUME LoadBatch(w) PROVE Ends(w) \/ Loads(w) \/ Reports(w)
  <2>1. PICK b \in SUBSET Docs : b = Batch(task[w].from) /\ b \subseteq Under(task[w].from)
    BY DEF Batch, Under
  <2>2. CASE b = {}
    <3>1. Return(w, "report", [task[w] EXCEPT !.done = TRUE]) /\ CountedZero(w) /\ pc[w] = "begin" /\ UNCHANGED docs
      BY <1>4, <2>1, <2>2 DEF LoadBatch
    <3>2. Under(task[w].from) = {}
      BY <2>1, <2>2, EmptyBatch
    <3>3. PICK y \in BOOLEAN : y = TRUE
      OBVIOUS
    <3> QED BY <1>3, <3>1, <3>2, <3>3
  <2>3. CASE b # {}
    <3>1. PICK r \in [Docs -> Nat] : r = ReadKeys(b) /\ \A d \in b : r[d] = docs[d].data
      <4>1. \A d \in Docs : docs[d].data \in Nat
        BY <1>0 DEF DocRow
      <4>2. ReadKeys(b) \in [Docs -> Nat] /\ \A d \in b : ReadKeys(b)[d] = docs[d].data
        BY <4>1 DEF ReadKeys
      <4> QED BY <4>2
    <3>2. PICK t \in Task : /\ t = [task[w] EXCEPT !.batch = b, !.read = r]
                           /\ Same(t, task[w]) /\ t.own = task[w].own /\ t.batch = b /\ t.read = r
      <4> DEFINE n == [task[w] EXCEPT !.batch = b, !.read = r]
      <4>1. n \in Task /\ Same(n, task[w]) /\ n.own = task[w].own /\ n.batch = b /\ n.read = r
        BY <1>0 DEF Task, Same
      <4> QED BY <4>1
    <3>3. task' = [task EXCEPT ![w] = t] /\ pc' = [pc EXCEPT ![w] = "rewrap"] /\ pc[w] = "begin"
      BY <1>0, <1>4, <2>1, <2>3, <3>1, <3>2 DEF LoadBatch
    <3>4. t.from \in Keys /\ t.to \in Keys
      BY <3>2, <3>3 DEF Same, TypeInv, AtHand
    <3>5. Goes(w, "rewrap") /\ task'[w] = t
      BY <1>0, <3>3, <3>4, Going
    <3>6. Usable(task[w].to) \/ w \in excused'
      BY <1>4, <2>1, <2>3 DEF LoadBatch, KeysUsable
    <3>7. task'[w].batch = b /\ task'[w].read = r /\ Keeps(w)
      BY <3>2, <3>5 DEF Keeps
    <3>8. \A d \in task'[w].batch : task'[w].read[d] = docs[d].data
      BY <3>1, <3>7
    <3>9. Loads(w)
      BY <2>1, <3>3, <3>5, <3>6, <3>7, <3>8 DEF Loads
    <3> QED BY <3>9
  <2> QED BY <2>2, <2>3
<1>5. ASSUME KeyRefused(w) \/ RotationThrows(w) PROVE Ends(w) \/ Refuses(w)
  <2>1. Return(w, "fail", task[w]) /\ pc[w] # "idle"
    BY <1>5 DEF KeyRefused, RotationThrows
  <2>2. Same(task[w], task[w])
    BY DEF Same
  <2>3. Goes(w, "idle") \/ (Goes(w, "fail") /\ task'[w] = task[w])
    BY <1>0, <2>1, <2>2, Returning
  <2> QED BY <2>1, <2>2, <2>3 DEF Ends, Refuses, Keeps
<1>6. ASSUME NEW d \in Docs, NEW n \in Nat, pc[w] = "rewrap", Newest(w, d), NextRow(w, d),
             task' = [task EXCEPT ![w] = RowDone(w, d, n)]
      PROVE  Rewrites(w, d, n)
  <2>1. PICK t \in Task : /\ t = RowDone(w, d, n) /\ Same(t, task[w]) /\ t.own = task[w].own + n
                         /\ t.batch = task[w].batch \ {d}
                         /\ \A e \in Docs : e # d => t.read[e] = task[w].read[e]
    BY <1>0, TaskRow
  <2>2. PICK next \in {"rewrap", "count"} : pc' = [pc EXCEPT ![w] = next]
    BY <1>6 DEF NextRow
  <2>3. t.from \in Keys /\ t.to \in Keys
    BY <1>6, <2>1 DEF Same, TypeInv, AtHand
  <2>4. Goes(w, next) /\ task'[w] = t
    BY <1>0, <1>6, <2>1, <2>2, <2>3, Going
  <2>5. d \in task[w].batch /\ task[w].batch \subseteq Docs /\ pc'[w] = next
    BY <1>0, <1>6, <2>2, TaskFields DEF Newest
  <2> QED BY <1>6, <2>1, <2>4, <2>5 DEF Rewrites
<1>7. \A d \in Docs : Rewrap(w, d) => Rewrites(w, d, 1)
  BY <1>6 DEF Rewrap
<1>8. \A d \in Docs : RewrapFails(w, d) => Rewrites(w, d, 0)
  BY <1>6 DEF RewrapFails
<1>9. ASSUME CountRemaining(w) PROVE Ends(w) \/ Reports(w)
  <2>1. PICK b \in BOOLEAN : b = NoneRemain(w)
    BY DEF NoneRemain
  <2>2. Return(w, "report", [task[w] EXCEPT !.done = b]) /\ pc[w] = "count" /\ (b => CountedZero(w)) /\ UNCHANGED docs
    BY <1>9, <2>1 DEF CountRemaining
  <2> QED BY <1>3, <2>1, <2>2 DEF NoneRemain
<1>10. ASSUME ReportBatch(w) \/ ReportFailure(w) \/ WorkerDies(w) PROVE Ends(w)
  <2>1. pc' = [pc EXCEPT ![w] = "idle"] /\ task' = [task EXCEPT ![w] = NoTask]
    BY <1>10 DEF ReportBatch, ReportFailure, WorkerDies
  <2> QED BY <1>0, <2>1, NoTaskType, Going DEF Ends
<1> QED BY <1>1, <1>2, <1>4, <1>5, <1>7, <1>8, <1>9, <1>10
\* The worker alone moves, whatever it does.
LEMMA OneMoves ==
  ASSUME TypeInv, [Next]_vars
  PROVE  \/ UNCHANGED <<pc, task>>
         \/ \E w \in Workers : \/ Ends(w) \/ Directs(w) \/ Loads(w) \/ Reports(w) \/ Refuses(w)
                               \/ \E j \in Jobs : Claims(w, j)
                               \/ \E d \in Docs : Rewrites(w, d, 0) \/ (Rewrap(w, d) /\ Rewrites(w, d, 1))
<1>1. CASE UNCHANGED vars
  BY <1>1 DEF vars
<1>2. CASE Next
  <2>1. CASE \E d \in Docs : Upload(d)
    BY <2>1 DEF Upload, EncryptAndPut, FinalizeUpload, UploadDies, jobVars
  <2>2. CASE \/ \E k \in Keys : CheckActivation(k) \/ RevokeMasterKey(k)
             \/ WriteActivation
             \/ \E j \in Jobs, r \in Requests : EnqueueKeyRotationJob(j, r)
    BY <2>2 DEF CheckActivation, RevokeMasterKey, WriteActivation, EnqueueKeyRotationJob, jobVars
  <2>3. ASSUME NEW w \in Workers,
               Claim(w) \/ Proceed(w) \/ RotationThrows(w) \/ WorkerDies(w) \/ \E r \in Requests : RotateDirectly(w, r)
        PROVE  \/ Ends(w) \/ Directs(w) \/ Loads(w) \/ Reports(w) \/ Refuses(w)
               \/ \E j \in Jobs : Claims(w, j)
               \/ \E d \in Docs : Rewrites(w, d, 0) \/ (Rewrap(w, d) /\ Rewrites(w, d, 1))
    BY <2>3, WorkerSteps DEF Claim, Proceed
  <2> QED BY <1>2, <2>1, <2>2, <2>3 DEF Next, Admin
<1> QED BY <1>1, <1>2

LEMMA InitTypeInv == Init => TypeInv
BY NoTaskType DEF Init, TypeInv, TypeOK, AtHand, DocRow, JobRow, Statuses, WorkerPcs

LEMMA WorkersTyped ==
  ASSUME TypeInv, [Next]_vars
  PROVE  /\ pc' \in [Workers -> WorkerPcs] /\ task' \in [Workers -> Task]
         /\ \A w \in Workers : pc'[w] # "idle" => task'[w].from \in Keys /\ task'[w].to \in Keys
         /\ \A w \in Workers : pc'[w] \in {"report", "fail"} => task'[w].job \in Jobs
<1>1. CASE UNCHANGED <<pc, task>>
  BY <1>1 DEF TypeInv, TypeOK, AtHand
<1>2. ASSUME NEW w \in Workers, Goes(w, pc'[w])
      PROVE  /\ pc' \in [Workers -> WorkerPcs] /\ task' \in [Workers -> Task]
             /\ \A v \in Workers : pc'[v] # "idle" => task'[v].from \in Keys /\ task'[v].to \in Keys
             /\ \A v \in Workers : pc'[v] \in {"report", "fail"} => task'[v].job \in Jobs
  BY <1>2 DEF Goes, TypeInv, AtHand
<1>3. ASSUME NEW w \in Workers,
             \/ Ends(w) \/ Directs(w) \/ Loads(w) \/ Reports(w) \/ Refuses(w)
             \/ \E j \in Jobs : Claims(w, j)
             \/ \E d \in Docs : Rewrites(w, d, 0) \/ Rewrites(w, d, 1)
      PROVE  Goes(w, pc'[w])
  BY <1>3 DEF Ends, Directs, Loads, Reports, Refuses, Claims, Rewrites, Goes
<1> QED BY <1>1, <1>2, <1>3, OneMoves

-----------------------------------------------------------------------------
(* What a step does to a job and to a document.                            *)

Enqueued(j) ==
  /\ jobs[j].status = "none" /\ jobs'[j].status = "queued" /\ jobs'[j].rotated = 0
  /\ jobs'[j].from \in Keys /\ jobs'[j].to \in Keys /\ UNCHANGED <<docs, missed>>

SameKeys(j) == jobs'[j].from = jobs[j].from /\ jobs'[j].to = jobs[j].to

Worked(j) ==
  /\ SameKeys(j) /\ UNCHANGED <<docs, missed>>
  /\ \/ jobs[j].status # "none" /\ jobs'[j].status = "running" /\ jobs'[j].rotated = jobs[j].rotated
     \/ \E w \in Workers : /\ pc[w] = "fail" /\ task[w].job = j
                           /\ jobs'[j].status = "failed" /\ jobs'[j].rotated = jobs[j].rotated
     \/ \E w \in Workers : /\ pc[w] = "report" /\ task[w].job = j
                           /\ jobs'[j].status = IF task[w].done THEN "completed" ELSE "running"
                           /\ jobs'[j].rotated = task[w].base + task[w].own

JobStep(j) == jobs'[j] = jobs[j] \/ Enqueued(j) \/ Worked(j)

LEMMA JobsTyped ==
  ASSUME TypeInv, [Next]_vars
  PROVE  jobs' \in [Jobs -> JobRow] /\ \A j \in Jobs : JobStep(j)
<1> DEFINE Goal == jobs' \in [Jobs -> JobRow] /\ \A j \in Jobs : JobStep(j)
<1>0. jobs \in [Jobs -> JobRow] /\ task \in [Workers -> Task]
  BY DEF TypeInv, TypeOK
<1>1. CASE jobs' = jobs
  BY <1>0, <1>1 DEF JobStep
<1>2. ASSUME NEW j \in Jobs, NEW r \in JobRow, jobs' = [jobs EXCEPT ![j] = r],
             [Next]_vars => Enqueued(j) \/ Worked(j)
      PROVE  Goal
  BY <1>0, <1>2 DEF JobStep
<1>3. ASSUME NEW j \in Jobs, NEW q \in Requests, EnqueueKeyRotationJob(j, q) PROVE Goal
  <2>1. q[1] \in Keys /\ q[2] \in Keys
    BY KeyAssumption
  <2>2. PICK r \in JobRow : /\ r = [status |-> "queued", from |-> q[1], to |-> q[2], rotated |-> 0]
                           /\ r.status = "queued" /\ r.from = q[1] /\ r.to = q[2] /\ r.rotated = 0
    <3> DEFINE n == [status |-> "queued", from |-> q[1], to |-> q[2], rotated |-> 0]
    <3>1. n \in JobRow /\ n.status = "queued" /\ n.from = q[1] /\ n.to = q[2] /\ n.rotated = 0
      BY <2>1 DEF JobRow, Statuses
    <3> QED BY <3>1
  <2>3. jobs' = [jobs EXCEPT ![j] = r]
    BY <1>3, <2>2 DEF EnqueueKeyRotationJob
  <2>4. jobs'[j] = r
    BY <1>0, <2>3
  <2>5. Enqueued(j)
    BY <1>3, <2>1, <2>2, <2>4 DEF EnqueueKeyRotationJob, Enqueued
  <2> QED BY <1>2, <2>3, <2>5
<1>4. ASSUME NEW w \in Workers, NEW j \in Jobs, ClaimNextKeyRotationJob(w, j) PROVE Goal
  <2>1. PICK r \in JobRow : /\ r = [jobs[j] EXCEPT !.status = "running"] /\ r.status = "running"
                           /\ r.from = jobs[j].from /\ r.to = jobs[j].to /\ r.rotated = jobs[j].rotated
    <3> DEFINE n == [jobs[j] EXCEPT !.status = "running"]
    <3>1. /\ n \in JobRow /\ n.status = "running"
          /\ n.from = jobs[j].from /\ n.to = jobs[j].to /\ n.rotated = jobs[j].rotated
      BY <1>0 DEF JobRow, Statuses
    <3> QED BY <3>1
  <2>2. jobs' = [jobs EXCEPT ![j] = r] /\ jobs[j].status # "none"
    BY <1>4, <2>1 DEF ClaimNextKeyRotationJob, Live
  <2>3. jobs'[j] = r
    BY <1>0, <2>2
  <2>4. Worked(j)
    BY <1>4, <2>1, <2>2, <2>3 DEF ClaimNextKeyRotationJob, Worked, SameKeys
  <2> QED BY <1>2, <2>2, <2>4
<1>5. ASSUME NEW w \in Workers, ReportFailure(w) PROVE Goal
  <2>0. PICK j \in Jobs : j = task[w].job
    BY <1>5 DEF ReportFailure, TypeInv, AtHand
  <2>1. PICK r \in JobRow : /\ r = [jobs[j] EXCEPT !.status = "failed"] /\ r.status = "failed"
                           /\ r.from = jobs[j].from /\ r.to = jobs[j].to /\ r.rotated = jobs[j].rotated
    <3> DEFINE n == [jobs[j] EXCEPT !.status = "failed"]
    <3>1. /\ n \in JobRow /\ n.status = "failed"
          /\ n.from = jobs[j].from /\ n.to = jobs[j].to /\ n.rotated = jobs[j].rotated
      BY <1>0 DEF JobRow, Statuses
    <3> QED BY <3>1
  <2>2. jobs' = [jobs EXCEPT ![j] = r]
    BY <1>5, <2>0, <2>1 DEF ReportFailure
  <2>3. jobs'[j] = r
    BY <1>0, <2>2
  <2>4. Worked(j)
    BY <1>5, <2>0, <2>1, <2>3 DEF ReportFailure, Worked, SameKeys
  <2> QED BY <1>2, <2>2, <2>4
<1>6. ASSUME NEW w \in Workers, ReportBatch(w) PROVE Goal
  <2>0. PICK j \in Jobs : j = task[w].job
    BY <1>6 DEF ReportBatch, TypeInv, AtHand
  <2>1. PICK n \in Nat : n = task[w].base + task[w].own
    BY <1>0, TaskFields
  <2>2. PICK status \in {"completed", "running"} : status = IF task[w].done THEN "completed" ELSE "running"
    OBVIOUS
  <2>3. jobs' = [jobs EXCEPT ![j].rotated = n, ![j].status = status]
    BY <1>6, <2>0, <2>1, <2>2 DEF ReportBatch
  <2>4. PICK r \in JobRow : /\ jobs' = [jobs EXCEPT ![j] = r] /\ r.status = status
                           /\ r.from = jobs[j].from /\ r.to = jobs[j].to /\ r.rotated = n
    <3> DEFINE x == [jobs[j] EXCEPT !.rotated = n, !.status = status]
    <3>1. /\ x \in JobRow /\ x.status = status
          /\ x.from = jobs[j].from /\ x.to = jobs[j].to /\ x.rotated = n
      BY <1>0, <2>2 DEF JobRow, Statuses
    <3>2. jobs' = [jobs EXCEPT ![j] = x]
      BY <1>0, <2>3
    <3> QED BY <3>1, <3>2
  <2>5. jobs'[j] = r
    BY <1>0, <2>4
  <2>6. Worked(j)
    BY <1>6, <2>0, <2>1, <2>2, <2>4, <2>5 DEF ReportBatch, Worked, SameKeys
  <2> QED BY <1>2, <2>4, <2>6
<1>7. CASE UNCHANGED vars
  BY <1>1, <1>7 DEF vars
<1>8. CASE \/ \E d \in Docs : Upload(d)
           \/ \E k \in Keys : CheckActivation(k) \/ RevokeMasterKey(k)
           \/ WriteActivation
           \/ \E w \in Workers, r \in Requests : RotateDirectly(w, r)
  BY <1>1, <1>8 DEF Upload, EncryptAndPut, FinalizeUpload, UploadDies, CheckActivation, RevokeMasterKey,
                    WriteActivation, RotateDirectly, jobVars
<1>9. ASSUME NEW w \in Workers, LoadBatch(w) \/ KeyRefused(w) \/ CountRemaining(w) \/ RotationThrows(w) \/ WorkerDies(w)
                               \/ \E d \in Docs : Rewrap(w, d) \/ RewrapFails(w, d)
      PROVE  Goal
  BY <1>1, <1>9 DEF LoadBatch, KeyRefused, CountRemaining, RotationThrows, WorkerDies, Rewrap, RewrapFails
<1>10. CASE Next
  BY <1>3, <1>4, <1>5, <1>6, <1>8, <1>9, <1>10 DEF Next, Admin, Claim, Proceed
<1> QED BY <1>7, <1>10

Finalized(d) ==
  /\ FinalizeUpload(d) /\ docs'[d].version = ukey[d] /\ docs'[d].data = tries[d]
  /\ busy[d] /\ ~busy'[d]

Rewrote(w, d) ==
  /\ Rewrap(w, d) /\ docs'[d].version = task[w].to /\ docs'[d].data = task[w].read[d]
  /\ pc[w] = "rewrap" /\ d \in task[w].batch

DocStep(d) == docs'[d] = docs[d] \/ Finalized(d) \/ \E w \in Workers : Rewrote(w, d)

LEMMA DocsTyped ==
  ASSUME TypeInv, [Next]_vars
  PROVE  docs' \in [Docs -> DocRow] /\ \A d \in Docs : DocStep(d)
<1> DEFINE Goal == docs' \in [Docs -> DocRow] /\ \A d \in Docs : DocStep(d)
<1>0. docs \in [Docs -> DocRow] /\ task \in [Workers -> Task]
  BY DEF TypeInv, TypeOK
<1>1. CASE docs' = docs
  BY <1>0, <1>1 DEF DocStep
<1>2. ASSUME NEW d \in Docs, FinalizeUpload(d) PROVE Goal
  <2>1. PICK r \in DocRow : /\ r = [version |-> ukey[d], data |-> tries[d]]
                           /\ r.version = ukey[d] /\ r.data = tries[d]
    <3> DEFINE n == [version |-> ukey[d], data |-> tries[d]]
    <3>1. ukey[d] \in Keys \cup {NoKey} /\ tries[d] \in Nat
      BY DEF TypeInv, TypeOK
    <3>2. n \in DocRow /\ n.version = ukey[d] /\ n.data = tries[d]
      BY <3>1 DEF DocRow
    <3> QED BY <3>2
  <2>2. docs' = [docs EXCEPT ![d] = r]
    BY <1>2, <2>1 DEF FinalizeUpload
  <2>3. busy[d] /\ ~busy'[d]
    BY <1>2 DEF FinalizeUpload, TypeInv, TypeOK
  <2> QED BY <1>0, <1>2, <2>1, <2>2, <2>3 DEF DocStep, Finalized
<1>3. ASSUME NEW w \in Workers, NEW d \in Docs, Rewrap(w, d) PROVE Goal
  <2>1. PICK r \in DocRow : /\ r = [version |-> task[w].to, data |-> task[w].read[d]]
                           /\ r.version = task[w].to /\ r.data = task[w].read[d]
    <3> DEFINE n == [version |-> task[w].to, data |-> task[w].read[d]]
    <3>1. task[w].to \in Keys \cup {NoKey} /\ task[w].read[d] \in Nat
      BY <1>0, TaskFields
    <3>2. n \in DocRow /\ n.version = task[w].to /\ n.data = task[w].read[d]
      BY <3>1 DEF DocRow
    <3> QED BY <3>2
  <2>2. docs' = [docs EXCEPT ![d] = r] /\ pc[w] = "rewrap" /\ d \in task[w].batch
    BY <1>3, <2>1 DEF Rewrap, Rewrapped, Newest
  <2>3. Rewrote(w, d)
    BY <1>0, <1>3, <2>1, <2>2 DEF Rewrote
  <2> QED BY <1>0, <2>1, <2>2, <2>3 DEF DocStep
<1>4. CASE UNCHANGED vars
  BY <1>1, <1>4 DEF vars
<1>5. CASE Admin
  BY <1>1, <1>5 DEF Admin, CheckActivation, RevokeMasterKey, WriteActivation, EnqueueKeyRotationJob, RotateDirectly
<1>6. ASSUME NEW d \in Docs, EncryptAndPut(d) \/ UploadDies(d) PROVE Goal
  BY <1>1, <1>6 DEF EncryptAndPut, UploadDies
<1>7. ASSUME NEW w \in Workers, Claim(w) \/ LoadBatch(w) \/ KeyRefused(w) \/ CountRemaining(w) \/ RotationThrows(w)
                               \/ WorkerDies(w) \/ ReportBatch(w) \/ ReportFailure(w)
                               \/ \E d \in Docs : RewrapFails(w, d)
      PROVE  Goal
  BY <1>1, <1>7 DEF Claim, ClaimNextKeyRotationJob, LoadBatch, KeyRefused, CountRemaining, RotationThrows, WorkerDies,
                    ReportBatch, ReportFailure, RewrapFails
<1>8. CASE Next
  BY <1>2, <1>3, <1>5, <1>6, <1>7, <1>8 DEF Next, Upload, Proceed
<1> QED BY <1>4, <1>8

\* What a step does to an upload: nothing, its start, or its end.
UploadStep(d) ==
  \/ busy'[d] = busy[d] /\ ukey'[d] = ukey[d] /\ tries'[d] = tries[d] /\ object'[d] = object[d]
  \/ /\ EncryptAndPut(d) /\ busy'[d] /\ ukey'[d] \in Keys
     /\ tries'[d] = tries[d] + 1 /\ object'[d] = tries[d] + 1
  \/ /\ FinalizeUpload(d) \/ UploadDies(d)
     /\ busy[d] /\ ~busy'[d] /\ ukey'[d] = NoKey /\ tries'[d] = tries[d] /\ object'[d] = object[d]

LEMMA UploadsTyped ==
  ASSUME TypeInv, [Next]_vars
  PROVE  /\ busy' \in [Docs -> BOOLEAN] /\ ukey' \in [Docs -> Keys \cup {NoKey}]
         /\ tries' \in [Docs -> Nat] /\ object' \in [Docs -> Nat]
         /\ \A d \in Docs : UploadStep(d)
<1> DEFINE Goal == /\ busy' \in [Docs -> BOOLEAN] /\ ukey' \in [Docs -> Keys \cup {NoKey}]
                   /\ tries' \in [Docs -> Nat] /\ object' \in [Docs -> Nat]
                   /\ \A d \in Docs : UploadStep(d)
<1>0. /\ busy \in [Docs -> BOOLEAN] /\ ukey \in [Docs -> Keys \cup {NoKey}]
      /\ tries \in [Docs -> Nat] /\ object \in [Docs -> Nat] /\ ActiveKey \in Keys /\ EnvActive \in Keys
  BY KeyAssumption DEF TypeInv, TypeOK, ActiveKey
<1>1. CASE UNCHANGED uploadVars
  BY <1>0, <1>1 DEF UploadStep, uploadVars
<1>2. ASSUME NEW d \in Docs, EncryptAndPut(d) PROVE Goal
  <2>1. UploadStep(d)
    BY <1>0, <1>2 DEF EncryptAndPut, UploadStep
  <2>2. \A e \in Docs \ {d} : UploadStep(e)
    BY <1>0, <1>2 DEF EncryptAndPut, UploadStep
  <2>3. /\ busy' \in [Docs -> BOOLEAN] /\ ukey' \in [Docs -> Keys \cup {NoKey}]
        /\ tries' \in [Docs -> Nat] /\ object' \in [Docs -> Nat]
    BY <1>0, <1>2 DEF EncryptAndPut
  <2> QED BY <2>1, <2>2, <2>3
<1>3. ASSUME NEW d \in Docs, FinalizeUpload(d) \/ UploadDies(d) PROVE Goal
  <2>1. UploadStep(d)
    BY <1>0, <1>3 DEF FinalizeUpload, UploadDies, UploadStep
  <2>2. \A e \in Docs \ {d} : UploadStep(e)
    BY <1>0, <1>3 DEF FinalizeUpload, UploadDies, UploadStep
  <2>3. /\ busy' \in [Docs -> BOOLEAN] /\ ukey' \in [Docs -> Keys \cup {NoKey}]
        /\ tries' \in [Docs -> Nat] /\ object' \in [Docs -> Nat]
    BY <1>0, <1>3 DEF FinalizeUpload, UploadDies
  <2> QED BY <2>1, <2>2, <2>3
<1>4. CASE UNCHANGED vars
  BY <1>1, <1>4 DEF vars, uploadVars
<1>5. CASE Admin
  BY <1>1, <1>5 DEF Admin, CheckActivation, RevokeMasterKey, WriteActivation, EnqueueKeyRotationJob, RotateDirectly
<1>6. ASSUME NEW w \in Workers, Claim(w) \/ Proceed(w) \/ RotationThrows(w) \/ WorkerDies(w) PROVE UNCHANGED uploadVars
  BY <1>6 DEF Claim, Proceed, ClaimNextKeyRotationJob, LoadBatch, KeyRefused, CountRemaining, RotationThrows,
              WorkerDies, ReportBatch, ReportFailure, Rewrap, RewrapFails
<1>7. CASE Next
  BY <1>1, <1>2, <1>3, <1>5, <1>6, <1>7 DEF Next, Upload
<1> QED BY <1>4, <1>7

-----------------------------------------------------------------------------
(* What a step does to the histories.                                      *)

Arrived(d, k) ==
  /\ Arrive(d, k) /\ docs'[d].version = k /\ UNCHANGED jobs
  /\ \A e \in Docs \ {d} : docs'[e] = docs[e]

Counted(w) ==
  /\ pc[w] # "idle" /\ Under(task[w].from) = {} /\ CountedZero(w) /\ UNCHANGED <<docs, jobs>>

LEMMA MissedSteps ==
  ASSUME TypeInv, [Next]_vars
  PROVE  \/ UNCHANGED <<docs, missed>>
         \/ \E d \in Docs, k \in Keys : Arrived(d, k)
         \/ \E w \in Workers : Counted(w)
<1> DEFINE Goal == \/ UNCHANGED <<docs, missed>>
                   \/ \E d \in Docs, k \in Keys : Arrived(d, k)
                   \/ \E w \in Workers : Counted(w)
<1>0. docs \in [Docs -> DocRow]
  BY DEF TypeInv, TypeOK
<1>1. CASE UNCHANGED vars
  BY <1>1 DEF vars
<1>2. CASE Admin
  BY <1>2 DEF Admin, CheckActivation, RevokeMasterKey, WriteActivation, EnqueueKeyRotationJob, RotateDirectly
<1>3. ASSUME NEW d \in Docs, EncryptAndPut(d) \/ UploadDies(d) PROVE Goal
  BY <1>3 DEF EncryptAndPut, UploadDies
<1>4. ASSUME NEW d \in Docs, FinalizeUpload(d) PROVE Goal
  <2>1. ukey[d] \in Keys
    BY <1>4 DEF FinalizeUpload, TypeInv, AtHand
  <2>2. docs' = [docs EXCEPT ![d] = [version |-> ukey[d], data |-> tries[d]]] /\ Arrive(d, ukey[d]) /\ UNCHANGED jobs
    BY <1>4 DEF FinalizeUpload, jobVars
  <2>3. Arrived(d, ukey[d])
    BY <1>0, <2>2 DEF Arrived
  <2> QED BY <2>1, <2>3
<1>5. ASSUME NEW w \in Workers, NEW d \in Docs, Rewrap(w, d) PROVE Goal
  <2>1. task[w].to \in Keys
    BY <1>5 DEF Rewrap, TypeInv, AtHand
  <2>2. docs' = [docs EXCEPT ![d] = [version |-> task[w].to, data |-> task[w].read[d]]]
        /\ Arrive(d, task[w].to) /\ UNCHANGED jobs
    BY <1>5 DEF Rewrap, Rewrapped
  <2>3. Arrived(d, task[w].to)
    BY <1>0, <2>2 DEF Arrived
  <2> QED BY <2>1, <2>3
<1>6. ASSUME NEW w \in Workers, LoadBatch(w) PROVE Goal
  <2>1. CASE Batch(task[w].from) = {}
    BY <1>6, <2>1, EmptyBatch DEF LoadBatch, Counted
  <2>2. CASE Batch(task[w].from) # {}
    BY <1>6, <2>2 DEF LoadBatch
  <2> QED BY <2>1, <2>2
<1>7. ASSUME NEW w \in Workers, CountRemaining(w) PROVE Goal
  BY <1>7 DEF CountRemaining, NoneRemain, Counted
<1>8. ASSUME NEW w \in Workers, Claim(w) \/ KeyRefused(w) \/ RotationThrows(w) \/ WorkerDies(w) \/ ReportBatch(w)
                               \/ ReportFailure(w) \/ \E d \in Docs : RewrapFails(w, d)
      PROVE  Goal
  BY <1>8 DEF Claim, ClaimNextKeyRotationJob, KeyRefused, RotationThrows, WorkerDies, ReportBatch, ReportFailure,
              RewrapFails
<1>9. CASE Next
  BY <1>2, <1>3, <1>4, <1>5, <1>6, <1>7, <1>8, <1>9 DEF Next, Upload, Proceed
<1> QED BY <1>1, <1>9

LEMMA WorkSteps ==
  ASSUME TypeInv, [Next]_vars
  PROVE  UNCHANGED work \/ \E w \in Workers, d \in Docs : Rewrap(w, d)
<1>1. CASE Admin
  BY <1>1 DEF Admin, CheckActivation, RevokeMasterKey, WriteActivation, EnqueueKeyRotationJob, RotateDirectly
<1>2. ASSUME NEW d \in Docs, Upload(d) PROVE UNCHANGED work
  BY <1>2 DEF Upload, EncryptAndPut, FinalizeUpload, UploadDies
<1>3. ASSUME NEW w \in Workers, Claim(w) \/ LoadBatch(w) \/ KeyRefused(w) \/ RotationThrows(w) \/ WorkerDies(w)
                               \/ CountRemaining(w) \/ ReportBatch(w) \/ ReportFailure(w)
                               \/ \E d \in Docs : RewrapFails(w, d)
      PROVE  UNCHANGED work
  BY <1>3 DEF Claim, ClaimNextKeyRotationJob, LoadBatch, KeyRefused, RotationThrows, WorkerDies, CountRemaining,
              ReportBatch, ReportFailure, RewrapFails
<1>4. CASE UNCHANGED vars
  BY <1>4 DEF vars
<1>5. CASE Next
  BY <1>1, <1>2, <1>3, <1>5 DEF Next, Proceed
<1> QED BY <1>4, <1>5

LEMMA AdminTyped ==
  ASSUME TypeInv, [Next]_vars
  PROVE  /\ dbActive' \in Keys \cup {NoKey} /\ wish' \in Keys \cup {NoKey} /\ revoked' \subseteq Keys
         /\ direct' \in Nat
<1>0. /\ dbActive \in Keys \cup {NoKey} /\ wish \in Keys \cup {NoKey} /\ revoked \subseteq Keys
      /\ direct \in Nat
  BY DEF TypeInv, TypeOK
<1>1. CASE UNCHANGED <<adminVars, direct>>
  BY <1>0, <1>1 DEF adminVars
<1>2. CASE \E k \in Keys : CheckActivation(k) \/ RevokeMasterKey(k)
  BY <1>0, <1>2 DEF CheckActivation, RevokeMasterKey, jobVars
<1>3. CASE WriteActivation
  BY <1>0, <1>3 DEF WriteActivation, jobVars
<1>4. CASE \E w \in Workers, r \in Requests : RotateDirectly(w, r)
  BY <1>0, <1>4 DEF RotateDirectly, adminVars
<1>5. ASSUME NEW w \in Workers, Claim(w) \/ Proceed(w) \/ RotationThrows(w) \/ WorkerDies(w)
      PROVE  UNCHANGED <<adminVars, direct>>
  BY <1>5 DEF Claim, Proceed, ClaimNextKeyRotationJob, LoadBatch, KeyRefused, CountRemaining, RotationThrows,
              WorkerDies, ReportBatch, ReportFailure, Rewrap, RewrapFails, adminVars
<1>6. CASE \E d \in Docs : Upload(d)
  BY <1>1, <1>6 DEF Upload, EncryptAndPut, FinalizeUpload, UploadDies, adminVars, jobVars
<1>7. CASE \E j \in Jobs, r \in Requests : EnqueueKeyRotationJob(j, r)
  BY <1>1, <1>7 DEF EnqueueKeyRotationJob, adminVars
<1>8. CASE Next
  BY <1>1, <1>2, <1>3, <1>4, <1>5, <1>6, <1>7, <1>8 DEF Next, Admin
<1> QED BY <1>0, <1>8 DEF vars

LEMMA FaultsTyped ==
  ASSUME TypeInv, [Next]_vars
  PROVE  faults' \in Nat /\ excused' \subseteq Workers \cup Docs
<1> DEFINE Goal == faults' \in Nat /\ excused' \subseteq Workers \cup Docs
<1>0. faults \in Nat /\ excused \subseteq Workers \cup Docs
  BY DEF TypeInv, TypeOK
<1>1. CASE UNCHANGED <<faults, excused>>
  BY <1>0, <1>1
<1>2. ASSUME NEW k \in Keys, RevokeMasterKey(k) PROVE Goal
  BY <1>0, <1>2 DEF RevokeMasterKey
<1>3. ASSUME NEW d \in Docs, Upload(d) PROVE Goal
  BY <1>0, <1>3 DEF Upload, EncryptAndPut, FinalizeUpload, UploadDies, Fault
<1>4. ASSUME NEW w \in Workers, LoadBatch(w) PROVE Goal
  BY <1>0, <1>4 DEF LoadBatch, Fault, Return
<1>5. ASSUME NEW w \in Workers, KeyRefused(w) \/ CountRemaining(w) \/ RotationThrows(w) \/ WorkerDies(w) PROVE Goal
  BY <1>0, <1>5 DEF KeyRefused, CountRemaining, RotationThrows, WorkerDies, Fault, Return
<1>6. ASSUME NEW w \in Workers, NEW d \in Docs, RewrapFails(w, d) PROVE Goal
  BY <1>0, <1>6 DEF RewrapFails, Fault
<1>7. ASSUME NEW w \in Workers, Claim(w) \/ ReportBatch(w) \/ ReportFailure(w) \/ \E d \in Docs : Rewrap(w, d)
      PROVE  UNCHANGED <<faults, excused>>
  BY <1>7 DEF Claim, ClaimNextKeyRotationJob, ReportBatch, ReportFailure, Rewrap
<1>8. CASE \/ \E k \in Keys : CheckActivation(k)
           \/ WriteActivation
           \/ \E j \in Jobs, r \in Requests : EnqueueKeyRotationJob(j, r)
           \/ \E w \in Workers, r \in Requests : RotateDirectly(w, r)
  BY <1>1, <1>8 DEF CheckActivation, WriteActivation, EnqueueKeyRotationJob, RotateDirectly
<1>9. CASE Next
  BY <1>1, <1>2, <1>3, <1>4, <1>5, <1>6, <1>7, <1>8, <1>9 DEF Next, Admin, Proceed
<1> QED BY <1>1, <1>9 DEF vars

LEMMA HistoriesTyped ==
  ASSUME TypeInv, [Next]_vars
  PROVE  missed' \in [Jobs -> SUBSET Docs] /\ work' \in [Jobs -> Nat]
<1>0. missed \in [Jobs -> SUBSET Docs] /\ work \in [Jobs -> Nat]
  BY DEF TypeInv, TypeOK
<1>1. missed' \in [Jobs -> SUBSET Docs]
  BY <1>0, MissedSteps DEF Arrived, Arrive, Counted, CountedZero
<1>2. work' \in [Jobs -> Nat]
  BY <1>0, WorkSteps DEF Rewrap
<1> QED BY <1>1, <1>2

LEMMA NextTypeInv ==
  ASSUME TypeInv, [Next]_vars
  PROVE  TypeInv'
<1>1. ActiveKey \in Keys /\ \A d \in Docs : busy[d] => ukey[d] \in Keys
  BY KeyAssumption DEF TypeInv, TypeOK, AtHand, ActiveKey
<1>2. \A d \in Docs : busy'[d] => ukey'[d] \in Keys
  BY <1>1, UploadsTyped DEF UploadStep
<1>3. ASSUME NEW j \in Jobs PROVE jobs'[j].status # "none" => jobs'[j].from \in Keys /\ jobs'[j].to \in Keys
  <2>1. Worked(j) => jobs[j].status # "none"
    BY DEF Worked, TypeInv, AtHand
  <2> QED BY <2>1, JobsTyped DEF JobStep, Enqueued, Worked, SameKeys, TypeInv, AtHand
<1>4. ASSUME NEW j \in Jobs, jobs[j].status # "none"
      PROVE  jobs'[j].status # "none" /\ jobs'[j].from = jobs[j].from
  BY <1>4, JobsTyped DEF JobStep, Enqueued, Worked, SameKeys
<1>5. ASSUME NEW w \in Workers, NEW j \in Jobs, pc'[w] # "idle", task'[w].job = j
      PROVE  jobs'[j].status # "none" /\ jobs'[j].from = task'[w].from
  <2>1. CASE pc'[w] = pc[w] /\ task'[w] = task[w]
    BY <1>4, <1>5, <2>1 DEF TypeInv, AtHand
  <2>2. CASE Ends(w) \/ Directs(w)
    BY <1>5, <2>2, KeyAssumption DEF Ends, Directs, Goes
  <2>3. CASE Claims(w, j)
    BY <1>4, <1>5, <2>3 DEF Claims
  <2>4. CASE Loads(w) \/ Reports(w) \/ Refuses(w) \/ \E d \in Docs : Rewrites(w, d, 0) \/ Rewrites(w, d, 1)
    <3>1. pc[w] # "idle" /\ task'[w].job = task[w].job /\ task'[w].from = task[w].from
      BY <2>4 DEF Loads, Reports, Refuses, Rewrites, Keeps, Same
    <3> QED BY <1>4, <1>5, <3>1 DEF TypeInv, AtHand
  <2>5. CASE \E i \in Jobs : Claims(w, i)
    BY <1>5, <2>3, <2>5 DEF Claims
  <2>6. CASE \E v \in Workers \ {w} : Goes(v, pc'[v])
    BY <2>1, <2>6 DEF Goes
  <2>7. ASSUME NEW v \in Workers \ {w},
               \/ Ends(v) \/ Directs(v) \/ Loads(v) \/ Reports(v) \/ Refuses(v)
               \/ \E i \in Jobs : Claims(v, i)
               \/ \E d \in Docs : Rewrites(v, d, 0) \/ Rewrites(v, d, 1)
        PROVE  Goes(v, pc'[v])
    BY <2>7 DEF Ends, Directs, Loads, Reports, Refuses, Claims, Rewrites, Goes
  <2>8. CASE UNCHANGED <<pc, task>>
    BY <2>1, <2>8
  <2> QED BY <2>2, <2>4, <2>5, <2>6, <2>7, <2>8, OneMoves
<1>6. AtHand'
  BY <1>2, <1>3, <1>5, WorkersTyped DEF AtHand
<1> QED BY <1>6, WorkersTyped, JobsTyped, DocsTyped, UploadsTyped, HistoriesTyped, AdminTyped, FaultsTyped
    DEF TypeInv, TypeOK

LEMMA TypeInvAlways == Spec => []TypeInv
<1>1. TypeInv /\ [Next]_vars => TypeInv'
  BY NextTypeInv
<1> QED BY <1>1, InitTypeInv, PTL DEF Spec

\* The rows, the queue, the workers' locals and the histories keep their types, whatever
\* is rotated at once; a busy worker has both keys at hand, and one that reports, its job.
THEOREM TypeCorrect == Spec => []TypeOK
<1>1. TypeInv => TypeOK
  BY DEF TypeInv
<1> QED BY <1>1, TypeInvAlways, PTL

-----------------------------------------------------------------------------
(* What a step does to the task of one worker.                             *)

Stays(w) == pc'[w] = pc[w] /\ task'[w] = task[w]

LEMMA EachMoves ==
  ASSUME TypeInv, [Next]_vars, NEW w \in Workers
  PROVE  \/ Stays(w) \/ Ends(w) \/ Directs(w) \/ Loads(w) \/ Reports(w) \/ Refuses(w)
         \/ \E j \in Jobs : Claims(w, j)
         \/ \E d \in Docs : Rewrites(w, d, 0) \/ (Rewrap(w, d) /\ Rewrites(w, d, 1))
<1>1. ASSUME NEW v \in Workers \ {w}, Goes(v, pc'[v]) PROVE Stays(w)
  BY <1>1 DEF Goes, Stays
<1>2. ASSUME NEW v \in Workers \ {w},
             \/ Ends(v) \/ Directs(v) \/ Loads(v) \/ Reports(v) \/ Refuses(v)
             \/ \E j \in Jobs : Claims(v, j)
             \/ \E d \in Docs : Rewrites(v, d, 0) \/ Rewrites(v, d, 1)
      PROVE  Goes(v, pc'[v])
  BY <1>2 DEF Ends, Directs, Loads, Reports, Refuses, Claims, Rewrites, Goes
<1>3. CASE UNCHANGED <<pc, task>>
  BY <1>3 DEF Stays
<1> QED BY <1>1, <1>2, <1>3, OneMoves

-----------------------------------------------------------------------------
(* A job's count is at most the rewraps done for it: so is what each       *)
(* worker will write, the count it read and its own rewraps.               *)

CountInv ==
  /\ \A j \in Jobs : jobs[j].rotated <= work[j]
  /\ \A w \in Workers, j \in Jobs : pc[w] # "idle" /\ task[w].job = j => task[w].base + task[w].own <= work[j]

LEMMA NextCountInv ==
  ASSUME TypeInv, CountInv, [Next]_vars
  PROVE  CountInv'
<1>0. /\ work \in [Jobs -> Nat] /\ \A j \in Jobs : jobs[j].rotated \in Nat
      /\ \A w \in Workers : task[w].base \in Nat /\ task[w].own \in Nat
  BY TaskFields, JobFields DEF TypeInv, TypeOK
<1>1. ASSUME NEW j \in Jobs PROVE work'[j] \in Nat /\ work[j] <= work'[j]
  BY <1>0, WorkSteps DEF Rewrap
<1>2. ASSUME NEW j \in Jobs PROVE jobs'[j].rotated <= work'[j]
  <2>1. CASE jobs'[j] = jobs[j] \/ (Worked(j) /\ jobs'[j].rotated = jobs[j].rotated)
    BY <1>0, <1>1, <2>1 DEF CountInv
  <2>2. CASE Enqueued(j)
    BY <1>1, <2>2 DEF Enqueued
  <2>3. ASSUME NEW w \in Workers, pc[w] = "report", task[w].job = j, jobs'[j].rotated = task[w].base + task[w].own
        PROVE  jobs'[j].rotated <= work'[j]
    BY <1>0, <1>1, <2>3 DEF CountInv
  <2> QED BY <2>1, <2>2, <2>3, JobsTyped DEF JobStep, Worked
<1>3. ASSUME NEW w \in Workers, NEW j \in Jobs, pc'[w] # "idle", task'[w].job = j
      PROVE  task'[w].base + task'[w].own <= work'[j]
  <2>1. CASE Stays(w)
    BY <1>0, <1>1, <1>3, <2>1 DEF Stays, CountInv
  <2>2. CASE Ends(w) \/ Directs(w)
    BY <1>3, <2>2, KeyAssumption DEF Ends, Directs, Goes
  <2>3. CASE Claims(w, j)
    BY <1>0, <1>1, <2>3 DEF Claims, CountInv
  <2>4. CASE \E i \in Jobs : Claims(w, i)
    BY <1>3, <2>3, <2>4 DEF Claims
  <2>5. CASE Loads(w) \/ Reports(w) \/ Refuses(w) \/ \E d \in Docs : Rewrites(w, d, 0)
    <3>1. pc[w] # "idle" /\ task[w].job = j /\ task'[w].base = task[w].base /\ task'[w].own = task[w].own
      BY <1>0, <1>3, <2>5 DEF Loads, Reports, Refuses, Rewrites, Keeps, Same
    <3> QED BY <1>0, <1>1, <3>1 DEF CountInv
  <2>6. ASSUME NEW d \in Docs, Rewrap(w, d), Rewrites(w, d, 1) PROVE task'[w].base + task'[w].own <= work'[j]
    <3>1. pc[w] # "idle" /\ task[w].job = j /\ task'[w].base = task[w].base /\ task'[w].own = task[w].own + 1
      BY <1>3, <2>6 DEF Rewrites, Same
    <3>2. work'[j] = work[j] + 1
      BY <2>6, <3>1 DEF Rewrap
    <3>3. task[w].base + task[w].own <= work[j]
      BY <3>1 DEF CountInv
    <3> QED BY <1>0, <3>1, <3>2, <3>3
  <2> QED BY <2>1, <2>2, <2>4, <2>5, <2>6, EachMoves
<1> QED BY <1>2, <1>3 DEF CountInv

\* No rotation is counted twice, whichever of the invocations on a job reports last,
\* fails, or dies and has its job taken up again.
THEOREM CountsAlwaysWithinWork == Spec => []CountsNeverExceedWork
<1>1. Init => CountInv
  BY DEF Init, CountInv
<1>2. TypeInv /\ CountInv /\ [Next]_vars => CountInv'
  BY NextCountInv
<1>3. CountInv => CountsNeverExceedWork
  BY DEF CountInv, CountsNeverExceedWork
<1> QED BY <1>1, <1>2, <1>3, TypeInvAlways, PTL DEF Spec

-----------------------------------------------------------------------------
(* What a count of zero shows stays shown: what comes under the key later  *)
(* is in missed. A worker that reports the end of a job has such a count.  *)

SweptInv ==
  /\ CompletedJobsSwept
  /\ \A w \in Workers, j \in Jobs :
       pc[w] = "report" /\ task[w].done /\ task[w].job = j => Under(jobs[j].from) \subseteq missed[j]

LEMMA SweptStays ==
  ASSUME TypeInv, [Next]_vars, NEW j \in Jobs, NEW k \in Keys, jobs[j].from = k, Under(k) \subseteq missed[j]
  PROVE  Under(k)' \subseteq missed'[j]
<1>1. CASE UNCHANGED <<docs, missed>>
  BY <1>1 DEF Under
<1>2. ASSUME NEW d \in Docs, NEW l \in Keys, Arrived(d, l) PROVE Under(k)' \subseteq missed'[j]
  <2>1. missed'[j] = IF k = l THEN missed[j] \cup {d} ELSE missed[j]
    BY <1>2 DEF Arrived, Arrive
  <2>2. docs'[d].version = l /\ \A e \in Docs \ {d} : docs'[e] = docs[e]
    BY <1>2 DEF Arrived
  <2> QED BY <2>1, <2>2 DEF Under
<1>3. ASSUME NEW w \in Workers, Counted(w) PROVE Under(k)' \subseteq missed'[j]
  <2>1. Under(k)' = Under(k)
    BY <1>3 DEF Counted, Under
  <2>2. CASE task[w].job = j
    BY <1>3, <2>1, <2>2 DEF Counted, TypeInv, AtHand
  <2>3. CASE task[w].job # j
    BY <1>3, <2>1, <2>3 DEF Counted, CountedZero
  <2> QED BY <2>2, <2>3
<1> QED BY <1>1, <1>2, <1>3, MissedSteps

LEMMA NextSweptInv ==
  ASSUME TypeInv, SweptInv, [Next]_vars
  PROVE  SweptInv'
<1>1. ASSUME NEW j \in Jobs, jobs[j].status # "none", Under(jobs[j].from) \subseteq missed[j]
      PROVE  Under(jobs[j].from)' \subseteq missed'[j]
  <2>1. PICK k \in Keys : k = jobs[j].from
    BY <1>1 DEF TypeInv, AtHand
  <2>2. Under(k)' \subseteq missed'[j]
    BY <1>1, <2>1, SweptStays
  <2>3. jobs'[j].from = k
    BY <1>1, <2>1, JobsTyped DEF JobStep, Enqueued, Worked, SameKeys
  <2> QED BY <2>2, <2>3 DEF Under
<1>2. ASSUME NEW j \in Jobs, jobs'[j].status = "completed" PROVE Under(jobs[j].from)' \subseteq missed'[j]
  <2>1. CASE jobs'[j] = jobs[j]
    BY <1>1, <1>2, <2>1 DEF SweptInv, CompletedJobsSwept
  <2>2. CASE Enqueued(j)
    BY <1>2, <2>2 DEF Enqueued
  <2>3. CASE Worked(j)
    <3>1. PICK w \in Workers : pc[w] = "report" /\ task[w].job = j /\ task[w].done
      BY <1>2, <2>3 DEF Worked
    <3>2. jobs[j].status # "none" /\ Under(jobs[j].from) \subseteq missed[j]
      BY <3>1 DEF SweptInv, TypeInv, AtHand
    <3> QED BY <1>1, <3>2
  <2> QED BY <2>1, <2>2, <2>3, JobsTyped DEF JobStep
<1>3. ASSUME NEW w \in Workers, NEW j \in Jobs, pc'[w] = "report", task'[w].done, task'[w].job = j
      PROVE  Under(jobs[j].from)' \subseteq missed'[j]
  <2>1. CASE Stays(w)
    <3>1. jobs[j].status # "none" /\ Under(jobs[j].from) \subseteq missed[j]
      BY <1>3, <2>1 DEF Stays, SweptInv, TypeInv, AtHand
    <3> QED BY <1>1, <3>1
  <2>2. CASE Reports(w)
    <3>1. task[w].job = j /\ pc[w] # "idle"
      BY <1>3, <2>2 DEF Reports, Keeps, Same
    <3>2. jobs[j].status # "none" /\ jobs[j].from = task[w].from
      BY <3>1 DEF TypeInv, AtHand
    <3>3. jobs'[j].from = task[w].from
      BY <3>2, JobsTyped DEF JobStep, Enqueued, Worked, SameKeys
    <3>4. Under(task[w].from) = {} /\ UNCHANGED docs
      BY <1>3, <2>2 DEF Reports
    <3> QED BY <3>3, <3>4 DEF Under
  <2>3. CASE \/ Ends(w) \/ Directs(w) \/ Loads(w) \/ Refuses(w) \/ \E i \in Jobs : Claims(w, i)
             \/ \E d \in Docs : Rewrites(w, d, 0) \/ Rewrites(w, d, 1)
    BY <1>3, <2>3 DEF Ends, Directs, Loads, Refuses, Claims, Rewrites, Goes
  <2> QED BY <2>1, <2>2, <2>3, EachMoves
<1> QED BY <1>2, <1>3 DEF SweptInv, CompletedJobsSwept

\* A job is 'completed' only after its old key had no document left, and what is under
\* that key now came there since: whichever invocation wrote the status.
THEOREM CompletedAlwaysSwept == Spec => []CompletedJobsSwept
<1>1. Init => SweptInv
  BY DEF Init, SweptInv, CompletedJobsSwept
<1>2. TypeInv /\ SweptInv /\ [Next]_vars => SweptInv'
  BY NextSweptInv
<1>3. SweptInv => CompletedJobsSwept
  BY DEF SweptInv
<1> QED BY <1>1, <1>2, <1>3, TypeInvAlways, PTL DEF Spec

\* Both parts of what the page of jobs shows are true of every reachable state.
THEOREM JobsAlwaysReportTruly == Spec => []JobsReportTruly
<1>1. CompletedJobsSwept /\ CountsNeverExceedWork => JobsReportTruly
  BY DEF JobsReportTruly
<1> QED BY <1>1, CompletedAlwaysSwept, CountsAlwaysWithinWork, PTL

-----------------------------------------------------------------------------
(* Data keys. A document whose only upload completed has no upload under   *)
(* way, so every row and every copy of its key that a worker read is the   *)
(* key of the object; one that is in a batch has completed once.           *)

KeyInv ==
  \A d \in Docs :
    /\ object[d] = tries[d]
    /\ busy[d] => tries[d] >= 1
    /\ docs[d].version # NoKey => tries[d] >= 1
    /\ docs[d].version # NoKey /\ tries[d] <= 1 => ~busy[d] /\ docs[d].data = object[d]
    /\ \A w \in Workers :
         pc[w] = "rewrap" /\ d \in task[w].batch =>
           /\ docs[d].version # NoKey
           /\ tries[d] <= 1 => task[w].read[d] = object[d]

LEMMA NextKeyInv ==
  ASSUME TypeInv, KeyInv, [Next]_vars
  PROVE  KeyInv'
<1> SUFFICES ASSUME NEW d \in Docs
             PROVE  /\ object'[d] = tries'[d]
                    /\ busy'[d] => tries'[d] >= 1
                    /\ docs'[d].version # NoKey => tries'[d] >= 1
                    /\ docs'[d].version # NoKey /\ tries'[d] <= 1 => ~busy'[d] /\ docs'[d].data = object'[d]
                    /\ \A w \in Workers :
                         pc'[w] = "rewrap" /\ d \in task'[w].batch =>
                           /\ docs'[d].version # NoKey
                           /\ tries'[d] <= 1 => task'[w].read[d] = object'[d]
  BY DEF KeyInv
<1>0. /\ tries[d] \in Nat /\ object[d] \in Nat /\ busy[d] \in BOOLEAN /\ busy'[d] \in BOOLEAN
      /\ UploadStep(d) /\ DocStep(d) /\ NoKey \notin Keys
  BY UploadsTyped, DocsTyped, KeyAssumption DEF TypeInv, TypeOK
<1>1. /\ object[d] = tries[d]
      /\ busy[d] => tries[d] >= 1
      /\ docs[d].version # NoKey => tries[d] >= 1
      /\ docs[d].version # NoKey /\ tries[d] <= 1 => ~busy[d] /\ docs[d].data = object[d]
  BY DEF KeyInv
<1>2. ASSUME NEW w \in Workers, pc[w] = "rewrap", d \in task[w].batch
      PROVE  docs[d].version # NoKey /\ (tries[d] <= 1 => task[w].read[d] = object[d])
  BY <1>2 DEF KeyInv
<1>3. \/ tries'[d] = tries[d] /\ object'[d] = object[d] /\ (busy'[d] => busy[d])
      \/ tries'[d] = tries[d] + 1 /\ object'[d] = tries'[d] /\ EncryptAndPut(d)
  BY <1>0 DEF UploadStep
<1>4. object'[d] = tries'[d] /\ tries'[d] \in Nat /\ (busy'[d] => tries'[d] >= 1)
  BY <1>0, <1>1, <1>3
<1>5. \/ docs'[d] = docs[d] /\ ((busy[d] /\ ~busy'[d]) \/ busy'[d] = busy[d] \/ tries'[d] = tries[d] + 1)
      \/ docs'[d].version \in Keys /\ docs'[d].data = tries[d] /\ tries[d] >= 1 /\ ~busy'[d] /\ busy[d]
      \/ \E w \in Workers : /\ docs'[d].version \in Keys /\ docs'[d].data = task[w].read[d]
                            /\ docs[d].version # NoKey /\ (tries[d] <= 1 => task[w].read[d] = object[d])
  <2>1. CASE docs'[d] = docs[d]
    BY <1>0, <2>1 DEF UploadStep
  <2>2. CASE Finalized(d)
    BY <1>1, <2>2 DEF Finalized, TypeInv, AtHand
  <2>3. ASSUME NEW w \in Workers, Rewrote(w, d)
        PROVE  /\ docs'[d].version \in Keys /\ docs'[d].data = task[w].read[d]
               /\ docs[d].version # NoKey /\ (tries[d] <= 1 => task[w].read[d] = object[d])
    BY <1>2, <2>3 DEF Rewrote, TypeInv, AtHand
  <2> QED BY <1>0, <2>1, <2>2, <2>3 DEF DocStep
<1>6. ASSUME tries'[d] = tries[d] + 1 PROVE docs'[d].version # NoKey => tries'[d] > 1
  <2>1. ~busy[d]
    BY <1>0, <1>3, <1>6 DEF EncryptAndPut
  <2> QED BY <1>0, <1>1, <1>5, <1>6, <2>1
<1>7. ASSUME tries'[d] = tries[d], object'[d] = object[d], docs'[d].version # NoKey
      PROVE  tries'[d] >= 1 /\ (tries'[d] <= 1 => ~busy'[d] /\ docs'[d].data = object'[d])
  BY <1>0, <1>1, <1>3, <1>5, <1>7
<1>8. docs[d].version # NoKey => docs'[d].version # NoKey
  BY <1>0, <1>5
<1>9. ASSUME NEW w \in Workers, pc'[w] = "rewrap", d \in task'[w].batch
      PROVE  docs'[d].version # NoKey /\ (tries'[d] <= 1 => task'[w].read[d] = object'[d])
  <2>1. docs[d].version # NoKey /\ (tries[d] <= 1 => task'[w].read[d] = object[d])
    <3>1. CASE Stays(w)
      BY <1>2, <1>9, <3>1 DEF Stays
    <3>2. CASE Loads(w)
      <4>1. docs[d].version = task[w].from /\ task'[w].read[d] = docs[d].data /\ task[w].from \in Keys
        BY <1>9, <3>2 DEF Loads, Under, TypeInv, AtHand
      <4> QED BY <1>0, <1>1, <4>1
    <3>3. ASSUME NEW e \in Docs, Rewrites(w, e, 0) \/ Rewrites(w, e, 1)
          PROVE  docs[d].version # NoKey /\ (tries[d] <= 1 => task'[w].read[d] = object[d])
      <4>1. pc[w] = "rewrap" /\ d \in task[w].batch /\ task'[w].read[d] = task[w].read[d]
        BY <1>9, <3>3 DEF Rewrites
      <4> QED BY <1>2, <4>1
    <3>4. CASE Ends(w) \/ Directs(w) \/ Reports(w) \/ Refuses(w) \/ \E j \in Jobs : Claims(w, j)
      BY <1>9, <3>4 DEF Ends, Directs, Reports, Refuses, Claims, Goes
    <3> QED BY <3>1, <3>2, <3>3, <3>4, EachMoves
  <2> QED BY <1>0, <1>3, <1>6, <1>8, <2>1
<1> QED BY <1>3, <1>4, <1>6, <1>7, <1>9

\* However rotations interleave, repeat or die, a document whose upload completed once
\* keeps the data key its object is encrypted with.
THEOREM DataKeysAlwaysSurvive == Spec => []DataKeysSurvive
<1>1. Init => KeyInv
  BY DEF Init, KeyInv
<1>2. TypeInv /\ KeyInv /\ [Next]_vars => KeyInv'
  BY NextKeyInv
<1>3. KeyInv => DataKeysSurvive
  BY DEF KeyInv, DataKeysSurvive
<1> QED BY <1>1, <1>2, <1>3, TypeInvAlways, PTL DEF Spec

-----------------------------------------------------------------------------
(* Revocation: who still goes on with a revoked key is excused.            *)

RevokeInv ==
  /\ \A w \in Workers, k \in revoked : HoldsKey(w, k) => w \in excused
  /\ \A d \in Docs, k \in revoked : UploadHolds(d, k) => d \in excused

\* What a step other than a revocation does to an operation that holds a key.
WorkerStep(w) ==
  \/ Stays(w) /\ (w \in excused => w \in excused')
  \/ pc'[w] # "rewrap"
  \/ Usable(task'[w].to) \/ w \in excused'
  \/ pc[w] = "rewrap" /\ task'[w].to = task[w].to /\ UNCHANGED excused

HolderStep(d) ==
  \/ busy'[d] = busy[d] /\ ukey'[d] = ukey[d] /\ (d \in excused => d \in excused')
  \/ ~busy'[d]
  \/ Usable(ukey'[d]) \/ d \in excused'

LEMMA HoldingSteps ==
  ASSUME TypeInv, [Next]_vars, ~(\E k \in Keys : RevokeMasterKey(k))
  PROVE  /\ UNCHANGED revoked
         /\ \A w \in Workers : WorkerStep(w)
         /\ \A d \in Docs : HolderStep(d)
<1> DEFINE Goal == /\ UNCHANGED revoked
                   /\ \A w \in Workers : WorkerStep(w)
                   /\ \A d \in Docs : HolderStep(d)
<1>0. /\ Workers \cap Docs = {}
      /\ busy \in [Docs -> BOOLEAN] /\ ukey \in [Docs -> Keys \cup {NoKey}]
      /\ pc \in [Workers -> WorkerPcs] /\ task \in [Workers -> Task]
  BY KeyAssumption DEF TypeInv, TypeOK
<1>1. CASE UNCHANGED <<revoked, excused, pc, task, busy, ukey>>
  BY <1>1 DEF WorkerStep, HolderStep, Stays
<1>2. CASE UNCHANGED vars
  BY <1>1, <1>2 DEF vars
<1>3. ASSUME NEW d \in Docs, Upload(d) PROVE Goal
  <2>1. UNCHANGED <<revoked, pc, task>> /\ excused \ {d} \subseteq excused'
    BY <1>3 DEF Upload, EncryptAndPut, FinalizeUpload, UploadDies, adminVars, jobVars
  <2>2. \A w \in Workers : WorkerStep(w)
    BY <1>0, <2>1 DEF WorkerStep, Stays
  <2>3. \A e \in Docs \ {d} : HolderStep(e)
    BY <1>0, <1>3, <2>1 DEF Upload, EncryptAndPut, FinalizeUpload, UploadDies, HolderStep
  <2>4. HolderStep(d)
    <3>1. CASE EncryptAndPut(d)
      <4>1. PICK k \in {ActiveKey, EnvActive} :
              /\ ukey' = [ukey EXCEPT ![d] = k]
              /\ excused' = IF Usable(k) THEN excused \ {d} ELSE excused \cup {d}
        BY <3>1 DEF EncryptAndPut
      <4>2. Usable(ukey'[d]) \/ d \in excused'
        BY <1>0, <4>1
      <4> QED BY <4>2 DEF HolderStep
    <3>2. CASE FinalizeUpload(d) \/ UploadDies(d)
      BY <1>0, <3>2 DEF FinalizeUpload, UploadDies, HolderStep
    <3> QED BY <1>3, <3>1, <3>2 DEF Upload
  <2> QED BY <2>1, <2>2, <2>3, <2>4
<1>4. ASSUME NEW w \in Workers, UNCHANGED <<revoked, busy, ukey>>, excused \ {w} \subseteq excused',
             Goes(w, pc'[w]), WorkerStep(w)
      PROVE  Goal
  <2>1. \A d \in Docs : HolderStep(d)
    BY <1>0, <1>4 DEF HolderStep
  <2>2. \A v \in Workers \ {w} : WorkerStep(v)
    BY <1>4 DEF Goes, WorkerStep, Stays
  <2> QED BY <1>4, <2>1, <2>2
<1>5. ASSUME NEW w \in Workers,
             \/ Ends(w) \/ Directs(w) \/ Reports(w) \/ Refuses(w) \/ \E j \in Jobs : Claims(w, j)
             \/ Loads(w)
             \/ \E d \in Docs : UNCHANGED excused /\ (Rewrites(w, d, 0) \/ Rewrites(w, d, 1))
      PROVE  Goes(w, pc'[w]) /\ WorkerStep(w)
  <2>1. CASE Ends(w) \/ Directs(w) \/ Reports(w) \/ Refuses(w) \/ \E j \in Jobs : Claims(w, j)
    BY <2>1 DEF Ends, Directs, Reports, Refuses, Claims, Goes, WorkerStep
  <2>2. CASE Loads(w)
    BY <2>2 DEF Loads, Goes, Keeps, Same, WorkerStep
  <2>3. ASSUME NEW d \in Docs, UNCHANGED excused, Rewrites(w, d, 0) \/ Rewrites(w, d, 1)
        PROVE  Goes(w, pc'[w]) /\ WorkerStep(w)
    BY <2>3 DEF Rewrites, Same, WorkerStep
  <2> QED BY <1>5, <2>1, <2>2, <2>3
<1>6. ASSUME NEW w \in Workers, Claim(w) \/ Proceed(w) \/ RotationThrows(w) \/ WorkerDies(w) PROVE Goal
  <2>1. UNCHANGED <<revoked, busy, ukey>>
    BY <1>6 DEF Claim, Proceed, ClaimNextKeyRotationJob, LoadBatch, KeyRefused, CountRemaining, RotationThrows,
                WorkerDies, ReportBatch, ReportFailure, Rewrap, RewrapFails, adminVars, uploadVars
  <2>2. CASE Claim(w) \/ ReportBatch(w) \/ ReportFailure(w)
    <3>1. UNCHANGED excused
      BY <2>2 DEF Claim, ClaimNextKeyRotationJob, ReportBatch, ReportFailure
    <3>2. Goes(w, pc'[w]) /\ WorkerStep(w)
      BY <1>5, <2>2, WorkerSteps DEF Claim
    <3> QED BY <1>4, <2>1, <3>1, <3>2
  <2>3. CASE \E d \in Docs : Rewrap(w, d) \/ RewrapFails(w, d)
    <3>1. UNCHANGED excused
      BY <2>3 DEF Rewrap, RewrapFails
    <3>2. Goes(w, pc'[w]) /\ WorkerStep(w)
      BY <1>5, <2>3, <3>1, WorkerSteps
    <3> QED BY <1>4, <2>1, <3>1, <3>2
  <2>4. CASE KeyRefused(w) \/ CountRemaining(w) \/ RotationThrows(w) \/ WorkerDies(w) \/ LoadBatch(w)
    <3>1. excused \ {w} \subseteq excused'
      <4>1. CASE LoadBatch(w)
        BY <4>1 DEF LoadBatch, Return
      <4>2. CASE KeyRefused(w) \/ CountRemaining(w) \/ RotationThrows(w) \/ WorkerDies(w)
        BY <4>2 DEF KeyRefused, CountRemaining, RotationThrows, WorkerDies, Return
      <4> QED BY <2>4, <4>1, <4>2
    <3>2. Goes(w, pc'[w]) /\ WorkerStep(w)
      BY <1>5, <2>4, WorkerSteps
    <3> QED BY <1>4, <2>1, <3>1, <3>2
  <2> QED BY <1>6, <2>2, <2>3, <2>4 DEF Proceed
<1>7. CASE (\E k \in Keys : CheckActivation(k)) \/ WriteActivation
           \/ \E j \in Jobs, r \in Requests : EnqueueKeyRotationJob(j, r)
  BY <1>1, <1>7 DEF CheckActivation, WriteActivation, EnqueueKeyRotationJob, uploadVars, jobVars, adminVars
<1>8. ASSUME NEW w \in Workers, NEW r \in Requests, RotateDirectly(w, r) PROVE Goal
  <2>1. UNCHANGED <<revoked, busy, ukey, excused>>
    BY <1>8 DEF RotateDirectly, adminVars, uploadVars
  <2>2. Goes(w, pc'[w]) /\ WorkerStep(w)
    BY <1>5, <1>8, WorkerSteps
  <2> QED BY <1>4, <2>1, <2>2
<1>9. CASE Next
  BY <1>3, <1>6, <1>7, <1>8, <1>9 DEF Next, Admin
<1> QED BY <1>2, <1>9

LEMMA NextRevokeInv ==
  ASSUME TypeInv, RevokeInv, [Next]_vars
  PROVE  RevokeInv'
<1>1. ASSUME NEW k \in Keys, RevokeMasterKey(k) PROVE RevokeInv'
  BY <1>1 DEF RevokeMasterKey, RevokeInv, HoldsKey, UploadHolds, uploadVars, jobVars
<1>2. CASE ~(\E k \in Keys : RevokeMasterKey(k))
  <2>1. ASSUME NEW w \in Workers, NEW k \in revoked, pc'[w] = "rewrap", task'[w].to = k PROVE w \in excused'
    <3>1. WorkerStep(w)
      BY <1>2, HoldingSteps
    <3>2. pc[w] = "rewrap" /\ task[w].to = k => w \in excused
      BY DEF RevokeInv, HoldsKey
    <3> QED BY <2>1, <3>1, <3>2 DEF WorkerStep, Stays, Usable
  <2>2. ASSUME NEW d \in Docs, NEW k \in revoked, busy'[d], ukey'[d] = k PROVE d \in excused'
    <3>1. HolderStep(d)
      BY <1>2, HoldingSteps
    <3>2. busy[d] /\ ukey[d] = k => d \in excused
      BY DEF RevokeInv, UploadHolds
    <3> QED BY <2>2, <3>1, <3>2 DEF HolderStep, Usable
  <2> QED BY <1>2, <2>1, <2>2, HoldingSteps DEF RevokeInv, HoldsKey, UploadHolds
<1> QED BY <1>1, <1>2

\* After a key is revoked a document comes under it only by an upload or a rotation that
\* had passed its check before the revocation, or whose check failed open.
THEOREM RevokedAlwaysTakeOnlyLateDocs == Spec => RevokedKeysTakeOnlyLateDocs
<1> DEFINE Late(k) == \A d \in Under(k)' \ Under(k) :
                        (d \in excused /\ UploadHolds(d, k)) \/ \E w \in excused : w \in Workers /\ HoldsKey(w, k)
<1>1. Init => RevokeInv
  BY DEF Init, RevokeInv
<1>2. TypeInv /\ RevokeInv /\ [Next]_vars => RevokeInv'
  BY NextRevokeInv
<1>3. TypeInv /\ RevokeInv /\ [Next]_vars => \A k \in revoked : Late(k)
  <2> SUFFICES ASSUME TypeInv, RevokeInv, [Next]_vars, NEW k \in revoked, NEW d \in Under(k)' \ Under(k)
               PROVE  (d \in excused /\ UploadHolds(d, k)) \/ \E w \in excused : w \in Workers /\ HoldsKey(w, k)
    OBVIOUS
  <2>1. d \in Docs /\ docs'[d].version = k /\ docs'[d] # docs[d]
    BY DEF Under
  <2>2. CASE Finalized(d)
    BY <2>1, <2>2 DEF Finalized, RevokeInv, UploadHolds
  <2>3. ASSUME NEW w \in Workers, Rewrote(w, d) PROVE w \in excused /\ HoldsKey(w, k)
    BY <2>1, <2>3 DEF Rewrote, RevokeInv, HoldsKey
  <2> QED BY <2>1, <2>2, <2>3, DocsTyped DEF DocStep
<1>4. TypeInv /\ RevokeInv /\ [Next]_vars => [\A k \in revoked : Late(k)]_vars
  BY <1>3
<1> QED BY <1>1, <1>2, <1>4, TypeInvAlways, PTL DEF Spec, RevokedKeysTakeOnlyLateDocs
=============================================================================
