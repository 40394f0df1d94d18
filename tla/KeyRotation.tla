---------------------------- MODULE KeyRotation ----------------------------
(***************************************************************************)
(* Master keys and the rotation of document keys: revocation, the switch   *)
(* of the active key, uploads that wrap a fresh data key under it, and     *)
(* rotateDocKeys, which rewraps the data keys of one master key under      *)
(* another, called by the jobs of key_rotation_jobs (a cron every half     *)
(* hour and the nightly one) and directly by an admin or the nightly run.  *)
(*                                                                         *)
(* A data key is a number: the completion of the document that made it.    *)
(* sql`...` is one HTTP request and one transaction, so the row lock of    *)
(* claimNextKeyRotationJob is gone before the job is worked on.            *)
(***************************************************************************)
EXTENDS Naturals, FiniteSets

CONSTANTS
  Docs,          \* documents, numbered in the order of created_at
  Keys,          \* ids of DOC_MASTER_KEYS
  EnvActive,     \* the key DOC_MASTER_KEYS marks active
  Workers,       \* requests and cron invocations that may rotate
  Jobs,          \* rows of key_rotation_jobs, numbered in the order of created_at
  Requests,      \* the <<from, to>> pairs admins ask for
  Broken,        \* documents whose wrapped key does not open
  BatchSize,     \* max_batch
  NoKey,         \* no key
  NoJob,         \* a rotation asked for directly
  MaxCompletes,  \* bound: completed uploads of one document
  MaxDirect,     \* bound: rotations asked for directly
  MaxFaults      \* bound: invocations that die and statements that throw

ASSUME KeyAssumption ==
  /\ Docs \subseteq Nat /\ Jobs \subseteq Nat /\ IsFiniteSet(Docs) /\ IsFiniteSet(Jobs)
  /\ EnvActive \in Keys /\ NoKey \notin Keys /\ NoJob \notin Jobs
  /\ Requests \subseteq {r \in Keys \X Keys : r[1] # r[2]}
  /\ Broken \subseteq Docs
  /\ Workers \cap Docs = {}
  /\ BatchSize \in Nat \ {0}
  /\ MaxCompletes \in Nat /\ MaxDirect \in Nat /\ MaxFaults \in Nat

VARIABLES
  dbActive,  \* master_key_settings.active_key_id, NoKey when there is no row
  revoked,   \* master_key_revocations
  wish,      \* a key setActiveMasterKey has checked and not yet written, or NoKey
  docs,      \* [Docs -> DocRow]: enc_key_version and the wrapped data key
  object,    \* [Docs -> Nat]: the data key the object in R2 is encrypted with
  busy,      \* [Docs -> BOOLEAN]: a completion has stored the object, not yet the row
  ukey,      \* [Docs -> Keys \cup {NoKey}]: the master key it read
  tries,     \* [Docs -> Nat]: completions so far
  jobs,      \* [Jobs -> JobRow]
  pc,        \* [Workers -> WorkerPcs]
  task,      \* [Workers -> Task]: the locals of processKeyRotationJobs and rotateDocKeys
  direct,    \* rotations asked for directly so far
  faults,    \* faults so far
  missed,    \* [Jobs -> SUBSET Docs]: documents that came under the job's old key
             \*   since a count of zero (history)
  work,      \* [Jobs -> Nat]: rewraps done for the job (history)
  excused    \* workers and documents whose operation checked its key before
             \*   the revocation, or could not check it (history)

adminVars  == <<dbActive, revoked, wish>>
uploadVars == <<object, busy, ukey, tries>>
jobVars    == <<jobs, pc, task, direct>>
vars == <<dbActive, revoked, wish, docs, object, busy, ukey, tries, jobs, pc, task,
          direct, faults, missed, work, excused>>

-----------------------------------------------------------------------------
DocRow == [version : Keys \cup {NoKey}, data : Nat]
Statuses == {"none", "queued", "running", "completed", "failed"}
JobRow == [status : Statuses, from : Keys \cup {NoKey}, to : Keys \cup {NoKey}, rotated : Nat]
WorkerPcs == {"idle", "begin", "rewrap", "count", "report", "fail"}

\* job, fromKey, toKey, the rows not yet rewrapped with the data keys read in
\* them, the count read with the job, the rewraps of this call, remaining <= 0.
Task == [job : Jobs \cup {NoJob}, from : Keys \cup {NoKey}, to : Keys \cup {NoKey},
         batch : SUBSET Docs, read : [Docs -> Nat], base : Nat, own : Nat, done : BOOLEAN]

NoTask == [job |-> NoJob, from |-> NoKey, to |-> NoKey, batch |-> {},
           read |-> [d \in Docs |-> 0], base |-> 0, own |-> 0, done |-> FALSE]

Init ==
  /\ dbActive = NoKey /\ revoked = {} /\ wish = NoKey
  /\ docs = [d \in Docs |-> [version |-> NoKey, data |-> 0]]
  /\ object = [d \in Docs |-> 0]
  /\ busy = [d \in Docs |-> FALSE]
  /\ ukey = [d \in Docs |-> NoKey]
  /\ tries = [d \in Docs |-> 0]
  /\ jobs = [j \in Jobs |-> [status |-> "none", from |-> NoKey, to |-> NoKey, rotated |-> 0]]
  /\ pc = [w \in Workers |-> "idle"]
  /\ task = [w \in Workers |-> NoTask]
  /\ direct = 0 /\ faults = 0
  /\ missed = [j \in Jobs |-> {}]
  /\ work = [j \in Jobs |-> 0]
  /\ excused = {}

\* getEffectiveActiveMasterKeyId: the database's choice before the environment's, which
\* stands in as well when the statement throws.
ActiveKey == IF dbActive = NoKey THEN EnvActive ELSE dbActive

Usable(k) == k \in Keys \ revoked

\* countDocsEncryptedWithKey counts these.
Under(k) == {d \in Docs : docs[d].version = k}

Fault == faults < MaxFaults /\ faults' = faults + 1

-----------------------------------------------------------------------------
(* Administration of the master keys. *)

\* setActiveMasterKey up to its upsert: the two reads change nothing.
CheckActivation(k) ==
  /\ wish = NoKey /\ k # ActiveKey /\ Usable(k)
  /\ wish' = k
  /\ UNCHANGED <<dbActive, revoked, docs, uploadVars, jobVars, faults, missed, work, excused>>

WriteActivation ==
  /\ wish # NoKey
  /\ dbActive' = wish /\ wish' = NoKey
  /\ UNCHANGED <<revoked, docs, uploadVars, jobVars, faults, missed, work, excused>>

\* Operations that read the key while it was not revoked, and go on with it.
HoldsKey(w, k) == pc[w] = "rewrap" /\ task[w].to = k
UploadHolds(d, k) == busy[d] /\ ukey[d] = k

RevokeMasterKey(k) ==
  /\ k \notin revoked
  /\ revoked' = revoked \cup {k}
  /\ excused' = excused \cup {w \in Workers : HoldsKey(w, k)} \cup {d \in Docs : UploadHolds(d, k)}
  /\ UNCHANGED <<dbActive, wish, docs, uploadVars, jobVars, faults, missed, work>>

-----------------------------------------------------------------------------
(* The completion of an upload reads the master key, stores the object     *)
(* encrypted with a fresh data key, and writes the row. Nobody here reads  *)
(* an object, so the first two are one step. When the read of the choice   *)
(* throws, the environment's key is taken; when that of the revocations    *)
(* does, none.                                                             *)

EncryptAndPut(d) ==
  /\ ~busy[d] /\ tries[d] < MaxCompletes
  /\ \E k \in {ActiveKey, EnvActive} :
       /\ (k = ActiveKey /\ Usable(k) /\ UNCHANGED faults) \/ Fault
       /\ ukey' = [ukey EXCEPT ![d] = k]
       /\ excused' = IF Usable(k) THEN excused \ {d} ELSE excused \cup {d}
  /\ busy' = [busy EXCEPT ![d] = TRUE]
  /\ tries' = [tries EXCEPT ![d] = @ + 1]
  /\ object' = [object EXCEPT ![d] = tries[d] + 1]
  /\ UNCHANGED <<adminVars, docs, jobVars, missed, work>>

\* Documents that come under key k are news to the jobs that empty k.
Arrive(d, k) == missed' = [j \in Jobs |-> IF jobs[j].from = k THEN missed[j] \cup {d} ELSE missed[j]]

FinalizeUpload(d) ==
  /\ busy[d]
  /\ docs' = [docs EXCEPT ![d] = [version |-> ukey[d], data |-> tries[d]]]
  /\ busy' = [busy EXCEPT ![d] = FALSE] /\ ukey' = [ukey EXCEPT ![d] = NoKey]
  /\ Arrive(d, ukey[d])
  /\ excused' = excused \ {d}
  /\ UNCHANGED <<adminVars, object, tries, jobVars, faults, work>>

UploadDies(d) ==
  /\ busy[d] /\ Fault
  /\ busy' = [busy EXCEPT ![d] = FALSE] /\ ukey' = [ukey EXCEPT ![d] = NoKey]
  /\ excused' = excused \ {d}
  /\ UNCHANGED <<adminVars, docs, object, tries, jobVars, missed, work>>

-----------------------------------------------------------------------------
(* Rotation jobs. *)

\* Mutant of EnqueueKeyRotationJob: the queue says 'pending'.
EnqueuePending(j, r) ==
  /\ jobs[j].status = "none"
  /\ jobs' = [jobs EXCEPT ![j] = [status |-> "pending", from |-> r[1], to |-> r[2], rotated |-> 0]]
  /\ UNCHANGED <<adminVars, docs, uploadVars, pc, task, direct, faults, missed, work, excused>>

EnqueueKeyRotationJob(j, r) ==
  /\ jobs[j].status = "none"
  /\ \A i \in Jobs : i < j => jobs[i].status # "none"
  /\ jobs' = [jobs EXCEPT ![j] = [status |-> "queued", from |-> r[1], to |-> r[2], rotated |-> 0]]
  /\ UNCHANGED <<adminVars, docs, uploadVars, pc, task, direct, faults, missed, work, excused>>

\* Mutant of Live: a job that is being worked on is left alone.
OnlyQueued == {j \in Jobs : jobs[j].status = "queued"}

Live == {j \in Jobs : jobs[j].status \in {"queued", "running"}}

\* order by running before queued, then created_at
Before(i, j) ==
  \/ jobs[i].status = "running" /\ jobs[j].status = "queued"
  \/ jobs[i].status = jobs[j].status /\ i <= j

\* The first live job, but for those another claim holds locked at this moment.
ClaimNextKeyRotationJob(w, j) ==
  /\ pc[w] = "idle" /\ j \in Live
  /\ \A i \in Live : Before(j, i) \/ \E v \in Workers : pc[v] = "begin" /\ task[v].job = i
  /\ jobs' = [jobs EXCEPT ![j].status = "running"]
  /\ pc' = [pc EXCEPT ![w] = "begin"]
  /\ task' = [task EXCEPT ![w] = [NoTask EXCEPT !.job = j, !.from = jobs[j].from,
                                                !.to = jobs[j].to, !.base = jobs[j].rotated]]
  /\ UNCHANGED <<adminVars, docs, uploadVars, direct, faults, missed, work, excused>>

\* The rotate route with async_job false, and runAutomatedKeyRotation: the key to
\* wrap with is the one asked for or the active one.
RotateDirectly(w, r) ==
  /\ pc[w] = "idle" /\ direct < MaxDirect
  /\ direct' = direct + 1
  /\ pc' = [pc EXCEPT ![w] = "begin"]
  /\ task' = [task EXCEPT ![w] = [NoTask EXCEPT !.from = r[1], !.to = r[2]]]
  /\ UNCHANGED <<adminVars, docs, uploadVars, jobs, faults, missed, work, excused>>

\* A call without a job returns to its caller, which keeps nothing of it.
Return(w, next, t) ==
  /\ pc' = [pc EXCEPT ![w] = IF task[w].job = NoJob THEN "idle" ELSE next]
  /\ task' = [task EXCEPT ![w] = IF task[w].job = NoJob THEN NoTask ELSE t]
  /\ excused' = excused \ {w}

\* A count of zero, of the documents or of the batch.
CountedZero(w) == missed' = [j \in Jobs |-> IF j = task[w].job THEN {} ELSE missed[j]]

\* The first BatchSize documents by created_at desc.
Batch(k) == {d \in Under(k) : Cardinality({e \in Under(k) : e > d}) < BatchSize}

ReadKeys(b) == [d \in Docs |-> IF d \in b THEN docs[d].data ELSE 0]

\* Mutant of KeysUsable: the key to wrap with is not checked.
OldKeyUsable(w) == Usable(task[w].from)

KeysUsable(w) == Usable(task[w].from) /\ Usable(task[w].to)

\* rotateDocKeys up to its loop. Both keys are checked, then the batch is read;
\* a revocation between the two is one that comes right after.
LoadBatch(w) ==
  /\ pc[w] = "begin"
  /\ (KeysUsable(w) /\ UNCHANGED faults) \/ (~KeysUsable(w) /\ Fault)
  /\ LET b == Batch(task[w].from) IN
       \/ b = {} /\ CountedZero(w) /\ Return(w, "report", [task[w] EXCEPT !.done = TRUE])
       \/ /\ b # {} /\ UNCHANGED missed
          /\ pc' = [pc EXCEPT ![w] = "rewrap"]
          /\ task' = [task EXCEPT ![w] = [@ EXCEPT !.batch = b, !.read = ReadKeys(b)]]
          /\ excused' = IF KeysUsable(w) THEN excused ELSE excused \cup {w}
  /\ UNCHANGED <<adminVars, docs, uploadVars, jobs, direct, work>>

KeyRefused(w) ==
  /\ pc[w] = "begin"
  /\ ~KeysUsable(w)
  /\ Return(w, "fail", task[w])
  /\ UNCHANGED <<adminVars, docs, uploadVars, jobs, direct, faults, missed, work>>

Newest(w, d) == d \in task[w].batch /\ \A e \in task[w].batch : e <= d

RowDone(w, d, n) ==
  [task[w] EXCEPT !.batch = @ \ {d}, !.read = [@ EXCEPT ![d] = 0], !.own = @ + n]

NextRow(w, d) == pc' = [pc EXCEPT ![w] = IF task[w].batch = {d} THEN "count" ELSE "rewrap"]

\* Mutant of Rewrapped: a fresh data key, as for an upload.
WrappedAnew(w, d) == [version |-> task[w].to, data |-> 0]

Rewrapped(w, d) == [version |-> task[w].to, data |-> task[w].read[d]]

\* unwrapDataKey, wrapDataKey and the UPDATE, whose only condition is the id.
Rewrap(w, d) ==
  /\ pc[w] = "rewrap" /\ Newest(w, d) /\ d \notin Broken
  /\ docs' = [docs EXCEPT ![d] = Rewrapped(w, d)]
  /\ NextRow(w, d)
  /\ task' = [task EXCEPT ![w] = RowDone(w, d, 1)]
  /\ Arrive(d, task[w].to)
  /\ work' = [j \in Jobs |-> IF j = task[w].job THEN work[j] + 1 ELSE work[j]]
  /\ UNCHANGED <<adminVars, uploadVars, jobs, direct, faults, excused>>

\* The catch of the loop: the key does not open or the UPDATE throws.
RewrapFails(w, d) ==
  /\ pc[w] = "rewrap" /\ Newest(w, d)
  /\ (d \in Broken /\ UNCHANGED faults) \/ (d \notin Broken /\ Fault)
  /\ NextRow(w, d)
  /\ task' = [task EXCEPT ![w] = RowDone(w, d, 0)]
  /\ UNCHANGED <<adminVars, docs, uploadVars, jobs, direct, missed, work, excused>>

\* Mutant of NoneRemain: the batch is taken for all documents.
BatchIsEmpty(w) == task[w].batch = {}

\* countDocsEncryptedWithKey, for remaining.
NoneRemain(w) == Under(task[w].from) = {}

CountRemaining(w) ==
  /\ pc[w] = "count"
  /\ IF NoneRemain(w) THEN CountedZero(w) ELSE UNCHANGED missed
  /\ Return(w, "report", [task[w] EXCEPT !.done = NoneRemain(w)])
  /\ UNCHANGED <<adminVars, docs, uploadVars, jobs, direct, faults, work>>

\* The totals and the status, written over whatever the row holds now.
ReportBatch(w) ==
  /\ pc[w] = "report"
  /\ jobs' = [jobs EXCEPT ![task[w].job].rotated = task[w].base + task[w].own,
                          ![task[w].job].status = IF task[w].done THEN "completed" ELSE "running"]
  /\ pc' = [pc EXCEPT ![w] = "idle"]
  /\ task' = [task EXCEPT ![w] = NoTask]
  /\ UNCHANGED <<adminVars, docs, uploadVars, direct, faults, missed, work, excused>>

\* A statement of rotateDocKeys, or the one that reports, throws.
RotationThrows(w) ==
  /\ pc[w] \in {"begin", "count", "report"} /\ Fault
  /\ Return(w, "fail", task[w])
  /\ UNCHANGED <<adminVars, docs, uploadVars, jobs, direct, missed, work>>

ReportFailure(w) ==
  /\ pc[w] = "fail"
  /\ jobs' = [jobs EXCEPT ![task[w].job].status = "failed"]
  /\ pc' = [pc EXCEPT ![w] = "idle"]
  /\ task' = [task EXCEPT ![w] = NoTask]
  /\ UNCHANGED <<adminVars, docs, uploadVars, direct, faults, missed, work, excused>>

\* The invocation is killed, or its last statement throws out of the loop.
WorkerDies(w) ==
  /\ pc[w] # "idle" /\ Fault
  /\ pc' = [pc EXCEPT ![w] = "idle"]
  /\ task' = [task EXCEPT ![w] = NoTask]
  /\ excused' = excused \ {w}
  /\ UNCHANGED <<adminVars, docs, uploadVars, jobs, direct, missed, work>>

-----------------------------------------------------------------------------
Admin == \/ \E k \in Keys : CheckActivation(k) \/ RevokeMasterKey(k)
         \/ WriteActivation
         \/ \E j \in Jobs, r \in Requests : EnqueueKeyRotationJob(j, r)
         \/ \E w \in Workers, r \in Requests : RotateDirectly(w, r)

Upload(d) == EncryptAndPut(d) \/ FinalizeUpload(d) \/ UploadDies(d)

Claim(w) == \E j \in Jobs : ClaimNextKeyRotationJob(w, j)

Proceed(w) == \/ LoadBatch(w) \/ KeyRefused(w)
              \/ \E d \in Docs : Rewrap(w, d) \/ RewrapFails(w, d)
              \/ CountRemaining(w) \/ ReportBatch(w) \/ ReportFailure(w)

Next == \/ Admin
        \/ \E d \in Docs : Upload(d)
        \/ \E w \in Workers : Claim(w) \/ Proceed(w) \/ RotationThrows(w) \/ WorkerDies(w)

Spec == Init /\ [][Next]_vars

\* The worker of cloudflare/cron-scan calls the route every half hour, and an
\* invocation that is not killed runs to its end.
Fairness == \A w \in Workers : WF_vars(Claim(w)) /\ WF_vars(Proceed(w))

FairSpec == Spec /\ Fairness

-----------------------------------------------------------------------------
(* Properties                                                              *)

TypeOK ==
  /\ dbActive \in Keys \cup {NoKey} /\ wish \in Keys \cup {NoKey} /\ revoked \subseteq Keys
  /\ docs \in [Docs -> DocRow] /\ object \in [Docs -> Nat]
  /\ busy \in [Docs -> BOOLEAN]
  /\ ukey \in [Docs -> Keys \cup {NoKey}] /\ tries \in [Docs -> Nat]
  /\ jobs \in [Jobs -> JobRow] /\ pc \in [Workers -> WorkerPcs] /\ task \in [Workers -> Task]
  /\ direct \in Nat /\ faults \in Nat
  /\ missed \in [Jobs -> SUBSET Docs] /\ work \in [Jobs -> Nat]
  /\ excused \subseteq Workers \cup Docs

\* Rotation never loses a data key: a document whose upload completed once keeps the
\* key its object is encrypted with, though two invocations may write back a key they
\* read long ago, over each other and without a condition. (A second completion
\* beside a rotation may lose it: the UPDATE has no condition on the version.)
DataKeysSurvive ==
  \A d \in Docs : docs[d].version # NoKey /\ tries[d] <= 1 => docs[d].data = object[d]

\* A job is 'completed' only after a count found no document under its old key. What
\* is there now came later: by an upload that had read the old key, or by a rotation
\* back. It holds whoever of two invocations wrote the status last.
CompletedJobsSwept ==
  \A j \in Jobs : jobs[j].status = "completed" => Under(jobs[j].from) \subseteq missed[j]

\* Once a key is revoked, only uploads and rotations that had checked it before (or
\* whose check failed open) put another document under it.
RevokedKeysTakeOnlyLateDocs ==
  [][\A k \in revoked : \A d \in Under(k)' \ Under(k) :
       (d \in excused /\ UploadHolds(d, k)) \/ \E w \in excused : w \in Workers /\ HoldsKey(w, k)]_vars

\* The count a job shows is at most the rewraps done for it: invocations that work
\* on it at once may lose each other's rows, and never count one twice.
CountsNeverExceedWork == \A j \in Jobs : jobs[j].rotated <= work[j]

\* What the page of jobs shows the owner is true, both the status and the count.
JobsReportTruly == CompletedJobsSwept /\ CountsNeverExceedWork

\* A job that is queued ends, though invocations die and others reopen it by writing
\* the status they believe in, unless there is a document whose key does not open.
JobsFinish ==
  \A j \in Jobs : jobs[j].status \in {"queued", "running"}
                   ~> jobs[j].status \in {"completed", "failed"}
=============================================================================
