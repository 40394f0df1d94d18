------------------------ MODULE ScanPipeline_proofs ------------------------
(***************************************************************************)
(* Proofs about ScanPipeline, for every set of documents and runs, every   *)
(* attempt limit, batch size and bound.                                    *)
(***************************************************************************)
EXTENDS ScanPipeline, TLAPS

-----------------------------------------------------------------------------
(* What the operators on rows return                                       *)

\* The trigger and the statements that write docs keep a row a row.
LEMMA AutoQuarantineType ==
  ASSUME NEW row \in DocRow
  PROVE  AutoQuarantine(row) \in DocRow
BY DEF AutoQuarantine, DocRow, ScanStatuses, Moderations

LEMMA FinalizedType ==
  ASSUME NEW row \in DocRow, NEW risk \in RiskLevels
  PROVE  Finalized(row, risk) \in DocRow
<1> DEFINE new == [row EXCEPT
             !.status = "ready", !.scan_status = "pending", !.risk_level = risk,
             !.moderation_status = IF risk = "high" THEN "quarantined"
                                   ELSE IF @ = "disabled" THEN @ ELSE "active"]
<1>1. new \in DocRow
  BY DEF DocRow, DocStatuses, ScanStatuses, Moderations
<1> QED BY <1>1, AutoQuarantineType DEF Finalized

LEMMA MarkedType ==
  ASSUME NEW row \in DocRow, NEW status \in ScanStatuses
  PROVE  Marked(row, status) \in DocRow
BY DEF Marked, AutoQuarantine, DocRow, ScanStatuses, Moderations

LEMMA JudgedType ==
  ASSUME NEW row \in DocRow, NEW v
  PROVE  Judged(row, v) \in DocRow
BY DEF Judged, AutoQuarantine, DocRow, ScanStatuses, Moderations, RiskLevels

\* The statements that write malware_scan_jobs keep a job a job.
LEMMA JobOperatorsType ==
  ASSUME NEW job \in JobRow
  PROVE  /\ Deleted(job) \in JobRow
         /\ Reenqueued(job) \in JobRow
         /\ Healed(job) \in JobRow
         /\ Retried(job) \in JobRow
         /\ Claimed(job) \in JobRow
<1> USE DEF FreshJob, JobRow, JobStatuses
<1>1. Deleted(job) \in JobRow
  BY DEF Deleted
<1>2. Reenqueued(job) \in JobRow
  BY DEF Reenqueued
<1>3. Healed(job) \in JobRow
  BY DEF Healed
<1>4. Retried(job) \in JobRow
  BY DEF Retried
<1>5. Claimed(job) \in JobRow
  <2>1. job.attempts + 1 \in Nat /\ job.started_at \in {"null", "recent", "stale"}
    OBVIOUS
  <2>2. \A n \in Nat, t \in {"null", "recent", "stale"} :
          [job EXCEPT !.status = "running", !.attempts = n, !.started_at = t] \in JobRow
    OBVIOUS
  <2>3. (IF job.started_at = "null" THEN "recent" ELSE job.started_at) \in {"null", "recent", "stale"}
    BY <2>1
  <2> QED BY <2>1, <2>2, <2>3 DEF Claimed
<1> QED BY <1>1, <1>2, <1>3, <1>4, <1>5

LEMMA FailedJobType ==
  ASSUME NEW job \in JobRow, NEW s \in JobStatuses
  PROVE  [job EXCEPT !.status = s, !.retry_due = FALSE] \in JobRow
BY DEF JobRow

-----------------------------------------------------------------------------
(* Type correctness: a run in the middle of a job holds a claim, which the *)
(* version it read and the verdict it writes come from.                    *)

ProcessingRunsHoldAClaim ==
  \A w \in Runs :
    /\ pc[w] \in Processing => cur[w] \in Claims
    /\ pc[w] \in {"verdict_docs", "verdict_job"} => verdict[w] \in Verdicts

TypeInv == TypeOK /\ ProcessingRunsHoldAClaim

LEMMA InitTypeInv == Init => TypeInv
BY LimitsAssumption
   DEF Init, TypeInv, TypeOK, ProcessingRunsHoldAClaim, Processing, DocRow, DocStatuses, ScanStatuses,
       Moderations, DmcaStatuses, RiskLevels, JobRow, JobStatuses, FreshJob, FinishPcs, RunPcs

\* The steps of the completion route, of time and of people.
LEMMA DocStepsTypeInv ==
  ASSUME TypeInv, NEW d \in Docs,
         \/ CompleteUpload(d) \/ EnqueueStep(d) \/ EnqueueFails(d)
         \/ StartedAtGrowsStale(d) \/ RetryFallsDue(d)
         \/ DisableDoc(d) \/ SubmitTakedownNotice(d) \/ TakedownDoc(d) \/ RestoreDoc(d)
         \/ PurgeJobRow(d) \/ PurgeDocRow(d)
  PROVE  TypeInv'
<1> USE DEF TypeInv, TypeOK, ProcessingRunsHoldAClaim
<1>t. docs[d] \in DocRow /\ jobs[d] \in JobRow
  OBVIOUS
<1>1. CASE CompleteUpload(d)
  BY <1>1, <1>t, FinalizedType DEF CompleteUpload, runVars, FinishPcs
<1>2. CASE EnqueueInsertsJob(d)
  BY <1>2, <1>t, JobOperatorsType DEF EnqueueInsertsJob, runVars, FinishPcs
<1>3. CASE EnqueueMarksPending(d)
  BY <1>3, <1>t, MarkedType DEF EnqueueMarksPending, runVars, FinishPcs, ScanStatuses
<1>4. CASE EnqueueFails(d)
  BY <1>4 DEF EnqueueFails, runVars, FinishPcs
<1>5. CASE StartedAtGrowsStale(d)
  BY <1>5, <1>t DEF StartedAtGrowsStale, runVars, JobRow
<1>6. CASE RetryFallsDue(d)
  BY <1>6, <1>t DEF RetryFallsDue, runVars, JobRow
<1>7. CASE DisableDoc(d)
  BY <1>7, <1>t DEF DisableDoc, Moderate, runVars, DocRow, Moderations
<1>8. CASE TakedownDoc(d)
  BY <1>8, <1>t DEF TakedownDoc, Moderate, runVars, DocRow, Moderations, DmcaStatuses
<1>12. CASE SubmitTakedownNotice(d)
  BY <1>12, <1>t DEF SubmitTakedownNotice, Moderate, runVars, DocRow, Moderations, DmcaStatuses
<1>9. CASE RestoreDoc(d)
  BY <1>9, <1>t DEF RestoreDoc, Moderate, runVars, DocRow, Moderations, DmcaStatuses
<1>10. CASE PurgeJobRow(d)
  BY <1>10, <1>t, JobOperatorsType DEF PurgeJobRow, runVars
<1>11. CASE PurgeDocRow(d)
  BY <1>11, <1>t, JobOperatorsType DEF PurgeDocRow, runVars, DocRow, DocStatuses
<1> QED
  BY <1>1, <1>2, <1>3, <1>4, <1>5, <1>6, <1>7, <1>8, <1>9, <1>10, <1>11, <1>12 DEF EnqueueStep

\* The steps of a cron run.
LEMMA RunStepsTypeInv ==
  ASSUME TypeInv, NEW w \in Runs, RunStep(w) \/ ApplyVerdictThrows(w) \/ RunAborts(w)
  PROVE  TypeInv'
<1> USE DEF TypeInv, TypeOK, ProcessingRunsHoldAClaim
<1>1. CASE HealStaleRunning(w)
  BY <1>1, JobOperatorsType DEF HealStaleRunning, RunPcs, Processing
<1>2. CASE HealErrors(w)
  BY <1>2, JobOperatorsType DEF HealErrors, RunPcs, Processing
<1>3. CASE ClaimQueuedJobs(w)
  <2>1. PICK picked \in SUBSET Docs :
          /\ jobs' = [d \in Docs |-> IF d \in picked THEN Claimed(jobs[d]) ELSE jobs[d]]
          /\ todo' = [todo EXCEPT ![w] =
                        {[doc |-> d, id |-> jobs[d].id, attempt |-> jobs[d].attempts + 1,
                          version |-> 0] : d \in picked}]
          /\ pc' = [pc EXCEPT ![w] = IF picked = {} THEN "idle" ELSE "next"]
    BY <1>3 DEF ClaimQueuedJobs
  <2>2. jobs' \in [Docs -> JobRow]
    BY <2>1, JobOperatorsType
  <2>3. {[doc |-> d, id |-> jobs[d].id, attempt |-> jobs[d].attempts + 1,
          version |-> 0] : d \in picked} \subseteq Claims
    BY DEF Claims, JobRow
  <2>4. todo' \in [Runs -> SUBSET Claims]
    BY <2>1, <2>3
  <2> QED BY <1>3, <2>1, <2>2, <2>4 DEF ClaimQueuedJobs, RunPcs, Processing
<1>4. CASE ScanR2Object(w)
  <2>1. PICK c \in todo[w] :
          /\ cur' = [cur EXCEPT ![w] = [c EXCEPT !.version = version[c.doc]]]
          /\ todo' = [todo EXCEPT ![w] = @ \ {c}]
    BY <1>4 DEF ScanR2Object
  <2>2. c \in Claims /\ [c EXCEPT !.version = version[c.doc]] \in Claims
    BY DEF Claims
  <2>3. cur' \in [Runs -> Claims \cup {NoClaim}] /\ cur'[w] \in Claims
    BY <2>1, <2>2
  <2>4. todo' \in [Runs -> SUBSET Claims]
    BY <2>1
  <2> QED BY <1>4, <2>1, <2>3, <2>4 DEF ScanR2Object, RunPcs, Processing, Verdicts
<1>5. CASE ApplyVerdictToDoc(w)
  <2>1. cur[w] \in Claims /\ cur[w].doc \in Docs /\ cur[w].version \in Nat
    BY <1>5 DEF ApplyVerdictToDoc, Processing, Claims
  <2>2. docs' \in [Docs -> DocRow] /\ cleared' \in [Docs -> Nat]
    BY <1>5, <2>1, JudgedType DEF ApplyVerdictToDoc
  <2> QED BY <1>5, <2>1, <2>2 DEF ApplyVerdictToDoc, RunPcs, Processing
<1>6. CASE ApplyVerdictToJob(w)
  <2>1. cur[w].doc \in Docs /\ verdict[w] \in JobStatuses
    BY <1>6 DEF ApplyVerdictToJob, Processing, Claims, Verdicts, JobStatuses
  <2>2. jobs' \in [Docs -> JobRow]
    BY ZenonT(40), <1>6, <2>1 DEF ApplyVerdictToJob, JobRow
  <2> QED BY <1>6, <2>2 DEF ApplyVerdictToJob, EndJob, RunPcs, Processing
<1>7. CASE MarkScanFailure(w)
  <2>1. cur[w] \in Claims /\ cur[w].doc \in Docs
    BY <1>7 DEF MarkScanFailure, Processing, Claims
  <2>2. PICK s \in JobStatuses :
          jobs' = IF ClaimsRow(w, jobs[cur[w].doc])
                    THEN [jobs EXCEPT ![cur[w].doc] = [@ EXCEPT !.status = s, !.retry_due = FALSE]]
                    ELSE jobs
    BY <1>7 DEF MarkScanFailure, JobStatuses
  <2>3. jobs' \in [Docs -> JobRow]
    <3>1. [jobs[cur[w].doc] EXCEPT !.status = s, !.retry_due = FALSE] \in JobRow
      BY <2>1, FailedJobType
    <3> QED BY <2>1, <2>2, <3>1
  <2> QED BY <1>7, <2>1, <2>3 DEF MarkScanFailure, EndJob, RunPcs, Processing
<1>8. CASE MarkDocFailed(w)
  <2>1. cur[w].doc \in Docs /\ docs[cur[w].doc] \in DocRow
    BY <1>8 DEF MarkDocFailed, Processing, Claims
  <2>2. docs' \in [Docs -> DocRow]
    BY <1>8, <2>1, MarkedType DEF MarkDocFailed, ScanStatuses
  <2> QED BY <1>8, <2>2 DEF MarkDocFailed, EndJob, RunPcs, Processing
<1>9. CASE ApplyVerdictThrows(w)
  BY <1>9 DEF ApplyVerdictThrows, RunPcs, Processing
<1>10. CASE RunAborts(w)
  BY <1>10 DEF RunAborts, RunPcs, Processing
<1> QED
  BY <1>1, <1>2, <1>3, <1>4, <1>5, <1>6, <1>7, <1>8, <1>9, <1>10 DEF RunStep

LEMMA NextTypeInv == TypeInv /\ [Next]_vars => TypeInv'
<1> SUFFICES ASSUME TypeInv, [Next]_vars PROVE TypeInv'
  OBVIOUS
<1>1. CASE UNCHANGED vars
  BY <1>1 DEF vars, runVars, TypeInv, TypeOK, ProcessingRunsHoldAClaim
<1>2. CASE Next
  BY <1>2, DocStepsTypeInv, RunStepsTypeInv DEF Next, PipelineNext, PeopleNext
<1> QED BY <1>1, <1>2

\* Every row the pipeline writes is one the tables' check constraints allow.
THEOREM TypeCorrect == Spec => []TypeOK
<1>1. Spec => []TypeInv
  BY InitTypeInv, NextTypeInv, PTL DEF Spec
<1> QED BY <1>1, PTL DEF TypeInv

LEMMA AlwaysTypeInv == Spec => []TypeInv
BY InitTypeInv, NextTypeInv, PTL DEF Spec

-----------------------------------------------------------------------------
(* What one step can do to a row of either table                           *)

RowChange(d) ==
  \/ docs'[d] = docs[d]
  \/ \E risk \in RiskLevels : docs'[d] = Finalized(docs[d], risk)
  \/ \E status \in {"pending", "error"} : docs'[d] = Marked(docs[d], status)
  \/ \E w \in Runs : /\ ApplyVerdictToDoc(w) /\ cur[w].doc = d /\ RowExists(d)
                     /\ verdict[w] \in Verdicts /\ docs'[d] = Judged(docs[d], verdict[w])
  \/ docs'[d] = [docs[d] EXCEPT !.moderation_status = "disabled"]
  \/ \E dmca \in {"pending", "takedown"} :
       docs'[d] = [docs[d] EXCEPT !.moderation_status = "disabled", !.dmca_status = dmca]
  \/ /\ docs'[d] = [docs[d] EXCEPT !.dmca_status = "restored",
                                   !.moderation_status = IF docs[d].risk_level = "high"
                                                           THEN "quarantined" ELSE "active"]
     /\ UNCHANGED <<pc, finish>>
  \/ docs'[d] = [docs[d] EXCEPT !.status = "purged"]

LEMMA RowChanges ==
  ASSUME TypeInv, [Next]_vars, NEW d \in Docs
  PROVE  RowChange(d)
<1>t. docs \in [Docs -> DocRow]
  BY DEF TypeInv, TypeOK
<1>1. CASE UNCHANGED docs
  BY <1>1 DEF RowChange
<1>2. ASSUME NEW e \in Docs, CompleteUpload(e) PROVE RowChange(d)
  BY <1>2, <1>t DEF CompleteUpload, RowChange
<1>3. ASSUME NEW e \in Docs, EnqueueMarksPending(e) PROVE RowChange(d)
  BY <1>3, <1>t DEF EnqueueMarksPending, RowChange
<1>4. ASSUME NEW e \in Docs, DisableDoc(e) \/ SubmitTakedownNotice(e) \/ TakedownDoc(e) \/ RestoreDoc(e) PROVE RowChange(d)
  BY <1>4, <1>t DEF DisableDoc, SubmitTakedownNotice, TakedownDoc, RestoreDoc, Moderate, RowChange, runVars
<1>5. ASSUME NEW e \in Docs, PurgeDocRow(e) PROVE RowChange(d)
  BY <1>5, <1>t DEF PurgeDocRow, RowChange
<1>6. ASSUME NEW w \in Runs, ApplyVerdictToDoc(w) PROVE RowChange(d)
  <2>1. verdict[w] \in Verdicts
    BY <1>6 DEF TypeInv, ProcessingRunsHoldAClaim, ApplyVerdictToDoc
  <2> QED BY <1>6, <1>t, <2>1 DEF ApplyVerdictToDoc, RowChange
<1>7. ASSUME NEW w \in Runs, MarkDocFailed(w) PROVE RowChange(d)
  BY <1>7, <1>t DEF MarkDocFailed, RowChange
<1>8. UNCHANGED docs \/ \E e \in Docs : \/ CompleteUpload(e) \/ EnqueueMarksPending(e)
                                        \/ DisableDoc(e) \/ SubmitTakedownNotice(e) \/ TakedownDoc(e) \/ RestoreDoc(e)
                                        \/ PurgeDocRow(e)
                     \/ \E w \in Runs : ApplyVerdictToDoc(w) \/ MarkDocFailed(w)
  BY DEF Next, PipelineNext, PeopleNext, EnqueueStep, RunStep, vars, EnqueueInsertsJob, EnqueueFails,
         StartedAtGrowsStale, RetryFallsDue, PurgeJobRow, HealStaleRunning, HealErrors, ClaimQueuedJobs,
         ScanR2Object, ApplyVerdictToJob, MarkScanFailure, ApplyVerdictThrows, RunAborts
<1> QED BY <1>1, <1>2, <1>3, <1>4, <1>5, <1>6, <1>7, <1>8

-----------------------------------------------------------------------------
(* High risk                                                               *)

LEMMA InitHighRisk == Init => HighRiskIsBlocked
BY DEF Init, HighRiskIsBlocked

LEMMA NextHighRisk == TypeInv /\ HighRiskIsBlocked /\ [Next]_vars => HighRiskIsBlocked'
<1> SUFFICES ASSUME TypeInv, HighRiskIsBlocked, [Next]_vars, NEW d \in Docs,
                    docs'[d].risk_level = "high"
             PROVE  docs'[d].moderation_status \in Blocked
  BY DEF HighRiskIsBlocked
<1>1. docs[d] \in DocRow
  BY DEF TypeInv, TypeOK
<1>2. docs[d].risk_level = "high" => docs[d].moderation_status \in Blocked
  BY DEF HighRiskIsBlocked
<1>3. \A risk \in RiskLevels : docs'[d] = Finalized(docs[d], risk) => docs'[d].moderation_status \in Blocked
  BY <1>1 DEF Finalized, AutoQuarantine, DocRow, Blocked
<1>4. \A status : docs'[d] = Marked(docs[d], status) => docs'[d].moderation_status \in Blocked
  BY <1>1 DEF Marked, AutoQuarantine, DocRow, Blocked
<1>5. \A v \in Verdicts : docs'[d] = Judged(docs[d], v) => docs'[d].moderation_status \in Blocked
  BY <1>1 DEF Judged, AutoQuarantine, DocRow, Blocked
<1>6. RowChange(d)
  BY RowChanges
<1> QED BY <1>1, <1>2, <1>3, <1>4, <1>5, <1>6 DEF RowChange, DocRow, Blocked

\* The trigger, restore_doc and the verdict together keep every document
\* whose risk_level is high blocked.
THEOREM HighRiskAlwaysBlocked == Spec => []HighRiskIsBlocked
<1>1. Spec => []TypeInv
  BY AlwaysTypeInv
<1> QED BY <1>1, InitHighRisk, NextHighRisk, PTL DEF Spec

-----------------------------------------------------------------------------
(* Disabled documents                                                      *)

LEMMA StepKeepsDisabled ==
  ASSUME TypeInv, [Next]_vars, NEW d \in Docs,
         docs[d].moderation_status = "disabled", docs'[d].moderation_status = "active"
  PROVE  docs'[d].dmca_status = "restored" /\ UNCHANGED <<pc, finish>>
<1>1. docs[d] \in DocRow
  BY DEF TypeInv, TypeOK
<1>2. \A risk \in RiskLevels : docs'[d] # Finalized(docs[d], risk)
  BY <1>1 DEF Finalized, AutoQuarantine, DocRow
<1>3. \A status : docs'[d] # Marked(docs[d], status)
  BY <1>1 DEF Marked, AutoQuarantine, DocRow
<1>4. \A v \in Verdicts : docs'[d] # Judged(docs[d], v)
  BY <1>1 DEF Judged, AutoQuarantine, DocRow
<1>5. RowChange(d)
  BY RowChanges
<1> QED BY <1>1, <1>2, <1>3, <1>4, <1>5 DEF RowChange, DocRow

\* Neither the scanner nor an upload completion reactivates, in one step, a
\* document that people disabled.
THEOREM DisabledOnlyRestoredByOwner == Spec => DisabledNeedsOwner
<1>1. TypeInv /\ [Next]_vars
        => [\A d \in Docs :
              /\ docs[d].moderation_status = "disabled"
              /\ docs'[d].moderation_status = "active"
              => docs'[d].dmca_status = "restored" /\ UNCHANGED <<pc, finish>>]_vars
  BY StepKeepsDisabled
<1>2. Spec => []TypeInv
  BY AlwaysTypeInv
<1> QED BY <1>1, <1>2, PTL DEF Spec, DisabledNeedsOwner

-----------------------------------------------------------------------------
(* Jobs                                                                    *)

JobChange(d) ==
  \/ jobs'[d] = jobs[d]
  \/ jobs'[d] = Deleted(jobs[d]) /\ (PurgeJobRow(d) \/ PurgeDocRow(d))
  \/ jobs'[d] = Reenqueued(jobs[d]) /\ EnqueueInsertsJob(d)
  \/ jobs'[d] = Healed(jobs[d])
  \/ jobs'[d] = Retried(jobs[d])
  \/ jobs'[d] = Claimed(jobs[d]) /\ jobs[d].status = "queued"
  \/ \E v \in Verdicts : jobs[d].status # "none" /\ jobs'[d] = [jobs[d] EXCEPT !.status = v]
  \/ \E w \in Runs :
       /\ pc[w] = "fail_job" /\ cur[w].doc = d /\ ClaimsRow(w, jobs[d])
       /\ jobs'[d] = [jobs[d] EXCEPT !.status = IF OutOfAttempts(w) THEN "dead_letter" ELSE "error",
                                     !.retry_due = FALSE]
  \/ jobs'[d] = [jobs[d] EXCEPT !.started_at = "stale"] /\ jobs[d].started_at = "recent"
  \/ jobs'[d] = [jobs[d] EXCEPT !.retry_due = TRUE]

LEMMA JobChanges ==
  ASSUME TypeInv, [Next]_vars, NEW d \in Docs
  PROVE  JobChange(d)
<1>t. jobs \in [Docs -> JobRow]
  BY DEF TypeInv, TypeOK
<1>1. CASE UNCHANGED jobs
  BY <1>1 DEF JobChange
<1>2. ASSUME NEW e \in Docs, EnqueueInsertsJob(e) PROVE JobChange(d)
  BY <1>2, <1>t DEF EnqueueInsertsJob, JobChange
<1>3. ASSUME NEW e \in Docs, StartedAtGrowsStale(e) \/ RetryFallsDue(e) PROVE JobChange(d)
  BY <1>3, <1>t DEF StartedAtGrowsStale, RetryFallsDue, JobChange
<1>4. ASSUME NEW e \in Docs, PurgeJobRow(e) \/ PurgeDocRow(e) PROVE JobChange(d)
  BY <1>4, <1>t DEF PurgeJobRow, PurgeDocRow, JobChange
<1>5. ASSUME NEW w \in Runs, HealStaleRunning(w) \/ HealErrors(w) PROVE JobChange(d)
  BY <1>5 DEF HealStaleRunning, HealErrors, JobChange
<1>6. ASSUME NEW w \in Runs, ClaimQueuedJobs(w) PROVE JobChange(d)
  BY <1>6 DEF ClaimQueuedJobs, JobChange
<1>7. ASSUME NEW w \in Runs, ApplyVerdictToJob(w) PROVE JobChange(d)
  <2>1. verdict[w] \in Verdicts
    BY <1>7 DEF TypeInv, ProcessingRunsHoldAClaim, ApplyVerdictToJob
  <2> QED BY <1>7, <1>t, <2>1 DEF ApplyVerdictToJob, ClaimsRow, JobChange
<1>8. ASSUME NEW w \in Runs, MarkScanFailure(w) PROVE JobChange(d)
  BY <1>8, <1>t DEF MarkScanFailure, JobChange, JobRow
<1>9. UNCHANGED jobs \/ \E e \in Docs : \/ EnqueueInsertsJob(e) \/ StartedAtGrowsStale(e)
                                        \/ RetryFallsDue(e) \/ PurgeJobRow(e) \/ PurgeDocRow(e)
                     \/ \E w \in Runs : \/ HealStaleRunning(w) \/ HealErrors(w) \/ ClaimQueuedJobs(w)
                                        \/ ApplyVerdictToJob(w) \/ MarkScanFailure(w)
  BY DEF Next, PipelineNext, PeopleNext, EnqueueStep, RunStep, vars, CompleteUpload, EnqueueMarksPending,
         EnqueueFails, DisableDoc, SubmitTakedownNotice, TakedownDoc, RestoreDoc, Moderate, ScanR2Object, ApplyVerdictToDoc,
         MarkDocFailed, ApplyVerdictThrows, RunAborts
<1> QED BY <1>1, <1>2, <1>3, <1>4, <1>5, <1>6, <1>7, <1>8, <1>9

-----------------------------------------------------------------------------
(* Running jobs are timed                                                  *)

LEMMA NextTimed == TypeInv /\ RunningJobsAreTimed /\ [Next]_vars => RunningJobsAreTimed'
<1> SUFFICES ASSUME TypeInv, RunningJobsAreTimed, [Next]_vars, NEW d \in Docs,
                    jobs'[d].status = "running"
             PROVE  jobs'[d].started_at # "null"
  BY DEF RunningJobsAreTimed
<1>1. jobs[d] \in JobRow /\ (jobs[d].status = "running" => jobs[d].started_at # "null")
  BY DEF TypeInv, TypeOK, RunningJobsAreTimed
<1>2. jobs'[d] # Deleted(jobs[d])
  BY DEF Deleted, FreshJob
<1>3. jobs'[d] = Reenqueued(jobs[d]) => jobs'[d].started_at # "null"
  BY <1>1 DEF Reenqueued, FreshJob, JobRow
<1>4. jobs'[d] = Healed(jobs[d]) => jobs'[d].started_at # "null"
  BY <1>1 DEF Healed, JobRow
<1>5. jobs'[d] = Retried(jobs[d]) => jobs'[d].started_at # "null"
  BY <1>1 DEF Retried, JobRow
<1>6. jobs'[d] = Claimed(jobs[d]) => jobs'[d].started_at # "null"
  BY <1>1 DEF Claimed, JobRow
<1>7. JobChange(d)
  BY JobChanges
<1> QED BY <1>1, <1>2, <1>3, <1>4, <1>5, <1>6, <1>7 DEF JobChange, JobRow, Verdicts

\* The heal step can always tell how long a running job has been running.
THEOREM RunningAlwaysTimed == Spec => []RunningJobsAreTimed
<1>1. Init => RunningJobsAreTimed
  BY DEF Init, RunningJobsAreTimed, FreshJob
<1>2. Spec => []TypeInv
  BY AlwaysTypeInv
<1> QED BY <1>1, <1>2, NextTimed, PTL DEF Spec

-----------------------------------------------------------------------------
(* Claims and dead letters: a claim never counts more attempts than its    *)
(* row, because ids grow and the attempts of one row never shrink.         *)

LEMMA JobsGrow ==
  ASSUME TypeInv, [Next]_vars, NEW d \in Docs
  PROVE  /\ jobs'[d].id >= jobs[d].id
         /\ jobs'[d].id = jobs[d].id /\ jobs'[d].status # "none"
              => jobs[d].status # "none" /\ jobs'[d].attempts >= jobs[d].attempts
<1>1. jobs[d] \in JobRow
  BY DEF TypeInv, TypeOK
<1> DEFINE Grows == /\ jobs'[d].id >= jobs[d].id
                    /\ jobs'[d].id = jobs[d].id /\ jobs'[d].status # "none"
                         => jobs[d].status # "none" /\ jobs'[d].attempts >= jobs[d].attempts
<1>2. jobs'[d] = Deleted(jobs[d]) => Grows
  BY <1>1 DEF Deleted, FreshJob, JobRow
<1>3. jobs'[d] = Reenqueued(jobs[d]) => Grows
  BY <1>1 DEF Reenqueued, FreshJob, JobRow
<1>4. jobs'[d] = Healed(jobs[d]) => Grows
  BY <1>1 DEF Healed, JobRow
<1>5. jobs'[d] = Retried(jobs[d]) => Grows
  BY <1>1 DEF Retried, JobRow
<1>6. jobs'[d] = Claimed(jobs[d]) /\ jobs[d].status = "queued" => Grows
  BY <1>1 DEF Claimed, JobRow
<1>7. JobChange(d)
  BY JobChanges
<1>8. ASSUME NEW w \in Runs, ClaimsRow(w, jobs[d]),
             jobs'[d] = [jobs[d] EXCEPT !.status = IF OutOfAttempts(w) THEN "dead_letter" ELSE "error",
                                        !.retry_due = FALSE]
      PROVE  Grows
  <2>1. PICK s \in {"dead_letter", "error"} :
          jobs'[d] = [jobs[d] EXCEPT !.status = s, !.retry_due = FALSE]
    BY <1>8
  <2> QED BY <1>1, <1>8, <2>1 DEF ClaimsRow, JobRow
<1>9. ASSUME NEW v \in Verdicts, jobs[d].status # "none", jobs'[d] = [jobs[d] EXCEPT !.status = v]
      PROVE  Grows
  BY <1>1, <1>9 DEF JobRow
<1>10. jobs'[d] = jobs[d] \/ jobs'[d] = [jobs[d] EXCEPT !.started_at = "stale"]
         \/ jobs'[d] = [jobs[d] EXCEPT !.retry_due = TRUE] => Grows
  BY <1>1 DEF JobRow
<1> HIDE DEF Grows
<1>11. Grows
  BY <1>2, <1>3, <1>4, <1>5, <1>6, <1>7, <1>8, <1>9, <1>10 DEF JobChange
<1> QED BY <1>11 DEF Grows

\* A held claim was held before, up to the version it reads, or is being taken.
LEMMA ClaimsComeFrom ==
  ASSUME TypeInv, [Next]_vars, NEW w \in Runs, NEW c \in HeldClaims(w)'
  PROVE  \/ \E b \in HeldClaims(w) : b \in Claims /\ c.doc = b.doc /\ c.id = b.id /\ c.attempt = b.attempt
         \/ /\ c.doc \in Docs /\ c.id = jobs[c.doc].id /\ c.attempt = jobs[c.doc].attempts + 1
            /\ jobs[c.doc].status = "queued" /\ jobs'[c.doc] = Claimed(jobs[c.doc])
<1> DEFINE Held == \E b \in HeldClaims(w) : b \in Claims /\ c.doc = b.doc /\ c.id = b.id /\ c.attempt = b.attempt
           Taken == /\ c.doc \in Docs /\ c.id = jobs[c.doc].id /\ c.attempt = jobs[c.doc].attempts + 1
                    /\ jobs[c.doc].status = "queued" /\ jobs'[c.doc] = Claimed(jobs[c.doc])
<1> USE DEF TypeInv, TypeOK, ProcessingRunsHoldAClaim, HeldClaims
<1>1. CASE UNCHANGED <<pc, todo, cur>>
  BY <1>1
<1>2. ASSUME NEW v \in Runs,
             \/ HealStaleRunning(v) \/ HealErrors(v) \/ ApplyVerdictToDoc(v) \/ ApplyVerdictToJob(v)
             \/ MarkScanFailure(v) \/ MarkDocFailed(v) \/ ApplyVerdictThrows(v) \/ RunAborts(v)
      PROVE  Held
  <2>1. todo'[w] \subseteq todo[w]
    BY <1>2 DEF HealStaleRunning, HealErrors, ApplyVerdictToDoc, ApplyVerdictToJob, MarkScanFailure,
                MarkDocFailed, ApplyVerdictThrows, RunAborts
  <2>2. pc'[w] \in Processing => pc[w] \in Processing /\ cur'[w] = cur[w]
    BY <1>2 DEF HealStaleRunning, HealErrors, ApplyVerdictToDoc, ApplyVerdictToJob, MarkScanFailure,
                MarkDocFailed, ApplyVerdictThrows, RunAborts, EndJob, Processing
  <2> QED BY <2>1, <2>2
<1>3. ASSUME NEW v \in Runs, ClaimQueuedJobs(v) PROVE Held \/ Taken
  <2>1. PICK picked \in SUBSET {d \in Docs : jobs[d].status = "queued"} :
          /\ jobs' = [d \in Docs |-> IF d \in picked THEN Claimed(jobs[d]) ELSE jobs[d]]
          /\ todo' = [todo EXCEPT ![v] =
                        {[doc |-> d, id |-> jobs[d].id, attempt |-> jobs[d].attempts + 1,
                          version |-> 0] : d \in picked}]
          /\ pc' = [pc EXCEPT ![v] = IF picked = {} THEN "idle" ELSE "next"]
          /\ cur' = cur /\ pc[v] = "claim"
    BY <1>3 DEF ClaimQueuedJobs
  <2>2. pc'[w] \in Processing => v # w
    BY <2>1 DEF Processing
  <2>3. CASE v = w
    <3>1. PICK d \in picked : c = [doc |-> d, id |-> jobs[d].id, attempt |-> jobs[d].attempts + 1,
                                   version |-> 0]
      BY <2>1, <2>2, <2>3
    <3> QED BY <2>1, <3>1
  <2>4. CASE v # w
    BY <2>1, <2>4
  <2> QED BY <2>3, <2>4
<1>4. ASSUME NEW v \in Runs, ScanR2Object(v) PROVE Held
  <2>1. PICK b \in todo[v] :
          /\ cur' = [cur EXCEPT ![v] = [b EXCEPT !.version = version[b.doc]]]
          /\ todo' = [todo EXCEPT ![v] = @ \ {b}]
    BY <1>4 DEF ScanR2Object
  <2>2. b \in Claims
    BY <2>1
  <2>3. CASE v = w
    <3>1. CASE c \in todo'[w]
      BY <2>1, <2>3, <3>1
    <3>2. CASE c = cur'[w]
      <4>1. c = [b EXCEPT !.version = version[b.doc]]
        BY <2>1, <2>3, <3>2
      <4>2. c.doc = b.doc /\ c.id = b.id /\ c.attempt = b.attempt
        BY <2>2, <4>1 DEF Claims
      <4> QED BY <2>2, <2>3, <4>2
    <3> QED BY <3>1, <3>2
  <2>4. CASE v # w
    <3>1. pc'[w] = pc[w] /\ cur'[w] = cur[w] /\ todo'[w] = todo[w]
      BY <1>4, <2>1, <2>4 DEF ScanR2Object
    <3> QED BY <3>1
  <2> QED BY <2>3, <2>4
<1>5. UNCHANGED <<pc, todo, cur>>
      \/ \E v \in Runs :
           \/ HealStaleRunning(v) \/ HealErrors(v) \/ ApplyVerdictToDoc(v) \/ ApplyVerdictToJob(v)
           \/ MarkScanFailure(v) \/ MarkDocFailed(v) \/ ApplyVerdictThrows(v) \/ RunAborts(v)
           \/ ClaimQueuedJobs(v) \/ ScanR2Object(v)
  BY DEF Next, PipelineNext, PeopleNext, EnqueueStep, RunStep, vars, runVars, CompleteUpload,
         EnqueueInsertsJob, EnqueueMarksPending, EnqueueFails, StartedAtGrowsStale, RetryFallsDue,
         DisableDoc, SubmitTakedownNotice, TakedownDoc, RestoreDoc, Moderate, PurgeJobRow, PurgeDocRow
<1> QED BY <1>1, <1>2, <1>3, <1>4, <1>5

ClaimInv == TypeInv /\ ClaimsTrailTheirJob

LEMMA NextClaims == ClaimInv /\ [Next]_vars => ClaimsTrailTheirJob'
<1> SUFFICES ASSUME ClaimInv, [Next]_vars, NEW w \in Runs, NEW c \in HeldClaims(w)'
             PROVE  /\ c.id <= jobs'[c.doc].id
                    /\ c.id = jobs'[c.doc].id /\ jobs'[c.doc].status # "none"
                         => c.attempt <= jobs'[c.doc].attempts
  BY DEF ClaimsTrailTheirJob
<1>t. TypeInv /\ jobs \in [Docs -> JobRow]
  BY DEF ClaimInv, TypeInv, TypeOK
<1>p. \A d \in Docs : jobs'[d] \in JobRow
  BY <1>t, NextTypeInv DEF TypeInv, TypeOK
<1>1. ASSUME NEW b \in HeldClaims(w), b \in Claims,
             c.doc = b.doc /\ c.id = b.id /\ c.attempt = b.attempt
      PROVE  /\ c.id <= jobs'[c.doc].id
             /\ c.id = jobs'[c.doc].id /\ jobs'[c.doc].status # "none"
                  => c.attempt <= jobs'[c.doc].attempts
  <2>1. /\ b.id <= jobs[b.doc].id
        /\ b.id = jobs[b.doc].id /\ jobs[b.doc].status # "none" => b.attempt <= jobs[b.doc].attempts
    BY DEF ClaimInv, ClaimsTrailTheirJob
  <2>2. b.doc \in Docs /\ b.id \in Nat /\ b.attempt \in Nat
    BY <1>1 DEF Claims
  <2>3. /\ jobs[b.doc].id \in Nat /\ jobs[b.doc].attempts \in Nat
        /\ jobs'[b.doc].id \in Nat /\ jobs'[b.doc].attempts \in Nat
    BY <1>t, <1>p, <2>2 DEF JobRow
  <2>4. /\ jobs'[b.doc].id >= jobs[b.doc].id
        /\ jobs'[b.doc].id = jobs[b.doc].id /\ jobs'[b.doc].status # "none"
             => jobs[b.doc].status # "none" /\ jobs'[b.doc].attempts >= jobs[b.doc].attempts
    BY <1>t, <2>2, JobsGrow
  <2>5. b.id = jobs'[b.doc].id => jobs[b.doc].id = jobs'[b.doc].id
    BY <2>1, <2>2, <2>3, <2>4
  <2> QED BY <1>1, <2>1, <2>2, <2>3, <2>4, <2>5
<1>2. ASSUME c.doc \in Docs, c.id = jobs[c.doc].id, c.attempt = jobs[c.doc].attempts + 1,
             jobs'[c.doc] = Claimed(jobs[c.doc])
      PROVE  c.id <= jobs'[c.doc].id /\ c.attempt <= jobs'[c.doc].attempts
  BY <1>t, <1>2 DEF Claimed, JobRow
<1> QED BY <1>t, <1>1, <1>2, ClaimsComeFrom

\* A run that stalls and wakes up late holds a claim on a row that has counted
\* at least as many attempts, on a later row, or on no row.
THEOREM ClaimsAlwaysTrail == Spec => []ClaimsTrailTheirJob
<1>1. Init => ClaimsTrailTheirJob
  BY DEF Init, ClaimsTrailTheirJob, HeldClaims, Processing
<1>2. Spec => []TypeInv
  BY AlwaysTypeInv
<1> QED BY <1>1, <1>2, NextClaims, PTL DEF Spec, ClaimInv

LEMMA NextDeadLetter ==
  ClaimInv /\ DeadLetterAfterMaxAttempts /\ [Next]_vars => DeadLetterAfterMaxAttempts'
<1> SUFFICES ASSUME ClaimInv, DeadLetterAfterMaxAttempts, [Next]_vars, NEW d \in Docs,
                    jobs'[d].status = "dead_letter"
             PROVE  jobs'[d].attempts >= MaxAttempts
  BY DEF DeadLetterAfterMaxAttempts
<1>1. TypeInv /\ jobs[d] \in JobRow
  BY DEF ClaimInv, TypeInv, TypeOK
<1>2. jobs[d].status = "dead_letter" => jobs[d].attempts >= MaxAttempts
  BY DEF DeadLetterAfterMaxAttempts
<1> DEFINE Counted == jobs'[d].attempts >= MaxAttempts
<1>3. jobs'[d] # Deleted(jobs[d])
  BY DEF Deleted, FreshJob
<1>4. jobs'[d] = Reenqueued(jobs[d]) => Counted
  BY <1>1, <1>2 DEF Reenqueued, FreshJob, JobRow
<1>5. jobs'[d] = Healed(jobs[d]) => Counted
  BY <1>1, <1>2, LimitsAssumption DEF Healed, JobRow
<1>6. jobs'[d] = Retried(jobs[d]) => Counted
  BY <1>1, <1>2 DEF Retried, JobRow
<1>7. jobs'[d] # Claimed(jobs[d])
  BY <1>1 DEF Claimed, JobRow
<1>8. ASSUME NEW v \in Verdicts, jobs'[d] = [jobs[d] EXCEPT !.status = v]
      PROVE  Counted
  BY <1>1, <1>8 DEF JobRow, Verdicts
<1>9. ASSUME NEW w \in Runs, pc[w] = "fail_job", cur[w].doc = d, ClaimsRow(w, jobs[d]),
             jobs'[d] = [jobs[d] EXCEPT !.status = IF OutOfAttempts(w) THEN "dead_letter" ELSE "error",
                                        !.retry_due = FALSE]
      PROVE  Counted
  <2>1. OutOfAttempts(w) /\ jobs'[d].attempts = jobs[d].attempts
    BY <1>1, <1>9 DEF JobRow
  <2>2. cur[w] \in HeldClaims(w) /\ cur[w] \in Claims
    BY <1>1, <1>9 DEF HeldClaims, Processing, TypeInv, ProcessingRunsHoldAClaim
  <2>3. cur[w].attempt <= jobs[d].attempts
    BY <1>9, <2>2 DEF ClaimInv, ClaimsTrailTheirJob, ClaimsRow
  <2>4. cur[w].attempt \in Nat /\ jobs[d].attempts \in Nat
    BY <1>1, <2>2 DEF Claims, JobRow
  <2> QED BY <2>1, <2>3, <2>4, LimitsAssumption DEF OutOfAttempts
<1>10. jobs'[d] = jobs[d] \/ jobs'[d] = [jobs[d] EXCEPT !.started_at = "stale"]
         \/ jobs'[d] = [jobs[d] EXCEPT !.retry_due = TRUE] => Counted
  BY <1>1, <1>2 DEF JobRow
<1>11. JobChange(d)
  BY <1>1, JobChanges
<1> HIDE DEF Counted
<1>12. Counted
  BY <1>3, <1>4, <1>5, <1>6, <1>7, <1>8, <1>9, <1>10, <1>11 DEF JobChange
<1> QED BY <1>12 DEF Counted

\* markScanFailure decides by the attempt of its claim, and never gives a job
\* up whose row has attempts left.
THEOREM DeadLettersAreEarned == Spec => []DeadLetterAfterMaxAttempts
<1>1. Init => DeadLetterAfterMaxAttempts
  BY DEF Init, DeadLetterAfterMaxAttempts, FreshJob
<1>2. Spec => []TypeInv
  BY AlwaysTypeInv
<1> QED BY <1>1, <1>2, ClaimsAlwaysTrail, NextDeadLetter, PTL DEF Spec, ClaimInv

-----------------------------------------------------------------------------
(* Attempts: every enqueue of a document allows one claim, and the retries  *)
(* allow MaxAttempts - 1 more.                                             *)

\* Enqueues that have reached the job table, counting those that failed.
Enqueues(d) == IF finish[d] = "insert_job" THEN version[d] - 1 ELSE version[d]

AttemptsInv ==
  \A d \in Docs :
    /\ finish[d] # "idle" => version[d] >= 1
    /\ jobs[d].status # "none" => Enqueues(d) >= 1 /\ jobs[d].attempts + 1 <= MaxAttempts + Enqueues(d)
    /\ jobs[d].status = "queued" => jobs[d].attempts + 2 <= MaxAttempts + Enqueues(d)

\* An enqueue adds one to the count, whether its INSERT runs or fails; nothing
\* takes one away.
LEMMA EnqueuesGrow ==
  ASSUME TypeInv, AttemptsInv, [Next]_vars, NEW d \in Docs
  PROVE  /\ Enqueues(d) \in Nat /\ Enqueues(d)' \in Nat
         /\ Enqueues(d)' >= Enqueues(d)
         /\ EnqueueInsertsJob(d) => Enqueues(d)' = Enqueues(d) + 1
         /\ finish'[d] # "idle" => version'[d] >= 1
<1> DEFINE Grows == /\ Enqueues(d) \in Nat /\ Enqueues(d)' \in Nat
                    /\ Enqueues(d)' >= Enqueues(d)
                    /\ EnqueueInsertsJob(d) => Enqueues(d)' = Enqueues(d) + 1
                    /\ finish'[d] # "idle" => version'[d] >= 1
<1>t. /\ version \in [Docs -> Nat] /\ finish \in [Docs -> FinishPcs]
      /\ finish[d] # "idle" => version[d] >= 1
  BY DEF TypeInv, TypeOK, AttemptsInv
<1>1. CASE UNCHANGED <<version, finish>>
  <2>1. ~EnqueueInsertsJob(d)
    BY <1>1, <1>t DEF EnqueueInsertsJob
  <2> QED BY <1>1, <1>t, <2>1 DEF Enqueues
<1>2. ASSUME NEW e \in Docs, CompleteUpload(e) PROVE Grows
  <2>1. ~EnqueueInsertsJob(d)
    BY <1>2, <1>t DEF CompleteUpload, EnqueueInsertsJob
  <2> QED BY <1>2, <1>t, <2>1 DEF CompleteUpload, Enqueues
<1>3. ASSUME NEW e \in Docs, EnqueueInsertsJob(e) PROVE Grows
  <2>1. version' = version /\ finish[e] = "insert_job"
        /\ finish' \in {[finish EXCEPT ![e] = "mark_pending"], [finish EXCEPT ![e] = "idle"]}
    BY <1>3 DEF EnqueueInsertsJob
  <2>2. CASE e = d
    BY <1>t, <2>1, <2>2 DEF Enqueues
  <2>3. CASE e # d
    <3>1. ~EnqueueInsertsJob(d)
      BY <1>t, <2>1, <2>3 DEF EnqueueInsertsJob
    <3> QED BY <1>t, <2>1, <2>3, <3>1 DEF Enqueues
  <2> QED BY <2>2, <2>3
<1>4. ASSUME NEW e \in Docs, EnqueueMarksPending(e) \/ EnqueueFails(e) PROVE Grows
  <2>1. version' = version /\ finish' = [finish EXCEPT ![e] = "idle"] /\ finish[e] # "idle"
    BY <1>4 DEF EnqueueMarksPending, EnqueueFails
  <2>2. EnqueueInsertsJob(d) => Enqueues(d)' = Enqueues(d) + 1
    <3>1. EnqueueInsertsJob(d) => finish[d] = "insert_job" /\ finish'[d] # "insert_job"
      BY <1>t DEF EnqueueInsertsJob
    <3> QED BY <1>t, <2>1, <3>1 DEF Enqueues
  <2> QED BY <1>t, <2>1, <2>2 DEF Enqueues
<1>5. UNCHANGED <<version, finish>>
        \/ \E e \in Docs : \/ CompleteUpload(e) \/ EnqueueInsertsJob(e)
                           \/ EnqueueMarksPending(e) \/ EnqueueFails(e)
  BY DEF Next, PipelineNext, PeopleNext, EnqueueStep, RunStep, vars, StartedAtGrowsStale, RetryFallsDue,
         DisableDoc, SubmitTakedownNotice, TakedownDoc, RestoreDoc, Moderate, PurgeJobRow, PurgeDocRow, HealStaleRunning,
         HealErrors, ClaimQueuedJobs, ScanR2Object, ApplyVerdictToDoc, ApplyVerdictToJob,
         MarkScanFailure, MarkDocFailed, ApplyVerdictThrows, RunAborts
<1> QED BY <1>1, <1>2, <1>3, <1>4, <1>5

LEMMA NextAttempts == TypeInv /\ AttemptsInv /\ [Next]_vars => AttemptsInv'
<1> SUFFICES ASSUME TypeInv, AttemptsInv, [Next]_vars, NEW d \in Docs
             PROVE  /\ finish'[d] # "idle" => version'[d] >= 1
                    /\ jobs'[d].status # "none"
                         => Enqueues(d)' >= 1 /\ jobs'[d].attempts + 1 <= MaxAttempts + Enqueues(d)'
                    /\ jobs'[d].status = "queued"
                         => jobs'[d].attempts + 2 <= MaxAttempts + Enqueues(d)'
  BY DEF AttemptsInv
<1> DEFINE m == Enqueues(d)
           n == Enqueues(d)'
           Within == /\ jobs'[d].status # "none" => n >= 1 /\ jobs'[d].attempts + 1 <= MaxAttempts + n
                     /\ jobs'[d].status = "queued" => jobs'[d].attempts + 2 <= MaxAttempts + n
<1>1. jobs[d] \in JobRow /\ MaxAttempts \in Nat \ {0}
  BY LimitsAssumption DEF TypeInv, TypeOK
<1>2. /\ jobs[d].status # "none" => m >= 1 /\ jobs[d].attempts + 1 <= MaxAttempts + m
      /\ jobs[d].status = "queued" => jobs[d].attempts + 2 <= MaxAttempts + m
  BY DEF AttemptsInv
<1>3. /\ m \in Nat /\ n \in Nat /\ n >= m
      /\ EnqueueInsertsJob(d) => n = m + 1
      /\ finish'[d] # "idle" => version'[d] >= 1
  BY EnqueuesGrow
<1> HIDE DEF m, n
<1>4. jobs'[d] = Deleted(jobs[d]) => Within
  BY DEF Deleted, FreshJob
<1>5. ASSUME jobs'[d] = Reenqueued(jobs[d]), EnqueueInsertsJob(d) PROVE Within
  BY <1>1, <1>2, <1>3, <1>5 DEF Reenqueued, FreshJob, JobRow
<1>6. jobs'[d] = Healed(jobs[d]) => Within
  BY <1>1, <1>2, <1>3 DEF Healed, JobRow
<1>7. jobs'[d] = Retried(jobs[d]) => Within
  BY <1>1, <1>2, <1>3 DEF Retried, JobRow
<1>8. jobs'[d] = Claimed(jobs[d]) /\ jobs[d].status = "queued" => Within
  BY <1>1, <1>2, <1>3 DEF Claimed, JobRow
<1>9. ASSUME NEW v \in Verdicts, jobs[d].status # "none", jobs'[d] = [jobs[d] EXCEPT !.status = v]
      PROVE  Within
  BY <1>1, <1>2, <1>3, <1>9 DEF JobRow, Verdicts
<1>10. ASSUME NEW w \in Runs, ClaimsRow(w, jobs[d]),
             jobs'[d] = [jobs[d] EXCEPT !.status = IF OutOfAttempts(w) THEN "dead_letter" ELSE "error",
                                        !.retry_due = FALSE]
      PROVE  Within
  <2>1. PICK s \in {"dead_letter", "error"} :
          jobs'[d] = [jobs[d] EXCEPT !.status = s, !.retry_due = FALSE]
    BY <1>10
  <2> QED BY <1>1, <1>2, <1>3, <1>10, <2>1 DEF ClaimsRow, JobRow
<1>11. jobs'[d] = jobs[d] \/ jobs'[d] = [jobs[d] EXCEPT !.started_at = "stale"]
         \/ jobs'[d] = [jobs[d] EXCEPT !.retry_due = TRUE] => Within
  BY <1>1, <1>2, <1>3 DEF JobRow
<1>12. JobChange(d)
  BY JobChanges
<1> HIDE DEF Within
<1>13. Within
  BY <1>4, <1>5, <1>6, <1>7, <1>8, <1>9, <1>10, <1>11, <1>12 DEF JobChange
<1> QED BY <1>3, <1>13 DEF Within, n

LEMMA AlwaysAttemptsInv == Spec => []AttemptsInv
<1>1. Init => AttemptsInv
  BY DEF Init, AttemptsInv, FreshJob
<1>2. Spec => []TypeInv
  BY AlwaysTypeInv
<1> QED BY <1>1, <1>2, NextAttempts, PTL DEF Spec

\* No interleaving of heals, retries, late failures and further completions
\* claims a job more often than its limit and one more for each completion.
THEOREM AttemptsAlwaysBounded == Spec => []AttemptsBounded
<1>1. TypeInv /\ AttemptsInv => AttemptsBounded
  <2> SUFFICES ASSUME TypeInv, AttemptsInv, NEW d \in Docs, jobs[d].status # "none"
               PROVE  jobs[d].attempts <= MaxAttempts + version[d] - 1
    BY DEF AttemptsBounded
  <2>1. jobs[d].attempts \in Nat /\ version[d] \in Nat /\ MaxAttempts \in Nat
    BY LimitsAssumption DEF TypeInv, TypeOK, JobRow
  <2> QED BY <2>1 DEF AttemptsInv, Enqueues
<1> QED BY <1>1, AlwaysTypeInv, AlwaysAttemptsInv, PTL

\* Both together: a job gets the attempts it is due.
THEOREM AttemptsAlwaysAccounted == Spec => []AttemptsAreAccounted
<1>1. AttemptsBounded /\ DeadLetterAfterMaxAttempts => AttemptsAreAccounted
  BY DEF AttemptsAreAccounted
<1> QED BY <1>1, AttemptsAlwaysBounded, DeadLettersAreEarned, PTL

-----------------------------------------------------------------------------
(* While a document has been completed once, the content a verdict speaks  *)
(* about is the content it has.                                            *)

OneCompletionInv ==
  /\ \A w \in Runs : \A c \in HeldClaims(w) : version[c.doc] >= 1
  /\ \A w \in Runs : pc[w] \in Processing /\ version[cur[w].doc] <= 1
                        => cur[w].version = version[cur[w].doc]
  /\ \A d \in Docs : docs[d].scan_status = "clean" /\ version[d] <= 1 => cleared[d] = version[d]

ScanInv == TypeInv /\ AttemptsInv /\ OneCompletionInv

\* A document with a job was completed, and a completion leaves it unjudged.
LEMMA VersionGrows ==
  ASSUME ScanInv, [Next]_vars, NEW d \in Docs
  PROVE  /\ version'[d] \in Nat /\ version'[d] >= version[d]
         /\ jobs[d].status # "none" => version[d] >= 1
         /\ version'[d] # version[d] => docs'[d].scan_status # "clean"
<1>t. /\ version \in [Docs -> Nat] /\ docs \in [Docs -> DocRow] /\ version[d] \in Nat
      /\ jobs[d].status # "none" => version[d] >= 1
  BY DEF ScanInv, TypeInv, TypeOK, AttemptsInv, Enqueues, OneCompletionInv
<1>1. CASE UNCHANGED version
  BY <1>1, <1>t
<1>2. ASSUME NEW e \in Docs, CompleteUpload(e)
      PROVE  /\ version'[d] \in Nat /\ version'[d] >= version[d]
             /\ version'[d] # version[d] => docs'[d].scan_status # "clean"
  <2>1. \A risk \in RiskLevels : Finalized(docs[d], risk).scan_status # "clean"
    BY <1>t DEF Finalized, AutoQuarantine, DocRow, RiskLevels
  <2>2. version'[d] # version[d] => e = d
    BY <1>2, <1>t DEF CompleteUpload
  <2>3. e = d => \E risk \in RiskLevels : docs'[d] = Finalized(docs[d], risk)
    BY <1>2, <1>t DEF CompleteUpload
  <2> QED BY <1>2, <1>t, <2>1, <2>2, <2>3 DEF CompleteUpload
<1>3. UNCHANGED version \/ \E e \in Docs : CompleteUpload(e)
  BY DEF Next, PipelineNext, PeopleNext, EnqueueStep, RunStep, vars, StartedAtGrowsStale, RetryFallsDue,
         DisableDoc, SubmitTakedownNotice, TakedownDoc, RestoreDoc, Moderate, PurgeJobRow, PurgeDocRow, HealStaleRunning,
         HealErrors, ClaimQueuedJobs, ScanR2Object, ApplyVerdictToDoc, ApplyVerdictToJob,
         MarkScanFailure, MarkDocFailed, ApplyVerdictThrows, RunAborts, EnqueueInsertsJob,
         EnqueueMarksPending, EnqueueFails
<1> QED BY <1>1, <1>2, <1>3, <1>t

\* The claim a run starts to process carries the version it reads, and keeps it.
LEMMA ProcessedVersion ==
  ASSUME ScanInv, [Next]_vars, NEW w \in Runs, pc'[w] \in Processing,
         version'[cur'[w].doc] <= 1
  PROVE  cur'[w].version = version'[cur'[w].doc]
<1>t. /\ pc \in [Runs -> RunPcs] /\ cur \in [Runs -> Claims \cup {NoClaim}]
      /\ todo \in [Runs -> SUBSET Claims] /\ version \in [Docs -> Nat]
      /\ pc[w] \in Processing => cur[w] \in Claims
  BY DEF ScanInv, TypeInv, TypeOK, ProcessingRunsHoldAClaim
<1>1. CASE pc[w] \in Processing /\ cur'[w] = cur[w]
  <2>1. cur[w] \in HeldClaims(w) /\ cur[w].doc \in Docs
    BY <1>1, <1>t DEF HeldClaims, Claims
  <2>2. version[cur[w].doc] >= 1 /\ version[cur[w].doc] \in Nat
    BY <1>t, <2>1 DEF ScanInv, OneCompletionInv
  <2>3. version'[cur[w].doc] = version[cur[w].doc]
    BY <1>1, <2>1, <2>2, VersionGrows
  <2> QED BY <1>1, <2>1, <2>3 DEF ScanInv, OneCompletionInv
<1>2. CASE ScanR2Object(w)
  <2>1. PICK c \in todo[w] : cur' = [cur EXCEPT ![w] = [c EXCEPT !.version = version[c.doc]]]
    BY <1>2 DEF ScanR2Object
  <2>2. c \in Claims /\ version' = version
    BY <1>2, <1>t DEF ScanR2Object
  <2>3. cur'[w] = [c EXCEPT !.version = version[c.doc]]
    BY <1>t, <2>1
  <2>4. cur'[w].doc = c.doc /\ cur'[w].version = version[c.doc]
    BY <2>2, <2>3 DEF Claims
  <2> QED BY <2>2, <2>4
<1>3. \/ pc[w] \in Processing /\ cur'[w] = cur[w]
      \/ ScanR2Object(w)
  <2>1. CASE UNCHANGED <<pc, cur>>
    BY <2>1
  <2>2. ASSUME NEW v \in Runs,
               \/ HealStaleRunning(v) \/ HealErrors(v) \/ ClaimQueuedJobs(v) \/ ApplyVerdictToDoc(v)
               \/ ApplyVerdictToJob(v) \/ MarkScanFailure(v) \/ MarkDocFailed(v)
               \/ ApplyVerdictThrows(v) \/ RunAborts(v)
        PROVE  pc[w] \in Processing /\ cur'[w] = cur[w]
    BY <1>t, <2>2
       DEF HealStaleRunning, HealErrors, ClaimQueuedJobs, ApplyVerdictToDoc, ApplyVerdictToJob,
           MarkScanFailure, MarkDocFailed, ApplyVerdictThrows, RunAborts, EndJob, Processing
  <2>3. ASSUME NEW v \in Runs, ScanR2Object(v), v # w
        PROVE  pc[w] \in Processing /\ cur'[w] = cur[w]
    BY <1>t, <2>3 DEF ScanR2Object
  <2>4. UNCHANGED <<pc, cur>>
          \/ \E v \in Runs :
               \/ HealStaleRunning(v) \/ HealErrors(v) \/ ClaimQueuedJobs(v) \/ ApplyVerdictToDoc(v)
               \/ ApplyVerdictToJob(v) \/ MarkScanFailure(v) \/ MarkDocFailed(v)
               \/ ApplyVerdictThrows(v) \/ RunAborts(v) \/ ScanR2Object(v)
    BY DEF Next, PipelineNext, PeopleNext, EnqueueStep, RunStep, vars, runVars, CompleteUpload,
           EnqueueInsertsJob, EnqueueMarksPending, EnqueueFails, StartedAtGrowsStale, RetryFallsDue,
           DisableDoc, SubmitTakedownNotice, TakedownDoc, RestoreDoc, Moderate, PurgeJobRow, PurgeDocRow
  <2> QED BY <2>1, <2>2, <2>3, <2>4
<1> QED BY <1>1, <1>2, <1>3

\* Only a verdict makes a row clean, and it records the version it scanned.
LEMMA CleanIsCleared ==
  ASSUME ScanInv, [Next]_vars, NEW d \in Docs, docs'[d].scan_status = "clean",
         version'[d] <= 1
  PROVE  cleared'[d] = version'[d]
<1>t. /\ docs \in [Docs -> DocRow] /\ docs[d] \in DocRow /\ cleared \in [Docs -> Nat]
      /\ version'[d] = version[d]
      /\ docs[d].scan_status = "clean" => cleared[d] = version[d]
  BY VersionGrows DEF ScanInv, TypeInv, TypeOK, OneCompletionInv
<1>1. ASSUME NEW w \in Runs, ApplyVerdictToDoc(w), cur[w].doc = d, RowExists(d)
      PROVE  cleared'[d] = version'[d]
  <2>1. docs'[d] = Judged(docs[d], verdict[w]) /\ verdict[w] \in Verdicts
    BY <1>t, <1>1 DEF ApplyVerdictToDoc, ScanInv, TypeInv, ProcessingRunsHoldAClaim
  <2>2. verdict[w] = "clean"
    BY <1>t, <2>1 DEF Judged, AutoQuarantine, DocRow, Verdicts
  <2>3. cleared'[d] = cur[w].version
    BY <1>t, <1>1, <2>2 DEF ApplyVerdictToDoc
  <2>4. cur[w].version = version[d]
    BY <1>1 DEF ApplyVerdictToDoc, ScanInv, OneCompletionInv, Processing
  <2> QED BY <1>t, <2>3, <2>4
<1>2. ASSUME ~ \E w \in Runs : ApplyVerdictToDoc(w) /\ cur[w].doc = d /\ RowExists(d)
      PROVE  cleared'[d] = version'[d]
  <2>1. cleared'[d] = cleared[d]
    <3>1. ASSUME NEW w \in Runs, ApplyVerdictToDoc(w) PROVE cleared'[d] = cleared[d]
      BY <1>t, <1>2, <3>1 DEF ApplyVerdictToDoc
    <3>2. UNCHANGED cleared \/ \E w \in Runs : ApplyVerdictToDoc(w)
      BY DEF Next, PipelineNext, PeopleNext, EnqueueStep, RunStep, vars, CompleteUpload,
             EnqueueInsertsJob, EnqueueMarksPending, EnqueueFails, StartedAtGrowsStale, RetryFallsDue,
             DisableDoc, SubmitTakedownNotice, TakedownDoc, RestoreDoc, Moderate, PurgeJobRow, PurgeDocRow, HealStaleRunning,
             HealErrors, ClaimQueuedJobs, ScanR2Object, ApplyVerdictToJob, MarkScanFailure,
             MarkDocFailed, ApplyVerdictThrows, RunAborts
    <3> QED BY <3>1, <3>2
  <2>2. docs[d].scan_status = "clean"
    <3>1. \A risk \in RiskLevels : docs'[d] # Finalized(docs[d], risk)
      BY <1>t DEF Finalized, AutoQuarantine, DocRow
    <3>2. \A status \in {"pending", "error"} :
            docs'[d] = Marked(docs[d], status) => docs[d].scan_status = "clean"
      BY <1>t DEF Marked, AutoQuarantine, DocRow
    <3>3. RowChange(d)
      BY RowChanges DEF ScanInv
    <3> QED BY <1>t, <1>2, <3>1, <3>2, <3>3 DEF RowChange, DocRow
  <2> QED BY <1>t, <2>1, <2>2
<1> QED BY <1>1, <1>2

LEMMA NextOneCompletion ==
  ASSUME ScanInv, [Next]_vars
  PROVE  OneCompletionInv'
<1>2. ASSUME NEW w \in Runs, NEW c \in HeldClaims(w)' PROVE version'[c.doc] >= 1
  <2>1. CASE \E b \in HeldClaims(w) : b \in Claims /\ c.doc = b.doc
    <3>1. PICK b \in HeldClaims(w) : b \in Claims /\ c.doc = b.doc
      BY <2>1
    <3>2. b.doc \in Docs /\ version[b.doc] >= 1 /\ version[b.doc] \in Nat
      BY <3>1 DEF Claims, ScanInv, OneCompletionInv, TypeInv, TypeOK
    <3>3. version'[b.doc] \in Nat /\ version'[b.doc] >= version[b.doc]
      BY <3>2, VersionGrows
    <3> QED BY <3>1, <3>2, <3>3
  <2>2. CASE c.doc \in Docs /\ jobs[c.doc].status # "none"
    <3>1. version[c.doc] >= 1 /\ version[c.doc] \in Nat
      BY <2>2, VersionGrows DEF ScanInv, TypeInv, TypeOK
    <3>2. version'[c.doc] \in Nat /\ version'[c.doc] >= version[c.doc]
      BY <2>2, VersionGrows
    <3> QED BY <3>1, <3>2
  <2>3. \/ \E b \in HeldClaims(w) : b \in Claims /\ c.doc = b.doc
        \/ c.doc \in Docs /\ jobs[c.doc].status # "none"
    BY ClaimsComeFrom DEF ScanInv
  <2> QED BY <2>1, <2>2, <2>3
<1>3. \A w \in Runs : pc'[w] \in Processing /\ version'[cur'[w].doc] <= 1
                       => cur'[w].version = version'[cur'[w].doc]
  BY ProcessedVersion
<1>4. \A d \in Docs : docs'[d].scan_status = "clean" /\ version'[d] <= 1 => cleared'[d] = version'[d]
  BY CleanIsCleared
<1> QED BY <1>2, <1>3, <1>4 DEF OneCompletionInv

\* What the ticket route serves of a document completed once was judged clean,
\* whatever runs, crashes, moderators and purges do.
THEOREM ServableWasScanned == Spec => []ServableContentWasScanned
<1>1. Init => OneCompletionInv
  BY DEF Init, OneCompletionInv, HeldClaims, Processing
<1>2. TypeInv /\ AttemptsInv /\ OneCompletionInv /\ [Next]_vars => OneCompletionInv'
  BY NextOneCompletion DEF ScanInv
<1>3. OneCompletionInv => ServableContentWasScanned
  BY DEF OneCompletionInv, ServableContentWasScanned, Servable
<1> QED BY <1>1, <1>2, <1>3, AlwaysTypeInv, AlwaysAttemptsInv, PTL DEF Spec

-----------------------------------------------------------------------------
(* Who tends a document that waits for its scan. A claim is for the job    *)
(* its document has, unless a purge is under way or over: so a failure     *)
(* that is reported finds its job. And a run that is about to claim has    *)
(* nothing in hand that the next claim would make it forget.               *)

HandsInv ==
  /\ \A w \in Runs : pc[w] \in {"idle", "heal_errors", "claim"} => todo[w] = {}
  /\ \A w \in Runs : \A c \in HeldClaims(w) :
       RowExists(c.doc) /\ c.doc \notin purging
         => c.id = jobs[c.doc].id /\ jobs[c.doc].status # "none"

\* A row that is gone never comes back, and a purge that is over leaves none.
LEMMA RowsStayGone ==
  ASSUME TypeInv, [Next]_vars, NEW d \in Docs, RowExists(d)', d \notin purging'
  PROVE  RowExists(d) /\ d \notin purging
<1>t. docs \in [Docs -> DocRow]
  BY DEF TypeInv, TypeOK
<1>1. ASSUME NEW e \in Docs, CompleteUpload(e) \/ EnqueueMarksPending(e) PROVE RowExists(d) /\ d \notin purging
  <2>1. CASE CompleteUpload(e)
    BY <2>1, <1>t DEF CompleteUpload, RowExists
  <2>2. CASE EnqueueMarksPending(e)
    BY <2>2, <1>t DEF EnqueueMarksPending, RowExists
  <2> QED BY <1>1, <2>1, <2>2
<1>2. ASSUME NEW e \in Docs, DisableDoc(e) \/ SubmitTakedownNotice(e) \/ TakedownDoc(e) \/ RestoreDoc(e)
      PROVE  RowExists(d) /\ d \notin purging
  BY <1>2, <1>t DEF DisableDoc, SubmitTakedownNotice, TakedownDoc, RestoreDoc, Moderate, RowExists
<1>3. ASSUME NEW e \in Docs, PurgeDocRow(e) PROVE RowExists(d) /\ d \notin purging
  BY <1>3, <1>t DEF PurgeDocRow, RowExists, DocRow
<1>4. ASSUME NEW e \in Docs, PurgeJobRow(e) PROVE RowExists(d) /\ d \notin purging
  BY <1>4 DEF PurgeJobRow, RowExists
<1>5. ASSUME NEW w \in Runs, ApplyVerdictToDoc(w) \/ MarkDocFailed(w) PROVE RowExists(d) /\ d \notin purging
  <2>1. CASE ApplyVerdictToDoc(w)
    BY <2>1, <1>t DEF ApplyVerdictToDoc, RowExists
  <2>2. CASE MarkDocFailed(w)
    BY <2>2, <1>t DEF MarkDocFailed, RowExists
  <2> QED BY <1>5, <2>1, <2>2
<1>6. UNCHANGED <<docs, purging>>
      \/ \E e \in Docs : \/ CompleteUpload(e) \/ EnqueueMarksPending(e)
                         \/ DisableDoc(e) \/ SubmitTakedownNotice(e) \/ TakedownDoc(e) \/ RestoreDoc(e)
                         \/ PurgeDocRow(e) \/ PurgeJobRow(e)
      \/ \E w \in Runs : ApplyVerdictToDoc(w) \/ MarkDocFailed(w)
  BY DEF Next, PipelineNext, PeopleNext, EnqueueStep, RunStep, vars, EnqueueInsertsJob, EnqueueFails,
         StartedAtGrowsStale, RetryFallsDue, HealStaleRunning, HealErrors, ClaimQueuedJobs,
         ScanR2Object, ApplyVerdictToJob, MarkScanFailure, ApplyVerdictThrows, RunAborts
<1> QED BY <1>1, <1>2, <1>3, <1>4, <1>5, <1>6 DEF RowExists

\* Short of a purge, the job of a document stays the same row.
LEMMA JobsKeepTheirRow ==
  ASSUME TypeInv, [Next]_vars, NEW d \in Docs, jobs[d].status # "none",
         RowExists(d)', d \notin purging'
  PROVE  jobs'[d].id = jobs[d].id /\ jobs'[d].status # "none"
<1> DEFINE Same == jobs'[d].id = jobs[d].id /\ jobs'[d].status # "none"
<1>1. jobs[d] \in JobRow /\ docs \in [Docs -> DocRow]
  BY DEF TypeInv, TypeOK
<1>2. ~PurgeJobRow(d) /\ ~PurgeDocRow(d)
  BY <1>1 DEF PurgeJobRow, PurgeDocRow, RowExists, DocRow
<1>3. jobs'[d] = Reenqueued(jobs[d]) => Same
  BY <1>1 DEF Reenqueued, JobRow
<1>4. jobs'[d] = Healed(jobs[d]) \/ jobs'[d] = Retried(jobs[d]) => Same
  BY <1>1 DEF Healed, Retried, JobRow
<1>5. jobs'[d] = Claimed(jobs[d]) => Same
  BY <1>1 DEF Claimed, JobRow
<1>6. ASSUME NEW v \in Verdicts, jobs'[d] = [jobs[d] EXCEPT !.status = v]
      PROVE  Same
  BY <1>1, <1>6 DEF JobRow, Verdicts
<1>7. ASSUME NEW v \in {"dead_letter", "error"},
             jobs'[d] = [jobs[d] EXCEPT !.status = v, !.retry_due = FALSE]
      PROVE  Same
  BY <1>1, <1>7 DEF JobRow
<1>8. jobs'[d] = jobs[d] \/ jobs'[d] = [jobs[d] EXCEPT !.started_at = "stale"]
         \/ jobs'[d] = [jobs[d] EXCEPT !.retry_due = TRUE] => Same
  BY <1>1 DEF JobRow
<1>9. JobChange(d)
  BY JobChanges
<1> HIDE DEF Same
<1>10. Same
  BY <1>2, <1>3, <1>4, <1>5, <1>6, <1>7, <1>8, <1>9 DEF JobChange
<1> QED BY <1>10 DEF Same

LEMMA NextHands == TypeInv /\ HandsInv /\ [Next]_vars => HandsInv'
<1> SUFFICES ASSUME TypeInv, HandsInv, [Next]_vars
             PROVE  HandsInv'
  OBVIOUS
<1>1. ASSUME NEW w \in Runs, pc'[w] \in {"idle", "heal_errors", "claim"}
      PROVE  todo'[w] = {}
  <2> USE DEF TypeInv, TypeOK
  <2>1. ASSUME NEW v \in Runs, HealStaleRunning(v) \/ HealErrors(v) PROVE todo'[w] = {}
    BY <1>1, <2>1 DEF HandsInv, HealStaleRunning, HealErrors
  <2>2. ASSUME NEW v \in Runs, ClaimQueuedJobs(v) PROVE todo'[w] = {}
    BY <1>1, <2>2 DEF HandsInv, ClaimQueuedJobs
  <2>3. ASSUME NEW v \in Runs, ScanR2Object(v) PROVE todo'[w] = {}
    BY <1>1, <2>3 DEF HandsInv, ScanR2Object
  <2>4. ASSUME NEW v \in Runs, ApplyVerdictToDoc(v) \/ ApplyVerdictThrows(v) PROVE todo'[w] = {}
    BY <1>1, <2>4 DEF HandsInv, ApplyVerdictToDoc, ApplyVerdictThrows
  <2>5. ASSUME NEW v \in Runs, ApplyVerdictToJob(v) \/ MarkScanFailure(v) \/ MarkDocFailed(v) PROVE todo'[w] = {}
    BY <1>1, <2>5 DEF HandsInv, ApplyVerdictToJob, MarkScanFailure, MarkDocFailed, EndJob
  <2>6. ASSUME NEW v \in Runs, RunAborts(v) PROVE todo'[w] = {}
    BY <1>1, <2>6 DEF HandsInv, RunAborts
  <2>7. CASE UNCHANGED <<pc, todo>>
    BY <1>1, <2>7 DEF HandsInv
  <2>8. UNCHANGED <<pc, todo>>
        \/ \E v \in Runs :
             \/ HealStaleRunning(v) \/ HealErrors(v) \/ ApplyVerdictToDoc(v) \/ ApplyVerdictToJob(v)
             \/ MarkScanFailure(v) \/ MarkDocFailed(v) \/ ApplyVerdictThrows(v) \/ RunAborts(v)
             \/ ClaimQueuedJobs(v) \/ ScanR2Object(v)
    BY DEF Next, PipelineNext, PeopleNext, EnqueueStep, RunStep, vars, runVars, CompleteUpload,
           EnqueueInsertsJob, EnqueueMarksPending, EnqueueFails, StartedAtGrowsStale, RetryFallsDue,
           DisableDoc, SubmitTakedownNotice, TakedownDoc, RestoreDoc, Moderate, PurgeJobRow, PurgeDocRow
  <2> QED BY <2>1, <2>2, <2>3, <2>4, <2>5, <2>6, <2>7, <2>8
<1>2. ASSUME NEW w \in Runs, NEW c \in HeldClaims(w)', RowExists(c.doc)', c.doc \notin purging'
      PROVE  c.id = jobs'[c.doc].id /\ jobs'[c.doc].status # "none"
  <2>1. ASSUME NEW b \in HeldClaims(w), b \in Claims, c.doc = b.doc /\ c.id = b.id
        PROVE  c.id = jobs'[c.doc].id /\ jobs'[c.doc].status # "none"
    <3>1. b.doc \in Docs
      BY <2>1 DEF Claims
    <3>2. RowExists(b.doc) /\ b.doc \notin purging
      BY <1>2, <2>1, <3>1, RowsStayGone DEF RowExists
    <3>3. b.id = jobs[b.doc].id /\ jobs[b.doc].status # "none"
      BY <3>2 DEF HandsInv
    <3> QED BY <1>2, <2>1, <3>1, <3>3, JobsKeepTheirRow DEF RowExists
  <2>2. ASSUME c.doc \in Docs, c.id = jobs[c.doc].id, jobs'[c.doc] = Claimed(jobs[c.doc])
        PROVE  c.id = jobs'[c.doc].id /\ jobs'[c.doc].status # "none"
    <3>1. jobs[c.doc] \in JobRow
      BY <2>2 DEF TypeInv, TypeOK
    <3> QED BY <2>2, <3>1 DEF Claimed, JobRow
  <2> QED BY <2>1, <2>2, ClaimsComeFrom
<1> QED BY <1>1, <1>2 DEF HandsInv, RowExists

\* A step that starts no wait and ends nobody's concern for d forgets nothing.
LEMMA ConcernKept ==
  ASSUME NEW d \in Docs, Awaits(d)' => Awaits(d), ~Forgotten(d),
         Live(jobs[d]) => Live(jobs'[d]),
         finish[d] = "insert_job" => finish'[d] = "insert_job",
         d \in purging => d \in purging',
         \A w \in Runs : InHand(w, d) => InHand(w, d)'
  PROVE  ~Forgotten(d)'
BY DEF Forgotten, Tended

\* The steps of the completion route, of time and of people.
LEMMA DocStepsForget ==
  ASSUME TypeInv, NEW d \in Docs, ~Forgotten(d), Forgotten(d)', NEW e \in Docs,
         \/ CompleteUpload(e) \/ EnqueueStep(e) \/ EnqueueFails(e)
         \/ StartedAtGrowsStale(e) \/ RetryFallsDue(e)
         \/ DisableDoc(e) \/ SubmitTakedownNotice(e) \/ TakedownDoc(e) \/ RestoreDoc(e)
         \/ PurgeJobRow(e) \/ PurgeDocRow(e)
  PROVE  MayForget(d)
<1>t. /\ docs[d] \in DocRow /\ jobs[d] \in JobRow /\ docs \in [Docs -> DocRow]
      /\ jobs \in [Docs -> JobRow] /\ finish \in [Docs -> FinishPcs]
  BY DEF TypeInv, TypeOK
<1>h. ASSUME UNCHANGED <<pc, todo, cur>>
      PROVE  \A w \in Runs : InHand(w, d) => InHand(w, d)'
  BY <1>h DEF InHand
<1>1. ASSUME CompleteUpload(e) PROVE FALSE
  <2>1. CASE e = d
    BY <1>1, <2>1, <1>t DEF CompleteUpload, Forgotten, Tended
  <2>2. CASE e # d
    BY <1>1, <2>2, <1>t, <1>h, ConcernKept DEF CompleteUpload, runVars, Awaits, RowExists
  <2> QED BY <2>1, <2>2
<1>2. ASSUME EnqueueInsertsJob(e) PROVE MayForget(d)
  <2>1. CASE e # d
    <3>1. jobs'[d] = jobs[d] /\ finish'[d] = finish[d]
      BY <1>2, <2>1, <1>t DEF EnqueueInsertsJob
    <3> QED BY <1>2, <3>1, <1>h, ConcernKept DEF EnqueueInsertsJob, runVars, Awaits, RowExists
  <2>2. CASE e = d
    <3>1. RowExists(d) /\ finish[d] = "insert_job"
      BY <1>2, <2>2 DEF EnqueueInsertsJob, Forgotten, Awaits, RowExists
    <3>2. jobs'[d] = Reenqueued(jobs[d]) /\ finish'[d] = "mark_pending"
      BY <1>2, <2>2, <3>1, <1>t DEF EnqueueInsertsJob
    <3>3. ~Live(jobs'[d])
      BY DEF Forgotten, Tended
    <3>4. jobs[d].status = "dead_letter"
      BY <3>2, <3>3, <1>t DEF Reenqueued, FreshJob, JobRow, JobStatuses, Live
    <3> QED BY <3>1, <3>2, <3>4 DEF MayForget
  <2> QED BY <2>1, <2>2
<1>3. ASSUME EnqueueMarksPending(e) PROVE MayForget(d)
  <2>1. CASE e # d
    <3>1. docs'[d] = docs[d] /\ finish'[d] = finish[d] /\ jobs'[d] = jobs[d]
      BY <1>3, <2>1, <1>t DEF EnqueueMarksPending
    <3> QED BY <1>3, <3>1, <1>h, ConcernKept DEF EnqueueMarksPending, runVars, Awaits, RowExists
  <2>2. CASE e = d
    BY <1>3, <2>2, <1>t DEF EnqueueMarksPending, MayForget
  <2> QED BY <2>1, <2>2
<1>4. ASSUME EnqueueFails(e) PROVE MayForget(d)
  BY <1>4 DEF EnqueueFails, MayForget, TypeInv, TypeOK
<1>5. ASSUME StartedAtGrowsStale(e) PROVE FALSE
  <2>1. Live(jobs[d]) => Live(jobs'[d])
    BY <1>5, <1>t DEF StartedAtGrowsStale, Live, JobRow
  <2> QED BY <1>5, <2>1, <1>h, ConcernKept DEF StartedAtGrowsStale, runVars, Awaits, RowExists
<1>6. ASSUME RetryFallsDue(e) PROVE FALSE
  <2>1. Live(jobs[d]) => Live(jobs'[d])
    BY <1>6, <1>t DEF RetryFallsDue, Live, JobRow
  <2> QED BY <1>6, <2>1, <1>h, ConcernKept DEF RetryFallsDue, runVars, Awaits, RowExists
<1>7. ASSUME DisableDoc(e) \/ SubmitTakedownNotice(e) \/ TakedownDoc(e) PROVE FALSE
  <2>1. UNCHANGED <<jobs, finish, purging, pc, todo, cur>>
    BY <1>7 DEF DisableDoc, SubmitTakedownNotice, TakedownDoc, Moderate, runVars
  <2>2. Awaits(d)' => Awaits(d)
    <3>1. CASE e = d
      <4>1. docs'[d].moderation_status = "disabled"
        <5>1. CASE DisableDoc(d)
          BY <5>1, <1>t DEF DisableDoc, Moderate, DocRow
        <5>2. CASE SubmitTakedownNotice(d)
          BY <5>2, <1>t DEF SubmitTakedownNotice, Moderate, DocRow
        <5>3. CASE TakedownDoc(d)
          BY <5>3, <1>t DEF TakedownDoc, Moderate, DocRow
        <5> QED BY <1>7, <3>1, <5>1, <5>2, <5>3
      <4> QED BY <4>1 DEF Awaits, Blocked
    <3>2. CASE e # d
      <4>1. docs'[d] = docs[d]
        BY <1>7, <3>2, <1>t DEF DisableDoc, SubmitTakedownNotice, TakedownDoc, Moderate
      <4> QED BY <4>1 DEF Awaits, RowExists
    <3> QED BY <3>1, <3>2
  <2> QED BY <2>1, <2>2, <1>h, ConcernKept
<1>8. ASSUME RestoreDoc(e) PROVE MayForget(d)
  <2>1. UNCHANGED <<jobs, finish, purging, pc, todo, cur>>
    BY <1>8 DEF RestoreDoc, Moderate, runVars
  <2>2. ~(Awaits(d)' => Awaits(d))
    BY <2>1, <1>h, ConcernKept
  <2>3. e = d /\ docs'[d].dmca_status = "restored" /\ docs[d].moderation_status \in Blocked
    BY <1>8, <2>2, <1>t DEF RestoreDoc, Moderate, Awaits, RowExists, DocRow
  <2> QED BY <2>3 DEF MayForget
<1>9. ASSUME PurgeJobRow(e) PROVE FALSE
  <2>1. CASE e = d
    BY <1>9, <2>1 DEF PurgeJobRow, Forgotten, Tended
  <2>2. CASE e # d
    <3>1. jobs'[d] = jobs[d]
      BY <1>9, <2>2, <1>t DEF PurgeJobRow
    <3> QED BY <1>9, <3>1, <1>h, ConcernKept DEF PurgeJobRow, runVars, Awaits, RowExists
  <2> QED BY <2>1, <2>2
<1>10. ASSUME PurgeDocRow(e) PROVE FALSE
  <2>1. CASE e = d
    BY <1>10, <2>1, <1>t DEF PurgeDocRow, Forgotten, Awaits, RowExists, DocRow
  <2>2. CASE e # d
    <3>1. jobs'[d] = jobs[d] /\ docs'[d] = docs[d] /\ (d \in purging => d \in purging')
      BY <1>10, <2>2, <1>t DEF PurgeDocRow
    <3> QED BY <1>10, <3>1, <1>h, ConcernKept DEF PurgeDocRow, runVars, Awaits, RowExists
  <2> QED BY <2>1, <2>2
<1> QED BY <1>1, <1>2, <1>3, <1>4, <1>5, <1>6, <1>7, <1>8, <1>9, <1>10 DEF EnqueueStep

\* The failure of a scan: a dead letter is about to be told to the document, a job
\* with attempts left is retried, and what is neither was claimed again meanwhile.
LEMMA FailureForgets ==
  ASSUME TypeInv, HandsInv, NEW d \in Docs, ~Forgotten(d), Forgotten(d)',
         NEW w \in Runs, MarkScanFailure(w)
  PROVE  MayForget(d)
<1>t. /\ jobs \in [Docs -> JobRow] /\ pc \in [Runs -> RunPcs] /\ todo \in [Runs -> SUBSET Claims]
      /\ cur \in [Runs -> Claims \cup {NoClaim}]
  BY DEF TypeInv, TypeOK
<1>s. UNCHANGED <<docs, finish, purging, todo>> /\ pc[w] = "fail_job"
  BY DEF MarkScanFailure
<1>a. Awaits(d)' => Awaits(d)
  BY <1>s DEF Awaits, RowExists
<1>c. cur[w] \in Claims /\ cur[w].doc \in Docs /\ cur[w].attempt \in Nat /\ cur[w] \in HeldClaims(w)
  BY <1>s DEF TypeInv, ProcessingRunsHoldAClaim, Processing, Claims, HeldClaims
<1>o. \A v \in Runs : v # w => pc'[v] = pc[v] /\ cur'[v] = cur[v]
  BY <1>t DEF MarkScanFailure, EndJob
<1>1. CASE cur[w].doc # d
  <2>1. jobs'[d] = jobs[d]
    BY <1>1, <1>t DEF MarkScanFailure
  <2>2. \A v \in Runs : InHand(v, d) => InHand(v, d)'
    BY <1>1, <1>s, <1>o DEF InHand
  <2> QED BY <2>1, <2>2, <1>a, <1>s, ConcernKept
<1>2. CASE cur[w].doc = d /\ OutOfAttempts(w)
  <2>1. pc'[w] = "fail_docs" /\ cur'[w] = cur[w]
    BY <1>2, <1>t DEF MarkScanFailure
  <2>2. InHand(w, d)'
    BY <1>2, <2>1 DEF InHand, Processing
  <2> QED BY <2>2 DEF Forgotten, Tended
<1>3. CASE cur[w].doc = d /\ ~OutOfAttempts(w)
  <2>1. RowExists(d) /\ d \notin purging
    BY <1>s DEF Forgotten, Awaits, RowExists, Tended
  <2>2. ClaimsRow(w, jobs[d])
    BY <2>1, <1>3, <1>c DEF HandsInv, ClaimsRow
  <2>3. jobs'[d].status = "error" /\ jobs'[d].attempts = jobs[d].attempts /\ jobs[d].attempts \in Nat
    BY <2>2, <1>3, <1>t DEF MarkScanFailure, JobRow
  <2>4. ~(jobs[d].attempts < MaxAttempts)
    BY <2>3 DEF Forgotten, Tended, Live
  <2>5. cur[w].attempt < jobs[d].attempts
    BY <2>3, <2>4, <1>3, <1>c, LimitsAssumption DEF OutOfAttempts
  <2>6. pc'[w] # "fail_job"
    BY <1>3, <1>t DEF MarkScanFailure, EndJob
  <2> QED BY <2>5, <2>6, <1>3, <1>s DEF MayForget, Leaves
<1> QED BY <1>1, <1>2, <1>3

\* The other steps of a cron run.
LEMMA RunStepsForget ==
  ASSUME TypeInv, HandsInv, NEW d \in Docs, ~Forgotten(d), Forgotten(d)',
         NEW w \in Runs, RunStep(w) \/ ApplyVerdictThrows(w) \/ RunAborts(w)
  PROVE  MayForget(d)
<1>t. /\ docs[d] \in DocRow /\ jobs[d] \in JobRow /\ docs \in [Docs -> DocRow]
      /\ jobs \in [Docs -> JobRow] /\ pc \in [Runs -> RunPcs] /\ todo \in [Runs -> SUBSET Claims]
      /\ cur \in [Runs -> Claims \cup {NoClaim}]
  BY DEF TypeInv, TypeOK
<1>1. ASSUME HealStaleRunning(w) PROVE MayForget(d)
  <2>1. \A v \in Runs : InHand(v, d) => InHand(v, d)'
    BY <1>1, <1>t DEF HealStaleRunning, InHand, Processing
  <2>2. jobs'[d] = Healed(jobs[d]) /\ UNCHANGED <<docs, finish, purging>>
    BY <1>1 DEF HealStaleRunning
  <2>3. CASE Live(jobs[d]) => Live(jobs'[d])
    BY <2>1, <2>2, <2>3, ConcernKept DEF Awaits, RowExists
  <2>4. CASE Live(jobs[d]) /\ ~Live(jobs'[d])
    <3>1. jobs[d].status = "running" /\ jobs'[d].status = "dead_letter"
      BY <2>2, <2>4, <1>t DEF Healed, Live, JobRow
    <3>2. \A v \in Runs : ~Leaves(v, "fail_job", d)
      BY <1>1, <1>t DEF HealStaleRunning, Leaves
    <3> QED BY <3>1, <3>2 DEF MayForget
  <2> QED BY <2>3, <2>4
<1>2. ASSUME HealErrors(w) PROVE FALSE
  <2>1. \A v \in Runs : InHand(v, d) => InHand(v, d)'
    BY <1>2, <1>t DEF HealErrors, InHand, Processing
  <2>2. jobs'[d] = Retried(jobs[d]) /\ UNCHANGED <<docs, finish, purging>>
    BY <1>2 DEF HealErrors
  <2>3. Live(jobs[d]) => Live(jobs'[d])
    BY <2>2, <1>t DEF Retried, Live, JobRow
  <2> QED BY <2>1, <2>2, <2>3, ConcernKept DEF Awaits, RowExists
<1>3. ASSUME ClaimQueuedJobs(w) PROVE FALSE
  <2>1. todo[w] = {} /\ pc[w] = "claim"
    BY <1>3 DEF ClaimQueuedJobs, HandsInv
  <2>2. ~InHand(w, d)
    BY <2>1 DEF InHand, Processing
  <2>3. \A v \in Runs : InHand(v, d) => InHand(v, d)'
    BY <1>3, <2>2, <1>t DEF ClaimQueuedJobs, InHand
  <2>4. jobs'[d] = jobs[d] \/ jobs'[d] = Claimed(jobs[d])
    BY <1>3 DEF ClaimQueuedJobs
  <2>5. Live(jobs[d]) => Live(jobs'[d])
    BY <2>4, <1>t DEF Claimed, Live, JobRow
  <2> QED BY <1>3, <2>3, <2>5, ConcernKept DEF ClaimQueuedJobs, Awaits, RowExists
<1>4. ASSUME ScanR2Object(w) PROVE FALSE
  <2>1. PICK c \in todo[w] :
          /\ cur' = [cur EXCEPT ![w] = [c EXCEPT !.version = version[c.doc]]]
          /\ todo' = [todo EXCEPT ![w] = @ \ {c}]
    BY <1>4 DEF ScanR2Object
  <2>2. c \in Claims /\ pc[w] = "next" /\ pc'[w] \in {"fail_job", "verdict_docs"}
    BY <1>4, <2>1, <1>t DEF ScanR2Object
  <2>3. cur'[w].doc = c.doc
    BY <2>1, <2>2, <1>t DEF Claims
  <2>4. InHand(w, d) => InHand(w, d)'
    BY <2>1, <2>2, <2>3, <1>t DEF InHand, Processing
  <2>5. \A v \in Runs : InHand(v, d) => InHand(v, d)'
    BY <1>4, <2>1, <2>4, <1>t DEF ScanR2Object, InHand
  <2> QED BY <1>4, <2>5, ConcernKept DEF ScanR2Object, Awaits, RowExists
<1>5. ASSUME ApplyVerdictToDoc(w) PROVE FALSE
  <2>1. CASE cur[w].doc = d
    <3>1. RowExists(d) => Judged(docs[d], verdict[w]).scan_status # "pending"
      BY <1>t DEF Judged, AutoQuarantine, DocRow
    <3>2. ~Awaits(d)'
      BY <1>5, <2>1, <3>1, <1>t DEF ApplyVerdictToDoc, Awaits, RowExists
    <3> QED BY <3>2 DEF Forgotten
  <2>2. CASE cur[w].doc # d
    <3>1. docs'[d] = docs[d] /\ UNCHANGED <<jobs, finish, purging>>
      BY <1>5, <2>2, <1>t DEF ApplyVerdictToDoc
    <3>2. \A v \in Runs : InHand(v, d) => InHand(v, d)'
      BY <1>5, <2>2, <1>t DEF ApplyVerdictToDoc, InHand
    <3> QED BY <3>1, <3>2, ConcernKept DEF Awaits, RowExists
  <2> QED BY <2>1, <2>2
<1>6. ASSUME ApplyVerdictToJob(w) PROVE MayForget(d)
  <2>1. CASE cur[w].doc = d
    BY <1>6, <2>1, <1>t DEF ApplyVerdictToJob, EndJob, MayForget, Leaves
  <2>2. CASE cur[w].doc # d
    <3>1. jobs'[d] = jobs[d] /\ UNCHANGED <<docs, finish, purging>>
      BY <1>6, <2>2, <1>t DEF ApplyVerdictToJob
    <3>2. \A v \in Runs : InHand(v, d) => InHand(v, d)'
      BY <1>6, <2>2, <1>t DEF ApplyVerdictToJob, EndJob, InHand
    <3> QED BY <3>1, <3>2, ConcernKept DEF Awaits, RowExists
  <2> QED BY <2>1, <2>2
<1>7. ASSUME MarkDocFailed(w) PROVE FALSE
  <2>1. CASE cur[w].doc = d
    <3>1. LET row == Marked(docs[d], "error") IN
            row.scan_status = "pending" => row.moderation_status \in Blocked
      BY <1>t DEF Marked, AutoQuarantine, DocRow, Blocked
    <3>2. ~Awaits(d)'
      BY <1>7, <2>1, <3>1, <1>t DEF MarkDocFailed, Awaits, RowExists
    <3> QED BY <3>2 DEF Forgotten
  <2>2. CASE cur[w].doc # d
    <3>1. docs'[d] = docs[d] /\ UNCHANGED <<jobs, finish, purging>>
      BY <1>7, <2>2, <1>t DEF MarkDocFailed
    <3>2. \A v \in Runs : InHand(v, d) => InHand(v, d)'
      BY <1>7, <2>2, <1>t DEF MarkDocFailed, EndJob, InHand
    <3> QED BY <3>1, <3>2, ConcernKept DEF Awaits, RowExists
  <2> QED BY <2>1, <2>2
<1>8. ASSUME ApplyVerdictThrows(w) \/ RunAborts(w) PROVE MayForget(d)
  BY <1>8 DEF ApplyVerdictThrows, RunAborts, MayForget, TypeInv, TypeOK
<1> QED BY <1>1, <1>2, <1>3, <1>4, <1>5, <1>6, <1>7, <1>8, FailureForgets DEF RunStep

\* However runs, completions and people interleave, a document is left waiting for a
\* scan that nobody will do only by the steps that MayForget names: a failure that is
\* reported in time always leaves a job to retry or a document that is told.
THEOREM ForgottenOnlyAsListed == Spec => ScansAreNotForgotten
<1>1. Init => HandsInv
  BY DEF Init, HandsInv, HeldClaims, Processing
<1>2. Spec => [](TypeInv /\ HandsInv)
  BY <1>1, InitTypeInv, NextTypeInv, NextHands, PTL DEF Spec
<1>3. TypeInv /\ HandsInv /\ [Next]_vars
        => [\A d \in Docs : ~Forgotten(d) /\ Forgotten(d)' => MayForget(d)]_vars
  <2> SUFFICES ASSUME TypeInv, HandsInv, Next, NEW d \in Docs, ~Forgotten(d), Forgotten(d)'
               PROVE  MayForget(d)
    OBVIOUS
  <2> QED BY DocStepsForget, RunStepsForget DEF Next, PipelineNext, PeopleNext
<1> QED BY <1>2, <1>3, PTL DEF Spec, ScansAreNotForgotten
=============================================================================
