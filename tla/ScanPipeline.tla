---------------------------- MODULE ScanPipeline ----------------------------
(***************************************************************************)
(* The malware-scan pipeline of DocLinks: the rows of public.docs and      *)
(* public.malware_scan_jobs, the upload-completion route that enqueues a   *)
(* scan, the cron route that heals the queue, claims jobs and applies the  *)
(* verdicts, the moderation routes, and the trigger that quarantines       *)
(* high-risk documents.                                                    *)
(*                                                                         *)
(* The database driver runs every statement over HTTP in a transaction of  *)
(* its own, so each action below is one SQL statement (or one call to the  *)
(* scanner) and anything may happen between two of them.                   *)
(***************************************************************************)
EXTENDS Naturals, FiniteSets

CONSTANTS
  Docs,          \* document ids
  Runs,          \* slots for concurrent invocations of the cron route
  NoClaim,       \* what a run works on when it works on nothing
  MaxAttempts,   \* SCAN_MAX_ATTEMPTS
  ClaimLimit,    \* SCAN_CRON_BATCH: jobs one claim may take
  MaxCompletes,  \* bound: upload completions of one document
  MaxAborts      \* bound: invocations that die between two statements

ASSUME LimitsAssumption ==
  /\ MaxAttempts \in Nat \ {0}
  /\ ClaimLimit \in Nat \ {0}
  /\ MaxCompletes \in Nat
  /\ MaxAborts \in Nat

VARIABLES
  docs,     \* [Docs -> DocRow]: the rows of public.docs
  jobs,     \* [Docs -> JobRow]: the job of a document (doc_id is unique)
  finish,   \* [Docs -> FinishPcs]: where the completion route of d stands
  purging,  \* documents whose job row is deleted and whose own row is next
  pc,       \* [Runs -> RunPcs]: the next statement of a cron invocation
  todo,     \* [Runs -> SUBSET Claims]: jobs claimed and not yet processed
  cur,      \* [Runs -> Claims \cup {NoClaim}]: the job in process
  verdict,  \* [Runs -> Verdicts \cup {"none"}]: its verdict
  version,  \* [Docs -> Nat]: uploads of d completed so far (history)
  cleared,  \* [Docs -> Nat]: the version last judged clean, 0 if none (history)
  aborts    \* invocations that died so far (bounded by MaxAborts)

docVars == <<docs, jobs>>
runVars == <<pc, todo, cur, verdict>>
vars == <<docs, jobs, finish, purging, pc, todo, cur, verdict, version, cleared, aborts>>

-----------------------------------------------------------------------------
(* Rows *)

DocStatuses  == {"uploading", "ready", "purged"}
ScanStatuses == {"unscanned", "pending", "clean", "quarantined", "error"}
Moderations  == {"active", "disabled", "quarantined"}
DmcaStatuses == {"none", "pending", "takedown", "restored"}
RiskLevels   == {"low", "high"}

DocRow == [status: DocStatuses, scan_status: ScanStatuses,
           moderation_status: Moderations, risk_level: RiskLevels,
           dmca_status: DmcaStatuses]

JobStatuses == {"none", "queued", "running", "clean", "infected", "error", "dead_letter"}

\* started_at is null, recent, or older than SCAN_RUNNING_TIMEOUT_MINUTES;
\* retry_due says that next_retry_at (or the computed back-off) has passed.
\* id stands for the primary key, a random uuid: the number of rows the document
\* has had so far, so that no two rows share one.
JobRow == [id: Nat, status: JobStatuses, attempts: Nat,
           started_at: {"null", "recent", "stale"}, retry_due: BOOLEAN]

FreshJob(id, status) == [id |-> id, status |-> status, attempts |-> 0,
                         started_at |-> "null", retry_due |-> FALSE]
Deleted(job) == FreshJob(job.id, "none")

FinishPcs == {"idle", "insert_job", "mark_pending"}
RunPcs    == {"idle", "heal_errors", "claim", "next", "verdict_docs", "verdict_job",
              "fail_job", "fail_docs"}
Verdicts  == {"clean", "infected"}
Claims    == [doc: Docs, id: Nat, attempt: Nat, version: Nat]

Blocked == {"disabled", "quarantined"}
RowExists(d) == docs[d].status # "purged"

(* docs_auto_quarantine_high_risk: runs before every write of risk_level   *)
(* or scan_status, and before nothing else.                                *)
AutoQuarantine(row) ==
  IF row.risk_level = "high"
    THEN [row EXCEPT !.moderation_status = "quarantined",
                     !.scan_status = IF @ = "error" THEN @ ELSE "quarantined"]
    ELSE row

\* The two writes of scan_status alone skip a row that moderation blocks.
Marked(row, status) ==
  AutoQuarantine([row EXCEPT
    !.scan_status = IF row.moderation_status \in Blocked THEN @ ELSE status])

TypeOK ==
  /\ docs \in [Docs -> DocRow]
  /\ jobs \in [Docs -> JobRow]
  /\ finish \in [Docs -> FinishPcs]
  /\ purging \subseteq Docs
  /\ pc \in [Runs -> RunPcs]
  /\ todo \in [Runs -> SUBSET Claims]
  /\ cur \in [Runs -> Claims \cup {NoClaim}]
  /\ verdict \in [Runs -> Verdicts \cup {"none"}]
  /\ version \in [Docs -> Nat]
  /\ cleared \in [Docs -> Nat]
  /\ aborts \in Nat

Init ==
  /\ docs = [d \in Docs |-> [status |-> "uploading", scan_status |-> "unscanned",
                             moderation_status |-> "active", risk_level |-> "low",
                             dmca_status |-> "none"]]
  /\ jobs = [d \in Docs |-> FreshJob(0, "none")]
  /\ finish = [d \in Docs |-> "idle"]
  /\ purging = {}
  /\ pc = [w \in Runs |-> "idle"]
  /\ todo = [w \in Runs |-> {}]
  /\ cur = [w \in Runs |-> NoClaim]
  /\ verdict = [w \in Runs |-> "none"]
  /\ version = [d \in Docs |-> 0]
  /\ cleared = [d \in Docs |-> 0]
  /\ aborts = 0

-----------------------------------------------------------------------------
(* Upload completion                                                       *)

\* Mutant of Finalized: low-risk content skips the scan.
FinalizedUnscanned(row, risk) ==
  AutoQuarantine([row EXCEPT
    !.status = "ready", !.scan_status = IF risk = "low" THEN "clean" ELSE "pending",
    !.risk_level = risk,
    !.moderation_status = IF risk = "high" THEN "quarantined"
                          ELSE IF @ = "disabled" THEN @ ELSE "active"])

\* The row after the finalizing UPDATE: new content, pending, and the risk that
\* the PDF checks found.
Finalized(row, risk) ==
  AutoQuarantine([row EXCEPT
    !.status = "ready", !.scan_status = "pending", !.risk_level = risk,
    !.moderation_status = IF risk = "high" THEN "quarantined"
                          ELSE IF @ = "disabled" THEN @ ELSE "active"])

CompleteUpload(d) ==
  /\ finish[d] = "idle"
  /\ RowExists(d)
  /\ version[d] < MaxCompletes
  /\ \E risk \in RiskLevels : docs' = [docs EXCEPT ![d] = Finalized(@, risk)]
  /\ version' = [version EXCEPT ![d] = @ + 1]
  /\ finish' = [finish EXCEPT ![d] = "insert_job"]
  /\ UNCHANGED <<jobs, purging, runVars, cleared, aborts>>

\* What the upsert of enqueueDocScan makes of the job row: a finished job is
\* queued again with its attempts and started_at; others keep their status.
Reenqueued(job) ==
  IF job.status = "none"
    THEN FreshJob(job.id + 1, "queued")
    ELSE [job EXCEPT !.status = IF @ \in {"clean", "infected", "error"} THEN "queued" ELSE @]

\* enqueueDocScan, first statement. The foreign key refuses a purged document;
\* the route swallows the error.
EnqueueInsertsJob(d) ==
  /\ finish[d] = "insert_job"
  /\ IF RowExists(d)
       THEN /\ jobs' = [jobs EXCEPT ![d] = Reenqueued(@)]
            /\ finish' = [finish EXCEPT ![d] = "mark_pending"]
       ELSE /\ finish' = [finish EXCEPT ![d] = "idle"]
            /\ UNCHANGED jobs
  /\ UNCHANGED <<docs, purging, runVars, version, cleared, aborts>>

\* enqueueDocScan, second statement: pending, unless moderation blocks the row.
EnqueueMarksPending(d) ==
  /\ finish[d] = "mark_pending"
  /\ docs' = IF RowExists(d) THEN [docs EXCEPT ![d] = Marked(@, "pending")] ELSE docs
  /\ finish' = [finish EXCEPT ![d] = "idle"]
  /\ UNCHANGED <<jobs, purging, runVars, version, cleared, aborts>>

\* The enqueue is best-effort: a statement that throws is logged and dropped.
EnqueueFails(d) ==
  /\ finish[d] # "idle"
  /\ aborts < MaxAborts
  /\ aborts' = aborts + 1
  /\ finish' = [finish EXCEPT ![d] = "idle"]
  /\ UNCHANGED <<docs, jobs, purging, runVars, version, cleared>>

-----------------------------------------------------------------------------
(* One invocation of GET /api/cron/scan                                    *)

\* Mutant of Healed: a job out of attempts is left running.
HealedNoDeadLetter(job) ==
  IF job.status = "running" /\ job.started_at = "stale" /\ job.attempts < MaxAttempts
    THEN [job EXCEPT !.status = "queued", !.started_at = "null", !.retry_due = FALSE]
    ELSE job

\* healScanQueue, first statement: a job that has been running for too long is
\* queued again, or dead-lettered when its attempts are used up.
Healed(job) ==
  IF job.status = "running" /\ job.started_at = "stale"
    THEN IF job.attempts < MaxAttempts
           THEN [job EXCEPT !.status = "queued", !.started_at = "null", !.retry_due = FALSE]
           ELSE [job EXCEPT !.status = "dead_letter", !.retry_due = FALSE]
    ELSE job

HealStaleRunning(w) ==
  /\ pc[w] = "idle"
  /\ jobs' = [d \in Docs |-> Healed(jobs[d])]
  /\ pc' = [pc EXCEPT ![w] = "heal_errors"]
  /\ UNCHANGED <<docs, finish, purging, todo, cur, verdict, version, cleared, aborts>>

\* Second statement: a failed job whose back-off has passed is queued again.
\* (The third only writes last_error, which nothing reads.)
Retried(job) ==
  IF job.status = "error" /\ job.attempts < MaxAttempts /\ job.retry_due
    THEN [job EXCEPT !.status = "queued", !.started_at = "null", !.retry_due = FALSE]
    ELSE job

HealErrors(w) ==
  /\ pc[w] = "heal_errors"
  /\ jobs' = [d \in Docs |-> Retried(jobs[d])]
  /\ pc' = [pc EXCEPT ![w] = "claim"]
  /\ UNCHANGED <<docs, finish, purging, todo, cur, verdict, version, cleared, aborts>>

Claimed(job) ==
  [job EXCEPT !.status = "running", !.attempts = @ + 1,
              !.started_at = IF @ = "null" THEN "recent" ELSE @]

\* claimQueuedJobs: up to ClaimLimit queued jobs become running in one
\* statement, each with its attempt counted. (created_at only orders the
\* choice, which the model leaves open.)
ClaimQueuedJobs(w) ==
  LET queued == {d \in Docs : jobs[d].status = "queued"} IN
  /\ pc[w] = "claim"
  /\ \E picked \in SUBSET queued :
       /\ Cardinality(picked) <= ClaimLimit
       /\ Cardinality(picked) = ClaimLimit \/ picked = queued
       /\ jobs' = [d \in Docs |-> IF d \in picked THEN Claimed(jobs[d]) ELSE jobs[d]]
       /\ todo' = [todo EXCEPT ![w] =
                     {[doc |-> d, id |-> jobs[d].id, attempt |-> jobs[d].attempts + 1,
                       version |-> 0] : d \in picked}]
       /\ pc' = [pc EXCEPT ![w] = IF picked = {} THEN "idle" ELSE "next"]
  /\ UNCHANGED <<docs, finish, purging, cur, verdict, version, cleared, aborts>>

\* scanR2Object reads the stored object of the next claimed job; an unknown
\* verdict, or an object that cannot be read, takes the failure path.
ScanR2Object(w) ==
  /\ pc[w] = "next"
  /\ \E c \in todo[w] :
       /\ cur' = [cur EXCEPT ![w] = [c EXCEPT !.version = version[c.doc]]]
       /\ todo' = [todo EXCEPT ![w] = @ \ {c}]
  /\ \E v \in Verdicts \cup {"none"} :
       /\ verdict' = [verdict EXCEPT ![w] = v]
       /\ pc' = [pc EXCEPT ![w] = IF v = "none" THEN "fail_job" ELSE "verdict_docs"]
  /\ UNCHANGED <<docs, jobs, finish, purging, version, cleared, aborts>>

\* Mutants of Judged: 'disabled' is not kept; the job's word for an infected
\* document is written to the document.
JudgedOverDisabled(row, v) ==
  AutoQuarantine([row EXCEPT
    !.scan_status = IF v = "clean" THEN "clean" ELSE "quarantined",
    !.risk_level = IF v = "clean" THEN "low" ELSE "high",
    !.moderation_status = IF v = "clean" THEN "active" ELSE "quarantined"])

JudgedInfected(row, v) ==
  [row EXCEPT !.scan_status = v,
              !.risk_level = IF v = "clean" THEN "low" ELSE "high",
              !.moderation_status = IF @ = "disabled" THEN @
                                    ELSE IF v = "clean" THEN "active" ELSE "quarantined"]

\* The row after the first statement of applyScanVerdict.
Judged(row, v) ==
  AutoQuarantine([row EXCEPT
    !.scan_status = IF v = "clean" THEN "clean" ELSE "quarantined",
    !.risk_level = IF v = "clean" THEN "low" ELSE "high",
    !.moderation_status = IF @ = "disabled" THEN @
                          ELSE IF v = "clean" THEN "active" ELSE "quarantined"])

\* applyScanVerdict, first statement: the document. Neither the job's status
\* nor its attempt is consulted.
ApplyVerdictToDoc(w) ==
  LET d == cur[w].doc IN
  /\ pc[w] = "verdict_docs"
  /\ IF RowExists(d)
       THEN /\ docs' = [docs EXCEPT ![d] = Judged(@, verdict[w])]
            /\ cleared' = [cleared EXCEPT ![d] = IF verdict[w] = "clean" THEN cur[w].version ELSE 0]
       ELSE UNCHANGED <<docs, cleared>>
  /\ pc' = [pc EXCEPT ![w] = "verdict_job"]
  /\ UNCHANGED <<jobs, finish, purging, todo, cur, verdict, version, aborts>>

\* The writes to the job select it by its id: a deleted job, and a later one of
\* the same document, are not touched.
ClaimsRow(w, job) == job.status # "none" /\ job.id = cur[w].id

\* The end of one job: on to the next, or the end of the run.
EndJob(w) ==
  /\ pc' = [pc EXCEPT ![w] = IF todo[w] = {} THEN "idle" ELSE "next"]
  /\ cur' = [cur EXCEPT ![w] = NoClaim]
  /\ verdict' = [verdict EXCEPT ![w] = "none"]

\* applyScanVerdict, second statement: the job.
ApplyVerdictToJob(w) ==
  LET d == cur[w].doc IN
  /\ pc[w] = "verdict_job"
  /\ jobs' = IF ClaimsRow(w, jobs[d]) THEN [jobs EXCEPT ![d].status = verdict[w]] ELSE jobs
  /\ EndJob(w)
  /\ UNCHANGED <<docs, finish, purging, todo, version, cleared, aborts>>

\* Either statement may throw; the route's catch then records a failed scan.
ApplyVerdictThrows(w) ==
  /\ pc[w] \in {"verdict_docs", "verdict_job"}
  /\ aborts < MaxAborts
  /\ aborts' = aborts + 1
  /\ pc' = [pc EXCEPT ![w] = "fail_job"]
  /\ UNCHANGED <<docs, jobs, finish, purging, todo, cur, verdict, version, cleared>>

\* Mutant of OutOfAttempts: off by one.
OutOfAttemptsEarly(w) == cur[w].attempt + 1 >= MaxAttempts

\* markScanFailure decides by the attempt of the claim, not by the row's.
OutOfAttempts(w) == cur[w].attempt >= MaxAttempts

\* Mutant of MarkScanFailure: the document is not told of a dead letter.
MarkJobFailureOnly(w) ==
  LET d == cur[w].doc IN
  /\ pc[w] = "fail_job"
  /\ jobs' = IF ClaimsRow(w, jobs[d])
               THEN [jobs EXCEPT ![d] =
                       [@ EXCEPT !.status = IF OutOfAttempts(w) THEN "dead_letter" ELSE "error",
                                 !.retry_due = FALSE]]
               ELSE jobs
  /\ EndJob(w)
  /\ UNCHANGED <<docs, finish, purging, todo, version, cleared, aborts>>

\* markScanFailure, first statement: the job.
MarkScanFailure(w) ==
  LET d == cur[w].doc IN
  /\ pc[w] = "fail_job"
  /\ jobs' = IF ClaimsRow(w, jobs[d])
               THEN [jobs EXCEPT ![d] =
                       [@ EXCEPT !.status = IF OutOfAttempts(w) THEN "dead_letter" ELSE "error",
                                 !.retry_due = FALSE]]
               ELSE jobs
  /\ IF OutOfAttempts(w)
       THEN pc' = [pc EXCEPT ![w] = "fail_docs"] /\ UNCHANGED <<cur, verdict>>
       ELSE EndJob(w)
  /\ UNCHANGED <<docs, finish, purging, todo, version, cleared, aborts>>

\* markScanFailure, second statement, for a dead letter only.
MarkDocFailed(w) ==
  LET d == cur[w].doc IN
  /\ pc[w] = "fail_docs"
  /\ docs' = IF RowExists(d) THEN [docs EXCEPT ![d] = Marked(@, "error")] ELSE docs
  /\ EndJob(w)
  /\ UNCHANGED <<jobs, finish, purging, todo, version, cleared, aborts>>

\* The invocation dies: the platform stops it after its response (a route
\* timeout answers 504 and leaves the work to run on or be stopped), or a
\* statement outside the per-job catch throws. Its claims stay running.
RunAborts(w) ==
  /\ pc[w] # "idle"
  /\ aborts < MaxAborts
  /\ aborts' = aborts + 1
  /\ pc' = [pc EXCEPT ![w] = "idle"]
  /\ todo' = [todo EXCEPT ![w] = {}]
  /\ cur' = [cur EXCEPT ![w] = NoClaim]
  /\ verdict' = [verdict EXCEPT ![w] = "none"]
  /\ UNCHANGED <<docs, jobs, finish, purging, version, cleared>>

-----------------------------------------------------------------------------
(* Time                                                                    *)

\* SCAN_RUNNING_TIMEOUT_MINUTES pass since started_at.
StartedAtGrowsStale(d) ==
  /\ jobs[d].started_at = "recent"
  /\ jobs' = [jobs EXCEPT ![d].started_at = "stale"]
  /\ UNCHANGED <<docs, finish, purging, runVars, version, cleared, aborts>>

\* The back-off of a failed job passes.
RetryFallsDue(d) ==
  /\ jobs[d].status = "error"
  /\ ~jobs[d].retry_due
  /\ jobs' = [jobs EXCEPT ![d].retry_due = TRUE]
  /\ UNCHANGED <<docs, finish, purging, runVars, version, cleared, aborts>>

-----------------------------------------------------------------------------
(* People: moderation and deletion                                         *)

\* Writes of moderation_status alone do not fire the trigger.
Moderate(d, row) ==
  /\ RowExists(d)
  /\ docs' = [docs EXCEPT ![d] = row]
  /\ UNCHANGED <<jobs, finish, purging, runVars, version, cleared, aborts>>

\* The abuse route's disable_doc.
DisableDoc(d) == Moderate(d, [docs[d] EXCEPT !.moderation_status = "disabled"])

\* POST /api/v1/takedown: a notice disables the document pending review.
SubmitTakedownNotice(d) ==
  Moderate(d, [docs[d] EXCEPT !.moderation_status = "disabled", !.dmca_status = "pending"])

\* The owner's takedown_doc.
TakedownDoc(d) ==
  Moderate(d, [docs[d] EXCEPT !.moderation_status = "disabled", !.dmca_status = "takedown"])

\* Mutant of RestoreDoc: the risk level is not consulted.
RestoreDocUnchecked(d) ==
  Moderate(d, [docs[d] EXCEPT !.dmca_status = "restored", !.moderation_status = "active"])

\* The owner's restore_doc.
RestoreDoc(d) ==
  Moderate(d, [docs[d] EXCEPT !.dmca_status = "restored",
                              !.moderation_status = IF docs[d].risk_level = "high"
                                                      THEN "quarantined" ELSE "active"])

\* purgeDocGraphRows deletes the job row, then the document; the foreign key
\* deletes a job inserted in between with it.
PurgeJobRow(d) ==
  /\ RowExists(d)
  /\ d \notin purging
  /\ purging' = purging \cup {d}
  /\ jobs' = [jobs EXCEPT ![d] = Deleted(@)]
  /\ UNCHANGED <<docs, finish, runVars, version, cleared, aborts>>

PurgeDocRow(d) ==
  /\ d \in purging
  /\ purging' = purging \ {d}
  /\ docs' = [docs EXCEPT ![d].status = "purged"]
  /\ jobs' = [jobs EXCEPT ![d] = Deleted(@)]
  /\ UNCHANGED <<finish, runVars, version, cleared, aborts>>

-----------------------------------------------------------------------------

EnqueueStep(d) == EnqueueInsertsJob(d) \/ EnqueueMarksPending(d)

RunStep(w) ==
  \/ HealStaleRunning(w)
  \/ HealErrors(w)
  \/ ClaimQueuedJobs(w)
  \/ ScanR2Object(w)
  \/ ApplyVerdictToDoc(w)
  \/ ApplyVerdictToJob(w)
  \/ MarkScanFailure(w)
  \/ MarkDocFailed(w)

\* What happens by itself once documents are uploaded.
PipelineNext ==
  \/ \E d \in Docs :
       \/ CompleteUpload(d)
       \/ EnqueueStep(d)
       \/ EnqueueFails(d)
       \/ StartedAtGrowsStale(d)
       \/ RetryFallsDue(d)
  \/ \E w \in Runs :
       \/ RunStep(w)
       \/ ApplyVerdictThrows(w)
       \/ RunAborts(w)

PeopleNext ==
  \E d \in Docs :
    \/ DisableDoc(d)
    \/ SubmitTakedownNotice(d)
    \/ TakedownDoc(d)
    \/ RestoreDoc(d)
    \/ PurgeJobRow(d)
    \/ PurgeDocRow(d)

Next == PipelineNext \/ PeopleNext

Spec == Init /\ [][Next]_vars

(***************************************************************************)
(* The worker in cloudflare/cron-scan calls the route every ten minutes,   *)
(* so a run that is not aborted takes its next step and a new one follows; *)
(* a completion that is not interrupted goes on; time passes. Nothing is   *)
(* assumed of people, and only MaxAborts invocations die.                  *)
(***************************************************************************)
Fairness ==
  /\ \A w \in Runs : WF_vars(RunStep(w))
  /\ \A d \in Docs : /\ WF_vars(EnqueueStep(d))
                     /\ WF_vars(StartedAtGrowsStale(d))
                     /\ WF_vars(RetryFallsDue(d))

FairSpec == Spec /\ Fairness

-----------------------------------------------------------------------------
(* Properties                                                              *)

\* What GET /t/[ticketId] checks of the row before it reads the object.
Servable(d) ==
  /\ RowExists(d)
  /\ docs[d].moderation_status \notin Blocked
  /\ docs[d].scan_status = "clean"

(* Whatever the interleaving of verdicts, takedowns, restorations and      *)
(* completions, a row whose risk_level is high is blocked by moderation:    *)
(* the trigger and the CASE of restore_doc together leave no gap.          *)
HighRiskIsBlocked ==
  \A d \in Docs : docs[d].risk_level = "high" => docs[d].moderation_status \in Blocked

(* The "critical invariant" of the ticket route: what it serves is a        *)
(* document whose current content a scanner run judged clean. (Completed a  *)
(* second time while a run holds the first content, a document gets that    *)
(* run's verdict; the claim is for documents completed once.)               *)
ServableContentWasScanned ==
  \A d \in Docs : Servable(d) /\ version[d] <= 1 => cleared[d] = version[d]

(* A job is given up only when its row has counted MaxAttempts claims, even *)
(* if a run that claimed it long ago reports its failure late.              *)
DeadLetterAfterMaxAttempts ==
  \A d \in Docs : jobs[d].status = "dead_letter" => jobs[d].attempts >= MaxAttempts

(* healScanQueue finds an abandoned job by comparing started_at, which a   *)
(* null never satisfies: no running job may be without one.                *)
RunningJobsAreTimed ==
  \A d \in Docs : jobs[d].status = "running" => jobs[d].started_at # "null"

(* The scanner is called at most MaxAttempts times for an upload, plus once *)
(* for every further completion: no sequence of stale runs, late failures   *)
(* and retries lets a job slip past its limit.                             *)
AttemptsBounded ==
  \A d \in Docs : jobs[d].status # "none" => jobs[d].attempts <= MaxAttempts + version[d] - 1

(* A job gets the attempts it is due: not more, and no fewer before it is   *)
(* given up.                                                               *)
AttemptsAreAccounted == AttemptsBounded /\ DeadLetterAfterMaxAttempts

(* A document that people disabled is not made active again by the scanner  *)
(* or by a completion in one step: only restore_doc does that.              *)
DisabledNeedsOwner ==
  [][\A d \in Docs :
       /\ docs[d].moderation_status = "disabled"
       /\ docs'[d].moderation_status = "active"
       => docs'[d].dmca_status = "restored" /\ UNCHANGED <<pc, finish>>]_vars

(* What a run still means to do never outcounts the row it was claimed      *)
(* from: the row of a held claim is the same one with at least as many      *)
(* attempts, or a later one, or gone. The writes by id rest on this.        *)
Processing == {"verdict_docs", "verdict_job", "fail_job", "fail_docs"}

HeldClaims(w) == todo[w] \cup (IF pc[w] \in Processing THEN {cur[w]} ELSE {})

ClaimsTrailTheirJob ==
  \A w \in Runs : \A c \in HeldClaims(w) :
    /\ c.id <= jobs[c.doc].id
    /\ c.id = jobs[c.doc].id /\ jobs[c.doc].status # "none" => c.attempt <= jobs[c.doc].attempts

(* A document awaits its scan: what it offers cannot be opened before.      *)
Awaits(d) ==
  /\ RowExists(d) /\ docs[d].scan_status = "pending"
  /\ docs[d].moderation_status \notin Blocked

(* Somebody will still come to it: a completion that goes on to enqueue it,  *)
(* the queue, a run that has its verdict or its failure to write to it.      *)
Live(job) ==
  \/ job.status \in {"queued", "running"}
  \/ job.status = "error" /\ job.attempts < MaxAttempts

InHand(w, d) ==
  \/ \E c \in todo[w] : c.doc = d
  \/ pc[w] \in Processing \ {"verdict_job"} /\ cur[w].doc = d

Tended(d) ==
  \/ Live(jobs[d]) \/ finish[d] = "insert_job" \/ d \in purging
  \/ \E w \in Runs : InHand(w, d)

Forgotten(d) == Awaits(d) /\ ~Tended(d)

(* The steps that may leave a document waiting for ever are these, however  *)
(* runs, completions and people interleave: the enqueue writes "pending"     *)
(* when the scan is over; it meets a dead letter, which it does not queue    *)
(* again; a verdict goes to the job when the document waits for another; a   *)
(* run reports a failure late, on a job that was claimed again; the heal     *)
(* step, and no run that reports, gives a job up and tells nobody else;      *)
(* restore_doc releases a document whose job is over; something dies.        *)
Leaves(w, where, d) == pc[w] = where /\ pc'[w] # where /\ cur[w].doc = d

MayForget(d) ==
  \/ finish[d] = "mark_pending" /\ finish'[d] = "idle"
  \/ finish[d] = "insert_job" /\ finish'[d] = "mark_pending" /\ jobs[d].status = "dead_letter"
  \/ \E w \in Runs : Leaves(w, "verdict_job", d)
  \/ \E w \in Runs : Leaves(w, "fail_job", d) /\ cur[w].attempt < jobs[d].attempts
  \/ /\ jobs[d].status = "running" /\ jobs'[d].status = "dead_letter"
     /\ ~\E w \in Runs : Leaves(w, "fail_job", d)
  \/ docs[d].moderation_status \in Blocked /\ docs'[d].dmca_status = "restored"
  \/ aborts' > aborts

ScansAreNotForgotten ==
  [][\A d \in Docs : ~Forgotten(d) /\ Forgotten(d)' => MayForget(d)]_vars

(* With a cron that keeps running, every job reaches a state in which the   *)
(* queue has nothing more to do with it, however runs stall and die.        *)
Settled(d) ==
  \/ jobs[d].status \in {"none", "clean", "infected", "dead_letter"}
  \/ jobs[d].status = "error" /\ jobs[d].attempts >= MaxAttempts

ScanJobsSettle == <>[](\A d \in Docs : Settled(d))
=============================================================================
