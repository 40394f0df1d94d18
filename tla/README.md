# DocLinks: TLA+ verification project

DocLinks lets people upload documents, scans them for malware, encrypts them and
shares them by link. It is a Next.js application on serverless functions, with a
Postgres database reached over HTTP (`src/src/lib/db.ts`), an object store (R2), a
malware scanner reached over HTTP, Stripe, and a Cloudflare worker that calls the
cron routes. Nothing is kept in memory that matters: every component's state is rows
and objects, and **every SQL statement is a transaction of its own**. What is hard
in this code is therefore what happens *between* two statements: another request, a
cron run, a crash, a timeout that answers 504 and lets the work run on.

Paths below are relative to the repository.

## Inventory

| Component | State | Operations | Hard because | Modelled |
|---|---|---|---|---|
| Malware-scan pipeline (`src/lib/scanQueue.ts`, `src/app/api/cron/scan`, trigger in `scripts/sql/malware_scanning.sql`) | `docs.scan_status/risk_level/moderation_status`, `malware_scan_jobs` | enqueue, heal, claim, scan, apply verdict, mark failure | overlapping runs, crashes between statements, stale verdicts, retries | `ScanPipeline` |
| Moderation and takedown (`api/admin/abuse`, `api/admin/dmca`, `api/v1/takedown`) | `docs.moderation_status`, `docs.dmca_status` | disable, notice, takedown, restore | share columns with the scanner and the trigger | `ScanPipeline` |
| Deletion (`admin/actions.ts`) | rows of one document | delete object, purge unlocks, shares, job, document | a completion, a run or a view may be under way | `ScanPipeline`, `UploadPipeline`, `ShareAccess`; what it records in `AuditChain` |
| Re-queue (`api/admin/security/requeue-scans`) | `malware_scan_jobs`, `docs.scan_status` | reset finished and long-running jobs, mark pending | two statements; a late failure undoes the reset | no |
| Upload (`api/admin/upload/*`) | `docs.status`, the R2 object | presign, PUT, complete, abort | retries, concurrent completions, rejects that delete, 504s while the work runs on | `UploadPipeline`; finalizing UPDATE and enqueue in `ScanPipeline` |
| Retention and orphan sweep (`lib/retention.ts`) | R2 objects, expired rows | list, select live, delete | races with uploads | sweep in `UploadPipeline`; expired rows not |
| Share links (`lib/resolveDoc.ts`, `app/s/[token]`, `admin/actions.ts`) | `share_tokens`, `share_unlocks` | create, unlock, view, revoke, extend, limit, reset, password, expire | checks made long before the UPDATE that counts, lost replies, password changes | `ShareAccess`, `ShareContract` |
| Access tickets (`lib/accessTicket.ts`, `app/t/[ticketId]`) | `access_tickets` | mint, consume, replay | single use; the document changes between minting, gate, key and object | `ShareAccess` |
| Keys (`lib/masterKeys.ts`, `lib/keyRotationJobs.ts`, `lib/keyRotation.ts`) | `master_key_settings`, `master_key_revocations`, `key_rotation_jobs`, wrapped keys in `docs` | activate, revoke, enqueue, claim, rewrap, report | rows written back without a condition, two invocations on one job, a key revoked under way | `KeyRotation` |
| Stripe billing (`lib/billingSubscription.ts`, `api/stripe/webhook`, `api/cron/billing-sync`) | `billing_webhook_events`, `billing_subscriptions`, `users.plan_id` | receive, apply, sync, maintain | repeated and reordered events, failed statements with a fallback, overlapping syncs | `StripeBilling` |
| Outgoing webhooks (`lib/webhooks.ts`) | `webhooks`, `webhook_deliveries` | emit, select, send, record | row locks that end with the select, outcomes written back without a condition | `WebhookDelivery` |
| Plan limits (`lib/monetization.ts`, `lib/viewLimitOverride.ts`) | `user_usage_monthly`, active shares, plan caches of each process | look up, compare, count | check, then act; stale caches; fallbacks | `PlanLimits` |
| Audit chain (`lib/immutableAudit.ts`) | `immutable_audit_log`, one chain per stream | read the head, insert | no lock between the two; errors swallowed, or thrown after the deed | `AuditChain`, `AuditLedger` |
| Rate limits (`lib/rateLimit.ts`) | counters | count | little | no |
| Accounts, MFA, organisations, nightly reports, UI | rows | CRUD | little | no: single statements, pure I/O, rendering |

The components meet in the rows of `docs`: the upload route writes content, risk and
`pending`; the scanner writes the verdict; people write moderation; the trigger
rewrites what any of them wrote; the share and ticket routes read the result.

What makes each correct:

* pipeline: what is served was judged clean in its present form; every job ends;
  a job is given up only after its attempts; no document waits for ever;
* moderation: what people or a high risk blocked stays blocked until released;
* upload: a `ready` document has the object its key opens; what opens was checked;
  an upload that was confirmed stays; what nobody owns is swept, and nothing else;
* shares and tickets: a view is counted only while the link is open and below its
  limit; a counted view buys at most one response; what is sent was servable during
  the exchange; a password is asked for; a revoked link stays revoked;
* keys: a document keeps the data key of its object through any rotation; a job says
  `completed` only when its old key was empty; nothing new comes under a revoked key
  but what was under way;
* billing: an event is applied once, and not answered 2xx unless it was; a row shows
  the newest event; every user's plan converges to the rows;
* webhooks: every event is queued or sent for every webhook; every delivery ends, and
  its status is earned;
* limits: usage stays within the plan up to a bound that can be stated;
* audit chain: a stream has no fork and no gap; a deletion and its record agree.

## Modules

| Module | What it is |
|---|---|
| `ScanPipeline` | rows of `docs` and `malware_scan_jobs`, completions, cron runs, people; properties |
| `ScanPipeline_proofs` | theorems about it, checked by TLAPS |
| `UploadPipeline` | rows of `docs`, objects in R2, upload requests, owner, orphan sweep; properties |
| `UploadPipeline_proofs` | theorems about it, checked by TLAPS |
| `ShareContract` | what a share link promises its owner, without requests and tickets |
| `ShareAccess` | share, unlock and ticket rows, visits, ticket requests, owners, cron; properties; the refinement mapping |
| `ShareAccess_proofs` | theorems about it, checked by TLAPS |
| `KeyRotation` | master keys, data keys of documents, rotation jobs and the workers on them; properties |
| `StripeBilling` | event log, subscription rows, plans, deliveries of events, maintenance; properties |
| `WebhookDelivery` | webhooks, delivery rows, emissions, invocations of the queue; properties |
| `PlanLimits` | counters of one user, plan caches, requests; properties |
| `AuditLedger` | what the audit log promises the owner of a document, without rows, hashes and requests |
| `AuditChain` | documents, their streams of the audit log, requests that append, deletions; properties; the refinement mapping |
| `KeyRotation_proofs`, `StripeBilling_proofs`, `WebhookDelivery_proofs`, `PlanLimits_proofs`, `AuditChain_proofs` | theorems about them, checked by TLAPS |
| `MCScanPipeline`, `MCUploadPipeline`, `MCShareAccess`, `MCKeyRotation`, `MCStripeBilling`, `MCWebhookDelivery`, `MCPlanLimits`, `MCAuditChain` | model values, small instances and symmetry for TLC |

The modules do not share variables: each has the columns its component writes, and
what others do to them as free choices (the upload in `KeyRotation` is the part of a
completion that touches keys, the plan in `ShareAccess` is any answer). A definition
introduced by "Mutant of" is not part of a specification: it is what a plausible bug
would make of the definition after it, kept to show that a property notices.

### ScanPipeline

State. `docs[d]` and `jobs[d]` are the rows (one job per document: `doc_id` is unique).
Times are abstracted to what the code compares: `started_at` is null, recent or older
than the running timeout; `retry_due` says that `next_retry_at` or the computed back-off
has passed. The uuid of a job becomes a number that grows with every row. Risk `medium`
is treated like `low`, as every comparison in the code does. `finish[d]` is the program
counter of a completion route between its finalizing UPDATE and the end of its enqueue;
`pc`, `todo`, `cur`, `verdict` are the program counter and locals of a cron invocation.
`version` and `cleared` are history: which upload the content is from, and which one was
judged clean last. `aborts` counts invocations that died.

Actions. One per statement:

| Action | Code |
|---|---|
| `CompleteUpload` | the UPDATE of `upload/complete/route.ts` with the risk the PDF checks found |
| `EnqueueInsertsJob`, `EnqueueMarksPending`, `EnqueueFails` | the two statements of `enqueueDocScan`, and its best-effort catch |
| `HealStaleRunning`, `HealErrors` | the statements of `healScanQueue` (the third writes only `last_error`) |
| `ClaimQueuedJobs` | `claimQueuedJobs`, one statement with `for update skip locked` |
| `ScanR2Object` | `scanR2Object`: clean, infected, or no verdict |
| `ApplyVerdictToDoc`, `ApplyVerdictToJob`, `ApplyVerdictThrows` | `applyScanVerdict` and the catch of the loop |
| `MarkScanFailure`, `MarkDocFailed` | the two statements of `markScanFailure` |
| `RunAborts` | the invocation dies, at any statement |
| `StartedAtGrowsStale`, `RetryFallsDue` | time passes |
| `DisableDoc`, `SubmitTakedownNotice`, `TakedownDoc`, `RestoreDoc` | the moderation routes |
| `PurgeJobRow`, `PurgeDocRow` | the two deletes of `purgeDocGraphRows` on these tables (the foreign key cascades) |

The trigger is the operator `AutoQuarantine`, applied by every statement that writes
`risk_level` or `scan_status`, and by no other. A statement that throws has not run; a
statement whose answer is lost is one that runs and is followed by an abort.

### UploadPipeline

State. `docs[d]` is the row: its status and the data key that is wrapped in it. A data
key is named by the completion that generated it, since each generates its own.
`object[d]` is what R2 holds under the row's key: nothing, a plain upload, or a
ciphertext of some content under some key. Contents are `good`, `infected` (passes the
type and PDF checks, and a scanner knows its signature) or `bad` (does not pass).
`url` and `puts` are the presigned URL and its use; `pc`, `target`, `bytes` are a
completion's program counter, its document and `uploadedBytes`; `apc`, `spc`, `listed`,
`orphans` those of an abort and of a sweep. `gaveUp[c]` says that the client of `c`
was answered 504 by `withRouteTimeout`, which lets the work run on. `doomed` is history:
documents whose owner has begun to delete them. `deaths` counts killed requests.

| Action | Code |
|---|---|
| `Presign`, `PutObject`, `UrlExpires` | `upload/presign` (row first, then URL); the browser's PUT; the URL's life time |
| `CompleteStarts` ... `CreateAlias` | the awaits of `upload/complete`, in order: row, verify, HEAD, GET and checks, encrypt and PUT, UPDATE, alias |
| `CleanupRejectedObject` | the DELETE of the reject paths |
| `RouteTimeout`, `CompletionDies` | the 504; a killed function or a throwing statement |
| `AbortSelects`, `AbortDeletesObject`, `AbortDeletesRow`, `AbortDies` | the statements of `upload/abort` |
| `DeleteDocObject`, `DeleteDocRow` | `deleteDocAction` |
| `SweepLists`, `SweepSelects`, `SweepDeletes`, `SweepDies` | `auditR2OrphanedObjects` |
| `ScanObject` | `scanR2Object`: what bytes the scanner is handed |

The client is the one of `UploadPanel.tsx:439-535`: it completes after a PUT, and asks
for one abort when it was told that something failed; it may also retry, up to
`MaxCompletes` and `MaxPuts` times. `Impatient` switches on the 504 to a request that
runs on. The scanner is outside the repository: it finds a signature
only in the bytes it gets. The sweep is modelled with `RETENTION_DELETE_R2_ORPHANS` set,
as `.env.example:160` sets it (the code's default only reports).

`ScanPipeline` abstracts from this module: a completion there is the finalizing UPDATE
with its enqueue, and a verdict is whatever the scanner answered. The two meet in the
`ready` row. `ScanObject` shows what a verdict is worth: as the code stands it is a
verdict on a ciphertext.

### ShareAccess and ShareContract

State. `share[s]` and `unlocks[s]` are the row of a link of one document and the live
rows of `share_unlocks` under its token; times are what the code compares (`expired` says
that `expires_at` has passed; one that is null never does). `doc` is the document's row as these routes see it: `cleared` stands for
"moderation active and scan clean" (`ScanPipeline` has how it comes and goes) and
`upload` numbers its completed uploads, each with a key of its own; `object` is the
upload whose key opens what R2 holds, `uploading` those whose row is still to be written. `visit[v]` is the next statement of a browser that
follows a link, `ticket[v]` the ticket minted for it, `tap[x]` a request to
`/t/[ticketId]` with its locals. `counted`, `responses`, `wasOpen`, `servable` and
`replaced` are history, read by properties only.

| Action | Code |
|---|---|
| `VerifyReads`, `VerifyInserts` | `verifySharePasswordCoreWithDeps`: the row and the comparison; the insert of the unlock |
| `UnlockExpires`, `TicketLapses`, `ShareExpires` | time passes a column that is compared with `now()` |
| `RawReads`, `RawChecksUnlock` | the select of `GET /s/[token]/raw` with its gates; `isUnlocked` |
| `RawConsumes`, `RawLosesReply` | `consumeShareTokenView`; its UPDATE commits and the reply is lost |
| `RawAsksPlan`, `RawMints`, `RawFails` | `assertCanServeView` (any answer); `mintAccessTicket`; every error |
| `TapConsumes` | `consumeAccessTicket`, with the replay of a used ticket where it is enabled |
| `TapGate`, `TapReadsKeys`, `TapServes`, `TapRefused` | the awaits of `getTicket`, in order; every refusal and error |
| `RevokeShare` ... `ClearPassword`, `DeleteUnlocks` | the owner's actions on a link, moderators' revocations |
| `RevokeExpired`, `DeleteExpired` | the nightly batch and the retention job, on any set of expired links |
| `Review`, `UploadOverwrites`, `UploadFinalizes` | verdicts and moderation; a further completion's PUT and UPDATE |
| `PurgeObject` ... `PurgeRow` | `deleteDocAction`, table by table |

Links that a bulk action revokes are revoked by one `RevokeShare` each. A visit is one
request; one that is refused before it is counted may come again. The recipient's
e-mail, geo rules, rate limits and the client's IP only refuse: they are the freedom of
every action not to happen. `/serve/[docId]` and the aliases of a document mint tickets
without counting a view of a share; `OneResponsePerView` is about tickets of the raw
route. The schema of `share_unlocks` is not in `scripts/sql`: that its rows survive a
deleted link is what the deletes of `purgeDocGraphRows` suggest, and no property needs it.

`ShareContract` has one grant per visit (none, held, used) and a standing per link (open,
lapsed, closed). `ShareAccess` implements it by the mapping at the end of the module:
`views` and `limit` are the columns, `standing` is read off `revoked_at`, `expires_at` and
the row's existence, `grant` off `counted` and `responses`. So a view is counted only at a
moment when the link is open and below its limit (not when the row was read), nothing
opens a closed link again, and every request, retry or refusal in between is a stutter.

### KeyRotation

State. `docs[d]` is the pair of `enc_key_version` and the data key that is wrapped in the
row; a data key is the number of the completion that generated it, and `object[d]` is
the one the object in R2 is encrypted with. `dbActive`, `revoked` are the two tables of
master keys; `wish` is what `setActiveMasterKey` has checked and not yet written. `busy`,
`ukey`, `tries` are completions between the PUT of the ciphertext and the UPDATE.
`jobs[j]` is a row of `key_rotation_jobs`; `pc`, `task` are the program counter and locals
of an invocation: the rows still to rewrap **with the data keys it read in them**, and
the count it read with the job. `missed`, `work`, `excused` are history.

| Action | Code |
|---|---|
| `CheckActivation`, `WriteActivation`, `RevokeMasterKey` | `setActiveMasterKey` (reads, then upsert), `revokeMasterKey` |
| `EncryptAndPut`, `FinalizeUpload`, `UploadDies` | `upload/complete`: choice of the key and PUT; UPDATE; failure |
| `EnqueueKeyRotationJob`, `ClaimNextKeyRotationJob` | the functions of these names; the row lock of the claim ends with its request |
| `RotateDirectly` | `runAutomatedKeyRotation`, the rotate route with `async_job` false |
| `LoadBatch`, `KeyRefused` | `rotateDocKeys` up to its loop: both keys usable, the batch by `created_at desc` |
| `Rewrap`, `RewrapFails` | one row of the loop; its catch |
| `CountRemaining`, `ReportBatch`, `ReportFailure`, `RotationThrows` | the count; the UPDATEs of `processKeyRotationJobs`; the throw between them |
| `WorkerDies` | the invocation is killed |

`isMasterKeyRevoked` and the completion's look-up fail open: a check whose statement
throws lets the key pass (a `Fault` in `LoadBatch` and `EncryptAndPut`).

### StripeBilling

State. `log[e]` is the row of `billing_webhook_events`, `subs[s]` that of
`billing_subscriptions` with the clock of the last event applied; `newest[u]` holds the
rows with the latest `updated_at` of a user, which is what the plan is read from, and
several when one statement wrote them. `pc`, `work` are a delivery's, `mpc`, `mwork`,
`cursor` those of the maintenance run. `acked` is what Stripe got a 2xx for. An event is
`customer.subscription.*` with the status it brings or `invoice.payment_*`; `At` is the
second Stripe created it in, and two events may have the same.

| Action | Code |
|---|---|
| `ReceiveNew`, `ReceiveDuplicate` | `beginWebhookEvent`: the insert, or the UPDATE to `ignored` on a conflict |
| `ReceiveUnsure`, `ReceiveConfused` | both inserts throw; the first commits and its reply is lost |
| `Apply`, `ApplyUnguarded`, `ApplyFails` | the upserts with the guard on `last_event_created`; the fallback in the catch without it; both throw |
| `Link` | `update users set stripe_customer_id`, whose error is swallowed |
| `SyncRead`, `SyncWrite`, `SyncFails` | `syncUserPlanFromSubscription` |
| `CompleteWebhookEvent`, `HandlerDies` | the log's outcome and the answer; the function is killed |
| `GraceLapses`, `ExpireGrace`, `PickUsers`, `MaintRead`, `MaintWrite`, `MaintEnds`, `MaintDies` | time; `runBillingMaintenance`: grace, batch behind the cursor with its wrap-around, one sync per user, the cursor |

A delivery that Stripe repeats may come while the first is at work, after it failed, or
after it was killed.

### WebhookDelivery

State. `hook[h]` is a webhook of one owner, `row[d]` a delivery (of an event, or of a
press of the test button, for a webhook): its status, `attempt_count`, and whether
`next_attempt_at` has passed. `emit[e]` is `emitWebhook` for an event. `batch`, `read`,
`current`, `accepted` are an invocation's locals: what it selected, the counts it read
then, the delivery at hand, whether it was answered 2xx. `Cron` is the cron's invocation
(they do not overlap: `cron-scan` calls every ten minutes and the route has a shorter
limit), each test press starts one that does.

| Action | Code |
|---|---|
| `CreateWebhook`, `UpdateWebhook`, `DeleteWebhook`, `TestWebhook` | the owner's actions; the foreign key takes the deliveries along |
| `EmitWebhook`, `InsertDelivery`, `InsertFails`, `ListAgain`, `SendDirectly`, `EmissionFails` | `emitWebhook`, one insert per webhook; the fallback `deliverSyncBestEffort`, which reads the webhooks again |
| `SelectDue`, `NothingDue` | the select of `processWebhookDeliveries`, with the locks of this moment only |
| `MarkDelivering`, `DeliverOnce`, `RecordOutcome` | the UPDATE without a condition, the POST, the outcome with the count read at first |
| `BackoffEnds`, `InvocationEnds` | time; a death or a throw, before or after the outcome was written |

### PlanLimits

State. `tier` is what the database says of one user, `override` an unexpired row of
`owner_view_limit_overrides`; `cache` and `load` are `planCache` and `planInFlight` of each
process; `views` and `active` the two counters, `lapsed` the shares that have expired and
that nobody revoked; `pc`, `server`, `known` a request's place, process and what it was
told. Two are history: `freeViews` says that no view of the month was let through without a
limit, and `unchecked` counts the active shares that were compared with no limit since
there was room below it: created while the owner had none, or brought back by an extension.

| Action | Code |
|---|---|
| `ChangeTier`, `ChangeOverride`, `NewMonth`, `ShareExpires`, `CacheExpires` | billing, admins and time |
| `ShareRevoked`, `LapsedRevoked` | the UPDATEs of `revoked_at`, which nothing resets, and the deletes; for expired shares the nightly batch and retention as well |
| `ShareExtended` | `extendShareExpirationAction`, or one share of `bulkExtendSharesAction`: an expired share counts again, without a comparison |
| `UseCached`, `LoadPlan`, `PlanLoaded` | `getPlanForUser`: the cache, the shared load, its result, or when it throws Free, or what the environment's flags make of it |
| `Request`, `CheckOverride`, `CompareViews`, `CountView`, `CountFails` | `assertCanServeView`, then `incrementMonthlyViews` |
| `CompareShares`, `CreateShare`, `RequestDies` | `assertCanCreateShare`, then the insert; every other end |

The cache of the billing flags and that of plans are one cache here, with one life time.
A statement about several shares is several steps.
Storage and daily uploads are compared the same way and are not modelled.

### AuditChain

State. `docs` are the documents that have a row, `log[d]` the rows of the stream
`doc:<id>`; a hash is a number that no other append has, as it covers the number, the
time and the payload of the entry. `pc` and `task` are a request's place and the head it read. `told`
and `passed` are history: deletions that failed after their purge, and who knows.

| Action | Code |
|---|---|
| `Touch` | a view, a decryption, a share, a moderation is about to append (`logDocAccess` and the routes) |
| `ReadHead`, `Insert`, `InsertRefused` | the select and the insert of `appendImmutableAudit`; `unique (stream_key, seq)` |
| `AppendFails` | a statement throws, or the reply to the insert is lost |
| `StartDelete`, `PurgeDocRow`, `PurgeFails` | `deleteDocAction` and an item of `bulkDeleteDocsAction` |
| `RequestDies` | the function is killed |

`Throws` is what becomes of an error: `deleteDocAction` appends with `strict` and shows it,
the bulk action catches it and goes on, everybody else swallows it
(`IMMUTABLE_AUDIT_STRICT=0`, as in `.env.example:293`).

`AuditLedger` has the documents that are there and for each a sequence of what was done to
it. `AuditChain` implements it by the mapping at the end of the module: `stored` is `docs`,
and the ledger of a document is its stream read in the order of `seq`. So whatever the
requests that append at the same time read before, fail at or lose the reply of, a step
leaves a ledger as it was or puts one record at its end, a deletion is put there only when
the document has gone, and the action of the document's page puts its own there once.

## Runs

| Run | Instance | Question | Result |
|---|---|---|---|
| `scan_safety` | 1 document, 2 completions, 2 cron runs, 2 attempts, 1 abort, everybody acting | types, blocking, "served means scanned", who may re-activate, attempts and dead letters with stale runs; which steps can leave a document waiting for a scan nobody will do | holds |
| `scan_liveness` | 2 runs, 1 abort, fair | every job settles | holds |
| `upload_safety` | 1 document, 2 completions, 2 PUTs, 504s, 1 abort, 1 sweep, 1 death | types; what orderly clients finished opens; what opens was checked; confirmed uploads stay; the sweep spares the living | holds |
| `upload_sweep` | 2 documents, 1 completion, 1 abort, fair sweep | every orphan is removed | holds |
| `upload_ciphertext_scan` | 1 completion | EICAR is found (scanner guide) | violated |
| `share_access` | 1 link, 2 visits (one knows the password), 2 ticket requests, limits none and 1, 2 acts of owners, no replay | types; one response per counted view; what is sent was servable; passwords; the contract | holds |
| `key_rotation` | 1 document, 2 keys, rotation either way, 2 invocations, 1 job, 1 direct rotation, 2 faults, fair | types; no data key is lost; jobs report truly (`completed` means swept; counts); revoked keys; a queued job ends | holds |
| `billing` | 1 customer with 2 subscriptions, 3 events, 2 deliveries at once, 1 repeat, 1 fault | types; events are applied once, and acknowledged ones are; rows show the newest event | holds |
| `billing_converges` | 2 users, 3 events, maintenance by batches of 1, 1 fault, fair | every plan converges to its row | holds |
| `webhooks` | 1 webhook, 1 event, cron and 2 presses, 2 attempts, 1 fault, fair | types; final statuses, sends, emissions; what is deleted or final is left alone; every delivery comes to rest | holds |
| `plan_limits` | 2 views and 1 creation at once, 1 process, limits of 1, 1 expired share at a time, 1 fault, fair | types; overshoot is bounded by what runs at once and by shares nobody compared; limits take hold in the end | holds |
| `audit_chain` | 2 documents, 2 best-effort requests with 2 appends, 2 single deletions, 1 bulk item, 1 fault | types; streams are chains; deletions are on record, or known to have failed; the ledger | holds |

Bounds. Two scanner runs are enough for every overlap in which one stalls: a third would
do what the second does. Two attempts give a first failure, a retry and a last one; two
completions give a job that is queued again while a claim is still held. Batches of
several documents are covered by the proofs (any `ClaimLimit`), and by no run. One abort
covers a crash at every statement; more would only repeat it, and liveness needs the
number to be finite.

For uploads, two completions give every overlap of a retry with the first attempt, two
PUTs one that lands after the object was read or deleted; a client asks for one abort.
In `upload_sweep` two documents show that the sweep of one does not depend on the other,
and `MaxObjects = 2` lets one listing hold both. (With a `MaxObjects` below the number of
live objects `OrphansDisappear` fails: every sweep starts at the first key and stops at
the cap, so orphans behind it are never seen.)

For shares, two visits compete for a limit of one, two ticket requests for one ticket,
and two acts of owners give every pair of changes (a reset and a new limit, a password
cleared and set, a second upload and its purge); reviews, expiries and cron jobs are not
bounded.

For keys, two invocations on one job, or one beside a direct rotation in the other
direction, give every overlap of a read key and its write, and two faults a second one
in the recovery from the first; one completion per document is what `DataKeysSurvive`
speaks of. The same properties hold with two documents, batches of one, one fault and one
invocation at a time (162,562 states), which is kept as no run; the theorems hold for any
number. No document
in a run has a key that does not open (`Broken` is empty): it would make `JobsFinish`
fail, and the safety proofs hold for any `Broken`. For billing, three events of which two
fall on one second or one row, one repetition and one fault give a duplicate in every
state of the first delivery, and a fallback at any of them; two users and batches of one
make maintenance wrap around. For webhooks, two presses beside the cron give three
invocations on one delivery; the same properties hold on an instance with two webhooks
and one press (11,961,596 states), which takes too long to be kept as a run. For limits,
two views compete for one place, and a creation and an extension for one share; a second
process adds nothing but a second cache.
For the audit chain, a view beside two deletions of the same document is every conflict
of two inserts; the second document shows that streams do not depend on each other.

The safety theorems below hold for every value of these bounds.

Fairness. The worker in `cloudflare/cron-scan` calls `/api/cron/scan` every ten minutes,
so `RunStep(w)` is weakly fair: an invocation that is not aborted goes on, and there is
always a next one. A completion that is not interrupted runs on (`EnqueueStep`), and
time passes (`StartedAtGrowsStale`, `RetryFallsDue`). Nothing is assumed of people, and
nothing prevents up to `MaxAborts` invocations from dying. The same worker calls the
retention route every night (02:17), so `SweepStep(s)` is weakly fair; clients, owners
and completions need not go on. It calls the webhook queue
every ten minutes, key rotation every thirty and the nightly route at 06:05, which runs
billing maintenance (`cron/nightly/route.ts:89-92`). So claims of jobs (`Claim`), the cron's select (`Select(Cron)`) and the maintenance
run (`Maintain`) are weakly fair, and so is each next statement of an invocation that has
begun (`Proceed`). Nothing makes a direct rotation, an admin, an owner or Stripe act. In
`WebhookDelivery` the presses are finite: two invocations that always overlapped could set
a final delivery going for ever. In `PlanLimits` cache entries expire and statements return.

### Disagreements

Where the code and what the repository says of it part. The first is a run; the others
follow from the models' actions as described and are stated as no property.

* `CleanMeansClean` (`upload_ciphertext_scan`): the scan is queued after the object was
  overwritten with ciphertext, and `scanR2Object` sends the object as it is stored.
* Scan, quarantine: PDF checks find high risk at completion and the trigger quarantines
  the document (`malware_scanning.sql:46`); the malware scan, which looks for something
  else, answers clean, and `applyScanVerdict` (`cron/scan/route.ts:80-84`) writes risk `low`
  and moderation `active`.
* Scan, takedown: a verdict `high` on a taken-down document fires the trigger, which
  turns `disabled` into `quarantined` (`malware_scanning.sql:48-50`); the next clean
  verdict turns that into `active`.
* Scan, pending for ever: claim, scan and both verdict statements may all come between
  the two statements of `enqueueDocScan` (`scanQueue.ts:61`); the second then writes
  `pending` over `clean`, and no job is left.
* Scan, dead letters: when the run dies in its last attempt the heal step dead-letters
  the job (`scanQueue.ts:97`) and leaves the document `pending`, which `documentStatus.ts:13`
  shows as being scanned.
* Scan, forgotten: more steps leave a document `pending` and nobody to scan it, and
  `ScansAreNotForgotten` lists them all. A completion meets a dead letter, which the upsert
  does not queue again (`scanQueue.ts:54-58`); a run reports the failure of a job that was
  claimed again since and is out of attempts by then; a verdict goes to the job
  when a completion set the document `pending` after the other half of the verdict; and
  `restore_doc` makes a document active whose job is over.
* Upload, abort: a completion that outlives its 504 makes the row `ready` between the
  abort's select and its deletes; the abort deletes the object, spares the row and
  answers `removed` (`abort/route.ts:82-86`).
* Upload, repeated completion: a second completion of a finished document finds a
  ciphertext where it expects the upload, and deletes it (`ARCHITECTURE.md:30-32` has the
  object stay encrypted).
* Keys, compromise: a completion that had read a key puts its document under it after
  the revocation, and so does a batch under way (`masterKeys.ts:283` checks at its start);
  and one whose read of the active key throws takes the environment's key, which may be
  the old one (`masterKeys.ts:104-106`);
  the steps of `backup-recovery-runbook.md:84-87` end with the rotation of what is there.
* Keys, one bad row: a document whose key does not open keeps the running job first in
  the queue for ever, and the jobs queued behind it wait (`key-rotation-runbook.md:11`).
* Keys, second completion: one that lands between a batch's select and its UPDATE loses
  its data key to the older one that is written back (`masterKeys.ts:334`).
* Billing, failed events: an event that failed, or whose delivery was killed, is
  redelivered and taken for a duplicate (`ignored`, 2xx): it is never applied. The same
  goes for an insert whose reply was lost, and for a subscription whose binding could
  not be looked up. `AckedEventsAreApplied` exempts them as `lost`.
* Billing, invoices: `invoice.payment_succeeded` writes every row of the customer, the
  canceled ones included; a `payment_failed` before its subscription's row finds none
  and is lost. Grace is set by a failed payment alone, so that a subscription that
  Stripe reports `past_due` has none and loses its plan at once
  (`stripe/webhook/route.ts:275-285` against `stripe-billing-runbook.md:45`).
* Billing, ties: of two events of one second the later to arrive wins, and the fallback
  statement has no guard at all.
* Webhooks: disabling a webhook stops nothing that is queued; a delivery that was sent
  and not recorded is sent again, beyond `maxAttempts` if invocations overlap.
* Limits, extension: an expired share is not counted (`monetization.ts:280-281`), and
  extending one makes it count again without a comparison (`admin/actions.ts:678-682`,
  `:768-773`). An owner on Free who lets three links expire, creates three more before the
  nightly batch and extends the first three has six, with one request at a time.
  `CountsStayNearLimits` counts what was brought back beside its bound.
* Limits: the share route consumes a view of the link before the plan refuses it; a
  check that throws serves the view and does not count it; a failed load makes a
  user Free for the life of a cache entry.
* Audit, best effort: of two appends that read one head, one is refused and dropped; what
  is on record is a chain, but not of all that happened.
* Audit, deletions: `deleteDocAction` is strict about its record, but appends after the
  rows are gone (`admin/actions.ts:454-471`). A view that appends in between makes it fail,
  and a retry finds no document, so the record is never made; the bulk action swallows
  the same error (`:881`), and records a deletion that somebody else did as its own.

## Proofs

`ScanPipeline_proofs` is checked by TLAPS for every set of documents and runs, every
`MaxAttempts` and `ClaimLimit` at least 1, and every bound (`LimitsAssumption`).

* `TypeCorrect`. The inductive invariant `TypeInv` adds to `TypeOK` that a run in the
  middle of a job holds a claim, and one about to write a verdict has one: without it
  the version or status it writes could be anything.
* `RowChanges` and `JobChanges` say once what a step can do to one row of each table;
  the invariants below are proved from them.
* `HighRiskAlwaysBlocked`, `DisabledOnlyRestoredByOwner` (an action property),
  `RunningAlwaysTimed`: inductive with `TypeInv`. The last is in no run: it says that the
  heal step finds every running job by its `started_at`.
* `ClaimsAlwaysTrail`: ids grow and the attempts of one row never shrink (`JobsGrow`),
  and claims are copied from rows (`ClaimsComeFrom`). It is what `DeadLettersAreEarned`
  needs, since `markScanFailure` decides by the claim and not by the row.
* `AttemptsAlwaysBounded`: the invariant `AttemptsInv` counts the enqueues that have
  reached the job table; a queued job has room for one more claim.
  With `DeadLettersAreEarned` it gives `AttemptsAlwaysAccounted`, which a run checks.
* `ServableWasScanned`: while a document has been completed once, the version a claim
  was read at is its only one. (After a second completion the claim would be false: a
  run that has read the first content applies its verdict to the second.)
* `ForgottenOnlyAsListed` (an action property). `HandsInv`: the claim a run holds is for the
  job its document has, unless a purge is under way, so a failure that is reported finds
  its job and leaves a retry or goes on to tell the document; and a run about to claim
  holds nothing that a new batch would make it forget. `DocStepsForget` and `RunStepsForget`
  go through the steps of people and of runs; each of the seven exceptions is needed (TLC
  finds a violation without it).

`UploadPipeline_proofs` is checked for every set of documents, completions, aborts and
sweeps, and every bound (`UploadAssumption`). The lemmas `RowWriters`, `ObjectWriters`
and `CompletionWriters` say once which action writes what; the invariants rest on them.

* `TypeCorrect`: `TypeOK` with the fact that a request under way has a document.
* `SweepIsSafe`. `OrphansAreGone` is inductive only with `RowComesFirst` (an object exists
  only under a key whose row has existed) and `RowsAgeOneWay` (a row that is gone never
  comes back): a key that is listed has had its row, so one without a row is gone.
* `ConfirmedIsFinal`: a completion that goes from `alias` to `ok` has seen its row, and a
  row that its UPDATE made `ready` leaves that status only by its owner (`UpdateFoundTheRow`).
* `OpenedWasChecked` (`BytesAreKept`: a completion past its checks keeps its bytes, and
  every ciphertext under its key is of these bytes).
* `OrderlyUploadsOpen`: a client is orderly on a document (`Orderly`) as long as it has
  PUT and completed once and was not answered 504; one that was not stays disorderly
  (`OrderlyBefore`). While the completion of an orderly client works, nobody but the owner
  touches the document (`OneRequestAtATime`, `NobodyElseTouches`), whatever happens to
  other documents.

`ShareAccess_proofs` is checked for every set of links, visits and ticket requests, every
choice of limits and any number of owner's acts (`ShareAssumption`).

* `TypeCorrect`: `TypeOK` with the fact that a ticket request in flight has a ticket.
* `OnePerView`. `TicketInv`: a visit is counted exactly when it has passed the UPDATE and
  has a ticket only afterwards (`CountedFirst`); a ticket that has been answered is used
  or lapsed (`TakenBeforeSent`); without replay no two requests hold one ticket, and one
  that holds it has not been answered (`OneHolder`).
* `OnlyKnowingCounted`. `GateInv`: a link that was never open has a password, and whoever
  has an unlock row, or is on the way to or past the UPDATE, knew it.
* `SentServable`, replays included. `SentInv`: every moment at which the row is servable
  during an exchange is on record, so the upload the gate saw is, and unless an upload
  was completed meanwhile the key is that upload's.
* `ContractKept`: `Spec => KeepsContract` without replay. The UPDATE is a `GrantView`,
  the response a `Respond` (by `TicketInv`), revocations, deletions and purges a `Close`.

`KeyRotation_proofs` is checked for every set of documents, keys, workers, jobs, requests
and unopenable documents, and every size of a batch (`KeyAssumption`).

* `TypeCorrect`. `TypeInv` adds `AtHand`: a busy worker has both keys, one that reports has
  a job, and the job it has is not fresh and still has the old key it read.
* `EmptyBatch`: a batch is empty only if nothing is under the key, because a finite set
  of documents has a newest one (the library's `WFMin` over the counts of newer ones).
  This is why an empty batch may report `remaining` 0 without counting.
* `WorkerSteps`, `EachMoves`, `JobsTyped`, `DocsTyped`, `UploadsTyped`, `MissedSteps` say once
  what a step can do to a worker, a job, a document, an upload and the histories.
* `DataKeysAlwaysSurvive`. `KeyInv`: a document that is in a batch has completed; while it
  has completed once nobody uploads it, so the row and every copy of its key that a
  worker holds are the object's.
* `CompletedAlwaysSwept`. `SweptInv`: a worker about to report the end has a count of zero
  of the same key (`SweptStays` keeps it, since what arrives later is in `missed`).
* `CountsAlwaysWithinWork`. `CountInv`: the count a worker read and its own rewraps are
  within the work done for its job. With `CompletedAlwaysSwept` it gives
  `JobsAlwaysReportTruly`, which a run checks.
* `RevokedAlwaysTakeOnlyLateDocs`. `RevokeInv`: whoever holds a revoked key is excused.

`StripeBilling_proofs` is checked for every set of users, subscriptions, deliveries and
events, whatever they say and whenever they were created (`BillingAssumption`).

* `TypeCorrect`: `TypeOK` with the fact that a delivery under way has an event.
* `AppliedAlwaysAtMostOnce` (`OnceInv`): one delivery at most is before its statement for
  an event whose log could be asked, and none once it has run. `EventSteps` says what a
  step does to one event.
* `AckedAlwaysApplied` (`LiveInv`): an event in the log was applied, is `lost`, or has a
  delivery before its statement; one past it has settled the event. The two give
  `EventsAlwaysAppliedOnce`, which a run checks.
* `RowsAlwaysShowTheNewest` (`NewestInv`): the guard compares with the clock in the row, and
  an event that the guard refused is older than what the row shows; expiry of grace keeps
  the clock.

`WebhookDelivery_proofs` is checked for every set of webhooks, events and presses, every
`MaxAttempts` and size of a batch (`WebhookAssumption`).

* `TypeCorrect`: `TypeOK` with `HandsFull`, an invocation at a delivery has it in its batch.
* `FinalAlwaysEarned` (`CountsTrailSends`): the count of a row, and the count any invocation
  read, is at most the sends; an accepted answer is in `taken`.
* `SendsAlwaysCounted` (`CountedInv`): while a delivery was in one batch at a time, the count
  read is the row's, and each fault hides at most one send.
* `EmittedAlwaysServed` (`ServedInv`): a webhook enabled all the while is in what is still
  to do, or served. `DeletedAlwaysAlone` (`DeletedInv`): a deleted webhook has no row, and
  what is in a batch of it was there before.
* `FinalAlwaysStays` (`OverInv`): a final delivery is in no batch, because the only one
  that had it lets go of it by the step that writes the status (`FinalStaysFree`); and an
  accepted one is, until a fault, with the invocation that sent it and about to be
  recorded, or final, or deleted (`AcceptedStaysTaken`, on `AnswerKept` and `CountedInv`).
  With `DeletedAlwaysAlone` it gives `OverAlwaysOver`, which a run checks.

`PlanLimits_proofs` is checked for every set of requests and processes and every limit
(`LimitAssumption`; `FarViews` and `FarShares`, where the model stops counting, are beyond
what it bounds). `ViewsAlwaysNearLimit` and `SharesAlwaysNearLimit` (together
`CountsAlwaysNearLimits`) need the invariants `ViewsInv` and `SharesInv`: the counter and
the requests let through by a comparison, taken together, stay within the bound. For views
nobody unlimited is among them; for shares those stand outside, with the extended ones, as
`unchecked`. A request is let through only while the counter is below the limit, and the
others that were let through are at most all but one. For the same reason `unchecked` may
be forgotten whenever there is room (`CountMoves`).

`AuditChain_proofs` is checked for every set of documents, requests and deletions
(`AuditAssumption`).

* `TypeCorrect`: `TypeOK` with the fact that a request under way has a document.
* `ChainAlwaysUnbroken` (`ChainInv`): an append that is about to insert follows an entry that
  is still there, since entries stay; hashes do not repeat; so what may insert continues
  the chain, and `SeqTaken` leaves one continuation per entry.
* `DeletionsAlwaysOnRecord` (`RecordInv`): the delete of the row tells one single deletion
  apart from all others, and only that one goes on to append.
* `LedgerKept`: `Spec => KeepsLedger`. `NumbersInv`: the numbers of a stream are `1..k`, so it
  can be read as a sequence, and what may insert has the number `k + 1` (`NewNumberIsNext`,
  from `ChainInv`): the insert is an `Append` (`AppendedExtendsLedger`), and by `RecordInv`
  what it appends is due (`RecordsAreDue`). The purge of a row is a `Delete`, every other
  step a stutter.

Only model-checked: `ScanJobsSettle`, `OrphansDisappear`, `JobsFinish`, `PlansConverge`,
`DeliveriesComeToRest` and `LimitsTakeHold` (liveness under fairness is out of the prover's
reach) and the violated property.

## Plan

Done: the eight modules above with their proofs. What would come next:

1. The owner's re-queue in `ScanPipeline`, with properties that exempt what it disturbs,
   once the instance can be made small enough; two documents there.
2. Serving of documents through `/serve` and aliases, without a share.
3. Storage and daily uploads in `PlanLimits`; its composition with `StripeBilling`, whose
   `plans` is its `tier`.
4. Proofs: the safety half of `PlansConverge` (a sync that is not overlapped writes the plan
   its rows give), and an abstract specification for the delivery queue.

## Not modelled

* Rendering, wording, telemetry, e-mail and reports: most of the repository's lines are
  pages, components, scripts and tests of them, without state that two actors share.
* The contents of documents, hashes, ciphertexts and signatures; authentication and rate
  limits in front of the routes (an action is what an admitted request does, and requests
  are admitted at any time).
* The owner's re-queue of scans (`requeue-scans/route.ts:63-138`): an upsert of the jobs of
  the documents it selects, then an UPDATE that selects anew and marks them pending. With
  it the instance of `scan_safety` is too large for a run (8,102,513 states with one
  completion). Three things change: a claim from before the reset may
  dead-letter a job whose attempts are 0 again; a job made before a completion's enqueue
  is due one attempt more; and a document that is still uploading gets a job, whose clean
  verdict may land after the completion and stand for content it was not given on.
* A second count by one visit: when the reply to the UPDATE of `consumeShareTokenView` is
  lost, the first read after it fails and the second does not, the code starts over and
  counts again (`resolveDoc.ts:630-633`); it sends one response all the same.
* The rate limiter: counters of one
  statement that only refuse. The plain logs `doc_audit` and `doc_access_log`: single
  inserts whose failure is swallowed.
* Organisations, sign-up, MFA and sessions: rows of one request each.
* In billing: prices other than pro, events that carry no user, signatures. In webhooks:
  the read and later write of a signing secret (`webhooks/actions.ts:81`), the filter by
  event and the summary columns. In limits: `setBillingFlags` (`settings.ts:319-343`), which
  reads flags from a cache and writes all of them back, the daily count of uploads
  (`incrementUploads` counts a repeated completion twice), and storage.
