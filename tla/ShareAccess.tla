---------------------------- MODULE ShareAccess ----------------------------
(***************************************************************************)
(* Access to a document through its share links: the share row, the        *)
(* password gate and its unlock rows, GET /s/[token]/raw that counts a     *)
(* view and mints a single-use ticket, GET /t/[ticketId] that exchanges    *)
(* the ticket for the content, and what owners, reviews, uploads, cron     *)
(* jobs and the clock do in between.                                       *)
(*                                                                         *)
(* Every statement is a transaction of its own, so each action is one      *)
(* statement, or one call to the object store, of one request.  All shares *)
(* are of one document; shares of other documents have no state in common  *)
(* with them.                                                              *)
(***************************************************************************)
EXTENDS Integers

CONSTANTS
  Shares,    \* rows of public.share_tokens of the document
  Visits,    \* browsers that come with a share link, each for one view
  Target,    \* [Visits -> Shares]: the link a visit follows
  Knowing,   \* the visits whose visitor knows the password of the share
  Taps,      \* requests to /t/[ticketId]
  NoVisit,   \* the ticket of a tap that has none
  Limits,    \* max_views an owner may choose; 0 (like null) is no limit
  Replay,    \* ACCESS_TICKET_REPLAY_ENABLED
  MaxEdits   \* bound: acts of owners

ASSUME ShareAssumption ==
  /\ Target \in [Visits -> Shares]
  /\ Knowing \subseteq Visits
  /\ NoVisit \notin Visits
  /\ Limits \subseteq Nat
  /\ Replay \in BOOLEAN
  /\ MaxEdits \in Nat

VARIABLES
  share,     \* [Shares -> ShareRow]
  unlocks,   \* [Shares -> SUBSET Visits]: live rows of public.share_unlocks
  doc,       \* DocRow
  object,    \* the upload whose key decrypts the stored object, 0 if there is none
  uploading, \* further uploads whose object is stored and whose row is not written yet
  visit,     \* [Visits -> VisitPcs]: the next statement of a visit
  ticket,    \* [Visits -> TicketStates]: the ticket minted for a visit
  tap,       \* [Taps -> TapState]
  resetting, \* shares whose password is cleared and whose unlocks are next
  purge,     \* how far deleteDocAction has come
  edits,     \* acts of owners so far (bounded by MaxEdits)
  counted,   \* visits whose view was counted (history)
  responses, \* [Visits -> Nat]: contents sent for the ticket of a visit (history)
  wasOpen,   \* shares that at some time had no password (history)
  servable,  \* [Taps -> SUBSET Nat]: the uploads that were servable at some
             \* moment since the tap took its ticket (history)
  replaced   \* taps during which an upload was completed again (history)

shareVars == <<share, unlocks, resetting, wasOpen>>
docVars   == <<doc, object, uploading, purge>>
visitVars == <<visit, counted>>
tapVars   == <<ticket, tap, responses>>
history   == <<servable, replaced>>
vars == <<shareVars, docVars, visitVars, tapVars, history, edits>>

-----------------------------------------------------------------------------
(* Rows *)

\* expired: expires_at has passed (it may be null, and never pass); locked:
\* password_hash is not null.
ShareRow == [present: BOOLEAN, revoked: BOOLEAN, expired: BOOLEAN,
             max_views: Limits, views_count: Nat, locked: BOOLEAN]

\* upload is the number of the completed upload whose key the row holds;
\* cleared: moderation_status is active and scan_status is clean (ScanPipeline
\* has the life of the two).
DocRow == [present: BOOLEAN, upload: Nat, cleared: BOOLEAN]

VisitPcs     == {"idle", "insert_unlock", "check_unlock", "consume", "quota", "mint", "done"}
TicketStates == {"none", "fresh", "used", "lapsed"}
TapPcs       == {"idle", "gate", "keys", "fetch", "served"}
TapState     == [pc: TapPcs, ticket: Visits \cup {NoVisit}, upload: Nat]
NoTap        == [pc |-> "idle", ticket |-> NoVisit, upload |-> 0]
PurgeStages  == {"no", "unlocks", "shares", "row", "done"}

\* getShareEligibility, and the gate of the ticket route.
Servable(row) == row.present /\ row.cleared

Maxed(row) == row.max_views # 0 /\ row.views_count >= row.max_views
Live(row)  == row.present /\ ~row.revoked /\ ~row.expired /\ ~Maxed(row)

InFlight(x) == tap[x].pc \in {"gate", "keys", "fetch"}

TypeOK ==
  /\ share \in [Shares -> ShareRow]
  /\ unlocks \in [Shares -> SUBSET Visits]
  /\ doc \in DocRow
  /\ object \in Nat
  /\ uploading \subseteq Nat
  /\ visit \in [Visits -> VisitPcs]
  /\ ticket \in [Visits -> TicketStates]
  /\ tap \in [Taps -> TapState]
  /\ resetting \subseteq Shares
  /\ purge \in PurgeStages
  /\ edits \in Nat
  /\ counted \subseteq Visits
  /\ responses \in [Visits -> Nat]
  /\ wasOpen \subseteq Shares
  /\ servable \in [Taps -> SUBSET Nat]
  /\ replaced \subseteq Taps

\* A share is created once the document is eligible, with any policy.
Init ==
  /\ share \in [Shares -> [present: {TRUE}, revoked: {FALSE}, expired: {FALSE},
                           max_views: Limits, views_count: {0}, locked: BOOLEAN]]
  /\ unlocks = [s \in Shares |-> {}]
  /\ doc = [present |-> TRUE, upload |-> 1, cleared |-> TRUE]
  /\ object = 1
  /\ uploading = {}
  /\ visit = [v \in Visits |-> "idle"]
  /\ ticket = [v \in Visits |-> "none"]
  /\ tap = [x \in Taps |-> NoTap]
  /\ resetting = {}
  /\ purge = "no"
  /\ edits = 0
  /\ counted = {}
  /\ responses = [v \in Visits |-> 0]
  /\ wasOpen = {s \in Shares : ~share[s].locked}
  /\ servable = [x \in Taps |-> {}]
  /\ replaced = {}

-----------------------------------------------------------------------------
(* The password gate                                                       *)

\* Mutant of VerifyReads: the password is not compared.
VerifyReadsUnchecked(v) ==
  /\ visit[v] = "idle"
  /\ Live(share[Target[v]])
  /\ visit' = [visit EXCEPT ![v] = "insert_unlock"]
  /\ UNCHANGED <<shareVars, docVars, counted, tapVars, history, edits>>

\* The share is read and, if it has a password, the visitor's is compared.
VerifyReads(v) ==
  /\ visit[v] = "idle"
  /\ Live(share[Target[v]])
  /\ share[Target[v]].locked => v \in Knowing
  /\ visit' = [visit EXCEPT ![v] = "insert_unlock"]
  /\ UNCHANGED <<shareVars, docVars, counted, tapVars, history, edits>>

VerifyInserts(v) ==
  /\ visit[v] = "insert_unlock"
  /\ unlocks' = [unlocks EXCEPT ![Target[v]] = @ \cup {v}]
  /\ visit' = [visit EXCEPT ![v] = "idle"]
  /\ UNCHANGED <<share, resetting, wasOpen, docVars, counted, tapVars, history, edits>>

UnlockExpires(v) ==
  /\ v \in unlocks[Target[v]]
  /\ unlocks' = [unlocks EXCEPT ![Target[v]] = @ \ {v}]
  /\ UNCHANGED <<share, resetting, wasOpen, docVars, visitVars, tapVars, history, edits>>

-----------------------------------------------------------------------------
(* GET /s/[token]/raw                                                      *)

\* The route's one look at the share and its document; what it decides on here
\* is not looked at again, except by the statement that counts the view.  A
\* visit that is refused may come again.
RawReads(v) ==
  /\ visit[v] = "idle"
  /\ Live(share[Target[v]]) /\ Servable(doc)
  /\ visit' = [visit EXCEPT ![v] =
       IF share[Target[v]].locked THEN "check_unlock" ELSE "consume"]
  /\ UNCHANGED <<shareVars, docVars, counted, tapVars, history, edits>>

\* Without an unlock row the visitor is sent to the gate, from where they may
\* come again.
RawChecksUnlock(v) ==
  /\ visit[v] = "check_unlock"
  /\ visit' = [visit EXCEPT ![v] = IF v \in unlocks[Target[v]] THEN "consume" ELSE "idle"]
  /\ UNCHANGED <<shareVars, docVars, counted, tapVars, history, edits>>

\* Mutant of Countable: the limit was checked when the share was read.
CountableUnlimited(row) == row.present /\ ~row.revoked /\ ~row.expired

\* The WHERE clause of the UPDATE that counts a view.
Countable(row) == row.present /\ ~row.revoked /\ ~row.expired /\ ~Maxed(row)

CountView(v) ==
  /\ Countable(share[Target[v]])
  /\ share' = [share EXCEPT ![Target[v]].views_count = @ + 1]
  /\ counted' = counted \cup {v}

\* consumeShareTokenView: the UPDATE counts the view, or finds no row.
RawConsumes(v) ==
  /\ visit[v] = "consume"
  /\ \/ CountView(v) /\ visit' = [visit EXCEPT ![v] = "quota"]
     \/ /\ ~Countable(share[Target[v]])
        /\ visit' = [visit EXCEPT ![v] = "idle"]
        /\ UNCHANGED <<share, counted>>
  /\ UNCHANGED <<unlocks, resetting, wasOpen, docVars, tapVars, history, edits>>

\* The UPDATE commits and its reply is lost: the catch falls through to checks
\* that only read, and end in a refusal. (If the first of these fails as well, and the
\* second does not, the code starts over and counts twice: left out.)
RawLosesReply(v) ==
  /\ visit[v] = "consume"
  /\ CountView(v)
  /\ visit' = [visit EXCEPT ![v] = "done"]
  /\ UNCHANGED <<unlocks, resetting, wasOpen, docVars, tapVars, history, edits>>

\* assertCanServeView and incrementMonthlyViews: the owner's plan may throttle
\* the view that was just counted; an error lets it pass.
RawAsksPlan(v) ==
  /\ visit[v] = "quota"
  /\ \E next \in {"mint", "done"} : visit' = [visit EXCEPT ![v] = next]
  /\ UNCHANGED <<shareVars, docVars, counted, tapVars, history, edits>>

\* mintAccessTicket, for whatever object key the first read found.
RawMints(v) ==
  /\ visit[v] = "mint"
  /\ visit' = [visit EXCEPT ![v] = "done"]
  /\ ticket' = [ticket EXCEPT ![v] = "fresh"]
  /\ UNCHANGED <<shareVars, docVars, counted, tap, responses, history, edits>>

\* A statement throws, or the function is stopped: an error is answered.
RawFails(v) ==
  /\ visit[v] \notin {"idle", "done"}
  /\ visit' = [visit EXCEPT ![v] = IF v \in counted THEN "done" ELSE "idle"]
  /\ UNCHANGED <<shareVars, docVars, counted, tapVars, history, edits>>

-----------------------------------------------------------------------------
(* GET /t/[ticketId]                                                       *)

\* Mutant of Redeemable: a select finds the ticket, an update marks it later.
RedeemableTwice(v) == ticket[v] \in {"fresh", "used"}

\* The atomic consume, and the replay of a used ticket where it is enabled.
Redeemable(v) ==
  \/ ticket[v] = "fresh"
  \/ Replay /\ ticket[v] = "used"

\* The ticket, or its time for replays, runs out.
TicketLapses(v) ==
  /\ Redeemable(v)
  /\ ticket' = [ticket EXCEPT ![v] = "lapsed"]
  /\ UNCHANGED <<shareVars, docVars, visitVars, tap, responses, history, edits>>

TapConsumes(x, v) ==
  /\ tap[x].pc = "idle"
  /\ Redeemable(v)
  /\ ticket' = [ticket EXCEPT ![v] = "used"]
  /\ tap' = [tap EXCEPT ![x].pc = "gate", ![x].ticket = v]
  /\ servable' = [servable EXCEPT ![x] = IF Servable(doc) THEN {doc.upload} ELSE {}]
  /\ UNCHANGED <<shareVars, docVars, visitVars, responses, replaced, edits>>

\* Mutant of TapGate: the gate was passed when the ticket was minted.
TapGateOpen(x) ==
  /\ tap[x].pc = "gate"
  /\ tap' = [tap EXCEPT ![x].pc = "keys"]
  /\ UNCHANGED <<shareVars, docVars, visitVars, ticket, responses, history, edits>>

\* Moderation and scan status are read again.
TapGate(x) ==
  /\ tap[x].pc = "gate" /\ Servable(doc)
  /\ tap' = [tap EXCEPT ![x].pc = "keys"]
  /\ UNCHANGED <<shareVars, docVars, visitVars, ticket, responses, history, edits>>

\* The key is read by another statement; without a row, the content counts as
\* unencrypted, which is not served.
TapReadsKeys(x) ==
  /\ tap[x].pc = "keys" /\ doc.present
  /\ tap' = [tap EXCEPT ![x].pc = "fetch", ![x].upload = doc.upload]
  /\ UNCHANGED <<shareVars, docVars, visitVars, ticket, responses, history, edits>>

\* AES-GCM opens an object with the key it was encrypted with, and no other.
Opens(upload) == object = upload

\* The object is fetched, decrypted and sent.
TapServes(x) ==
  /\ tap[x].pc = "fetch" /\ Opens(tap[x].upload)
  /\ tap' = [tap EXCEPT ![x].pc = "served", ![x].upload = object]
  /\ responses' = [responses EXCEPT ![tap[x].ticket] = @ + 1]
  /\ UNCHANGED <<shareVars, docVars, visitVars, ticket, history, edits>>

\* The request is answered with an error: a check above refuses it, a call
\* throws.  Its ticket stays used.
TapRefused(x) ==
  /\ InFlight(x)
  /\ tap' = [tap EXCEPT ![x] = NoTap]
  /\ servable' = [servable EXCEPT ![x] = {}]
  /\ replaced' = replaced \ {x}
  /\ UNCHANGED <<shareVars, docVars, visitVars, ticket, responses, edits>>

-----------------------------------------------------------------------------
(* Owners, moderators and cron jobs, on the share                          *)

Edit == edits < MaxEdits /\ edits' = edits + 1

\* Revocation by the owner, by bulk actions, by moderators: no statement lifts it.
Revoked(row) == [row EXCEPT !.revoked = TRUE]

RevokeShare(s) ==
  /\ Edit
  /\ share[s].present
  /\ share' = [share EXCEPT ![s] = Revoked(@)]
  /\ UNCHANGED <<unlocks, resetting, wasOpen, docVars, visitVars, tapVars, history>>

\* extendShareExpirationAction: from now, or from an expiry that lies ahead.
ExtendShare(s) ==
  /\ Edit
  /\ share[s].present
  /\ share' = [share EXCEPT ![s].expired = FALSE]
  /\ UNCHANGED <<unlocks, resetting, wasOpen, docVars, visitVars, tapVars, history>>

SetMaxViews(s) ==
  /\ Edit
  /\ share[s].present
  /\ \E n \in Limits : share' = [share EXCEPT ![s].max_views = n]
  /\ UNCHANGED <<unlocks, resetting, wasOpen, docVars, visitVars, tapVars, history>>

\* Mutant of ResetViewsCount: one view is given back.
ResetOneView(s) ==
  /\ Edit
  /\ share[s].present
  /\ share' = [share EXCEPT ![s].views_count = @ - 1]
  /\ UNCHANGED <<unlocks, resetting, wasOpen, docVars, visitVars, tapVars, history>>

ResetViewsCount(s) ==
  /\ Edit
  /\ share[s].present
  /\ share' = [share EXCEPT ![s].views_count = 0]
  /\ UNCHANGED <<unlocks, resetting, wasOpen, docVars, visitVars, tapVars, history>>

\* A new password leaves the unlock rows of the old one alone.
SetPassword(s) ==
  /\ Edit
  /\ share[s].present
  /\ share' = [share EXCEPT ![s].locked = TRUE]
  /\ UNCHANGED <<unlocks, resetting, wasOpen, docVars, visitVars, tapVars, history>>

\* clearSharePasswordAction, and the first statement of
\* forceSharePasswordResetAction, which deletes the unlock rows next.
ClearPassword(s) ==
  /\ Edit
  /\ share[s].present
  /\ share' = [share EXCEPT ![s].locked = FALSE]
  /\ wasOpen' = wasOpen \cup {s}
  /\ resetting' \in {resetting, resetting \cup {s}}
  /\ UNCHANGED <<unlocks, docVars, visitVars, tapVars, history>>

\* The second statement; its errors are ignored.
DeleteUnlocks(s) ==
  /\ s \in resetting
  /\ resetting' = resetting \ {s}
  /\ unlocks' \in {unlocks, [unlocks EXCEPT ![s] = {}]}
  /\ UNCHANGED <<share, wasOpen, docVars, visitVars, tapVars, history, edits>>

ShareExpires(s) ==
  /\ ~share[s].expired
  /\ share' = [share EXCEPT ![s].expired = TRUE]
  /\ UNCHANGED <<unlocks, resetting, wasOpen, docVars, visitVars, tapVars, history, edits>>

\* The expired shares the nightly batch, or the retention job, works on.
Due(S) == S # {} /\ \A s \in S : share[s].present /\ share[s].expired

RevokeExpired(S) ==
  /\ Due(S)
  /\ \A s \in S : ~share[s].revoked
  /\ share' = [s \in Shares |-> IF s \in S THEN Revoked(share[s]) ELSE share[s]]
  /\ UNCHANGED <<unlocks, resetting, wasOpen, docVars, visitVars, tapVars, history, edits>>

\* The row goes, its unlock rows stay behind.
DeleteExpired(S) ==
  /\ Due(S)
  /\ share' = [s \in Shares |-> IF s \in S THEN [share[s] EXCEPT !.present = FALSE]
                                ELSE share[s]]
  /\ UNCHANGED <<unlocks, resetting, wasOpen, docVars, visitVars, tapVars, history, edits>>

-----------------------------------------------------------------------------
(* Owners, moderators, scans and uploads, on the document                  *)

\* What a change of the document row makes of the history.
Witnessed ==
  servable' = [x \in Taps |-> IF InFlight(x) /\ Servable(doc')
                              THEN servable[x] \cup {doc'.upload} ELSE servable[x]]

\* A scan's verdict, a moderator's act or its reversal is written.
Review ==
  /\ doc.present
  /\ doc' = [doc EXCEPT !.cleared = ~@]
  /\ Witnessed
  /\ UNCHANGED <<shareVars, object, uploading, purge, visitVars, tapVars, replaced, edits>>

\* A further upload is completed, perhaps of a document that is being deleted:
\* the object first, under a key of its own (the acts so far number it) ...
UploadOverwrites ==
  /\ Edit
  /\ object' = edits' + 1
  /\ uploading' = uploading \cup {edits' + 1}
  /\ UNCHANGED <<shareVars, doc, purge, visitVars, tapVars, history>>

\* ... then the row, which is to be scanned again.  Uploads may overtake one
\* another, and one may never come this far.
UploadFinalizes ==
  /\ doc.present
  /\ \E upload \in uploading :
       /\ doc' = [doc EXCEPT !.upload = upload, !.cleared = FALSE]
       /\ uploading' = uploading \ {upload}
  /\ replaced' = replaced \cup {x \in Taps : InFlight(x)}
  /\ UNCHANGED <<shareVars, object, purge, visitVars, tapVars, servable, edits>>

\* deleteDocAction: the object, then the rows, table by table.
PurgeObject ==
  /\ purge = "no"
  /\ Edit
  /\ object' = 0
  /\ purge' = "unlocks"
  /\ UNCHANGED <<shareVars, doc, uploading, visitVars, tapVars, history>>

PurgeUnlocks ==
  /\ purge = "unlocks"
  /\ unlocks' = [s \in Shares |-> IF share[s].present THEN {} ELSE unlocks[s]]
  /\ purge' = "shares"
  /\ UNCHANGED <<share, resetting, wasOpen, doc, object, uploading, visitVars, tapVars,
                 history, edits>>

PurgeShares ==
  /\ purge = "shares"
  /\ share' = [s \in Shares |-> [share[s] EXCEPT !.present = FALSE]]
  /\ purge' = "row"
  /\ UNCHANGED <<unlocks, resetting, wasOpen, doc, object, uploading, visitVars, tapVars,
                 history, edits>>

PurgeRow ==
  /\ purge = "row"
  /\ doc' = [doc EXCEPT !.present = FALSE]
  /\ purge' = "done"
  /\ UNCHANGED <<shareVars, object, uploading, visitVars, tapVars, history, edits>>

-----------------------------------------------------------------------------

VisitStep(v) ==
  \/ VerifyReads(v) \/ VerifyInserts(v) \/ UnlockExpires(v)
  \/ RawReads(v) \/ RawChecksUnlock(v) \/ RawConsumes(v) \/ RawLosesReply(v)
  \/ RawAsksPlan(v) \/ RawMints(v) \/ RawFails(v) \/ TicketLapses(v)

TapStep(x) ==
  \/ \E v \in Visits : TapConsumes(x, v)
  \/ TapGate(x) \/ TapReadsKeys(x) \/ TapServes(x) \/ TapRefused(x)

ShareStep(s) ==
  \/ RevokeShare(s) \/ ExtendShare(s) \/ SetMaxViews(s) \/ ResetViewsCount(s)
  \/ SetPassword(s) \/ ClearPassword(s) \/ DeleteUnlocks(s) \/ ShareExpires(s)

CronStep == \E S \in SUBSET Shares : RevokeExpired(S) \/ DeleteExpired(S)

DocStep ==
  \/ Review \/ UploadOverwrites \/ UploadFinalizes
  \/ PurgeObject \/ PurgeUnlocks \/ PurgeShares \/ PurgeRow

Next ==
  \/ \E v \in Visits : VisitStep(v)
  \/ \E x \in Taps : TapStep(x)
  \/ \E s \in Shares : ShareStep(s)
  \/ CronStep
  \/ DocStep

Spec == Init /\ [][Next]_vars

-----------------------------------------------------------------------------
(* Properties                                                              *)

\* A view that was counted buys at most one response, and nothing is sent
\* without one: the raw route's "consume, then mint" and the ticket route's
\* atomic consume together, over every retry, double click and lost reply.
\* It is a promise of the default configuration, without replay.
OneResponsePerView ==
  ~Replay => \A v \in Visits : responses[v] <= 1 /\ (responses[v] = 1 => v \in counted)

\* What the ticket route sends is the content of an upload whose row was
\* active and clean at some moment since the ticket was taken: neither the
\* two statements of the gate, nor an object or a row that changes or goes
\* between them, lets anything else out.  An upload completed during the
\* exchange is exempt: it may be sent before it is scanned.
SentWhileServable ==
  \A x \in Taps : tap[x].pc = "served" /\ x \notin replaced => tap[x].upload \in servable[x]

\* The views of a share that has had a password from the start are those of
\* visitors who knew it, whatever the order of the owner's changes, the
\* verifications and the raw requests.
OnlyKnowingVisitsCounted ==
  \A v \in counted : Target[v] \notin wasOpen => v \in Knowing

\* The share link keeps its contract (ShareContract): views are counted only
\* while the share is open and below its limit, revocation is final, a grant
\* is used once.
Standing(s) ==
  IF ~share[s].present \/ share[s].revoked THEN "closed"
  ELSE IF share[s].expired THEN "lapsed" ELSE "open"

Grant(v) ==
  CASE v \notin counted /\ responses[v] = 0 -> "none"
    [] v \in counted /\ responses[v] = 0 -> "held"
    [] v \in counted /\ responses[v] = 1 -> "used"
    [] OTHER -> "broken"

Contract == INSTANCE ShareContract WITH
  standing <- [s \in Shares |-> Standing(s)],
  views    <- [s \in Shares |-> share[s].views_count],
  limit    <- [s \in Shares |-> share[s].max_views],
  grant    <- [v \in Visits |-> Grant(v)]

KeepsContract == Contract!Spec
=============================================================================
