--------------------------- MODULE StripeBilling ---------------------------
(***************************************************************************)
(* Stripe billing: webhook deliveries, which Stripe repeats and reorders,  *)
(* write the rows of billing_subscriptions; each then syncs the plan of    *)
(* its user, and so does a periodic maintenance run over batches of users. *)
(*                                                                         *)
(* Every statement is a transaction of its own. All subscriptions are of   *)
(* the pro price and carry the id of their user; each user is one customer.*)
(***************************************************************************)
EXTENDS Naturals, FiniteSets

CONSTANTS
  Users,      \* users, numbered in the order of their ids
  Subs,       \* subscriptions
  Owner,      \* [Subs -> Users]
  Events,     \* ids of the events Stripe sends
  Kind,       \* [Events -> Kinds]
  Concerns,   \* [Events -> Subs]: the subscription of the event
  At,         \* [Events -> Nat]: the second the event was created in
  Handlers,   \* invocations of the webhook route
  MaxUsers,   \* BILLING_MAINTENANCE_MAX_USERS
  NoEvent,    \* no event
  MaxRepeats, \* bound: deliveries beyond the first of an event
  MaxFaults   \* bound: invocations that die, statements that fail

\* customer.subscription.* with the status it brings; invoice.payment_*
SubscriptionKinds == {"active", "past_due", "canceled"}
InvoiceKinds == {"payment_failed", "payment_succeeded"}
Kinds == SubscriptionKinds \cup InvoiceKinds

ASSUME BillingAssumption ==
  /\ Users \subseteq Nat \ {0} /\ IsFiniteSet(Users)
  /\ Owner \in [Subs -> Users]
  /\ Kind \in [Events -> Kinds] /\ Concerns \in [Events -> Subs] /\ At \in [Events -> Nat]
  /\ NoEvent \notin Events
  /\ MaxUsers \in Nat \ {0} /\ MaxRepeats \in Nat /\ MaxFaults \in Nat

VARIABLES
  log,       \* [Events -> LogStatus]: billing_webhook_events
  subs,      \* [Subs -> SubRow]: billing_subscriptions
  newest,    \* [Users -> SUBSET Subs]: the rows with the latest updated_at
  linked,    \* users whose users.stripe_customer_id is set
  plans,     \* [Users -> {"free", "pro"}]: users.plan_id
  pc,        \* [Handlers -> HandlerPcs]
  work,      \* [Handlers -> Work]: the locals of the route
  acked,     \* events Stripe got a 2xx for
  mpc,       \* the maintenance run
  mwork,     \* its locals
  cursor,    \* app_settings.billing_maintenance_cursor, 0 when there is none
  repeats,   \* deliveries repeated so far
  faults,    \* faults so far
  applied,   \* [Events -> Nat]: how often the event's statement ran (history)
  met,       \* [Subs -> SUBSET Events]: events that found the row, or made it (history)
  unguarded, \* rows written by the statement without the guard (history)
  lost,      \* events whose delivery ended before their statement ran (history)
  reopened   \* events begun although the log could not say (history)

tableVars == <<subs, newest, linked>>
maintVars == <<mpc, mwork, cursor>>
historyVars == <<applied, met, unguarded>>
vars == <<log, tableVars, plans, pc, work, acked, maintVars, repeats, faults,
          historyVars, lost, reopened>>

-----------------------------------------------------------------------------
LogStatus == {"none", "processing", "processed", "ignored", "failed"}

\* status; grace_until: null, in the future or in the past; last_event_created.
SubRow == [status : {"none", "active", "past_due", "canceled", "grace_expired"},
           grace : {"null", "open", "over"}, last : Nat]

HandlerPcs == {"idle", "apply", "link", "read", "write", "complete"}
Plans == {"free", "pro"}

\* The event, whether a user is known to sync, the plan it will write, the outcome.
Work == [event : Events \cup {NoEvent}, sync : BOOLEAN, plan : Plans,
         outcome : {"processed", "ignored", "failed"}]
NoWork == [event |-> NoEvent, sync |-> FALSE, plan |-> "free", outcome |-> "processed"]

MaintPcs == {"idle", "pick", "read", "write"}

\* Users still to sync, the one at hand, the plan it will write, the next cursor.
MaintWork == [todo : SUBSET Users, user : Users \cup {0}, plan : Plans, next : Users \cup {0}]
NoMaint == [todo |-> {}, user |-> 0, plan |-> "free", next |-> 0]

Init ==
  /\ log = [e \in Events |-> "none"]
  /\ subs = [s \in Subs |-> [status |-> "none", grace |-> "null", last |-> 0]]
  /\ newest = [u \in Users |-> {}]
  /\ linked = {}
  /\ plans = [u \in Users |-> "free"]
  /\ pc = [h \in Handlers |-> "idle"]
  /\ work = [h \in Handlers |-> NoWork]
  /\ acked = {}
  /\ mpc = "idle" /\ mwork = NoMaint /\ cursor = 0
  /\ repeats = 0 /\ faults = 0
  /\ applied = [e \in Events |-> 0]
  /\ met = [s \in Subs |-> {}]
  /\ unguarded = {} /\ lost = {} /\ reopened = {}

Exists(s) == subs[s].status # "none"
UserOf(e) == Owner[Concerns[e]]
Fault == faults < MaxFaults /\ faults' = faults + 1

-----------------------------------------------------------------------------
(* beginWebhookEvent and, for an invoice, the look-up of its user.         *)

NewWork(e, known) == [NoWork EXCEPT !.event = e, !.sync = known]

Begin(h, e, status) ==
  /\ log' = [log EXCEPT ![e] = status]
  /\ pc' = [pc EXCEPT ![h] = "apply"]
  /\ \E known \in BOOLEAN :
       /\ known = (Kind[e] \in SubscriptionKinds \/ UserOf(e) \in linked)
       /\ work' = [work EXCEPT ![h] = NewWork(e, known)]
  /\ UNCHANGED <<tableVars, plans, acked, maintVars, historyVars, lost>>

Sent(e) ==
  IF log[e] = "none" THEN UNCHANGED repeats ELSE repeats < MaxRepeats /\ repeats' = repeats + 1

\* Mutant of IsNew: an event that failed, or is still at work, is begun again.
IsNewOrUnfinished(e) == log[e] \in {"none", "failed", "processing"}

IsNew(e) == log[e] = "none"

ReceiveNew(h, e) ==
  /\ pc[h] = "idle" /\ Sent(e)
  /\ IsNew(e)
  /\ Begin(h, e, "processing")
  /\ UNCHANGED <<faults, reopened>>

\* Both inserts throw and the delivery goes on as if it were new.
ReceiveUnsure(h, e) ==
  /\ pc[h] = "idle" /\ Sent(e) /\ Fault
  /\ Begin(h, e, log[e])
  /\ reopened' = reopened \cup {e}

\* A conflict with the row of the log, whatever its status says.
ReceiveDuplicate(e) ==
  /\ ~IsNew(e) /\ Sent(e)
  /\ log' = [log EXCEPT ![e] = "ignored"]
  /\ acked' = acked \cup {e}
  /\ UNCHANGED <<tableVars, plans, pc, work, maintVars, faults, historyVars, lost, reopened>>

\* The insert commits and its reply is lost: the second insert finds a conflict.
ReceiveConfused(e) ==
  /\ IsNew(e) /\ Fault
  /\ log' = [log EXCEPT ![e] = "ignored"]
  /\ acked' = acked \cup {e}
  /\ lost' = lost \cup {e}
  /\ UNCHANGED <<tableVars, plans, pc, work, maintVars, repeats, historyVars, reopened>>

-----------------------------------------------------------------------------
(* upsertStripeSubscription, markPaymentFailure, markPaymentSucceeded.     *)

\* Rows the statement is about: a subscription's own, an invoice's customer's.
Reached(e) ==
  IF Kind[e] \in SubscriptionKinds THEN {Concerns[e]}
  ELSE {s \in Subs : Exists(s) /\ Owner[s] = UserOf(e)}

\* Mutant of Guard: the order of events is not looked at.
NoGuard(e, s) == TRUE

Guard(e, s) == subs[s].last <= At[e]

\* What the row becomes: grace_until is set by a failed payment alone.
Shows(e) == CASE Kind[e] = "payment_failed" -> "past_due"
              [] Kind[e] = "payment_succeeded" -> "active"
              [] OTHER -> Kind[e]

RowAfter(e, last) ==
  [status |-> Shows(e), last |-> last,
   grace |-> IF Kind[e] = "payment_failed" THEN "open" ELSE "null"]

Write(e, hit, rows) ==
  /\ subs' = [s \in Subs |-> IF s \in hit THEN rows[s] ELSE subs[s]]
  /\ newest' = [u \in Users |-> IF u = UserOf(e) /\ hit # {} THEN hit ELSE newest[u]]
  /\ met' = [s \in Subs |-> IF s \in Reached(e) THEN met[s] \cup {e} ELSE met[s]]
  /\ applied' = [applied EXCEPT ![e] = @ + 1]

\* Mutant of End: an outcome the log has no word for.
EndUnknown(h, outcome) ==
  /\ pc' = [pc EXCEPT ![h] = "complete"]
  /\ work' = [work EXCEPT ![h].outcome = "unknown"]

AfterApply(h) ==
  pc' = [pc EXCEPT ![h] = IF Kind[work[h].event] \in SubscriptionKinds THEN "link"
                          ELSE IF work[h].sync THEN "read" ELSE "complete"]

Apply(h) ==
  /\ pc[h] = "apply"
  /\ LET e == work[h].event
         rows == [s \in Subs |-> RowAfter(e, At[e])] IN
       Write(e, {s \in Reached(e) : Guard(e, s)}, rows)
  /\ AfterApply(h)
  /\ UNCHANGED <<log, linked, plans, work, acked, maintVars, repeats, faults, unguarded, lost, reopened>>

\* The guarded statement throws, and the catch runs one that has neither the
\* guard nor the column.
ApplyUnguarded(h) ==
  /\ pc[h] = "apply" /\ Fault
  /\ LET e == work[h].event
         rows == [s \in Subs |-> RowAfter(e, subs[s].last)] IN
       /\ Write(e, Reached(e), rows)
       /\ unguarded' = unguarded \cup Reached(e)
  /\ AfterApply(h)
  /\ UNCHANGED <<log, linked, plans, work, acked, maintVars, repeats, lost, reopened>>

End(h, outcome) ==
  /\ pc' = [pc EXCEPT ![h] = "complete"]
  /\ work' = [work EXCEPT ![h].outcome = outcome]

\* Both statements throw, or (ignored) the look-up of the binding does.
ApplyFails(h, outcome) ==
  /\ pc[h] = "apply" /\ Fault
  /\ outcome = "ignored" => Kind[work[h].event] \in SubscriptionKinds
  /\ End(h, outcome)
  /\ lost' = lost \cup {work[h].event}
  /\ UNCHANGED <<log, tableVars, plans, acked, maintVars, repeats, historyVars, reopened>>

\* update users set stripe_customer_id; an error is swallowed.
Link(h) ==
  /\ pc[h] = "link"
  /\ \/ linked' = linked \cup {UserOf(work[h].event)} /\ UNCHANGED faults
     \/ Fault /\ UNCHANGED linked
  /\ pc' = [pc EXCEPT ![h] = "read"]
  /\ UNCHANGED <<log, subs, newest, plans, work, acked, maintVars, repeats, historyVars, lost, reopened>>

-----------------------------------------------------------------------------
(* syncUserPlanFromSubscription, a read and a write.                       *)

Entitled(s) == subs[s].status = "active" \/ (subs[s].status = "past_due" /\ subs[s].grace = "open")

\* The plan the row of the latest update gives; rows of one update tie.
PlanOf(u, plan) ==
  IF newest[u] = {} THEN plan = "free"
  ELSE \E s \in newest[u] : plan = IF Entitled(s) THEN "pro" ELSE "free"

SyncRead(h) ==
  /\ pc[h] = "read"
  /\ \E plan \in Plans : PlanOf(UserOf(work[h].event), plan) /\ work' = [work EXCEPT ![h].plan = plan]
  /\ pc' = [pc EXCEPT ![h] = "write"]
  /\ UNCHANGED <<log, tableVars, plans, acked, maintVars, repeats, faults, historyVars, lost, reopened>>

SyncWrite(h) ==
  /\ pc[h] = "write"
  /\ plans' = [plans EXCEPT ![UserOf(work[h].event)] = work[h].plan]
  /\ pc' = [pc EXCEPT ![h] = "complete"]
  /\ UNCHANGED <<log, tableVars, work, acked, maintVars, repeats, faults, historyVars, lost, reopened>>

SyncFails(h) ==
  /\ pc[h] \in {"read", "write"} /\ Fault
  /\ End(h, "failed")
  /\ UNCHANGED <<log, tableVars, plans, acked, maintVars, repeats, historyVars, lost, reopened>>

\* completeWebhookEvent, and the answer.
CompleteWebhookEvent(h) ==
  /\ pc[h] = "complete"
  /\ LET e == work[h].event IN
       /\ log' = [log EXCEPT ![e] = IF @ = "none" THEN @ ELSE work[h].outcome]
       /\ acked' = IF work[h].outcome = "failed" THEN acked ELSE acked \cup {e}
  /\ pc' = [pc EXCEPT ![h] = "idle"]
  /\ work' = [work EXCEPT ![h] = NoWork]
  /\ UNCHANGED <<tableVars, plans, maintVars, repeats, faults, historyVars, lost, reopened>>

\* Killed; and to Stripe a timeout is no different.
HandlerDies(h) ==
  /\ pc[h] # "idle" /\ Fault
  /\ lost' = IF pc[h] = "apply" THEN lost \cup {work[h].event} ELSE lost
  /\ pc' = [pc EXCEPT ![h] = "idle"]
  /\ work' = [work EXCEPT ![h] = NoWork]
  /\ UNCHANGED <<log, tableVars, plans, acked, maintVars, repeats, historyVars, reopened>>

-----------------------------------------------------------------------------
(* runBillingMaintenance, and time.                                        *)

GraceLapses(s) ==
  /\ subs[s].grace = "open"
  /\ subs' = [subs EXCEPT ![s].grace = "over"]
  /\ UNCHANGED <<log, newest, linked, plans, pc, work, acked, maintVars, repeats, faults,
                 historyVars, lost, reopened>>

Expired == {s \in Subs : subs[s].status = "past_due" /\ subs[s].grace = "over"}

ExpireGrace ==
  /\ mpc = "idle" /\ mpc' = "pick"
  /\ subs' = [s \in Subs |-> IF s \in Expired THEN [subs[s] EXCEPT !.status = "grace_expired"] ELSE subs[s]]
  /\ newest' = [u \in Users |-> LET mine == {s \in Expired : Owner[s] = u} IN
                                IF mine = {} THEN newest[u] ELSE mine]
  /\ UNCHANGED <<log, linked, plans, pc, work, acked, mwork, cursor, repeats, faults,
                 historyVars, lost, reopened>>

Subscribers == {Owner[s] : s \in {t \in Subs : Exists(t)}}
FirstOf(set, n) == {u \in set : Cardinality({v \in set : v < u}) < n}

FirstBatch == FirstOf({u \in Subscribers : u > cursor}, MaxUsers)
WrapBatch(first) == FirstOf(Subscribers, MaxUsers - Cardinality(first)) \ first

\* Mutant of LastUser: the batch that wraps around is forgotten.
LastBeforeWrap(u, first, wrap) ==
  IF first = {} THEN u = cursor ELSE u \in first /\ \A v \in first : v <= u

\* The user the cursor is set to: the last one of the batch.
LastUser(u, first, wrap) ==
  LET tail == IF wrap = {} THEN first ELSE wrap IN
  IF tail = {} THEN u = 0 ELSE u \in tail /\ \A v \in tail : v <= u

PickUsers ==
  /\ mpc = "pick" /\ mpc' = "read"
  /\ LET first == FirstBatch
         wrap == WrapBatch(first) IN
       \E last \in Users \cup {0} :
         LastUser(last, first, wrap) /\ mwork' = [NoMaint EXCEPT !.todo = first \cup wrap, !.next = last]
  /\ UNCHANGED <<log, tableVars, plans, pc, work, acked, cursor, repeats, faults, historyVars, lost, reopened>>

\* The users of a batch have nothing in common, so that their order is left open.
MaintRead(u) ==
  /\ mpc = "read" /\ u \in mwork.todo
  /\ \E plan \in Plans :
       PlanOf(u, plan) /\ mwork' = [mwork EXCEPT !.user = u, !.plan = plan, !.todo = @ \ {u}]
  /\ mpc' = "write"
  /\ UNCHANGED <<log, tableVars, plans, pc, work, acked, cursor, repeats, faults, historyVars, lost, reopened>>

\* A sync that throws is counted, and the run goes on.
MaintWrite ==
  /\ mpc = "write" /\ mpc' = "read"
  /\ \/ plans' = [plans EXCEPT ![mwork.user] = mwork.plan] /\ UNCHANGED faults
     \/ Fault /\ UNCHANGED plans
  /\ mwork' = [mwork EXCEPT !.user = 0, !.plan = "free"]
  /\ UNCHANGED <<log, tableVars, pc, work, acked, cursor, repeats, historyVars, lost, reopened>>

MaintEnds ==
  /\ mpc = "read" /\ mwork.todo = {}
  /\ mpc' = "idle" /\ mwork' = NoMaint
  /\ (cursor' = mwork.next /\ UNCHANGED faults) \/ (Fault /\ UNCHANGED cursor)
  /\ UNCHANGED <<log, tableVars, plans, pc, work, acked, repeats, historyVars, lost, reopened>>

MaintDies ==
  /\ mpc # "idle" /\ Fault
  /\ mpc' = "idle" /\ mwork' = NoMaint
  /\ UNCHANGED <<log, tableVars, plans, pc, work, acked, cursor, repeats, historyVars, lost, reopened>>

-----------------------------------------------------------------------------
Deliver == \/ \E h \in Handlers, e \in Events : ReceiveNew(h, e) \/ ReceiveUnsure(h, e)
           \/ \E e \in Events : ReceiveDuplicate(e) \/ ReceiveConfused(e)

Proceed(h) == Apply(h) \/ Link(h) \/ SyncRead(h) \/ SyncWrite(h) \/ CompleteWebhookEvent(h)

Fail(h) == \/ ApplyUnguarded(h) \/ SyncFails(h) \/ HandlerDies(h)
           \/ \E outcome \in {"failed", "ignored"} : ApplyFails(h, outcome)

Maintain == ExpireGrace \/ PickUsers \/ (\E u \in Users : MaintRead(u)) \/ MaintWrite \/ MaintEnds

Next == \/ Deliver
        \/ \E h \in Handlers : Proceed(h) \/ Fail(h)
        \/ \E s \in Subs : GraceLapses(s)
        \/ Maintain \/ MaintDies

Spec == Init /\ [][Next]_vars

\* The nightly cron and billing-sync keep calling; what is not killed runs on.
Fairness == WF_vars(Maintain) /\ \A h \in Handlers : WF_vars(Proceed(h))
FairSpec == Spec /\ Fairness

-----------------------------------------------------------------------------
(* Properties                                                              *)

TypeOK ==
  /\ log \in [Events -> LogStatus] /\ subs \in [Subs -> SubRow]
  /\ newest \in [Users -> SUBSET Subs] /\ linked \subseteq Users /\ plans \in [Users -> Plans]
  /\ pc \in [Handlers -> HandlerPcs] /\ work \in [Handlers -> Work] /\ acked \subseteq Events
  /\ mpc \in MaintPcs /\ mwork \in MaintWork /\ cursor \in Users \cup {0}
  /\ repeats \in Nat /\ faults \in Nat
  /\ applied \in [Events -> Nat] /\ met \in [Subs -> SUBSET Events]
  /\ unguarded \subseteq Subs /\ lost \subseteq Events /\ reopened \subseteq Events

\* However often and wherever at once Stripe delivers an event, its statement runs
\* once, unless the log of events could not be asked.
AppliedAtMostOnce == \A e \in Events : applied[e] <= 1 \/ e \in reopened

\* Whatever the order of deliveries, a row shows one of the newest events that have
\* found it, unless the guarded statement failed on it once.
Showing(s, e) ==
  /\ subs[s].last = At[e] /\ \A f \in met[s] : At[f] <= At[e]
  /\ subs[s].status = Shows(e) \/ (subs[s].status = "grace_expired" /\ Shows(e) = "past_due")

RowsShowTheNewest ==
  \A s \in Subs \ unguarded : met[s] # {} => \E e \in met[s] : Showing(s, e)

\* Stripe stops sending an event once it got a 2xx. By then the event has been
\* applied, or some delivery is at it, or one has failed before it came to that:
\* a duplicate answered in between never hides an event nobody has at hand.
AckedEventsAreApplied ==
  \A e \in acked : applied[e] > 0 \/ e \in lost \/ \E h \in Handlers : work[h].event = e

\* Both together: what Stripe delivers at least once is applied once.
EventsAreAppliedOnce == AppliedAtMostOnce /\ AckedEventsAreApplied

\* In the end every user has the plan of the row of the latest update, though syncs
\* overlap and write back what they read before: maintenance gets to every user, batch
\* by batch and over its own restarts.
PlansConverge ==
  \A u \in Users : \E plan \in Plans : <>[](PlanOf(u, plan) /\ plans[u] = plan)
=============================================================================
