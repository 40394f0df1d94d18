-------------------------- MODULE WebhookDelivery --------------------------
(***************************************************************************)
(* Outgoing webhooks: emitWebhook queues one delivery per webhook of the   *)
(* owner, or sends at once when it cannot; invocations of                  *)
(* processWebhookDeliveries (a cron every ten minutes, and one per press   *)
(* of the owner's test button) select due deliveries, send them and record *)
(* the outcome, with a backoff until the next attempt and a last attempt.  *)
(*                                                                         *)
(* The locks of the selecting statement end with it: what an invocation    *)
(* knows of a delivery is what it read then.                               *)
(***************************************************************************)
EXTENDS Naturals, FiniteSets

CONSTANTS
  Hooks,        \* webhooks of one owner, subscribed to all events here
  Events,       \* events emitted, each once
  Tests,        \* presses of the test button
  Followed,     \* the deliveries of tests that are followed
  Cron,         \* the invocations of the cron, which do not overlap each other
  MaxAttempts,  \* maxAttempts
  BatchSize,    \* maxBatch
  NoDelivery,   \* no delivery
  MaxFaults     \* bound: invocations that die and statements that throw

Deliveries == (Events \X Hooks) \cup Followed
Workers == Tests \cup {Cron}

ASSUME WebhookAssumption ==
  /\ Followed \subseteq Tests \X Hooks
  /\ Events \cap Tests = {} /\ Cron \notin Tests /\ NoDelivery \notin Deliveries
  /\ MaxAttempts \in Nat \ {0} /\ BatchSize \in Nat \ {0} /\ MaxFaults \in Nat

VARIABLES
  hook,       \* [Hooks -> {"none", "on", "off", "deleted"}]
  row,        \* [Deliveries -> Row]: webhook_deliveries
  emit,       \* [Events -> Emission]: the locals of emitWebhook
  pc,         \* [Workers -> WorkerPcs]
  batch,      \* [Workers -> SUBSET Deliveries]: selected and not yet recorded
  read,       \* [Workers -> [Deliveries -> Nat]]: attempt_count when selected
  current,    \* [Workers -> Deliveries \cup {NoDelivery}]: the one at hand
  accepted,   \* [Workers -> BOOLEAN]: its answer was a 2xx
  faults,     \* faults so far
  sends,      \* [Deliveries -> Nat]: POSTs of queued deliveries (history)
  taken,      \* deliveries with a 2xx to a POST from the queue (history)
  direct,     \* deliveries sent without the queue (history)
  excused,    \* events lost by a fault (history)
  absent,     \* pairs of an event and a webhook that was, at some time while the
              \*   event was emitted, disabled or deleted (history)
  shared,     \* deliveries that were ever in two batches at once (history)
  latecomers  \* deliveries in a batch when their webhook was deleted (history)

workerVars == <<pc, batch, read, current, accepted>>
historyVars == <<sends, taken, direct, excused, absent, shared, latecomers>>
vars == <<hook, row, emit, workerVars, faults, historyVars>>

-----------------------------------------------------------------------------
Statuses == {"none", "pending", "delivering", "succeeded", "dead", "deleted"}

\* status, attempt_count, next_attempt_at <= now()
Row == [status : Statuses, attempts : Nat, due : BOOLEAN]

\* Where it is, and the webhooks yet to queue for or to send to.
Emission == [pc : {"none", "queue", "fallback", "send", "done"}, todo : SUBSET Hooks]

WorkerPcs == {"unused", "idle", "select", "next", "send", "record"}

Init ==
  /\ hook = [h \in Hooks |-> "none"]
  /\ row = [d \in Deliveries |-> [status |-> "none", attempts |-> 0, due |-> FALSE]]
  /\ emit = [e \in Events |-> [pc |-> "none", todo |-> {}]]
  /\ pc = [w \in Workers |-> IF w = Cron THEN "idle" ELSE "unused"]
  /\ batch = [w \in Workers |-> {}]
  /\ read = [w \in Workers |-> [d \in Deliveries |-> 0]]
  /\ current = [w \in Workers |-> NoDelivery]
  /\ accepted = [w \in Workers |-> FALSE]
  /\ faults = 0
  /\ sends = [d \in Deliveries |-> 0]
  /\ taken = {} /\ direct = {} /\ excused = {} /\ absent = {} /\ shared = {} /\ latecomers = {}

Fault == faults < MaxFaults /\ faults' = faults + 1

Exists(h) == hook[h] \in {"on", "off"}
InTable(d) == row[d].status \notin {"none", "deleted"}
Enabled == {h \in Hooks : hook[h] = "on"}

-----------------------------------------------------------------------------
(* The owner's actions.                                                    *)

CreateWebhook(h, state) ==
  /\ hook[h] = "none" /\ state \in {"on", "off"}
  /\ hook' = [hook EXCEPT ![h] = state]
  /\ UNCHANGED <<row, emit, workerVars, faults, historyVars>>

\* Emissions under way may or may not find the webhook.
Leaves(h) == absent' = absent \cup {e \in Events : emit[e].pc # "none"} \X {h}

UpdateWebhook(h, state) ==
  /\ Exists(h) /\ state \in {"on", "off"} /\ hook[h] # state
  /\ hook' = [hook EXCEPT ![h] = state]
  /\ Leaves(h)
  /\ UNCHANGED <<row, emit, workerVars, faults, sends, taken, direct, excused, shared, latecomers>>

Of(h) == {d \in Deliveries : d[2] = h}

\* Mutant of DeleteWebhook: the deliveries stay.
DeleteAlone(h) ==
  /\ Exists(h)
  /\ hook' = [hook EXCEPT ![h] = "deleted"]
  /\ Leaves(h)
  /\ latecomers' = latecomers \cup {d \in Of(h) : \E w \in Workers : d \in batch[w]}
  /\ UNCHANGED <<row, emit, workerVars, faults, sends, taken, direct, excused, shared>>

\* The foreign key takes the deliveries with it.
DeleteWebhook(h) ==
  /\ Exists(h)
  /\ hook' = [hook EXCEPT ![h] = "deleted"]
  /\ row' = [d \in Deliveries |->
               IF d \in Of(h) /\ InTable(d) THEN [row[d] EXCEPT !.status = "deleted"] ELSE row[d]]
  /\ Leaves(h)
  /\ latecomers' = latecomers \cup {d \in Of(h) : \E w \in Workers : d \in batch[w]}
  /\ UNCHANGED <<emit, workerVars, faults, sends, taken, direct, excused, shared>>

\* Mutant of Queued: a status the queue does not know.
QueuedAsNew(d) == [row EXCEPT ![d] = [status |-> "queued", attempts |-> 0, due |-> TRUE]]

Queued(d) == [row EXCEPT ![d] = [status |-> "pending", attempts |-> 0, due |-> TRUE]]

\* The button inserts a delivery and then runs an invocation.
TestWebhook(t, h) ==
  /\ Exists(h) /\ pc[t] = "unused"
  /\ row' = IF <<t, h>> \in Followed THEN Queued(<<t, h>>) ELSE row
  /\ pc' = [pc EXCEPT ![t] = "select"]
  /\ UNCHANGED <<hook, emit, batch, read, current, accepted, faults, historyVars>>

-----------------------------------------------------------------------------
(* emitWebhook. *)

Emitted(e, next, todo) == emit' = [emit EXCEPT ![e] = [pc |-> next, todo |-> todo]]

\* The owner and the enabled webhooks are read.
EmitWebhook(e) ==
  /\ emit[e].pc = "none"
  /\ Emitted(e, IF Enabled = {} THEN "done" ELSE "queue", Enabled)
  /\ absent' = absent \cup ({e} \X (Hooks \ Enabled))
  /\ UNCHANGED <<hook, row, workerVars, faults, sends, taken, direct, excused, shared, latecomers>>

InsertDelivery(e, h) ==
  /\ emit[e].pc = "queue" /\ h \in emit[e].todo /\ Exists(h)
  /\ row' = Queued(<<e, h>>)
  /\ Emitted(e, IF emit[e].todo = {h} THEN "done" ELSE "queue", emit[e].todo \ {h})
  /\ UNCHANGED <<hook, workerVars, faults, historyVars>>

\* Mutant of InsertFails: the webhooks that are left are the only ones to serve.
FallbackForgets(e, h) ==
  /\ emit[e].pc = "queue" /\ h \in emit[e].todo
  /\ IF Exists(h) THEN Fault ELSE UNCHANGED faults
  /\ UNCHANGED row
  /\ Emitted(e, "done", {})
  /\ UNCHANGED <<hook, workerVars, historyVars>>

\* The webhook is gone, or the insert throws, be it before or after it commits.
InsertFails(e, h) ==
  /\ emit[e].pc = "queue" /\ h \in emit[e].todo
  /\ \/ ~Exists(h) /\ UNCHANGED <<row, faults>>
     \/ Exists(h) /\ Fault /\ row' \in {row, Queued(<<e, h>>)}
  /\ Emitted(e, "fallback", {})
  /\ UNCHANGED <<hook, workerVars, historyVars>>

\* deliverSyncBestEffort reads the webhooks again and serves all of them, the ones
\* queued for already too.
ListAgain(e) ==
  /\ emit[e].pc = "fallback"
  /\ Emitted(e, IF Enabled = {} THEN "done" ELSE "send", Enabled)
  /\ UNCHANGED <<hook, row, workerVars, faults, historyVars>>

SendDirectly(e, h) ==
  /\ emit[e].pc = "send" /\ h \in emit[e].todo
  /\ direct' = direct \cup {<<e, h>>}
  /\ Emitted(e, IF emit[e].todo = {h} THEN "done" ELSE "send", emit[e].todo \ {h})
  /\ UNCHANGED <<hook, row, workerVars, faults, sends, taken, excused, absent, shared, latecomers>>

\* The owner or the webhooks cannot be read, or the request dies.
EmissionFails(e) ==
  /\ emit[e].pc # "done" /\ Fault
  /\ Emitted(e, "done", {})
  /\ excused' = excused \cup {e}
  /\ UNCHANGED <<hook, row, workerVars, sends, taken, direct, absent, shared, latecomers>>

-----------------------------------------------------------------------------
(* processWebhookDeliveries. *)

\* Mutant of Due: what an invocation has at hand is left to it.
DuePending == {d \in Deliveries : row[d].status = "pending" /\ row[d].due}

Due == {d \in Deliveries : row[d].status \in {"pending", "delivering"} /\ row[d].due}

\* The order of next_attempt_at and the rows locked at this moment choose the batch.
SelectDue(w, b) ==
  /\ pc[w] = IF w = Cron THEN "idle" ELSE "select"
  /\ b \subseteq Due /\ b # {} /\ Cardinality(b) <= BatchSize
  /\ pc' = [pc EXCEPT ![w] = "next"]
  /\ batch' = [batch EXCEPT ![w] = b]
  /\ read' = [read EXCEPT ![w] = [d \in Deliveries |-> IF d \in b THEN row[d].attempts ELSE 0]]
  /\ shared' = shared \cup {d \in b : \E v \in Workers : d \in batch[v]}
  /\ UNCHANGED <<hook, row, emit, current, accepted, faults, sends, taken, direct, excused,
                 absent, latecomers>>

\* Another invocation is at work on the test.
NothingDue(t) ==
  /\ pc[t] = "select" /\ Due = {}
  /\ pc' = [pc EXCEPT ![t] = "idle"]
  /\ UNCHANGED <<hook, row, emit, batch, read, current, accepted, faults, historyVars>>

\* An UPDATE finds no row that has been deleted.
Written(d, status, attempts, due) ==
  IF InTable(d) THEN [row EXCEPT ![d] = [status |-> status, attempts |-> attempts, due |-> due]]
  ELSE row

\* Whatever the row says by now; next_attempt_at is not moved.
MarkDelivering(w, d) ==
  /\ pc[w] = "next" /\ d \in batch[w]
  /\ row' = Written(d, "delivering", row[d].attempts, row[d].due)
  /\ pc' = [pc EXCEPT ![w] = "send"]
  /\ current' = [current EXCEPT ![w] = d]
  /\ UNCHANGED <<hook, emit, batch, read, accepted, faults, historyVars>>

\* deliverOnce. The receiver answers with a 2xx, or does not; a POST that timed out
\* may have arrived.
DeliverOnce(w, ok) ==
  /\ pc[w] = "send"
  /\ accepted' = [accepted EXCEPT ![w] = ok]
  /\ taken' = IF ok THEN taken \cup {current[w]} ELSE taken
  /\ sends' = [sends EXCEPT ![current[w]] = @ + 1]
  /\ pc' = [pc EXCEPT ![w] = "record"]
  /\ UNCHANGED <<hook, row, emit, batch, read, current, faults, direct, excused, absent, shared,
                 latecomers>>

\* Mutant of NextAttempt: the attempts are numbered from zero.
AttemptsSoFar(w) == read[w][current[w]]

NextAttempt(w) == read[w][current[w]] + 1

\* Mutant of ShouldDie: one attempt early.
DieEarly(w) == ~accepted[w] /\ read[w][current[w]] + 2 >= MaxAttempts

ShouldDie(w) == ~accepted[w] /\ NextAttempt(w) >= MaxAttempts

\* Done with the delivery at hand.
Turn(w) ==
  /\ batch' = [batch EXCEPT ![w] = @ \ {current[w]}]
  /\ read' = [read EXCEPT ![w][current[w]] = 0]
  /\ current' = [current EXCEPT ![w] = NoDelivery]
  /\ accepted' = [accepted EXCEPT ![w] = FALSE]
  /\ pc' = [pc EXCEPT ![w] = IF batch[w] = {current[w]} THEN "idle" ELSE "next"]

Outcome(w) ==
  LET d == current[w] IN
  CASE accepted[w]  -> Written(d, "succeeded", NextAttempt(w), row[d].due)
    [] ShouldDie(w) -> Written(d, "dead", NextAttempt(w), row[d].due)
    [] OTHER        -> Written(d, "pending", NextAttempt(w), FALSE)

\* The outcome with the count read at first, whatever the row holds now.
RecordOutcome(w) ==
  /\ pc[w] = "record"
  /\ row' = Outcome(w)
  /\ Turn(w)
  /\ UNCHANGED <<hook, emit, faults, historyVars>>

BackoffEnds(d) ==
  /\ row[d].status \in {"pending", "delivering"} /\ ~row[d].due
  /\ row' = [row EXCEPT ![d].due = TRUE]
  /\ UNCHANGED <<hook, emit, workerVars, faults, historyVars>>

\* Killed, or a statement throws and the rest of the batch is given up; the outcome at
\* hand may have been written by then.
InvocationEnds(w) ==
  /\ pc[w] \notin {"unused", "idle"} /\ Fault
  /\ row' \in IF pc[w] = "record" THEN {row, Outcome(w)} ELSE {row}
  /\ pc' = [pc EXCEPT ![w] = "idle"]
  /\ batch' = [batch EXCEPT ![w] = {}]
  /\ read' = [read EXCEPT ![w] = [d \in Deliveries |-> 0]]
  /\ current' = [current EXCEPT ![w] = NoDelivery]
  /\ accepted' = [accepted EXCEPT ![w] = FALSE]
  /\ UNCHANGED <<hook, emit, historyVars>>

-----------------------------------------------------------------------------
Owner(h) == \/ \E state \in {"on", "off"} : CreateWebhook(h, state) \/ UpdateWebhook(h, state)
            \/ DeleteWebhook(h)
            \/ \E t \in Tests : TestWebhook(t, h)

Emit(e) == \/ ListAgain(e)
                \/ \E h \in Hooks : InsertDelivery(e, h) \/ InsertFails(e, h) \/ SendDirectly(e, h)

Select(w) == \E b \in SUBSET Due : SelectDue(w, b)

Proceed(w) == \/ \E d \in Deliveries : MarkDelivering(w, d)
              \/ \E ok \in BOOLEAN : DeliverOnce(w, ok)
              \/ RecordOutcome(w)

Next == \/ \E h \in Hooks : Owner(h)
        \/ \E t \in Tests : NothingDue(t)
        \/ \E e \in Events : EmitWebhook(e) \/ Emit(e) \/ EmissionFails(e)
        \/ \E w \in Workers : Select(w) \/ Proceed(w) \/ InvocationEnds(w)
        \/ \E d \in Deliveries : BackoffEnds(d)

Spec == Init /\ [][Next]_vars

\* The cron worker calls the route every ten minutes, and an invocation that is not
\* killed runs on once it has a batch; backoffs are at most two and a half hours.
Fairness ==
  /\ WF_vars(Select(Cron))
  /\ \A w \in Workers : WF_vars(Proceed(w))
  /\ \A d \in Deliveries : WF_vars(BackoffEnds(d))

FairSpec == Spec /\ Fairness

-----------------------------------------------------------------------------
(* Properties                                                              *)

TypeOK ==
  /\ hook \in [Hooks -> {"none", "on", "off", "deleted"}]
  /\ row \in [Deliveries -> Row] /\ emit \in [Events -> Emission]
  /\ pc \in [Workers -> WorkerPcs] /\ batch \in [Workers -> SUBSET Deliveries]
  /\ read \in [Workers -> [Deliveries -> Nat]]
  /\ current \in [Workers -> Deliveries \cup {NoDelivery}] /\ accepted \in [Workers -> BOOLEAN]
  /\ faults \in Nat /\ sends \in [Deliveries -> Nat]
  /\ taken \subseteq Deliveries /\ direct \subseteq Deliveries /\ excused \subseteq Events
  /\ absent \subseteq Events \X Hooks
  /\ shared \subseteq Deliveries /\ latecomers \subseteq Deliveries

\* A final status is earned, though invocations overlap, write back counts they read
\* before and overwrite final statuses: 'succeeded' had a 2xx, and 'dead' was sent
\* at least MaxAttempts times ("deliveries become dead after max attempts").
FinalStatusesAreEarned ==
  \A d \in Deliveries :
    /\ row[d].status = "succeeded" => d \in taken
    /\ row[d].status = "dead" => sends[d] >= MaxAttempts

\* A delivery that only one invocation had at a time is sent as often as its row
\* says, and once more for each invocation that ended before it could record.
InFlight(d) == Cardinality({w \in Workers : pc[w] = "record" /\ current[w] = d})

SendsAreCounted ==
  \A d \in Deliveries \ shared :
    InTable(d) => sends[d] <= row[d].attempts + InFlight(d) + faults

\* An event that has been emitted is queued for, or was sent to, every webhook that
\* was enabled all the while, also when queueing failed midway or another webhook was
\* deleted under it.
EmittedEventsAreServed ==
  \A e \in Events \ excused : \A h \in Hooks :
    emit[e].pc = "done" /\ <<e, h>> \notin absent
    => row[<<e, h>>].status # "none" \/ <<e, h>> \in direct

\* Once a webhook is deleted the queue sends it nothing, but for what was selected
\* before. (Disabling a webhook stops nothing that is queued.)
DeletedHooksAreLeftAlone ==
  [][\A d \in Deliveries : hook[d[2]] = "deleted" /\ sends'[d] > sends[d] => d \in latecomers]_vars

\* What has come to its end stays there unless invocations overlapped on it: a final
\* delivery is neither changed nor sent again, and one that was accepted is sent again
\* only if an invocation died before it recorded that.
Final(d) == row[d].status \in {"succeeded", "dead"}

FinalDeliveriesStay ==
  [][\A d \in Deliveries \ shared :
       /\ Final(d) => /\ row'[d] = row[d] \/ row'[d].status = "deleted"
                      /\ sends'[d] = sends[d]
       /\ d \in taken /\ faults = 0 => sends'[d] = sends[d]]_vars

OverIsOver == DeletedHooksAreLeftAlone /\ FinalDeliveriesStay

\* Every delivery comes to rest: final, nobody at work on it, and so for ever, though
\* a late invocation sets a final delivery going again. (It takes a bound on the
\* invocations that overlap: two that always overlap could do so for ever.)
AtRest(d) ==
  /\ row[d].status \in {"none", "succeeded", "dead", "deleted"}
  /\ \A w \in Workers : d \notin batch[w]

DeliveriesComeToRest == \A d \in Deliveries : row[d].status = "pending" ~> [](AtRest(d))
=============================================================================
