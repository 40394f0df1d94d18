----------------------- MODULE WebhookDelivery_proofs -----------------------
(***************************************************************************)
(* Proofs about WebhookDelivery, for every set of webhooks, events and     *)
(* presses of the test button, every batch size and every MaxAttempts.     *)
(***************************************************************************)
EXTENDS WebhookDelivery, TLAPS, FiniteSetTheorems

-----------------------------------------------------------------------------
(* Type correctness: an invocation that sends has its delivery in its      *)
(* batch.                                                                  *)

HandsFull == \A w \in Workers : pc[w] \in {"send", "record"} => current[w] \in batch[w]

TypeInv == TypeOK /\ HandsFull

LEMMA Deliverables ==
  /\ \A e \in Events, h \in Hooks : <<e, h>> \in Deliveries
  /\ \A d \in Deliveries : d[2] \in Hooks
  /\ Cron \in Workers /\ \A t \in Tests : t \in Workers /\ t # Cron
BY WebhookAssumption DEF Deliveries, Workers

\* The rows that are written are rows.
LEMMA RowTypes ==
  /\ \A s \in Statuses, n \in Nat, b \in BOOLEAN :
       /\ [status |-> s, attempts |-> n, due |-> b] \in Row
       /\ [status |-> s, attempts |-> n, due |-> b].status = s
       /\ [status |-> s, attempts |-> n, due |-> b].attempts = n
  /\ \A r \in Row : r.status \in Statuses /\ r.attempts \in Nat /\ r.due \in BOOLEAN
  /\ \A r \in Row, s \in Statuses :
       /\ [r EXCEPT !.status = s] \in Row
       /\ [r EXCEPT !.status = s].status = s /\ [r EXCEPT !.status = s].attempts = r.attempts
  /\ \A r \in Row :
       /\ [r EXCEPT !.due = TRUE] \in Row
       /\ [r EXCEPT !.due = TRUE].status = r.status /\ [r EXCEPT !.due = TRUE].attempts = r.attempts
BY DEF Row

LEMMA WrittenType ==
  ASSUME row \in [Deliveries -> Row], NEW d \in Deliveries, NEW s \in Statuses, NEW n \in Nat, NEW b \in BOOLEAN
  PROVE  /\ Written(d, s, n, b) \in [Deliveries -> Row]
         /\ \A x \in Deliveries : x # d => Written(d, s, n, b)[x] = row[x]
         /\ ~InTable(d) => Written(d, s, n, b)[d] = row[d]
         /\ InTable(d) => /\ Written(d, s, n, b)[d].status = s
                          /\ Written(d, s, n, b)[d].attempts = n
BY RowTypes DEF Written

LEMMA OutcomeType ==
  ASSUME TypeInv, NEW w \in Workers, pc[w] = "record"
  PROVE  /\ Outcome(w) \in [Deliveries -> Row]
         /\ \A x \in Deliveries : x # current[w] => Outcome(w)[x] = row[x]
         /\ ~InTable(current[w]) => Outcome(w)[current[w]] = row[current[w]]
         /\ InTable(current[w]) =>
              /\ Outcome(w)[current[w]].attempts = NextAttempt(w)
              /\ \/ accepted[w] /\ Outcome(w)[current[w]].status = "succeeded"
                 \/ ShouldDie(w) /\ Outcome(w)[current[w]].status = "dead"
                 \/ ~accepted[w] /\ Outcome(w)[current[w]].status = "pending"
<1>1. current[w] \in Deliveries /\ row \in [Deliveries -> Row] /\ read[w][current[w]] \in Nat
  BY DEF TypeInv, TypeOK, HandsFull
<1>2. NextAttempt(w) \in Nat /\ row[current[w]].due \in BOOLEAN
  BY <1>1, RowTypes DEF NextAttempt
<1>3. CASE accepted[w]
  <2>1. Outcome(w) = Written(current[w], "succeeded", NextAttempt(w), row[current[w]].due)
    BY <1>3 DEF Outcome, ShouldDie
  <2> QED BY <1>1, <1>2, <1>3, <2>1, WrittenType DEF Statuses
<1>4. CASE ~accepted[w] /\ ShouldDie(w)
  <2>1. Outcome(w) = Written(current[w], "dead", NextAttempt(w), row[current[w]].due)
    BY <1>4 DEF Outcome
  <2> QED BY <1>1, <1>2, <1>4, <2>1, WrittenType DEF Statuses
<1>5. CASE ~accepted[w] /\ ~ShouldDie(w)
  <2>1. Outcome(w) = Written(current[w], "pending", NextAttempt(w), FALSE)
    BY <1>5 DEF Outcome
  <2>2. PICK r \in Row : r = [status |-> "pending", attempts |-> NextAttempt(w), due |-> FALSE]
    BY <1>2 DEF Row, Statuses
  <2>3. r.status = "pending" /\ r.attempts = NextAttempt(w)
    BY <2>2
  <2>4. Outcome(w) = IF InTable(current[w]) THEN [row EXCEPT ![current[w]] = r] ELSE row
    BY <2>1, <2>2 DEF Written
  <2> QED BY <1>1, <1>5, <2>3, <2>4
<1> QED BY <1>3, <1>4, <1>5

LEMMA QueuedType ==
  ASSUME row \in [Deliveries -> Row], NEW d \in Deliveries
  PROVE  /\ Queued(d) \in [Deliveries -> Row]
         /\ \A x \in Deliveries : x # d => Queued(d)[x] = row[x]
         /\ Queued(d)[d].status = "pending" /\ Queued(d)[d].attempts = 0
BY RowTypes DEF Queued, Statuses

LEMMA InitTypeInv == Init => TypeInv
BY DEF Init, TypeInv, TypeOK, HandsFull, Row, Statuses, Emission, WorkerPcs

LEMMA OwnerTypeInv ==
  ASSUME TypeInv, NEW h \in Hooks, Owner(h)
  PROVE  TypeInv'
<1> USE DEF TypeInv, TypeOK, HandsFull, workerVars, historyVars
<1>1. ASSUME NEW state \in {"on", "off"}, CreateWebhook(h, state) PROVE TypeInv'
  BY <1>1 DEF CreateWebhook
<1>2. ASSUME NEW state \in {"on", "off"}, UpdateWebhook(h, state) PROVE TypeInv'
  BY <1>2 DEF UpdateWebhook, Leaves
<1>3. CASE DeleteWebhook(h)
  <2>1. row' \in [Deliveries -> Row]
    BY <1>3, RowTypes DEF DeleteWebhook, Statuses
  <2>2. absent' \subseteq Events \X Hooks
    BY <1>3 DEF DeleteWebhook, Leaves
  <2>3. latecomers' \subseteq Deliveries
    BY <1>3 DEF DeleteWebhook, Of
  <2> QED BY <1>3, <2>1, <2>2, <2>3 DEF DeleteWebhook
<1>4. ASSUME NEW t \in Tests, TestWebhook(t, h) PROVE TypeInv'
  <2>1. row' \in [Deliveries -> Row]
    BY <1>4, QueuedType DEF TestWebhook, Deliveries
  <2>2. pc' \in [Workers -> WorkerPcs]
    BY <1>4 DEF TestWebhook, WorkerPcs
  <2> QED BY <1>4, <2>1, <2>2 DEF TestWebhook
<1> QED BY <1>1, <1>2, <1>3, <1>4 DEF Owner

LEMMA EmittedType ==
  ASSUME emit \in [Events -> Emission], NEW e \in Events, NEW todo \in SUBSET Hooks,
         NEW next \in {"none", "queue", "fallback", "send", "done"}, Emitted(e, next, todo)
  PROVE  /\ emit' \in [Events -> Emission]
         /\ emit'[e].pc = next /\ emit'[e].todo = todo
         /\ \A x \in Events : x # e => emit'[x] = emit[x]
BY DEF Emitted, Emission

LEMMA EmitTypeInv ==
  ASSUME TypeInv, NEW e \in Events, EmitWebhook(e) \/ Emit(e) \/ EmissionFails(e)
  PROVE  TypeInv'
<1> USE DEF TypeInv, TypeOK, HandsFull, workerVars, historyVars
<1>0. emit \in [Events -> Emission] /\ emit[e].todo \in SUBSET Hooks /\ Enabled \in SUBSET Hooks
  BY DEF Emission, Enabled
<1>1. CASE EmitWebhook(e)
  <2>1. emit' \in [Events -> Emission]
    BY <1>0, <1>1, EmittedType DEF EmitWebhook
  <2> QED BY <1>1, <2>1 DEF EmitWebhook
<1>2. ASSUME NEW h \in Hooks, InsertDelivery(e, h) PROVE TypeInv'
  <2>1. emit' \in [Events -> Emission]
    BY <1>0, <1>2, EmittedType DEF InsertDelivery
  <2> QED BY <1>2, <2>1, QueuedType, Deliverables DEF InsertDelivery
<1>3. ASSUME NEW h \in Hooks, InsertFails(e, h) PROVE TypeInv'
  <2>1. emit' \in [Events -> Emission]
    BY <1>0, <1>3, EmittedType DEF InsertFails
  <2>2. row' \in [Deliveries -> Row] /\ faults' \in Nat
    BY <1>3, QueuedType, Deliverables DEF InsertFails, Fault
  <2> QED BY <1>3, <2>1, <2>2 DEF InsertFails
<1>4. CASE ListAgain(e)
  <2>1. emit' \in [Events -> Emission]
    BY <1>0, <1>4, EmittedType DEF ListAgain
  <2> QED BY <1>4, <2>1 DEF ListAgain
<1>5. ASSUME NEW h \in Hooks, SendDirectly(e, h) PROVE TypeInv'
  <2>1. emit' \in [Events -> Emission]
    BY <1>0, <1>5, EmittedType DEF SendDirectly
  <2> QED BY <1>5, <2>1, Deliverables DEF SendDirectly
<1>6. CASE EmissionFails(e)
  <2>1. emit' \in [Events -> Emission]
    BY <1>0, <1>6, EmittedType DEF EmissionFails
  <2> QED BY <1>6, <2>1 DEF EmissionFails, Fault
<1> QED BY <1>1, <1>2, <1>3, <1>4, <1>5, <1>6 DEF Emit

LEMMA WorkTypeInv ==
  ASSUME TypeInv, NEW w \in Workers,
         Select(w) \/ Proceed(w) \/ InvocationEnds(w) \/ (w \in Tests /\ NothingDue(w))
  PROVE  TypeInv'
<1> USE DEF TypeInv, TypeOK, HandsFull, workerVars, historyVars, WorkerPcs
<1>1. ASSUME NEW b \in SUBSET Due, SelectDue(w, b) PROVE TypeInv'
  <2>1. b \subseteq Deliveries
    BY DEF Due
  <2>2. read' \in [Workers -> [Deliveries -> Nat]]
    <3>1. [d \in Deliveries |-> IF d \in b THEN row[d].attempts ELSE 0] \in [Deliveries -> Nat]
      BY RowTypes
    <3> QED BY <1>1, <3>1 DEF SelectDue
  <2>3. shared' \subseteq Deliveries
    BY <1>1, <2>1 DEF SelectDue
  <2>4. batch' \in [Workers -> SUBSET Deliveries] /\ pc' \in [Workers -> WorkerPcs] /\ HandsFull'
    BY <1>1, <2>1 DEF SelectDue
  <2> QED BY <1>1, <2>2, <2>3, <2>4 DEF SelectDue
<1>2. ASSUME NEW d \in Deliveries, MarkDelivering(w, d) PROVE TypeInv'
  <2>1. row' \in [Deliveries -> Row]
    <3>1. row[d].attempts \in Nat /\ row[d].due \in BOOLEAN
      BY RowTypes
    <3>2. row' = Written(d, "delivering", row[d].attempts, row[d].due)
      BY <1>2 DEF MarkDelivering
    <3> QED BY <3>1, <3>2, WrittenType DEF Statuses
  <2> QED BY <1>2, <2>1 DEF MarkDelivering
<1>3. ASSUME NEW ok \in BOOLEAN, DeliverOnce(w, ok) PROVE TypeInv'
  <2>1. current[w] \in Deliveries
    BY <1>3 DEF DeliverOnce
  <2>2. sends' \in [Deliveries -> Nat] /\ taken' \subseteq Deliveries
    BY <1>3, <2>1 DEF DeliverOnce
  <2> QED BY <1>3, <2>2 DEF DeliverOnce
<1>4. CASE RecordOutcome(w)
  <2>1. row' \in [Deliveries -> Row]
    BY <1>4, OutcomeType DEF RecordOutcome
  <2>2. current[w] \in Deliveries
    BY <1>4 DEF RecordOutcome
  <2>3. read' \in [Workers -> [Deliveries -> Nat]]
    BY <1>4, <2>2 DEF RecordOutcome, Turn
  <2>4. batch' \in [Workers -> SUBSET Deliveries] /\ pc' \in [Workers -> WorkerPcs] /\ HandsFull'
    BY <1>4 DEF RecordOutcome, Turn
  <2> QED BY <1>4, <2>1, <2>3, <2>4 DEF RecordOutcome, Turn
<1>5. CASE InvocationEnds(w)
  <2>1. row' \in [Deliveries -> Row]
    BY <1>5, OutcomeType DEF InvocationEnds
  <2>2. read' \in [Workers -> [Deliveries -> Nat]]
    BY <1>5 DEF InvocationEnds
  <2> QED BY <1>5, <2>1, <2>2 DEF InvocationEnds, Fault
<1>6. CASE NothingDue(w)
  BY <1>6 DEF NothingDue
<1> QED BY <1>1, <1>2, <1>3, <1>4, <1>5, <1>6 DEF Select, Proceed

LEMMA NextTypeInv ==
  ASSUME TypeInv, [Next]_vars
  PROVE  TypeInv'
<1>1. CASE UNCHANGED vars
  BY <1>1 DEF vars, workerVars, historyVars, TypeInv, TypeOK, HandsFull
<1>2. ASSUME NEW d \in Deliveries, BackoffEnds(d) PROVE TypeInv'
  BY <1>2, RowTypes DEF BackoffEnds, TypeInv, TypeOK, HandsFull, workerVars, historyVars
<1>3. CASE Next
  BY <1>2, <1>3, OwnerTypeInv, EmitTypeInv, WorkTypeInv, Deliverables DEF Next
<1> QED BY <1>1, <1>3

\* Every table, local and history keeps its type.
THEOREM TypeCorrect == Spec => []TypeOK
<1>1. Spec => []TypeInv
  BY InitTypeInv, NextTypeInv, PTL DEF Spec
<1>2. TypeInv => TypeOK
  BY DEF TypeInv
<1> QED BY <1>1, <1>2, PTL

-----------------------------------------------------------------------------
(* What one step does to a row, and to the histories of sends.             *)

\* The row is yet to be inserted, if it will be.
Awaited(d) ==
  \/ d[1] \in Events /\ \/ emit[d[1]].pc = "none"
                        \/ emit[d[1]].pc = "queue" /\ d[2] \in emit[d[1]].todo
  \/ d[1] \in Tests /\ pc[d[1]] = "unused"

\* The step inserts the row: an emission, or a press of the test button.
Inserts(d) ==
  /\ Awaited(d) /\ ~Awaited(d)' /\ Exists(d[2]) /\ hook' = hook
  /\ row'[d].status = "pending" /\ row'[d].attempts = 0

\* An invocation records an outcome.
Records(w, d) ==
  /\ pc[w] = "record" /\ current[w] = d
  /\ RecordOutcome(w) \/ InvocationEnds(w)
  /\ row'[d].attempts = NextAttempt(w)
  /\ \/ accepted[w] /\ row'[d].status = "succeeded"
     \/ ShouldDie(w) /\ row'[d].status = "dead"
     \/ row'[d].status = "pending"

\* The status moves and the count stays.
Moves(d) ==
  /\ row'[d].attempts = row[d].attempts
  /\ \/ row'[d].status = "deleted"
     \/ row'[d].status = "delivering" /\ hook' = hook /\ \E w \in Workers : MarkDelivering(w, d)
     \/ row'[d].status = row[d].status /\ row[d].status \in {"pending", "delivering"} /\ hook' = hook

RowChange(d) ==
  \/ row'[d] = row[d] \/ Inserts(d)
  \/ InTable(d) /\ (Moves(d) \/ (hook' = hook /\ \E w \in Workers : Records(w, d)))

LEMMA RowChanges ==
  ASSUME TypeInv, [Next]_vars, NEW d \in Deliveries
  PROVE  RowChange(d)
<1> USE DEF RowChange
<1>0. row \in [Deliveries -> Row]
  BY DEF TypeInv, TypeOK
<1>1. CASE UNCHANGED vars
  BY <1>1 DEF vars
<1>2. ASSUME NEW h \in Hooks, Owner(h) PROVE RowChange(d)
  <2>1. CASE DeleteWebhook(h)
    <3>1. row'[d] = row[d] \/ (InTable(d) /\ row'[d] = [row[d] EXCEPT !.status = "deleted"])
      BY <2>1 DEF DeleteWebhook
    <3>2. CASE row'[d] = [row[d] EXCEPT !.status = "deleted"] /\ InTable(d)
      <4>1. row[d] \in Row /\ "deleted" \in Statuses
        BY <1>0 DEF Statuses
      <4>2. row'[d].status = "deleted" /\ row'[d].attempts = row[d].attempts
        BY <3>2, <4>1, RowTypes
      <4> QED BY <3>2, <4>2 DEF Moves
    <3> QED BY <3>1, <3>2
  <2>2. ASSUME NEW t \in Tests, TestWebhook(t, h) PROVE RowChange(d)
    <3>1. CASE <<t, h>> \in Followed /\ d = <<t, h>>
      <4>1. row'[d].status = "pending" /\ row'[d].attempts = 0
        BY <1>0, <2>2, <3>1, QueuedType DEF TestWebhook
      <4>2. pc[t] = "unused" /\ pc'[t] # "unused" /\ Exists(h) /\ hook' = hook
        BY <2>2, Deliverables DEF TestWebhook, TypeInv, TypeOK
      <4>3. Awaited(d) /\ ~Awaited(d)'
        BY <3>1, <4>2, WebhookAssumption DEF Awaited
      <4> QED BY <3>1, <4>1, <4>2, <4>3 DEF Inserts
    <3>2. CASE ~(<<t, h>> \in Followed /\ d = <<t, h>>)
      <4>1. CASE <<t, h>> \in Followed
        <5>1. row' = Queued(<<t, h>>) /\ <<t, h>> \in Deliveries /\ d # <<t, h>>
          BY <2>2, <3>2, <4>1 DEF TestWebhook, Deliveries
        <5> QED BY <1>0, <5>1, QueuedType
      <4>2. CASE <<t, h>> \notin Followed
        BY <2>2, <4>2 DEF TestWebhook
      <4> QED BY <4>1, <4>2
    <3> QED BY <3>1, <3>2
  <2>3. CASE \E state \in {"on", "off"} : CreateWebhook(h, state) \/ UpdateWebhook(h, state)
    BY <2>3 DEF CreateWebhook, UpdateWebhook
  <2> QED BY <1>2, <2>1, <2>2, <2>3 DEF Owner
<1>3. ASSUME NEW e \in Events, EmitWebhook(e) \/ Emit(e) \/ EmissionFails(e) PROVE RowChange(d)
  <2>1. ASSUME NEW h \in Hooks, emit[e].pc = "queue", h \in emit[e].todo, Exists(h), hook' = hook,
               row' = Queued(<<e, h>>), emit'[e].pc # "none",
               emit'[e].pc = "queue" => h \notin emit'[e].todo
        PROVE  RowChange(d)
    <3>1. CASE d = <<e, h>>
      <4>1. row'[d].status = "pending" /\ row'[d].attempts = 0
        BY <1>0, <2>1, <3>1, QueuedType
      <4>2. Awaited(d) /\ ~Awaited(d)'
        BY <2>1, <3>1, WebhookAssumption DEF Awaited
      <4> QED BY <2>1, <3>1, <4>1, <4>2 DEF Inserts
    <3>2. CASE d # <<e, h>>
      BY <1>0, <2>1, <3>2, QueuedType, Deliverables
    <3> QED BY <3>1, <3>2
  <2>2. ASSUME NEW h \in Hooks, InsertDelivery(e, h) \/ InsertFails(e, h)
        PROVE  RowChange(d)
    <3>1. /\ emit'[e].pc # "none" /\ hook' = hook
          /\ emit'[e].pc = "queue" => h \notin emit'[e].todo
      BY <2>2, EmittedType DEF InsertDelivery, InsertFails, TypeInv, TypeOK, Emission
    <3> QED BY <2>1, <2>2, <3>1 DEF InsertDelivery, InsertFails
  <2>3. CASE EmitWebhook(e) \/ ListAgain(e) \/ EmissionFails(e)
    BY <2>3 DEF EmitWebhook, ListAgain, EmissionFails
  <2>4. ASSUME NEW h \in Hooks, SendDirectly(e, h) PROVE RowChange(d)
    BY <2>4 DEF SendDirectly
  <2> QED BY <1>3, <2>2, <2>3, <2>4 DEF Emit
<1>4. ASSUME NEW w \in Workers, pc[w] = "record", row' = Outcome(w), hook' = hook,
             RecordOutcome(w) \/ InvocationEnds(w)
      PROVE  RowChange(d)
  <2>1. CASE d = current[w] /\ InTable(d)
    <3>1. Records(w, d)
      BY <1>4, <2>1, OutcomeType DEF Records
    <3> QED BY <1>4, <2>1, <3>1
  <2>2. CASE d # current[w] \/ ~InTable(d)
    BY <1>4, <2>2, OutcomeType
  <2> QED BY <2>1, <2>2
<1>5. ASSUME NEW w \in Workers, RecordOutcome(w) \/ InvocationEnds(w) PROVE RowChange(d)
  BY <1>4, <1>5 DEF RecordOutcome, InvocationEnds
<1>6. ASSUME NEW w \in Workers, NEW x \in Deliveries, MarkDelivering(w, x) PROVE RowChange(d)
  <2>1. row[x].attempts \in Nat /\ row[x].due \in BOOLEAN
    BY <1>0, RowTypes
  <2>2. row' = Written(x, "delivering", row[x].attempts, row[x].due) /\ hook' = hook
    BY <1>6 DEF MarkDelivering
  <2>3. CASE d = x /\ InTable(d)
    <3>1. row'[d].status = "delivering" /\ row'[d].attempts = row[d].attempts
      BY <1>0, <2>1, <2>2, <2>3, WrittenType DEF Statuses
    <3> QED BY <1>6, <2>2, <2>3, <3>1 DEF Moves
  <2>4. CASE d # x \/ ~InTable(d)
    BY <1>0, <2>1, <2>2, <2>4, WrittenType DEF Statuses
  <2> QED BY <2>3, <2>4
<1>7. ASSUME NEW w \in Workers, Select(w) \/ (\E ok \in BOOLEAN : DeliverOnce(w, ok)) PROVE RowChange(d)
  BY <1>7 DEF Select, SelectDue, DeliverOnce
<1>8. ASSUME NEW t \in Tests, NothingDue(t) PROVE RowChange(d)
  BY <1>8 DEF NothingDue
<1>9. ASSUME NEW x \in Deliveries, BackoffEnds(x) PROVE RowChange(d)
  <2>1. CASE x = d
    <3>1. /\ row'[d] = [row[d] EXCEPT !.due = TRUE] /\ hook' = hook
          /\ InTable(d) /\ row[d].status \in {"pending", "delivering"}
      BY <1>0, <1>9, <2>1 DEF BackoffEnds, InTable
    <3> QED BY <1>0, <3>1, RowTypes DEF Moves
  <2>2. CASE x # d
    BY <1>0, <1>9, <2>2 DEF BackoffEnds
  <2> QED BY <2>1, <2>2
<1>10. CASE Next
  BY <1>2, <1>3, <1>5, <1>6, <1>7, <1>8, <1>9, <1>10 DEF Next, Proceed
<1> QED BY <1>1, <1>10

\* Nothing that was sent is unsent; only a POST adds to it.
LEMMA SendsGrow ==
  ASSUME TypeInv, [Next]_vars
  PROVE  /\ taken \subseteq taken'
         /\ \A d \in Deliveries : sends[d] \in Nat /\ sends'[d] \in Nat /\ sends[d] <= sends'[d]
         /\ \A d \in Deliveries : sends'[d] # sends[d] =>
              \E w \in Workers : pc[w] = "send" /\ current[w] = d
<1>0. sends \in [Deliveries -> Nat] /\ sends' \in [Deliveries -> Nat]
  BY NextTypeInv DEF TypeInv, TypeOK
<1>1. ASSUME NEW w \in Workers, NEW ok \in BOOLEAN, DeliverOnce(w, ok)
      PROVE  /\ taken \subseteq taken'
             /\ \A d \in Deliveries : sends[d] <= sends'[d] /\ (sends'[d] # sends[d] => d = current[w])
  BY <1>0, <1>1 DEF DeliverOnce
<1>2. CASE UNCHANGED <<sends, taken>>
  BY <1>0, <1>2
<1>3. CASE UNCHANGED vars
  BY <1>2, <1>3 DEF vars, historyVars
<1>4. ASSUME NEW h \in Hooks, Owner(h) PROVE UNCHANGED <<sends, taken>>
  BY <1>4 DEF Owner, CreateWebhook, UpdateWebhook, DeleteWebhook, TestWebhook, historyVars
<1>5. ASSUME NEW e \in Events, EmitWebhook(e) \/ Emit(e) \/ EmissionFails(e) PROVE UNCHANGED <<sends, taken>>
  BY <1>5 DEF EmitWebhook, Emit, EmissionFails, InsertDelivery, InsertFails, ListAgain, SendDirectly, historyVars
<1>6. ASSUME NEW w \in Workers, Select(w) \/ InvocationEnds(w) \/ RecordOutcome(w)
             \/ \E d \in Deliveries : MarkDelivering(w, d)
      PROVE UNCHANGED <<sends, taken>>
  BY <1>6 DEF Select, SelectDue, InvocationEnds, RecordOutcome, MarkDelivering, historyVars
<1>7. ASSUME NEW t \in Tests, NothingDue(t) PROVE UNCHANGED <<sends, taken>>
  BY <1>7 DEF NothingDue, historyVars
<1>8. ASSUME NEW d \in Deliveries, BackoffEnds(d) PROVE UNCHANGED <<sends, taken>>
  BY <1>8 DEF BackoffEnds, historyVars
<1>9. CASE Next
  <2>1. ASSUME NEW w \in Workers, NEW ok \in BOOLEAN, DeliverOnce(w, ok) PROVE pc[w] = "send"
    BY <2>1 DEF DeliverOnce
  <2> QED BY <1>0, <1>1, <1>2, <1>4, <1>5, <1>6, <1>7, <1>8, <1>9, <2>1 DEF Next, Proceed
<1> QED BY <1>3, <1>9

-----------------------------------------------------------------------------
(* Final statuses. Counts that were read are old, never too high.          *)

CountsTrailSends ==
  /\ \A d \in Deliveries : row[d].attempts <= sends[d]
  /\ \A w \in Workers : \A d \in batch[w] : read[w][d] <= sends[d]
  /\ \A w \in Workers : pc[w] = "record" =>
       /\ read[w][current[w]] + 1 <= sends[current[w]]
       /\ accepted[w] => current[w] \in taken

EarnedInv == CountsTrailSends /\ FinalStatusesAreEarned

LEMMA RowsStayEarned ==
  ASSUME TypeInv, EarnedInv, [Next]_vars, NEW d \in Deliveries
  PROVE  /\ row'[d].attempts <= sends'[d]
         /\ row'[d].status = "succeeded" => d \in taken'
         /\ row'[d].status = "dead" => sends'[d] >= MaxAttempts
<1>0. /\ row[d].attempts \in Nat /\ row[d].attempts <= sends[d] /\ MaxAttempts \in Nat
      /\ sends[d] \in Nat /\ sends'[d] \in Nat /\ sends[d] <= sends'[d] /\ taken \subseteq taken'
      /\ row[d].status = "succeeded" => d \in taken
      /\ row[d].status = "dead" => sends[d] >= MaxAttempts
  BY SendsGrow, RowTypes, WebhookAssumption DEF TypeInv, TypeOK, EarnedInv, CountsTrailSends, FinalStatusesAreEarned
<1>1. CASE row'[d] = row[d]
  BY <1>0, <1>1
<1>2. CASE Inserts(d) \/ Moves(d)
  BY <1>0, <1>2 DEF Inserts, Moves
<1>3. ASSUME NEW w \in Workers, Records(w, d)
      PROVE  /\ row'[d].attempts <= sends'[d]
             /\ row'[d].status = "succeeded" => d \in taken'
             /\ row'[d].status = "dead" => sends'[d] >= MaxAttempts
  <2>1. read[w][d] \in Nat /\ read[w][d] + 1 <= sends[d] /\ (accepted[w] => d \in taken)
    BY <1>3 DEF TypeInv, TypeOK, EarnedInv, CountsTrailSends, Records
  <2>2. NextAttempt(w) = read[w][d] + 1
    BY <1>3 DEF Records, NextAttempt
  <2>3. ShouldDie(w) => NextAttempt(w) >= MaxAttempts
    BY DEF ShouldDie
  <2> QED BY <1>0, <1>3, <2>1, <2>2, <2>3 DEF Records
<1> QED BY <1>1, <1>2, <1>3, RowChanges DEF RowChange

\* What an invocation has read or sent, whatever it and the others do next.
LEMMA WorkStaysEarned ==
  ASSUME TypeInv, EarnedInv, [Next]_vars, NEW v \in Workers
  PROVE  /\ \A d \in batch'[v] : read'[v][d] <= sends'[d]
         /\ pc'[v] = "record" => /\ read'[v][current'[v]] + 1 <= sends'[current'[v]]
                                 /\ accepted'[v] => current'[v] \in taken'
<1> DEFINE Goal == /\ \A d \in batch'[v] : read'[v][d] <= sends'[d]
                   /\ pc'[v] = "record" => /\ read'[v][current'[v]] + 1 <= sends'[current'[v]]
                                           /\ accepted'[v] => current'[v] \in taken'
<1>0. /\ pc \in [Workers -> WorkerPcs] /\ batch \in [Workers -> SUBSET Deliveries]
      /\ read \in [Workers -> [Deliveries -> Nat]] /\ accepted \in [Workers -> BOOLEAN]
      /\ current \in [Workers -> Deliveries \cup {NoDelivery}] /\ row \in [Deliveries -> Row]
      /\ \A d \in Deliveries : sends[d] \in Nat /\ sends'[d] \in Nat /\ sends[d] <= sends'[d]
      /\ taken \subseteq taken'
  BY SendsGrow DEF TypeInv, TypeOK
<1>1. \A d \in batch[v] : d \in Deliveries /\ read[v][d] \in Nat /\ read[v][d] <= sends[d]
  BY <1>0 DEF EarnedInv, CountsTrailSends
<1>2. pc[v] = "record" => /\ current[v] \in Deliveries /\ read[v][current[v]] \in Nat
                          /\ read[v][current[v]] + 1 <= sends[current[v]]
                          /\ accepted[v] => current[v] \in taken
  BY <1>0 DEF EarnedInv, CountsTrailSends, TypeInv, HandsFull
<1>3. CASE /\ batch'[v] = batch[v] /\ read'[v] = read[v] /\ current'[v] = current[v]
           /\ accepted'[v] = accepted[v] /\ (pc'[v] = "record" => pc[v] = "record")
  BY <1>0, <1>1, <1>2, <1>3
<1>4. ASSUME NEW w \in Workers, NEW b \in SUBSET Due, SelectDue(w, b) PROVE Goal
  <2>1. CASE w = v
    <3>1. batch'[v] = b /\ \A d \in b : d \in Deliveries /\ read'[v][d] = row[d].attempts
      BY <1>0, <1>4, <2>1 DEF SelectDue, Due
    <3>2. \A d \in b : row[d].attempts \in Nat /\ row[d].attempts <= sends[d]
      BY <1>0, <3>1, RowTypes DEF EarnedInv, CountsTrailSends
    <3>3. pc'[v] # "record"
      BY <1>0, <1>4, <2>1 DEF SelectDue
    <3> QED BY <1>0, <3>1, <3>2, <3>3
  <2>2. CASE w # v
    BY <1>0, <1>3, <1>4, <2>2 DEF SelectDue
  <2> QED BY <2>1, <2>2
<1>5. ASSUME NEW w \in Workers, NEW d \in Deliveries, MarkDelivering(w, d) PROVE Goal
  <2>1. CASE w = v
    <3>1. batch'[v] = batch[v] /\ read'[v] = read[v] /\ pc'[v] # "record"
      BY <1>0, <1>5, <2>1 DEF MarkDelivering
    <3> QED BY <1>0, <1>1, <3>1
  <2>2. CASE w # v
    BY <1>0, <1>3, <1>5, <2>2 DEF MarkDelivering
  <2> QED BY <2>1, <2>2
<1>6. ASSUME NEW w \in Workers, NEW ok \in BOOLEAN, DeliverOnce(w, ok) PROVE Goal
  <2>1. CASE w = v
    <3>1. /\ batch'[v] = batch[v] /\ read'[v] = read[v] /\ current'[v] = current[v]
          /\ current[v] \in batch[v] /\ current[v] \in Deliveries
      BY <1>0, <1>6, <2>1 DEF DeliverOnce, TypeInv, HandsFull
    <3>2. sends'[current[v]] = sends[current[v]] + 1
      BY <1>6, <2>1, <3>1 DEF DeliverOnce, TypeInv, TypeOK
    <3>3. accepted'[v] => current[v] \in taken'
      BY <1>0, <1>6, <2>1, <3>1 DEF DeliverOnce
    <3> QED BY <1>0, <1>1, <3>1, <3>2, <3>3
  <2>2. CASE w # v
    BY <1>0, <1>3, <1>6, <2>2 DEF DeliverOnce
  <2> QED BY <2>1, <2>2
<1>7. ASSUME NEW w \in Workers, RecordOutcome(w) PROVE Goal
  <2>1. CASE w = v
    <3>1. batch'[v] = batch[v] \ {current[v]} /\ pc'[v] # "record"
      BY <1>0, <1>7, <2>1 DEF RecordOutcome, Turn
    <3>2. \A d \in batch'[v] : read'[v][d] = read[v][d]
      BY <1>0, <1>7, <2>1, <3>1 DEF RecordOutcome, Turn
    <3> QED BY <1>0, <1>1, <3>1, <3>2
  <2>2. CASE w # v
    BY <1>0, <1>3, <1>7, <2>2 DEF RecordOutcome, Turn
  <2> QED BY <2>1, <2>2
<1>8. ASSUME NEW w \in Workers, InvocationEnds(w) PROVE Goal
  <2>1. CASE w = v
    BY <1>0, <1>8, <2>1 DEF InvocationEnds
  <2>2. CASE w # v
    BY <1>0, <1>3, <1>8, <2>2 DEF InvocationEnds
  <2> QED BY <2>1, <2>2
<1>9. ASSUME NEW h \in Hooks, Owner(h) PROVE Goal
  <2>1. ASSUME NEW t \in Tests, TestWebhook(t, h) PROVE Goal
    BY <1>0, <1>3, <2>1 DEF TestWebhook
  <2> QED BY <1>3, <1>9, <2>1 DEF Owner, CreateWebhook, UpdateWebhook, DeleteWebhook, workerVars
<1>10. ASSUME NEW e \in Events, EmitWebhook(e) \/ Emit(e) \/ EmissionFails(e) PROVE Goal
  BY <1>3, <1>10 DEF EmitWebhook, Emit, EmissionFails, InsertDelivery, InsertFails, ListAgain, SendDirectly,
                     workerVars
<1>11. ASSUME NEW t \in Tests, NothingDue(t) PROVE Goal
  BY <1>0, <1>3, <1>11 DEF NothingDue
<1>12. ASSUME NEW d \in Deliveries, BackoffEnds(d) PROVE Goal
  BY <1>3, <1>12 DEF BackoffEnds, workerVars
<1>13. CASE UNCHANGED vars
  BY <1>3, <1>13 DEF vars, workerVars
<1>14. CASE Next
  BY <1>4, <1>5, <1>6, <1>7, <1>8, <1>9, <1>10, <1>11, <1>12, <1>14 DEF Next, Proceed, Select
<1> QED BY <1>13, <1>14

\* 'succeeded' had a 2xx and 'dead' all its attempts, however many invocations overlap.
THEOREM FinalAlwaysEarned == Spec => []FinalStatusesAreEarned
<1>1. Init => TypeInv /\ EarnedInv
  <2>1. Init => EarnedInv
    BY DEF Init, EarnedInv, CountsTrailSends, FinalStatusesAreEarned
  <2> QED BY <2>1, InitTypeInv
<1>2. TypeInv /\ EarnedInv /\ [Next]_vars => TypeInv' /\ EarnedInv'
  <2> SUFFICES ASSUME TypeInv, EarnedInv, [Next]_vars PROVE TypeInv' /\ EarnedInv'
    OBVIOUS
  <2>1. CountsTrailSends'
    BY RowsStayEarned, WorkStaysEarned DEF CountsTrailSends
  <2>2. FinalStatusesAreEarned'
    BY RowsStayEarned DEF FinalStatusesAreEarned
  <2> QED BY <2>1, <2>2, NextTypeInv DEF EarnedInv
<1>3. EarnedInv => FinalStatusesAreEarned
  BY DEF EarnedInv
<1> QED BY <1>1, <1>2, <1>3, PTL DEF Spec

-----------------------------------------------------------------------------
(* What is emitted reaches every webhook. A webhook that stays enabled is  *)
(* queued for, or sent to, or yet to come.                                 *)

ServedOrToCome(e, h) ==
  /\ emit[e].pc # "none" => hook[h] = "on"
  /\ emit[e].pc = "queue" => h \in emit[e].todo \/ row[<<e, h>>].status # "none"
  /\ emit[e].pc = "send" => h \in emit[e].todo \/ <<e, h>> \in direct
  /\ emit[e].pc = "done" => row[<<e, h>>].status # "none" \/ <<e, h>> \in direct

ServedInv ==
  \A e \in Events \ excused : \A h \in Hooks : <<e, h>> \notin absent => ServedOrToCome(e, h)

\* A row that was inserted is never as if it had not been.
LEMMA RowsStay ==
  ASSUME TypeInv, [Next]_vars, NEW d \in Deliveries, row[d].status # "none"
  PROVE  row'[d].status # "none"
BY RowChanges DEF RowChange, Inserts, Moves, Records

LEMMA ServedAfterEmit ==
  ASSUME TypeInv, ServedInv, [Next]_vars, NEW e \in Events, EmitWebhook(e) \/ Emit(e) \/ EmissionFails(e),
         e \notin excused', NEW h \in Hooks, <<e, h>> \notin absent'
  PROVE  ServedOrToCome(e, h)'
<1>0. /\ emit \in [Events -> Emission] /\ emit[e].todo \in SUBSET Hooks /\ Enabled \in SUBSET Hooks
      /\ row \in [Deliveries -> Row] /\ <<e, h>> \in Deliveries
      /\ \A x \in Hooks : <<e, x>> \in Deliveries /\ (x # h => <<e, x>> # <<e, h>>)
  BY Deliverables DEF TypeInv, TypeOK, Emission, Enabled
<1>1. row[<<e, h>>].status # "none" => row'[<<e, h>>].status # "none"
  BY <1>0, RowsStay
<1>2. ASSUME e \notin excused, <<e, h>> \notin absent PROVE ServedOrToCome(e, h)
  BY <1>2 DEF ServedInv
<1>3. CASE EmitWebhook(e)
  <2>1. h \in Enabled /\ hook' = hook
    BY <1>3 DEF EmitWebhook
  <2>2. emit'[e].pc = "queue" /\ emit'[e].todo = Enabled
    BY <1>0, <1>3, <2>1, EmittedType DEF EmitWebhook
  <2> QED BY <2>1, <2>2 DEF ServedOrToCome, Enabled
<1>4. ASSUME NEW x \in Hooks, InsertDelivery(e, x) PROVE ServedOrToCome(e, h)'
  <2>1. ServedOrToCome(e, h) /\ hook' = hook
    BY <1>2, <1>4 DEF InsertDelivery, historyVars
  <2>2. /\ emit'[e].pc = IF emit[e].todo = {x} THEN "done" ELSE "queue"
        /\ emit'[e].todo = emit[e].todo \ {x}
    BY <1>0, <1>4, EmittedType DEF InsertDelivery
  <2>3. x = h => row'[<<e, h>>].status # "none"
    BY <1>0, <1>4, QueuedType DEF InsertDelivery
  <2> QED BY <1>1, <1>4, <2>1, <2>2, <2>3 DEF ServedOrToCome, InsertDelivery
<1>5. ASSUME NEW x \in Hooks, InsertFails(e, x) PROVE ServedOrToCome(e, h)'
  <2>1. ServedOrToCome(e, h) /\ hook' = hook /\ emit[e].pc = "queue"
    BY <1>2, <1>5 DEF InsertFails, historyVars
  <2>2. emit'[e].pc = "fallback"
    BY <1>0, <1>5, EmittedType DEF InsertFails
  <2> QED BY <2>1, <2>2 DEF ServedOrToCome
<1>6. CASE ListAgain(e)
  <2>1. ServedOrToCome(e, h) /\ hook' = hook /\ emit[e].pc = "fallback"
    BY <1>2, <1>6 DEF ListAgain, historyVars
  <2>2. h \in Enabled
    BY <2>1 DEF ServedOrToCome, Enabled
  <2>3. emit'[e].pc = "send" /\ emit'[e].todo = Enabled
    BY <1>0, <1>6, <2>2, EmittedType DEF ListAgain
  <2> QED BY <2>1, <2>2, <2>3 DEF ServedOrToCome
<1>7. ASSUME NEW x \in Hooks, SendDirectly(e, x) PROVE ServedOrToCome(e, h)'
  <2>1. ServedOrToCome(e, h) /\ hook' = hook /\ row' = row /\ direct' = direct \cup {<<e, x>>} /\ emit[e].pc = "send"
    BY <1>2, <1>7 DEF SendDirectly
  <2>2. /\ emit'[e].pc = IF emit[e].todo = {x} THEN "done" ELSE "send"
        /\ emit'[e].todo = emit[e].todo \ {x}
    BY <1>0, <1>7, EmittedType DEF SendDirectly
  <2> QED BY <2>1, <2>2 DEF ServedOrToCome
<1>8. CASE EmissionFails(e)
  BY <1>8 DEF EmissionFails
<1> QED BY <1>3, <1>4, <1>5, <1>6, <1>7, <1>8 DEF Emit

LEMMA ServedAfterOwner ==
  ASSUME TypeInv, ServedInv, [Next]_vars, NEW x \in Hooks, Owner(x),
         NEW e \in Events \ excused, NEW h \in Hooks, <<e, h>> \notin absent'
  PROVE  ServedOrToCome(e, h)'
<1>0. row[<<e, h>>].status # "none" => row'[<<e, h>>].status # "none"
  BY Deliverables, RowsStay
<1>1. emit' = emit /\ direct' = direct /\ hook \in [Hooks -> {"none", "on", "off", "deleted"}]
  BY DEF Owner, CreateWebhook, UpdateWebhook, DeleteWebhook, TestWebhook, historyVars, TypeInv, TypeOK
<1>2. absent \subseteq absent'
  BY DEF Owner, CreateWebhook, UpdateWebhook, DeleteWebhook, TestWebhook, Leaves, historyVars
<1>3. ServedOrToCome(e, h)
  BY <1>2 DEF ServedInv
<1>4. CASE emit[e].pc # "none"
  <2>1. hook'[h] = "on"
    <3>1. hook[h] = "on"
      BY <1>3, <1>4 DEF ServedOrToCome
    <3>2. CASE DeleteWebhook(x) \/ \E state \in {"on", "off"} : UpdateWebhook(x, state)
      <4>1. x # h
        BY <1>4, <3>2 DEF DeleteWebhook, UpdateWebhook, Leaves
      <4> QED BY <1>1, <3>1, <3>2, <4>1 DEF DeleteWebhook, UpdateWebhook
    <3>3. CASE \E state \in {"on", "off"} : CreateWebhook(x, state)
      BY <1>1, <3>1, <3>3 DEF CreateWebhook
    <3>4. CASE \E t \in Tests : TestWebhook(t, x)
      BY <3>1, <3>4 DEF TestWebhook
    <3> QED BY <3>2, <3>3, <3>4 DEF Owner
  <2> QED BY <1>0, <1>1, <1>3, <2>1 DEF ServedOrToCome
<1>5. CASE emit[e].pc = "none"
  BY <1>1, <1>5 DEF ServedOrToCome
<1> QED BY <1>4, <1>5

\* Every webhook that was enabled all the while is queued for or sent to, for any
\* number of webhooks, of which others come and go.
THEOREM EmittedAlwaysServed == Spec => []EmittedEventsAreServed
<1>1. Init => ServedInv
  BY DEF Init, ServedInv, ServedOrToCome
<1>2. TypeInv /\ ServedInv /\ [Next]_vars => ServedInv'
  <2> SUFFICES ASSUME TypeInv, ServedInv, [Next]_vars,
                      NEW e \in Events, e \notin excused', NEW h \in Hooks, <<e, h>> \notin absent'
               PROVE  ServedOrToCome(e, h)'
    BY DEF ServedInv
  <2>0. row[<<e, h>>].status # "none" => row'[<<e, h>>].status # "none"
    BY Deliverables, RowsStay
  <2>1. CASE /\ excused' = excused /\ absent' = absent /\ hook' = hook /\ direct' = direct /\ emit'[e] = emit[e]
    BY <2>0, <2>1 DEF ServedInv, ServedOrToCome
  <2>2. ASSUME NEW x \in Hooks, Owner(x) PROVE ServedOrToCome(e, h)'
    <3>1. excused' = excused
      BY <2>2 DEF Owner, CreateWebhook, UpdateWebhook, DeleteWebhook, TestWebhook, historyVars
    <3> QED BY <2>2, <3>1, ServedAfterOwner
  <2>3. ASSUME NEW x \in Events, EmitWebhook(x) \/ Emit(x) \/ EmissionFails(x) PROVE ServedOrToCome(e, h)'
    <3>1. CASE x = e
      BY <2>3, <3>1, ServedAfterEmit
    <3>2. CASE x # e
      <4>1. emit'[e] = emit[e] /\ hook' = hook
        BY <2>3, <3>2 DEF EmitWebhook, Emit, EmissionFails, InsertDelivery, InsertFails, ListAgain, SendDirectly,
                          Emitted, TypeInv, TypeOK
      <4>2. excused \subseteq excused' /\ absent \subseteq absent' /\ direct \subseteq direct'
        BY <2>3 DEF EmitWebhook, Emit, EmissionFails, InsertDelivery, InsertFails, ListAgain, SendDirectly,
                    historyVars
      <4>3. ServedOrToCome(e, h)
        BY <4>2 DEF ServedInv
      <4> QED BY <2>0, <4>1, <4>2, <4>3 DEF ServedOrToCome
    <3> QED BY <3>1, <3>2
  <2>4. ASSUME NEW w \in Workers, Select(w) \/ Proceed(w) \/ InvocationEnds(w) \/ (w \in Tests /\ NothingDue(w))
        PROVE  ServedOrToCome(e, h)'
    BY <2>1, <2>4 DEF Select, SelectDue, Proceed, MarkDelivering, DeliverOnce, RecordOutcome, InvocationEnds,
                      NothingDue, historyVars
  <2>5. ASSUME NEW d \in Deliveries, BackoffEnds(d) PROVE ServedOrToCome(e, h)'
    BY <2>1, <2>5 DEF BackoffEnds, historyVars
  <2>6. CASE UNCHANGED vars
    BY <2>1, <2>6 DEF vars, historyVars
  <2>7. CASE Next
    BY <2>2, <2>3, <2>4, <2>5, <2>7, Deliverables DEF Next
  <2> QED BY <2>6, <2>7
<1>3. Spec => []TypeInv
  BY InitTypeInv, NextTypeInv, PTL DEF Spec
<1>4. ServedInv => EmittedEventsAreServed
  BY DEF ServedInv, ServedOrToCome, EmittedEventsAreServed
<1> QED BY <1>1, <1>2, <1>3, <1>4, PTL DEF Spec

-----------------------------------------------------------------------------
(* Deleted webhooks, and the sends of deliveries that only one invocation  *)
(* has at a time.                                                          *)

\* What is in a batch was there already, or has been selected.
LEMMA BatchChanges ==
  ASSUME TypeInv, [Next]_vars, NEW v \in Workers, NEW d \in batch'[v]
  PROVE  \/ d \in batch[v] /\ read'[v][d] = read[v][d]
         \/ \E b \in SUBSET Due : SelectDue(v, b) /\ d \in b
<1> DEFINE Goal == \/ d \in batch[v] /\ read'[v][d] = read[v][d]
                   \/ \E b \in SUBSET Due : SelectDue(v, b) /\ d \in b
<1>0. /\ batch \in [Workers -> SUBSET Deliveries] /\ read \in [Workers -> [Deliveries -> Nat]]
      /\ current \in [Workers -> Deliveries \cup {NoDelivery}]
  BY DEF TypeInv, TypeOK
<1>1. ASSUME NEW w \in Workers, NEW b \in SUBSET Due, SelectDue(w, b) PROVE Goal
  BY <1>0, <1>1 DEF SelectDue
<1>2. ASSUME NEW w \in Workers, RecordOutcome(w) PROVE Goal
  <2>1. CASE w = v
    <3>1. d \in batch[v] /\ d # current[v]
      BY <1>0, <1>2, <2>1 DEF RecordOutcome, Turn
    <3> QED BY <1>0, <1>2, <2>1, <3>1 DEF RecordOutcome, Turn
  <2>2. CASE w # v
    BY <1>0, <1>2, <2>2 DEF RecordOutcome, Turn
  <2> QED BY <2>1, <2>2
<1>3. ASSUME NEW w \in Workers, InvocationEnds(w) PROVE Goal
  BY <1>0, <1>3 DEF InvocationEnds
<1>4. CASE batch' = batch /\ read' = read
  BY <1>4
<1>5. CASE UNCHANGED vars
  BY <1>4, <1>5 DEF vars, workerVars
<1>6. CASE Next
  <2>1. ASSUME NEW h \in Hooks, Owner(h) PROVE Goal
    BY <1>4, <2>1 DEF Owner, CreateWebhook, UpdateWebhook, DeleteWebhook, TestWebhook, workerVars
  <2>2. ASSUME NEW e \in Events, EmitWebhook(e) \/ Emit(e) \/ EmissionFails(e) PROVE Goal
    BY <1>4, <2>2 DEF EmitWebhook, Emit, EmissionFails, InsertDelivery, InsertFails, ListAgain, SendDirectly,
                      workerVars
  <2>3. ASSUME NEW w \in Workers, Select(w) \/ Proceed(w) \/ InvocationEnds(w) PROVE Goal
    BY <1>1, <1>2, <1>3, <1>4, <2>3 DEF Select, Proceed, MarkDelivering, DeliverOnce
  <2>4. CASE \/ \E t \in Tests : NothingDue(t)
             \/ \E x \in Deliveries : BackoffEnds(x)
    BY <1>4, <2>4 DEF NothingDue, BackoffEnds, workerVars
  <2> QED BY <1>6, <2>1, <2>2, <2>3, <2>4 DEF Next
<1> QED BY <1>5, <1>6

DeletedInv ==
  \A d \in Deliveries : hook[d[2]] = "deleted" =>
    ~InTable(d) /\ \A w \in Workers : d \in batch[w] => d \in latecomers

LEMMA DeletedStaysAlone ==
  ASSUME TypeInv, DeletedInv, [Next]_vars
  PROVE  DeletedInv'
<1> SUFFICES ASSUME NEW d \in Deliveries, hook'[d[2]] = "deleted"
             PROVE  ~InTable(d)' /\ \A w \in Workers : d \in batch'[w] => d \in latecomers'
  BY DEF DeletedInv
<1>0. d[2] \in Hooks /\ hook \in [Hooks -> {"none", "on", "off", "deleted"}] /\ row \in [Deliveries -> Row]
  BY Deliverables DEF TypeInv, TypeOK
<1>1. CASE hook[d[2]] = "deleted"
  <2>1. ~InTable(d) /\ \A w \in Workers : d \in batch[w] => d \in latecomers
    BY <1>1 DEF DeletedInv
  <2>2. row'[d] = row[d]
    BY <1>1, <2>1, RowChanges DEF RowChange, Inserts, Exists
  <2>3. d \notin Due
    BY <2>1 DEF Due, InTable
  <2>4. latecomers \subseteq latecomers'
    <3>1. CASE UNCHANGED vars
      BY <3>1 DEF vars, historyVars
    <3>2. CASE Next
      <4>1. ASSUME NEW h \in Hooks, Owner(h) PROVE latecomers \subseteq latecomers'
        BY <4>1 DEF Owner, CreateWebhook, UpdateWebhook, DeleteWebhook, TestWebhook, historyVars
      <4>2. ASSUME NEW e \in Events, EmitWebhook(e) \/ Emit(e) \/ EmissionFails(e) PROVE latecomers' = latecomers
        BY <4>2 DEF EmitWebhook, Emit, EmissionFails, InsertDelivery, InsertFails, ListAgain, SendDirectly,
                    historyVars
      <4>3. ASSUME NEW w \in Workers, Select(w) \/ Proceed(w) \/ InvocationEnds(w) PROVE latecomers' = latecomers
        BY <4>3 DEF Select, SelectDue, Proceed, MarkDelivering, DeliverOnce, RecordOutcome, InvocationEnds,
                    historyVars
      <4>4. CASE \/ \E t \in Tests : NothingDue(t)
                 \/ \E x \in Deliveries : BackoffEnds(x)
        BY <4>4 DEF NothingDue, BackoffEnds, historyVars
      <4> QED BY <3>2, <4>1, <4>2, <4>3, <4>4 DEF Next
    <3> QED BY <3>1, <3>2
  <2>5. ASSUME NEW w \in Workers, d \in batch'[w] PROVE d \in batch[w]
    BY <2>3, <2>5, BatchChanges
  <2> QED BY <2>1, <2>2, <2>4, <2>5 DEF InTable
<1>2. CASE hook[d[2]] # "deleted"
  <2>1. PICK h \in Hooks : DeleteWebhook(h) /\ h = d[2]
    <3>1. CASE hook' = hook
      BY <1>2, <3>1
    <3>2. ASSUME NEW h \in Hooks, NEW state \in {"on", "off"}, CreateWebhook(h, state) \/ UpdateWebhook(h, state)
          PROVE  FALSE
      BY <1>0, <1>2, <3>2 DEF CreateWebhook, UpdateWebhook
    <3>3. ASSUME NEW h \in Hooks, DeleteWebhook(h) PROVE h = d[2]
      BY <1>0, <1>2, <3>3 DEF DeleteWebhook
    <3>4. CASE UNCHANGED vars
      BY <3>1, <3>4 DEF vars
    <3>5. CASE Next
      <4>1. ASSUME NEW h \in Hooks, NEW t \in Tests, TestWebhook(t, h) PROVE hook' = hook
        BY <4>1 DEF TestWebhook
      <4>2. ASSUME NEW e \in Events, EmitWebhook(e) \/ Emit(e) \/ EmissionFails(e) PROVE hook' = hook
        BY <4>2 DEF EmitWebhook, Emit, EmissionFails, InsertDelivery, InsertFails, ListAgain, SendDirectly
      <4>3. ASSUME NEW w \in Workers, Select(w) \/ Proceed(w) \/ InvocationEnds(w) PROVE hook' = hook
        BY <4>3 DEF Select, SelectDue, Proceed, MarkDelivering, DeliverOnce, RecordOutcome, InvocationEnds
      <4>4. CASE \/ \E t \in Tests : NothingDue(t)
                 \/ \E x \in Deliveries : BackoffEnds(x)
        BY <3>1, <4>4 DEF NothingDue, BackoffEnds
      <4>5. ASSUME NEW h \in Hooks, Owner(h) PROVE \E g \in Hooks : DeleteWebhook(g) /\ g = d[2]
        <5>1. ~\E state \in {"on", "off"} : CreateWebhook(h, state) \/ UpdateWebhook(h, state)
          BY <3>2
        <5>2. CASE DeleteWebhook(h)
          BY <3>3, <5>2
        <5>3. CASE \E t \in Tests : TestWebhook(t, h)
          BY <3>1, <4>1, <5>3
        <5> QED BY <4>5, <5>1, <5>2, <5>3 DEF Owner
      <4> QED BY <3>1, <3>5, <4>2, <4>3, <4>4, <4>5 DEF Next
    <3> QED BY <3>4, <3>5
  <2>2. d \in Of(h)
    BY <2>1 DEF Of
  <2>3. CASE InTable(d)
    <3>1. row'[d] = [row[d] EXCEPT !.status = "deleted"]
      BY <2>1, <2>2, <2>3 DEF DeleteWebhook
    <3>2. row'[d].status = "deleted"
      BY <1>0, <3>1 DEF Row
    <3> QED BY <2>1, <2>2, <3>2 DEF DeleteWebhook, InTable, workerVars
  <2>4. CASE ~InTable(d)
    <3>1. row'[d] = row[d]
      BY <2>1, <2>4 DEF DeleteWebhook
    <3> QED BY <2>1, <2>2, <2>4, <3>1 DEF DeleteWebhook, InTable, workerVars
  <2> QED BY <2>3, <2>4
<1> QED BY <1>1, <1>2

\* The queue sends nothing to a deleted webhook, but for what was selected before.
THEOREM DeletedAlwaysAlone == Spec => DeletedHooksAreLeftAlone
<1>1. Init => DeletedInv
  BY DEF Init, DeletedInv, InTable
<1>2. TypeInv /\ DeletedInv /\ [Next]_vars =>
        [\A d \in Deliveries : hook[d[2]] = "deleted" /\ sends'[d] > sends[d] => d \in latecomers]_vars
  <2> SUFFICES ASSUME TypeInv, DeletedInv, [Next]_vars, NEW d \in Deliveries,
                      hook[d[2]] = "deleted", sends'[d] > sends[d]
               PROVE  d \in latecomers
    OBVIOUS
  <2>1. sends'[d] # sends[d]
    BY SendsGrow
  <2>2. PICK w \in Workers : pc[w] = "send" /\ current[w] = d
    BY <2>1, SendsGrow
  <2> QED BY <2>2 DEF TypeInv, HandsFull, DeletedInv
<1>3. Spec => []TypeInv
  BY InitTypeInv, NextTypeInv, PTL DEF Spec
<1> QED BY <1>1, <1>2, <1>3, DeletedStaysAlone, PTL DEF Spec, DeletedHooksAreLeftAlone

\* A row that is awaited has not been inserted; one that is not awaited never will be.
LEMMA AwaitedOnce ==
  ASSUME TypeInv, [Next]_vars, NEW d \in Deliveries, Awaited(d)'
  PROVE  Awaited(d)
<1>0. /\ emit \in [Events -> Emission] /\ pc \in [Workers -> WorkerPcs] /\ Enabled \in SUBSET Hooks
      /\ \A e \in Events : emit[e].todo \in SUBSET Hooks
  BY DEF TypeInv, TypeOK, Emission, Enabled
<1>1. CASE d[1] \in Tests
  <2>1. d[1] \notin Events /\ pc'[d[1]] = "unused" /\ d[1] \in Workers
    BY <1>1, WebhookAssumption DEF Awaited, Workers
  <2>2. pc[d[1]] = "unused"
    <3>1. CASE pc' = pc
      BY <2>1, <3>1
    <3>2. CASE UNCHANGED vars
      BY <3>1, <3>2 DEF vars, workerVars
    <3>3. CASE Next
      <4>1. ASSUME NEW h \in Hooks, NEW t \in Tests, TestWebhook(t, h) PROVE pc[d[1]] = "unused"
        BY <1>0, <2>1, <4>1, Deliverables DEF TestWebhook
      <4>2. ASSUME NEW h \in Hooks, Owner(h) PROVE pc[d[1]] = "unused"
        BY <3>1, <4>1, <4>2 DEF Owner, CreateWebhook, UpdateWebhook, DeleteWebhook, workerVars
      <4>3. ASSUME NEW e \in Events, EmitWebhook(e) \/ Emit(e) \/ EmissionFails(e) PROVE pc' = pc
        BY <4>3 DEF EmitWebhook, Emit, EmissionFails, InsertDelivery, InsertFails, ListAgain, SendDirectly,
                    workerVars
      <4>4. ASSUME NEW w \in Workers, Select(w) \/ Proceed(w) \/ InvocationEnds(w) PROVE pc[d[1]] = "unused"
        <5>1. \E next \in WorkerPcs \ {"unused"} : pc' = [pc EXCEPT ![w] = next]
          BY <4>4 DEF Select, SelectDue, Proceed, MarkDelivering, DeliverOnce, RecordOutcome, Turn, InvocationEnds,
                      WorkerPcs
        <5> QED BY <1>0, <2>1, <5>1
      <4>5. ASSUME NEW t \in Tests, NothingDue(t) PROVE pc[d[1]] = "unused"
        BY <1>0, <2>1, <4>5, Deliverables DEF NothingDue
      <4>6. ASSUME NEW x \in Deliveries, BackoffEnds(x) PROVE pc' = pc
        BY <4>6 DEF BackoffEnds, workerVars
      <4> QED BY <3>1, <3>3, <4>2, <4>3, <4>4, <4>5, <4>6 DEF Next
    <3> QED BY <3>2, <3>3
  <2> QED BY <1>1, <2>2 DEF Awaited
<1>2. CASE d[1] \in Events
  <2>0. d[1] \notin Tests
    BY <1>2, WebhookAssumption
  <2>1. CASE emit' = emit
    BY <1>2, <2>0, <2>1 DEF Awaited
  <2>2. ASSUME NEW e \in Events, EmitWebhook(e) \/ Emit(e) \/ EmissionFails(e) PROVE Awaited(d)
    <3>1. CASE e # d[1]
      <4>1. emit'[d[1]] = emit[d[1]]
        BY <1>0, <1>2, <2>2, <3>1 DEF EmitWebhook, Emit, EmissionFails, InsertDelivery, InsertFails, ListAgain,
                                      SendDirectly, Emitted
      <4> QED BY <1>2, <2>0, <4>1 DEF Awaited
    <3>2. CASE e = d[1] /\ emit[e].pc # "none"
      <4>1. ASSUME NEW h \in Hooks, InsertDelivery(e, h) PROVE Awaited(d)
        <5>1. emit'[e].todo = emit[e].todo \ {h} /\ emit'[e].pc # "none" /\ emit[e].pc = "queue"
          BY <1>0, <4>1, EmittedType DEF InsertDelivery
        <5> QED BY <2>0, <3>2, <5>1 DEF Awaited
      <4>2. ASSUME NEW next \in {"done", "fallback", "send"}, NEW todo \in SUBSET Hooks, Emitted(e, next, todo)
            PROVE  FALSE
        <5>1. emit'[e].pc = next
          BY <1>0, <4>2, EmittedType
        <5> QED BY <2>0, <3>2, <5>1 DEF Awaited
      <4>3. CASE ListAgain(e)
        BY <1>0, <4>2, <4>3 DEF ListAgain
      <4>4. ASSUME NEW h \in Hooks, SendDirectly(e, h) PROVE FALSE
        BY <1>0, <4>2, <4>4 DEF SendDirectly
      <4>5. ASSUME NEW h \in Hooks, InsertFails(e, h) PROVE FALSE
        BY <4>2, <4>5 DEF InsertFails
      <4>6. CASE EmissionFails(e)
        BY <4>2, <4>6 DEF EmissionFails
      <4>7. ~EmitWebhook(e)
        BY <3>2 DEF EmitWebhook
      <4> QED BY <2>2, <4>1, <4>3, <4>4, <4>5, <4>6, <4>7 DEF Emit
    <3>3. CASE e = d[1] /\ emit[e].pc = "none"
      BY <3>3 DEF Awaited
    <3> QED BY <3>1, <3>2, <3>3
  <2>3. CASE UNCHANGED vars
    BY <2>1, <2>3 DEF vars
  <2>4. CASE Next
    <3>1. ASSUME NEW h \in Hooks, Owner(h) PROVE emit' = emit
      BY <3>1 DEF Owner, CreateWebhook, UpdateWebhook, DeleteWebhook, TestWebhook
    <3>2. ASSUME NEW w \in Workers, Select(w) \/ Proceed(w) \/ InvocationEnds(w) PROVE emit' = emit
      BY <3>2 DEF Select, SelectDue, Proceed, MarkDelivering, DeliverOnce, RecordOutcome, InvocationEnds
    <3>3. CASE \/ \E t \in Tests : NothingDue(t)
               \/ \E x \in Deliveries : BackoffEnds(x)
      BY <2>1, <3>3 DEF NothingDue, BackoffEnds
    <3> QED BY <2>1, <2>2, <2>4, <3>1, <3>2, <3>3 DEF Next
  <2> QED BY <2>3, <2>4
<1> QED BY <1>1, <1>2 DEF Awaited

\* Invocations that have sent the delivery and not recorded the outcome: with one
\* invocation at a time, none or one.
HasSent(w, d) == pc[w] = "record" /\ current[w] = d
Flying(d) == IF \E w \in Workers : HasSent(w, d) THEN 1 ELSE 0

Counted(d) ==
  /\ Awaited(d) => row[d].status = "none"
  /\ row[d].status = "none" => sends[d] = 0 /\ \A w \in Workers : d \notin batch[w]
  /\ \A v, w \in Workers : d \in batch[v] /\ d \in batch[w] => v = w
  /\ InTable(d) => /\ \A w \in Workers : d \in batch[w] => read[w][d] = row[d].attempts
                   /\ sends[d] <= row[d].attempts + Flying(d) + faults

CountedInv == \A d \in Deliveries \ shared : Counted(d)

LEMMA SharedGrows ==
  ASSUME TypeInv, [Next]_vars
  PROVE  /\ shared \subseteq shared' /\ faults \in Nat /\ faults' \in Nat /\ faults <= faults'
         /\ \A w \in Workers : InvocationEnds(w) => faults' = faults + 1
<1>0. faults \in Nat
  BY DEF TypeInv, TypeOK
<1>1. CASE UNCHANGED vars
  BY <1>0, <1>1 DEF vars, historyVars, InvocationEnds, Fault
<1>2. \A w \in Workers : InvocationEnds(w) => shared' = shared /\ faults' = faults + 1
  BY DEF InvocationEnds, historyVars, Fault
<1>3. ASSUME Next PROVE shared \subseteq shared' /\ (faults' = faults \/ faults' = faults + 1)
  <2>1. ASSUME NEW h \in Hooks, Owner(h) PROVE shared' = shared /\ faults' = faults
    BY <2>1 DEF Owner, CreateWebhook, UpdateWebhook, DeleteWebhook, TestWebhook, historyVars
  <2>2. ASSUME NEW e \in Events, EmitWebhook(e) \/ Emit(e) \/ EmissionFails(e)
        PROVE  shared' = shared /\ (faults' = faults \/ faults' = faults + 1)
    BY <2>2 DEF EmitWebhook, Emit, EmissionFails, InsertDelivery, InsertFails, ListAgain, SendDirectly, Fault,
                historyVars
  <2>3. ASSUME NEW w \in Workers, Select(w) \/ Proceed(w)
        PROVE  shared \subseteq shared' /\ faults' = faults
    BY <2>3 DEF Select, SelectDue, Proceed, MarkDelivering, DeliverOnce, RecordOutcome, historyVars
  <2>4. ASSUME \/ \E t \in Tests : NothingDue(t)
               \/ \E x \in Deliveries : BackoffEnds(x)
        PROVE  shared' = shared /\ faults' = faults
    BY <2>4 DEF NothingDue, BackoffEnds, historyVars
  <2> QED BY <1>2, <1>3, <2>1, <2>2, <2>3, <2>4 DEF Next
<1> QED BY <1>0, <1>1, <1>2, <1>3

\* A delivery is sent by one step and recorded by another.
LEMMA SentChanges ==
  ASSUME TypeInv, [Next]_vars, NEW d \in Deliveries
  PROVE  \/ /\ \A w \in Workers : HasSent(w, d)' <=> HasSent(w, d)
            /\ sends'[d] = sends[d]
         \/ \E w \in Workers : /\ \E ok \in BOOLEAN : DeliverOnce(w, ok)
                               /\ current[w] = d /\ HasSent(w, d)' /\ ~HasSent(w, d)
                               /\ sends'[d] = sends[d] + 1
         \/ \E w \in Workers : /\ RecordOutcome(w) \/ InvocationEnds(w)
                               /\ HasSent(w, d) /\ ~HasSent(w, d)'
                               /\ sends'[d] = sends[d]
                               /\ \A v \in Workers \ {w} : HasSent(v, d)' <=> HasSent(v, d)
<1> DEFINE Goal == \/ /\ \A w \in Workers : HasSent(w, d)' <=> HasSent(w, d)
                      /\ sends'[d] = sends[d]
                   \/ \E w \in Workers : /\ \E ok \in BOOLEAN : DeliverOnce(w, ok)
                                         /\ current[w] = d /\ HasSent(w, d)' /\ ~HasSent(w, d)
                                         /\ sends'[d] = sends[d] + 1
                   \/ \E w \in Workers : /\ RecordOutcome(w) \/ InvocationEnds(w)
                                         /\ HasSent(w, d) /\ ~HasSent(w, d)'
                                         /\ sends'[d] = sends[d]
                                         /\ \A v \in Workers \ {w} : HasSent(v, d)' <=> HasSent(v, d)
<1>0. /\ pc \in [Workers -> WorkerPcs] /\ current \in [Workers -> Deliveries \cup {NoDelivery}]
      /\ sends \in [Deliveries -> Nat]
  BY DEF TypeInv, TypeOK
<1>1. CASE pc' = pc /\ current' = current /\ sends' = sends
  BY <1>1 DEF HasSent
<1>2. ASSUME NEW w \in Workers, NEW ok \in BOOLEAN, DeliverOnce(w, ok) PROVE Goal
  <2>1. /\ pc[w] = "send" /\ pc'[w] = "record" /\ current' = current
        /\ \A v \in Workers \ {w} : pc'[v] = pc[v]
    BY <1>0, <1>2 DEF DeliverOnce
  <2>2. CASE current[w] = d
    <3>1. sends'[d] = sends[d] + 1
      BY <1>0, <1>2, <2>2 DEF DeliverOnce
    <3>2. HasSent(w, d)' /\ ~HasSent(w, d)
      BY <2>1, <2>2 DEF HasSent
    <3> QED BY <1>2, <2>2, <3>1, <3>2
  <2>3. CASE current[w] # d
    <3>1. sends'[d] = sends[d]
      BY <1>0, <1>2, <2>3 DEF DeliverOnce
    <3>2. \A v \in Workers : HasSent(v, d)' <=> HasSent(v, d)
      BY <2>1, <2>3 DEF HasSent
    <3> QED BY <3>1, <3>2
  <2> QED BY <2>2, <2>3
<1>3. ASSUME NEW w \in Workers, RecordOutcome(w) \/ InvocationEnds(w) PROVE Goal
  <2>1. /\ pc'[w] # "record" /\ sends' = sends
        /\ \A v \in Workers \ {w} : pc'[v] = pc[v] /\ current'[v] = current[v]
    BY <1>0, <1>3 DEF RecordOutcome, Turn, InvocationEnds, historyVars
  <2>2. ~HasSent(w, d)' /\ \A v \in Workers \ {w} : HasSent(v, d)' <=> HasSent(v, d)
    BY <2>1 DEF HasSent
  <2> QED BY <1>3, <2>1, <2>2
<1>4. ASSUME NEW w \in Workers, pc[w] # "record", pc'[w] # "record", sends' = sends,
             \A v \in Workers \ {w} : pc'[v] = pc[v] /\ current'[v] = current[v]
      PROVE  Goal
  BY <1>4 DEF HasSent
<1>5. ASSUME NEW w \in Workers, NEW x \in Deliveries, MarkDelivering(w, x) PROVE Goal
  BY <1>0, <1>4, <1>5 DEF MarkDelivering, historyVars
<1>6. ASSUME NEW w \in Workers, NEW b \in SUBSET Due, SelectDue(w, b) PROVE Goal
  BY <1>0, <1>4, <1>6 DEF SelectDue
<1>7. ASSUME NEW t \in Tests, NothingDue(t) PROVE Goal
  BY <1>0, <1>4, <1>7, Deliverables DEF NothingDue, historyVars
<1>8. ASSUME NEW h \in Hooks, Owner(h) PROVE Goal
  <2>1. ASSUME NEW t \in Tests, TestWebhook(t, h) PROVE Goal
    BY <1>0, <1>4, <2>1, Deliverables DEF TestWebhook, historyVars
  <2> QED BY <1>1, <1>8, <2>1 DEF Owner, CreateWebhook, UpdateWebhook, DeleteWebhook, workerVars, historyVars
<1>9. ASSUME NEW e \in Events, EmitWebhook(e) \/ Emit(e) \/ EmissionFails(e) PROVE Goal
  BY <1>1, <1>9 DEF EmitWebhook, Emit, EmissionFails, InsertDelivery, InsertFails, ListAgain, SendDirectly,
                    workerVars, historyVars
<1>10. ASSUME NEW x \in Deliveries, BackoffEnds(x) PROVE Goal
  BY <1>1, <1>10 DEF BackoffEnds, workerVars, historyVars
<1>11. CASE UNCHANGED vars
  BY <1>1, <1>11 DEF vars, workerVars, historyVars
<1>12. CASE Next
  BY <1>2, <1>3, <1>5, <1>6, <1>7, <1>8, <1>9, <1>10, <1>12 DEF Next, Proceed, Select
<1> QED BY <1>11, <1>12

\* A selected delivery is in no other batch, or is shared from now on.
LEMMA SelectedAlone ==
  ASSUME TypeInv, NEW v \in Workers, NEW b \in SUBSET Due, SelectDue(v, b), NEW d \in b, d \notin shared'
  PROVE  /\ \A w \in Workers : d \notin batch[w] /\ (w # v => d \notin batch'[w])
         /\ d \in Deliveries /\ InTable(d) /\ row'[d] = row[d] /\ read'[v][d] = row[d].attempts
<1>1. \A w \in Workers : d \notin batch[w]
  BY DEF SelectDue
<1>2. \A w \in Workers : w # v => batch'[w] = batch[w]
  BY DEF SelectDue, TypeInv, TypeOK
<1>3. d \in Deliveries /\ InTable(d)
  BY DEF Due, InTable
<1>4. read'[v][d] = row[d].attempts /\ row' = row
  BY <1>3 DEF SelectDue, TypeInv, TypeOK
<1> QED BY <1>1, <1>2, <1>3, <1>4

LEMMA CountedStays ==
  ASSUME TypeInv, CountedInv, [Next]_vars
  PROVE  CountedInv'
<1> SUFFICES ASSUME NEW d \in Deliveries, d \notin shared' PROVE Counted(d)'
  BY DEF CountedInv
<1>0. /\ Counted(d) /\ TypeInv' /\ row[d].attempts \in Nat /\ row'[d].attempts \in Nat
      /\ sends[d] \in Nat /\ sends'[d] \in Nat
      /\ faults \in Nat /\ faults' \in Nat /\ faults <= faults'
  BY SharedGrows, NextTypeInv, RowTypes DEF CountedInv, TypeInv, TypeOK
<1>1. Awaited(d)' => row'[d].status = "none"
  <2>1. Awaited(d)' => row[d].status = "none" /\ ~InTable(d)
    BY <1>0, AwaitedOnce DEF Counted, InTable
  <2> QED BY <2>1, RowChanges DEF RowChange, Inserts
<1>2. ASSUME row[d].status = "none" PROVE sends'[d] = 0 /\ \A w \in Workers : d \notin batch'[w]
  <2>1. sends[d] = 0 /\ \A w \in Workers : d \notin batch[w]
    BY <1>0, <1>2 DEF Counted
  <2>2. sends'[d] = sends[d]
    BY <2>1, SendsGrow DEF TypeInv, HandsFull
  <2>3. d \notin Due
    BY <1>2 DEF Due
  <2>4. ASSUME NEW w \in Workers, d \in batch'[w] PROVE FALSE
    BY <2>1, <2>3, <2>4, BatchChanges
  <2> QED BY <2>1, <2>2, <2>4
<1>3. row'[d].status = "none" => row[d].status = "none"
  BY RowsStay
<1>4. ASSUME NEW v \in Workers, NEW w \in Workers, d \in batch'[v], d \in batch'[w] PROVE v = w
  <2>1. CASE d \in batch[v] /\ d \in batch[w]
    BY <1>0, <2>1 DEF Counted
  <2>2. ASSUME NEW x \in Workers, NEW b \in SUBSET Due, SelectDue(x, b), d \in b PROVE v = w
    BY <1>4, <2>2, SelectedAlone
  <2>3. CASE d \notin batch[v]
    BY <1>4, <2>2, <2>3, BatchChanges
  <2>4. CASE d \notin batch[w]
    BY <1>4, <2>2, <2>4, BatchChanges
  <2> QED BY <2>1, <2>3, <2>4
<1>5. ASSUME InTable(d)', NEW w \in Workers, d \in batch'[w] PROVE read'[w][d] = row'[d].attempts
  <2>1. ASSUME NEW b \in SUBSET Due, SelectDue(w, b), d \in b PROVE read'[w][d] = row'[d].attempts
    BY <2>1, SelectedAlone
  <2>2. CASE d \in batch[w] /\ read'[w][d] = read[w][d]
    <3>1. row[d].status # "none"
      BY <1>0, <2>2 DEF Counted
    <3>2. ~Inserts(d)
      BY <1>0, <3>1 DEF Inserts, Counted
    <3>3. InTable(d)
      BY <1>5, <3>2, RowChanges DEF RowChange, InTable
    <3>4. read[w][d] = row[d].attempts
      BY <1>0, <2>2, <3>3 DEF Counted
    <3>5. ASSUME NEW v \in Workers, Records(v, d) PROVE FALSE
      <4>1. d \in batch[v] /\ v = w
        BY <1>0, <2>2, <3>5 DEF Records, TypeInv, HandsFull, Counted
      <4>2. d \notin batch'[w]
        BY <3>5, <4>1 DEF Records, RecordOutcome, Turn, InvocationEnds, TypeInv, TypeOK
      <4> QED BY <1>5, <4>2
    <3>6. row'[d].attempts = row[d].attempts
      BY <3>2, <3>5, RowChanges DEF RowChange, Moves
    <3> QED BY <2>2, <3>4, <3>6
  <2> QED BY <1>5, <2>1, <2>2, BatchChanges
<1>6. Flying(d) \in Nat /\ Flying(d)' \in Nat
  BY DEF Flying
<1>7. ASSUME InTable(d)' PROVE sends'[d] <= row'[d].attempts + Flying(d)' + faults'
  <2>1. CASE Inserts(d)
    <3>1. sends'[d] = 0
      BY <1>0, <1>2, <2>1 DEF Inserts, Counted
    <3> QED BY <1>0, <1>6, <3>1
  <2>2. CASE ~Inserts(d)
    <3>1. InTable(d)
      BY <1>7, <2>2, RowChanges DEF RowChange, InTable
    <3>2. sends[d] <= row[d].attempts + Flying(d) + faults
      BY <1>0, <3>1 DEF Counted
    <3>3. ASSUME NEW w \in Workers, Records(w, d) PROVE row'[d].attempts = row[d].attempts + 1
      <4>1. d \in batch[w]
        BY <3>3 DEF Records, TypeInv, HandsFull
      <4>2. read[w][d] = row[d].attempts
        BY <1>0, <3>1, <4>1 DEF Counted
      <4> QED BY <3>3, <4>2 DEF Records, NextAttempt
    <3>4. row'[d].attempts >= row[d].attempts
      BY <1>0, <2>2, <3>3, RowChanges DEF RowChange, Moves
    <3>5. CASE (\A w \in Workers : HasSent(w, d)' <=> HasSent(w, d)) /\ sends'[d] = sends[d]
      <4>1. Flying(d)' = Flying(d)
        BY <3>5 DEF Flying
      <4> QED BY <1>0, <1>6, <3>2, <3>4, <3>5, <4>1
    <3>6. ASSUME NEW w \in Workers, \E ok \in BOOLEAN : DeliverOnce(w, ok),
                 current[w] = d, HasSent(w, d)', ~HasSent(w, d), sends'[d] = sends[d] + 1
          PROVE  sends'[d] <= row'[d].attempts + Flying(d)' + faults'
      <4>1. Flying(d)' = 1
        BY <3>6 DEF Flying
      <4>2. d \in batch[w]
        BY <3>6 DEF DeliverOnce, TypeInv, HandsFull
      <4>3. ASSUME NEW v \in Workers, HasSent(v, d) PROVE FALSE
        <5>1. d \in batch[v]
          BY <4>3 DEF HasSent, TypeInv, HandsFull
        <5>2. v = w
          BY <1>0, <4>2, <5>1 DEF Counted
        <5> QED BY <3>6, <4>3, <5>2
      <4>4. Flying(d) = 0
        BY <4>3 DEF Flying
      <4> QED BY <1>0, <3>2, <3>4, <3>6, <4>1, <4>4
    <3>7. ASSUME NEW w \in Workers, RecordOutcome(w) \/ InvocationEnds(w), HasSent(w, d), sends'[d] = sends[d]
          PROVE  sends'[d] <= row'[d].attempts + Flying(d)' + faults'
      <4>1. Flying(d) = 1
        BY <3>7 DEF Flying
      <4>2. CASE InvocationEnds(w)
        <5>1. faults' = faults + 1
          BY <4>2, SharedGrows
        <5> QED BY <1>0, <1>6, <3>2, <3>4, <3>7, <4>1, <5>1
      <4>3. CASE RecordOutcome(w)
        <5>1. row' = Outcome(w) /\ current[w] = d /\ pc[w] = "record"
          BY <3>7, <4>3 DEF RecordOutcome, HasSent
        <5>2. row'[d].attempts = NextAttempt(w)
          BY <3>1, <5>1, OutcomeType
        <5>3. read[w][d] = row[d].attempts
          BY <1>0, <3>1, <5>1 DEF Counted, TypeInv, HandsFull
        <5>4. row'[d].attempts = row[d].attempts + 1
          BY <5>1, <5>2, <5>3 DEF NextAttempt
        <5> QED BY <1>0, <1>6, <3>2, <3>7, <4>1, <5>4
      <4> QED BY <3>7, <4>2, <4>3
    <3> QED BY <3>5, <3>6, <3>7, SentChanges
  <2> QED BY <2>1, <2>2
<1>8. row'[d].status = "none" => sends'[d] = 0 /\ \A w \in Workers : d \notin batch'[w]
  BY <1>2, <1>3
<1> QED BY <1>1, <1>4, <1>5, <1>7, <1>8 DEF Counted

\* A delivery one invocation had at a time is sent as often as its row says, and once
\* more for each invocation that ended before it could record.
THEOREM SendsAlwaysCounted == Spec => []SendsAreCounted
<1>1. Init => CountedInv
  <2> SUFFICES ASSUME Init, NEW d \in Deliveries PROVE Counted(d)
    BY DEF CountedInv
  <2>1. row[d].status = "none" /\ sends[d] = 0 /\ \A w \in Workers : batch[w] = {}
    BY DEF Init
  <2> QED BY <2>1 DEF Counted, InTable
<1>2. TypeInv /\ CountedInv => SendsAreCounted
  <2> SUFFICES ASSUME TypeInv, CountedInv, NEW d \in Deliveries \ shared, InTable(d)
               PROVE  sends[d] <= row[d].attempts + InFlight(d) + faults
    BY DEF SendsAreCounted
  <2> DEFINE Senders == {w \in Workers : pc[w] = "record" /\ current[w] = d}
  <2>1. Counted(d)
    BY DEF CountedInv
  <2>2. CASE \E w \in Workers : HasSent(w, d)
    <3>1. PICK w \in Workers : HasSent(w, d)
      BY <2>2
    <3>2. ASSUME NEW v \in Workers, HasSent(v, d) PROVE v = w
      <4>1. d \in batch[v] /\ d \in batch[w]
        BY <3>1, <3>2 DEF HasSent, TypeInv, HandsFull
      <4> QED BY <2>1, <4>1 DEF Counted
    <3>3. Senders = {w}
      BY <3>1, <3>2 DEF HasSent
    <3>4. Cardinality(Senders) = 1
      <4> HIDE DEF Senders
      <4>1. Cardinality({} \cup {w}) = Cardinality({}) + 1
        BY FS_EmptySet, FS_AddElement
      <4> QED BY <3>3, <4>1, FS_EmptySet
    <3> QED BY <2>1, <2>2, <3>4 DEF Counted, InFlight, Flying
  <2>3. CASE ~\E w \in Workers : HasSent(w, d)
    <3>1. Senders = {}
      BY <2>3 DEF HasSent
    <3>2. Cardinality(Senders) = 0
      BY <3>1, FS_EmptySet
    <3> QED BY <2>1, <2>3, <3>2 DEF Counted, InFlight, Flying
  <2> QED BY <2>2, <2>3
<1>3. Spec => []TypeInv
  BY InitTypeInv, NextTypeInv, PTL DEF Spec
<1> QED BY <1>1, <1>2, <1>3, CountedStays, PTL DEF Spec

-----------------------------------------------------------------------------
(* What is over. A final delivery is in nobody's batch; and without a      *)
(* fault one that was accepted is final, or deleted, or in the hands of    *)
(* the invocation that sent it and has yet to record it.                   *)

Over(d) ==
  /\ Final(d) => \A w \in Workers : d \notin batch[w]
  /\ d \in taken /\ faults = 0 =>
       /\ \A w \in Workers : d \in batch[w] => HasSent(w, d) /\ accepted[w]
       /\ (\E w \in Workers : d \in batch[w]) \/ Final(d) \/ row[d].status = "deleted"

OverInv == \A d \in Deliveries \ shared : Over(d)

\* What an invocation has sent, it keeps with the answer until it records it or ends.
LEMMA AnswerKept ==
  ASSUME TypeInv, [Next]_vars, NEW w \in Workers, pc[w] = "record"
  PROVE  \/ UNCHANGED <<pc[w], current[w], accepted[w], batch[w]>>
         \/ RecordOutcome(w) \/ InvocationEnds(w)
<1> DEFINE Kept == UNCHANGED <<pc[w], current[w], accepted[w], batch[w]>>
<1>0. /\ pc \in [Workers -> WorkerPcs] /\ current \in [Workers -> Deliveries \cup {NoDelivery}]
      /\ accepted \in [Workers -> BOOLEAN] /\ batch \in [Workers -> SUBSET Deliveries]
  BY DEF TypeInv, TypeOK
<1>1. CASE UNCHANGED <<pc, current, accepted, batch>>
  BY <1>1
<1>2. ASSUME NEW v \in Workers, Select(v) \/ Proceed(v) \/ InvocationEnds(v)
      PROVE  Kept \/ RecordOutcome(w) \/ InvocationEnds(w)
  <2>1. CASE v = w
    BY <1>2, <2>1 DEF Select, SelectDue, Proceed, MarkDelivering, DeliverOnce
  <2>2. CASE v # w
    BY <1>0, <1>2, <2>2 DEF Select, SelectDue, Proceed, MarkDelivering, DeliverOnce, RecordOutcome, Turn,
                            InvocationEnds
  <2> QED BY <2>1, <2>2
<1>3. ASSUME NEW t \in Tests, NothingDue(t) PROVE Kept
  BY <1>0, <1>3, Deliverables DEF NothingDue
<1>4. ASSUME NEW h \in Hooks, Owner(h) PROVE Kept
  <2>1. ASSUME NEW t \in Tests, TestWebhook(t, h) PROVE Kept
    BY <1>0, <2>1, Deliverables DEF TestWebhook
  <2> QED BY <1>1, <1>4, <2>1 DEF Owner, CreateWebhook, UpdateWebhook, DeleteWebhook, workerVars
<1>5. ASSUME NEW e \in Events, EmitWebhook(e) \/ Emit(e) \/ EmissionFails(e) PROVE Kept
  BY <1>1, <1>5 DEF EmitWebhook, Emit, EmissionFails, InsertDelivery, InsertFails, ListAgain, SendDirectly,
                    workerVars
<1>6. ASSUME NEW x \in Deliveries, BackoffEnds(x) PROVE Kept
  BY <1>1, <1>6 DEF BackoffEnds, workerVars
<1>7. CASE UNCHANGED vars
  BY <1>1, <1>7 DEF vars, workerVars
<1>8. CASE Next
  BY <1>2, <1>3, <1>4, <1>5, <1>6, <1>8 DEF Next
<1> QED BY <1>7, <1>8

LEMMA TakenBySending ==
  ASSUME TypeInv, [Next]_vars, NEW d \in Deliveries, d \notin taken, d \in taken'
  PROVE  \E w \in Workers : DeliverOnce(w, TRUE) /\ current[w] = d
<1>1. CASE taken' = taken
  BY <1>1
<1>2. ASSUME NEW w \in Workers, NEW ok \in BOOLEAN, DeliverOnce(w, ok)
      PROVE  DeliverOnce(w, TRUE) /\ current[w] = d
  <2>1. ok = TRUE
    BY <1>2 DEF DeliverOnce
  <2> QED BY <1>2, <2>1 DEF DeliverOnce
<1>3. ASSUME NEW h \in Hooks, Owner(h) PROVE taken' = taken
  BY <1>3 DEF Owner, CreateWebhook, UpdateWebhook, DeleteWebhook, TestWebhook, historyVars
<1>4. ASSUME NEW e \in Events, EmitWebhook(e) \/ Emit(e) \/ EmissionFails(e) PROVE taken' = taken
  BY <1>4 DEF EmitWebhook, Emit, EmissionFails, InsertDelivery, InsertFails, ListAgain, SendDirectly, historyVars
<1>5. ASSUME NEW w \in Workers, Select(w) \/ InvocationEnds(w) \/ RecordOutcome(w)
             \/ \E x \in Deliveries : MarkDelivering(w, x)
      PROVE taken' = taken
  BY <1>5 DEF Select, SelectDue, InvocationEnds, RecordOutcome, MarkDelivering, historyVars
<1>6. ASSUME \/ \E t \in Tests : NothingDue(t)
             \/ \E x \in Deliveries : BackoffEnds(x)
      PROVE taken' = taken
  BY <1>6 DEF NothingDue, BackoffEnds, historyVars
<1>7. CASE UNCHANGED vars
  BY <1>1, <1>7 DEF vars, historyVars
<1>8. CASE Next
  BY <1>1, <1>2, <1>3, <1>4, <1>5, <1>6, <1>8 DEF Next, Proceed
<1> QED BY <1>7, <1>8

\* A row that is out of everybody's hands and final stays, and so does a deleted one.
LEMMA EndedRowsStay ==
  ASSUME TypeInv, [Next]_vars, NEW d \in Deliveries, Counted(d)
  PROVE  /\ Final(d) /\ (\A w \in Workers : d \notin batch[w]) =>
              row'[d] = row[d] \/ row'[d].status = "deleted"
         /\ row[d].status = "deleted" => row'[d] = row[d]
<1>1. row[d].status # "none" => ~Inserts(d)
  BY DEF Counted, Inserts
<1>2. ASSUME NEW w \in Workers, MarkDelivering(w, d) \/ Records(w, d) PROVE d \in batch[w]
  BY <1>2 DEF MarkDelivering, Records, TypeInv, HandsFull
<1> QED BY <1>1, <1>2, RowChanges DEF RowChange, Moves, Final, InTable

\* An invocation that makes a delivery final has it at hand no longer.
LEMMA FinalStaysFree ==
  ASSUME TypeInv, CountedInv, OverInv, [Next]_vars, NEW d \in Deliveries, d \notin shared, Final(d)',
         NEW v \in Workers
  PROVE  d \notin batch'[v]
<1> SUFFICES ASSUME d \in batch'[v] PROVE FALSE
  OBVIOUS
<1>0. Counted(d) /\ Over(d)
  BY DEF CountedInv, OverInv
<1>1. ~\E b \in SUBSET Due : SelectDue(v, b) /\ d \in b
  BY DEF SelectDue, Due, Final
<1>2. d \in batch[v]
  BY <1>1, BatchChanges
<1>3. ~Final(d) /\ row[d].status # "none"
  BY <1>0, <1>2 DEF Over, Counted
<1>4. PICK w \in Workers : Records(w, d)
  BY <1>0, <1>3, RowChanges DEF RowChange, Inserts, Moves, Final, Counted
<1>5. d \in batch[w]
  BY <1>4 DEF Records, TypeInv, HandsFull
<1>6. v = w
  BY <1>0, <1>2, <1>5 DEF Counted
<1>7. d \notin batch'[w]
  BY <1>4, <1>5 DEF Records, RecordOutcome, Turn, InvocationEnds, TypeInv, TypeOK
<1> QED BY <1>6, <1>7

\* An answer is recorded by the step that lets go of the delivery.
LEMMA AcceptedStaysTaken ==
  ASSUME TypeInv, CountedInv, OverInv, [Next]_vars, NEW d \in Deliveries, d \notin shared', d \in taken',
         faults' = 0
  PROVE  /\ \A w \in Workers : d \in batch'[w] => HasSent(w, d)' /\ accepted'[w]
         /\ (\E w \in Workers : d \in batch'[w]) \/ Final(d)' \/ row'[d].status = "deleted"
<1>0. d \notin shared /\ faults = 0 /\ Counted(d) /\ Over(d) /\ \A w \in Workers : ~InvocationEnds(w)
  BY SharedGrows DEF CountedInv, OverInv
<1>1. ASSUME d \notin taken
      PROVE  \E w \in Workers : /\ d \in batch'[w] /\ HasSent(w, d)' /\ accepted'[w]
                                /\ \A v \in Workers : d \in batch'[v] => v = w
  <2>1. PICK w \in Workers : DeliverOnce(w, TRUE) /\ current[w] = d
    BY <1>1, TakenBySending
  <2>2. d \in batch[w] /\ batch' = batch
    BY <2>1 DEF DeliverOnce, TypeInv, HandsFull
  <2>3. HasSent(w, d)' /\ accepted'[w]
    BY <2>1 DEF DeliverOnce, HasSent, TypeInv, TypeOK
  <2> QED BY <1>0, <2>2, <2>3 DEF Counted
<1>2. ASSUME d \in taken, NEW v \in Workers, d \in batch'[v] PROVE d \in batch[v]
  <2>1. ASSUME NEW b \in SUBSET Due, SelectDue(v, b), d \in b PROVE FALSE
    <3>1. \A w \in Workers : d \notin batch[w]
      BY <2>1, SelectedAlone
    <3> QED BY <1>0, <1>2, <2>1, <3>1 DEF Over, Due, Final
  <2> QED BY <1>2, <2>1, BatchChanges
<1>3. ASSUME d \in taken, NEW v \in Workers, d \in batch[v]
      PROVE  \/ d \in batch'[v] /\ HasSent(v, d)' /\ accepted'[v]
             \/ d \notin batch'[v] /\ (Final(d)' \/ row'[d].status = "deleted")
  <2>1. HasSent(v, d) /\ accepted[v]
    BY <1>0, <1>3 DEF Over
  <2>2. CASE UNCHANGED <<pc[v], current[v], accepted[v], batch[v]>>
    BY <1>3, <2>1, <2>2 DEF HasSent
  <2>3. CASE RecordOutcome(v)
    <3>1. row' = Outcome(v) /\ current[v] = d /\ pc[v] = "record" /\ d \notin batch'[v]
      BY <2>1, <2>3 DEF RecordOutcome, Turn, HasSent, TypeInv, TypeOK
    <3>2. CASE InTable(d)
      BY <2>1, <3>1, <3>2, OutcomeType DEF ShouldDie, Final
    <3>3. CASE ~InTable(d)
      BY <1>0, <1>3, <3>1, <3>3, OutcomeType DEF InTable, Counted
    <3> QED BY <3>1, <3>2, <3>3
  <2> QED BY <1>0, <2>1, <2>2, <2>3, AnswerKept DEF HasSent
<1>4. ASSUME d \in taken, \A w \in Workers : d \notin batch[w]
      PROVE  Final(d)' \/ row'[d].status = "deleted"
  <2>1. Final(d) \/ row[d].status = "deleted"
    BY <1>0, <1>4 DEF Over
  <2> QED BY <1>0, <1>4, <2>1, EndedRowsStay DEF Final
<1> QED BY <1>1, <1>2, <1>3, <1>4

\* A final delivery is never changed nor sent again while invocations do not overlap on
\* it, and without a fault an accepted one is never sent again.
THEOREM FinalAlwaysStays == Spec => FinalDeliveriesStay
<1> DEFINE Inv == TypeInv /\ CountedInv /\ OverInv
<1>1. Init => Inv
  <2>1. Init => CountedInv /\ OverInv
    <3> SUFFICES ASSUME Init, NEW d \in Deliveries PROVE Counted(d) /\ Over(d)
      BY DEF CountedInv, OverInv
    <3>1. row[d].status = "none" /\ sends[d] = 0 /\ taken = {} /\ \A w \in Workers : batch[w] = {}
      BY DEF Init
    <3> QED BY <3>1 DEF Counted, InTable, Over, Final
  <2> QED BY <2>1, InitTypeInv
<1>2. Inv /\ [Next]_vars => Inv'
  <2> SUFFICES ASSUME Inv, [Next]_vars PROVE OverInv'
    BY NextTypeInv, CountedStays
  <2>1. shared \subseteq shared'
    BY SharedGrows
  <2> QED BY <2>1, FinalStaysFree, AcceptedStaysTaken DEF OverInv, Over
<1>3. Inv /\ [Next]_vars =>
        [\A d \in Deliveries \ shared :
           /\ Final(d) => /\ row'[d] = row[d] \/ row'[d].status = "deleted"
                          /\ sends'[d] = sends[d]
           /\ d \in taken /\ faults = 0 => sends'[d] = sends[d]]_vars
  <2> SUFFICES ASSUME Inv, [Next]_vars, NEW d \in Deliveries \ shared
               PROVE  /\ Final(d) => /\ row'[d] = row[d] \/ row'[d].status = "deleted"
                                     /\ sends'[d] = sends[d]
                      /\ d \in taken /\ faults = 0 => sends'[d] = sends[d]
    OBVIOUS
  <2>1. Counted(d) /\ Over(d)
    BY DEF CountedInv, OverInv
  <2>2. ASSUME sends'[d] # sends[d] PROVE ~Final(d) /\ ~(d \in taken /\ faults = 0)
    <3>1. PICK w \in Workers : pc[w] = "send" /\ current[w] = d
      BY <2>2, SendsGrow
    <3>2. d \in batch[w] /\ ~HasSent(w, d)
      BY <3>1 DEF TypeInv, HandsFull, HasSent
    <3> QED BY <2>1, <3>2 DEF Over
  <2> QED BY <2>1, <2>2, EndedRowsStay DEF Over
<1> QED BY <1>1, <1>2, <1>3, PTL DEF Spec, FinalDeliveriesStay

\* What is over stays over: the queue leaves deleted webhooks and final deliveries alone.
THEOREM OverAlwaysOver == Spec => OverIsOver
BY DeletedAlwaysAlone, FinalAlwaysStays DEF OverIsOver
=============================================================================
