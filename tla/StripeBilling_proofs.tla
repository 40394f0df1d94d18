------------------------ MODULE StripeBilling_proofs ------------------------
(***************************************************************************)
(* Proofs about StripeBilling, for every set of users, subscriptions and   *)
(* events, every order of delivery, and any number of handlers.            *)
(***************************************************************************)
EXTENDS StripeBilling, TLAPS

-----------------------------------------------------------------------------
(* Type correctness: a handler that is not idle has an event at hand, and  *)
(* the maintenance run has a user at hand when it writes.                  *)

AtHand ==
  /\ \A h \in Handlers : pc[h] # "idle" => work[h].event \in Events
  /\ \A h \in Handlers : pc[h] = "idle" => work[h] = NoWork
  /\ mpc = "write" => mwork.user \in Users

TypeInv == TypeOK /\ AtHand

LEMMA Participants ==
  ASSUME NEW e \in Events
  PROVE  /\ Kind[e] \in Kinds /\ Concerns[e] \in Subs /\ At[e] \in Nat /\ UserOf(e) \in Users
         /\ Shows(e) \in {"active", "past_due", "canceled"} /\ e # NoEvent
BY BillingAssumption DEF Kinds, SubscriptionKinds, InvoiceKinds, UserOf, Shows

\* The rows the statements write are rows.
LEMMA RowTypes ==
  /\ \A e \in Events, n \in Nat : /\ RowAfter(e, n) \in SubRow
                                  /\ RowAfter(e, n).last = n /\ RowAfter(e, n).status = Shows(e)
  /\ \A r \in SubRow :
       /\ r.last \in Nat
       /\ [r EXCEPT !.grace = "over"] \in SubRow
       /\ [r EXCEPT !.grace = "over"].last = r.last /\ [r EXCEPT !.grace = "over"].status = r.status
       /\ [r EXCEPT !.status = "grace_expired"] \in SubRow
       /\ [r EXCEPT !.status = "grace_expired"].last = r.last
       /\ [r EXCEPT !.status = "grace_expired"].status = "grace_expired"
<1>1. ASSUME NEW e \in Events, NEW n \in Nat
      PROVE  /\ RowAfter(e, n) \in SubRow
             /\ RowAfter(e, n).last = n /\ RowAfter(e, n).status = Shows(e)
  BY Participants DEF RowAfter, SubRow
<1>2. ASSUME NEW r \in SubRow
      PROVE  /\ r.last \in Nat
             /\ [r EXCEPT !.grace = "over"] \in SubRow
             /\ [r EXCEPT !.grace = "over"].last = r.last /\ [r EXCEPT !.grace = "over"].status = r.status
             /\ [r EXCEPT !.status = "grace_expired"] \in SubRow
             /\ [r EXCEPT !.status = "grace_expired"].last = r.last
             /\ [r EXCEPT !.status = "grace_expired"].status = "grace_expired"
  BY DEF SubRow
<1> QED BY <1>1, <1>2

LEMMA WorkTypes ==
  /\ NoWork \in Work
  /\ \A w \in Work :
       /\ \A p \in Plans : [w EXCEPT !.plan = p] \in Work /\ [w EXCEPT !.plan = p].event = w.event
       /\ \A o \in {"processed", "ignored", "failed"} :
            [w EXCEPT !.outcome = o] \in Work /\ [w EXCEPT !.outcome = o].event = w.event
  /\ \A e \in Events, b \in BOOLEAN : NewWork(e, b) \in Work /\ NewWork(e, b).event = e
BY DEF Work, NoWork, NewWork, Plans

LEMMA InitTypeInv == Init => TypeInv
BY WorkTypes DEF Init, TypeInv, TypeOK, AtHand, LogStatus, SubRow, HandlerPcs, Plans, MaintPcs, MaintWork, NoMaint

LEMMA BeginTypes ==
  ASSUME TypeInv, NEW h \in Handlers, NEW e \in Events, NEW s \in LogStatus, Begin(h, e, s)
  PROVE  /\ log' \in [Events -> LogStatus] /\ pc' \in [Handlers -> HandlerPcs]
         /\ work' \in [Handlers -> Work] /\ AtHand'
<1>1. PICK b \in BOOLEAN : work' = [work EXCEPT ![h] = NewWork(e, b)]
  BY DEF Begin
<1>2. PICK n \in Work : n = NewWork(e, b) /\ n.event = e
  BY WorkTypes
<1>3. work' = [work EXCEPT ![h] = n]
  BY <1>1, <1>2
<1> QED BY <1>2, <1>3 DEF Begin, TypeInv, TypeOK, AtHand, HandlerPcs, maintVars

LEMMA DeliverTypeInv ==
  ASSUME TypeInv, Deliver
  PROVE  TypeInv'
<1> USE DEF TypeInv, TypeOK
<1>0. ASSUME NEW e \in Events, Sent(e) PROVE repeats' \in Nat
  BY <1>0 DEF Sent
<1>1. ASSUME NEW h \in Handlers, NEW e \in Events, ReceiveNew(h, e) PROVE TypeInv'
  <2>1. "processing" \in LogStatus /\ Begin(h, e, "processing") /\ repeats' \in Nat
    BY <1>0, <1>1 DEF ReceiveNew, LogStatus
  <2>2. /\ log' \in [Events -> LogStatus] /\ pc' \in [Handlers -> HandlerPcs]
        /\ work' \in [Handlers -> Work] /\ AtHand'
    BY <2>1, BeginTypes
  <2> QED BY <1>1, <2>1, <2>2 DEF ReceiveNew, Begin, tableVars, maintVars, historyVars
<1>2. ASSUME NEW h \in Handlers, NEW e \in Events, ReceiveUnsure(h, e) PROVE TypeInv'
  <2>1. log[e] \in LogStatus /\ Begin(h, e, log[e]) /\ repeats' \in Nat /\ faults' \in Nat
    BY <1>0, <1>2 DEF ReceiveUnsure, Fault
  <2>2. /\ log' \in [Events -> LogStatus] /\ pc' \in [Handlers -> HandlerPcs]
        /\ work' \in [Handlers -> Work] /\ AtHand'
    BY <2>1, BeginTypes
  <2> QED BY <1>2, <2>1, <2>2 DEF ReceiveUnsure, Begin, tableVars, maintVars, historyVars
<1>3. ASSUME NEW e \in Events, ReceiveDuplicate(e) PROVE TypeInv'
  <2>1. repeats' \in Nat
    BY <1>0, <1>3 DEF ReceiveDuplicate
  <2> QED BY <1>3, <2>1 DEF ReceiveDuplicate, AtHand, LogStatus, tableVars, maintVars, historyVars
<1>4. ASSUME NEW e \in Events, ReceiveConfused(e) PROVE TypeInv'
  BY <1>4 DEF ReceiveConfused, Fault, AtHand, LogStatus, tableVars, maintVars, historyVars
<1> QED BY <1>1, <1>2, <1>3, <1>4 DEF Deliver

LEMMA WriteTypes ==
  ASSUME TypeInv, NEW e \in Events, NEW hit \in SUBSET Subs, NEW rows \in [Subs -> SubRow], Write(e, hit, rows)
  PROVE  /\ subs' \in [Subs -> SubRow] /\ newest' \in [Users -> SUBSET Subs]
         /\ met' \in [Subs -> SUBSET Events] /\ applied' \in [Events -> Nat]
BY DEF Write, TypeInv, TypeOK

\* The rows a step leaves, and where the handler goes.
LEMMA PcTypes ==
  ASSUME TypeInv, NEW h \in Handlers, NEW next \in HandlerPcs \ {"idle"}, pc' = [pc EXCEPT ![h] = next],
         pc[h] # "idle", UNCHANGED <<maintVars>>,
         work' = work \/ (\E w \in Work : w.event = work[h].event /\ work' = [work EXCEPT ![h] = w])
  PROVE  pc' \in [Handlers -> HandlerPcs] /\ work' \in [Handlers -> Work] /\ AtHand'
BY DEF TypeInv, TypeOK, AtHand, maintVars

LEMMA EndTypes ==
  ASSUME TypeInv, NEW h \in Handlers, NEW o \in {"processed", "ignored", "failed"}, End(h, o),
         pc[h] # "idle", UNCHANGED <<maintVars>>
  PROVE  pc' \in [Handlers -> HandlerPcs] /\ work' \in [Handlers -> Work] /\ AtHand'
<1>1. PICK w \in Work : w = [work[h] EXCEPT !.outcome = o] /\ w.event = work[h].event
  BY WorkTypes DEF TypeInv, TypeOK
<1>2. work' = [work EXCEPT ![h] = w] /\ pc' = [pc EXCEPT ![h] = "complete"]
  BY <1>1 DEF End
<1>3. "complete" \in HandlerPcs \ {"idle"}
  BY DEF HandlerPcs
<1> QED BY <1>1, <1>2, <1>3, PcTypes

\* The statement has run, with its guard or without.
LEMMA ApplyTypes ==
  ASSUME TypeInv, NEW h \in Handlers, Apply(h) \/ ApplyUnguarded(h)
  PROVE  /\ work[h].event \in Events
         /\ subs' \in [Subs -> SubRow] /\ newest' \in [Users -> SUBSET Subs]
         /\ met' \in [Subs -> SUBSET Events] /\ applied' \in [Events -> Nat]
         /\ unguarded' \subseteq Subs /\ faults' \in Nat
         /\ pc' \in [Handlers -> HandlerPcs] /\ AtHand'
<1>e. PICK e \in Events : e = work[h].event
  BY DEF Apply, ApplyUnguarded, TypeInv, AtHand
<1>0. /\ Reached(e) \subseteq Subs /\ At[e] \in Nat
      /\ \A s \in Subs : subs[s] \in SubRow /\ subs[s].last \in Nat
  <2>1. Reached(e) \subseteq Subs
    BY Participants DEF Reached
  <2>2. \A s \in Subs : subs[s] \in SubRow /\ subs[s].last \in Nat
    BY RowTypes DEF TypeInv, TypeOK
  <2> QED BY <2>1, <2>2, Participants
<1>1. \E hit \in SUBSET Subs, rows \in [Subs -> SubRow] : Write(e, hit, rows)
  <2>1. CASE Apply(h)
    <3>1. [s \in Subs |-> RowAfter(e, At[e])] \in [Subs -> SubRow]
      BY <1>0, RowTypes
    <3>2. {s \in Reached(e) : Guard(e, s)} \in SUBSET Subs
      BY <1>0
    <3> QED BY <1>e, <2>1, <3>1, <3>2 DEF Apply
  <2>2. CASE ApplyUnguarded(h)
    <3>1. [s \in Subs |-> RowAfter(e, subs[s].last)] \in [Subs -> SubRow]
      BY <1>0, RowTypes
    <3> QED BY <1>e, <1>0, <2>2, <3>1 DEF ApplyUnguarded
  <2> QED BY <2>1, <2>2
<1>2. unguarded' \subseteq Subs /\ faults' \in Nat
  BY <1>e, <1>0 DEF Apply, ApplyUnguarded, Fault, TypeInv, TypeOK
<1>3. \E next \in HandlerPcs \ {"idle"} : pc' = [pc EXCEPT ![h] = next]
  BY DEF Apply, ApplyUnguarded, AfterApply, HandlerPcs
<1>4. pc' \in [Handlers -> HandlerPcs] /\ AtHand'
  BY <1>3, PcTypes DEF Apply, ApplyUnguarded
<1> QED BY <1>e, <1>1, <1>2, <1>4, WriteTypes

LEMMA ProceedTypeInv ==
  ASSUME TypeInv, NEW h \in Handlers, Proceed(h) \/ Fail(h)
  PROVE  TypeInv'
<1> USE DEF TypeInv, TypeOK
<1>1. CASE Apply(h) \/ ApplyUnguarded(h)
  BY <1>1, ApplyTypes DEF Apply, ApplyUnguarded, maintVars
<1>2. CASE Link(h)
  <2>1. "read" \in HandlerPcs \ {"idle"} /\ UserOf(work[h].event) \in Users
    BY <1>2, Participants DEF HandlerPcs, Link, AtHand
  <2>2. pc' \in [Handlers -> HandlerPcs] /\ AtHand'
    BY <1>2, <2>1, PcTypes DEF Link
  <2>3. faults' \in Nat /\ linked' \subseteq Users
    BY <1>2, <2>1 DEF Link, Fault
  <2> QED BY <1>2, <2>2, <2>3 DEF Link, maintVars, historyVars
<1>3. CASE SyncRead(h)
  <2>1. PICK plan \in Plans : work' = [work EXCEPT ![h].plan = plan]
    BY <1>3 DEF SyncRead
  <2>2. PICK w \in Work : w = [work[h] EXCEPT !.plan = plan] /\ w.event = work[h].event
    BY WorkTypes
  <2>3. work' = [work EXCEPT ![h] = w] /\ "write" \in HandlerPcs \ {"idle"}
    BY <2>1, <2>2 DEF HandlerPcs
  <2>4. pc' \in [Handlers -> HandlerPcs] /\ work' \in [Handlers -> Work] /\ AtHand'
    BY <1>3, <2>2, <2>3, PcTypes DEF SyncRead
  <2> QED BY <1>3, <2>4 DEF SyncRead, tableVars, maintVars, historyVars
<1>4. CASE SyncWrite(h)
  <2>1. "complete" \in HandlerPcs \ {"idle"} /\ work[h].plan \in Plans
    BY DEF HandlerPcs, Work
  <2>2. pc' \in [Handlers -> HandlerPcs] /\ work' \in [Handlers -> Work] /\ AtHand'
    BY <1>4, <2>1, PcTypes DEF SyncWrite
  <2>3. plans' \in [Users -> Plans]
    BY <1>4, <2>1 DEF SyncWrite
  <2> QED BY <1>4, <2>2, <2>3 DEF SyncWrite, tableVars, maintVars, historyVars
<1>5. CASE CompleteWebhookEvent(h)
  <2>1. work[h].outcome \in LogStatus /\ work[h].event \in Events
    BY <1>5 DEF Work, LogStatus, CompleteWebhookEvent, AtHand
  <2>2. log' \in [Events -> LogStatus] /\ acked' \subseteq Events
    BY <1>5, <2>1 DEF CompleteWebhookEvent
  <2>3. pc' \in [Handlers -> HandlerPcs] /\ work' \in [Handlers -> Work] /\ AtHand'
    BY <1>5, WorkTypes DEF CompleteWebhookEvent, HandlerPcs, AtHand, maintVars
  <2> QED BY <1>5, <2>2, <2>3 DEF CompleteWebhookEvent, tableVars, maintVars, historyVars
<1>6. CASE SyncFails(h)
  <2>1. pc' \in [Handlers -> HandlerPcs] /\ work' \in [Handlers -> Work] /\ AtHand'
    BY <1>6, EndTypes DEF SyncFails
  <2> QED BY <1>6, <2>1 DEF SyncFails, Fault, tableVars, maintVars, historyVars
<1>7. ASSUME NEW o \in {"failed", "ignored"}, ApplyFails(h, o) PROVE TypeInv'
  <2>1. pc' \in [Handlers -> HandlerPcs] /\ work' \in [Handlers -> Work] /\ AtHand'
    BY <1>7, EndTypes DEF ApplyFails
  <2>2. lost' \subseteq Events
    BY <1>7 DEF ApplyFails, AtHand
  <2> QED BY <1>7, <2>1, <2>2 DEF ApplyFails, Fault, tableVars, maintVars, historyVars
<1>8. CASE HandlerDies(h)
  <2>1. lost' \subseteq Events
    BY <1>8 DEF HandlerDies, AtHand
  <2>2. pc' \in [Handlers -> HandlerPcs] /\ work' \in [Handlers -> Work] /\ AtHand'
    BY <1>8, WorkTypes DEF HandlerDies, HandlerPcs, AtHand, maintVars
  <2> QED BY <1>8, <2>1, <2>2 DEF HandlerDies, Fault, tableVars, maintVars, historyVars
<1> QED BY <1>1, <1>2, <1>3, <1>4, <1>5, <1>6, <1>7, <1>8 DEF Proceed, Fail

LEMMA MaintTypes ==
  /\ NoMaint \in MaintWork
  /\ \A todo \in SUBSET Users, next \in Users \cup {0} : [NoMaint EXCEPT !.todo = todo, !.next = next] \in MaintWork
  /\ \A m \in MaintWork : [m EXCEPT !.user = 0, !.plan = "free"] \in MaintWork
BY DEF MaintWork, NoMaint, Plans

LEMMA BatchTypes ==
  ASSUME TypeInv
  PROVE  FirstBatch \subseteq Users /\ WrapBatch(FirstBatch) \subseteq Users
<1>1. Subscribers \subseteq Users
  BY BillingAssumption DEF Subscribers
<1> QED BY <1>1 DEF FirstBatch, WrapBatch, FirstOf

LEMMA MaintainTypeInv ==
  ASSUME TypeInv, Maintain \/ MaintDies
  PROVE  TypeInv'
<1> USE DEF TypeInv, TypeOK
<1>1. CASE ExpireGrace
  <2>1. subs' \in [Subs -> SubRow]
    BY <1>1, RowTypes DEF ExpireGrace
  <2>2. newest' \in [Users -> SUBSET Subs]
    BY <1>1 DEF ExpireGrace, Expired
  <2> QED BY <1>1, <2>1, <2>2 DEF ExpireGrace, AtHand, MaintPcs, historyVars
<1>2. CASE PickUsers
  <2>1. mwork' \in MaintWork
    <3>1. FirstBatch \cup WrapBatch(FirstBatch) \subseteq Users
      BY BatchTypes
    <3>2. PICK last \in Users \cup {0} :
            mwork' = [NoMaint EXCEPT !.todo = FirstBatch \cup WrapBatch(FirstBatch), !.next = last]
      BY <1>2 DEF PickUsers
    <3> QED BY <3>1, <3>2, MaintTypes
  <2> QED BY <1>2, <2>1 DEF PickUsers, AtHand, MaintPcs, tableVars, historyVars
<1>3. ASSUME NEW u \in Users, MaintRead(u) PROVE TypeInv'
  <2>1. mwork' \in MaintWork /\ mwork'.user \in Users
    <3>1. PICK p \in Plans : mwork' = [mwork EXCEPT !.user = u, !.plan = p, !.todo = @ \ {u}]
      BY <1>3 DEF MaintRead
    <3>2. mwork \in MaintWork
      OBVIOUS
    <3> QED BY <3>1, <3>2 DEF MaintWork
  <2> QED BY <1>3, <2>1 DEF MaintRead, AtHand, MaintPcs, tableVars, historyVars
<1>4. CASE MaintWrite
  <2>1. mwork' \in MaintWork
    BY <1>4, MaintTypes DEF MaintWrite
  <2>2. mwork.user \in Users /\ mwork.plan \in Plans
    BY <1>4 DEF MaintWrite, AtHand, MaintWork
  <2>3. plans' \in [Users -> Plans] /\ faults' \in Nat
    BY <1>4, <2>2 DEF MaintWrite, Fault
  <2> QED BY <1>4, <2>1, <2>3 DEF MaintWrite, AtHand, MaintPcs, tableVars, historyVars
<1>5. CASE MaintEnds
  <2>1. cursor' \in Users \cup {0} /\ faults' \in Nat
    BY <1>5 DEF MaintEnds, MaintWork, Fault
  <2>2. mwork' \in MaintWork /\ mpc' = "idle"
    BY <1>5, MaintTypes DEF MaintEnds
  <2>3. AtHand'
    BY <1>5, <2>2 DEF MaintEnds, AtHand
  <2>4. UNCHANGED <<log, subs, newest, linked, plans, pc, work, acked, repeats, applied, met, unguarded, lost, reopened>>
    BY <1>5 DEF MaintEnds, tableVars, historyVars
  <2>5. mpc' \in MaintPcs
    BY <2>2 DEF MaintPcs
  <2> QED BY <2>1, <2>2, <2>3, <2>4, <2>5
<1>6. CASE MaintDies
  <2>1. mwork' \in MaintWork /\ mpc' = "idle" /\ faults' \in Nat
    <3>1. mwork' = NoMaint /\ NoMaint \in MaintWork
      BY <1>6, MaintTypes DEF MaintDies
    <3> QED BY <1>6, <3>1 DEF MaintDies, Fault
  <2>2. AtHand'
    BY <1>6, <2>1 DEF MaintDies, AtHand
  <2> QED BY <1>6, <2>1, <2>2 DEF MaintDies, MaintPcs, tableVars, historyVars
<1> QED BY <1>1, <1>2, <1>3, <1>4, <1>5, <1>6 DEF Maintain

LEMMA NextTypeInv ==
  ASSUME TypeInv, [Next]_vars
  PROVE  TypeInv'
<1>1. CASE UNCHANGED vars
  BY <1>1 DEF vars, tableVars, maintVars, historyVars, TypeInv, TypeOK, AtHand
<1>2. ASSUME NEW s \in Subs, GraceLapses(s) PROVE TypeInv'
  BY <1>2, RowTypes DEF GraceLapses, TypeInv, TypeOK, AtHand, maintVars, historyVars
<1>3. CASE Next
  BY <1>2, <1>3, DeliverTypeInv, ProceedTypeInv, MaintainTypeInv DEF Next
<1> QED BY <1>1, <1>3

\* Every table, local and history keeps its type.
THEOREM TypeCorrect == Spec => []TypeOK
<1>1. Spec => []TypeInv
  BY InitTypeInv, NextTypeInv, PTL DEF Spec
<1>2. TypeInv => TypeOK
  BY DEF TypeInv
<1> QED BY <1>1, <1>2, PTL

-----------------------------------------------------------------------------
(* An event's statement runs once: while the log can say, at most one      *)
(* handler ever gets to it.                                                *)

\* The handler has the event and its statement has not run.
Before(h, e) == pc[h] = "apply" /\ work[h].event = e

OnceFor(e) ==
  /\ log[e] = "none" => applied[e] = 0 /\ \A h \in Handlers : ~Before(h, e)
  /\ applied[e] <= 1
  /\ \A h \in Handlers : Before(h, e) => applied[e] = 0
  /\ \A g, h \in Handlers : Before(g, e) /\ Before(h, e) => g = h

OnceInv == \A e \in Events \ reopened : OnceFor(e)

\* What a step does to an event: nothing, a delivery of it, its statement, or its end.
Unmoved(e) ==
  /\ applied'[e] = applied[e] /\ (log'[e] = "none" => log[e] = "none")
  /\ \A h \in Handlers : Before(h, e)' => Before(h, e)

Begun(h, e) ==
  /\ log[e] = "none" /\ log'[e] = "processing" /\ applied'[e] = applied[e]
  /\ Before(h, e)' /\ \A g \in Handlers \ {h} : Before(g, e)' <=> Before(g, e)

RanFor(h, e) ==
  /\ Before(h, e) /\ ~Before(h, e)' /\ log' = log /\ applied'[e] = applied[e] + 1
  /\ \A g \in Handlers \ {h} : Before(g, e)' <=> Before(g, e)

EventStep(e) ==
  e \in reopened' \/ Unmoved(e) \/ \E h \in Handlers : Begun(h, e) \/ RanFor(h, e)

LEMMA EventSteps ==
  ASSUME TypeInv, [Next]_vars, NEW e \in Events
  PROVE  EventStep(e)
<1> USE DEF EventStep
<1>0. /\ log \in [Events -> LogStatus] /\ pc \in [Handlers -> HandlerPcs] /\ work \in [Handlers -> Work]
      /\ applied \in [Events -> Nat]
  BY DEF TypeInv, TypeOK
<1>1. CASE UNCHANGED <<log, pc, work, applied>>
  BY <1>1 DEF Unmoved, Before
<1>2. ASSUME NEW h \in Handlers, NEW f \in Events, ReceiveNew(h, f) PROVE EventStep(e)
  <2>1. PICK b \in BOOLEAN : work' = [work EXCEPT ![h] = NewWork(f, b)]
    BY <1>2 DEF ReceiveNew, Begin
  <2>2. /\ work'[h].event = f /\ pc'[h] = "apply" /\ applied' = applied
        /\ \A g \in Handlers \ {h} : work'[g] = work[g] /\ pc'[g] = pc[g]
        /\ log' = [log EXCEPT ![f] = "processing"] /\ log[f] = "none" /\ pc[h] = "idle"
    BY <1>0, <1>2, <2>1, WorkTypes DEF ReceiveNew, IsNew, Begin, historyVars
  <2>3. CASE e = f
    <3>1. Begun(h, e)
      BY <1>0, <2>2, <2>3 DEF Begun, Before
    <3> QED BY <3>1
  <2>4. CASE e # f
    BY <1>0, <2>2, <2>4 DEF Unmoved, Before
  <2> QED BY <2>3, <2>4
<1>3. ASSUME NEW h \in Handlers, NEW f \in Events, ReceiveUnsure(h, f) PROVE EventStep(e)
  <2>1. PICK b \in BOOLEAN : work' = [work EXCEPT ![h] = NewWork(f, b)]
    BY <1>3 DEF ReceiveUnsure, Begin
  <2>2. /\ work'[h].event = f /\ applied' = applied
        /\ \A g \in Handlers \ {h} : work'[g] = work[g] /\ pc'[g] = pc[g]
        /\ log' = log /\ f \in reopened'
    BY <1>0, <1>3, <2>1, WorkTypes DEF ReceiveUnsure, Begin, historyVars
  <2> QED BY <2>2 DEF Unmoved, Before
<1>4. ASSUME NEW f \in Events, ReceiveDuplicate(f) \/ ReceiveConfused(f) PROVE EventStep(e)
  <2>1. UNCHANGED <<pc, work, applied>> /\ log' = [log EXCEPT ![f] = "ignored"]
    BY <1>4 DEF ReceiveDuplicate, ReceiveConfused, historyVars
  <2> QED BY <1>0, <2>1 DEF Unmoved, Before
<1>5. ASSUME NEW h \in Handlers, Apply(h) \/ ApplyUnguarded(h) PROVE EventStep(e)
  <2>1. PICK f \in Events : f = work[h].event
    BY <1>5, ApplyTypes
  <2>2. /\ UNCHANGED <<log, work>> /\ pc[h] = "apply" /\ applied' = [applied EXCEPT ![f] = @ + 1]
    BY <1>5, <2>1 DEF Apply, ApplyUnguarded, Write
  <2>3. \E next \in HandlerPcs \ {"apply"} : pc' = [pc EXCEPT ![h] = next]
    BY <1>5 DEF Apply, ApplyUnguarded, AfterApply, HandlerPcs
  <2>4. pc'[h] # "apply" /\ \A g \in Handlers \ {h} : pc'[g] = pc[g]
    BY <1>0, <2>3
  <2>5. CASE e = f
    <3>1. RanFor(h, e)
      BY <1>0, <2>1, <2>2, <2>4, <2>5 DEF RanFor, Before
    <3> QED BY <3>1
  <2>6. CASE e # f
    BY <1>0, <2>1, <2>2, <2>4, <2>6 DEF Unmoved, Before
  <2> QED BY <2>5, <2>6
<1>6. ASSUME NEW h \in Handlers, \E next \in HandlerPcs \ {"apply"} : pc' = [pc EXCEPT ![h] = next],
             UNCHANGED applied, log'[e] = "none" => log[e] = "none",
             \A g \in Handlers \ {h} : work'[g] = work[g]
      PROVE  EventStep(e)
  BY <1>0, <1>6 DEF Unmoved, Before
<1>7. ASSUME NEW h \in Handlers, Proceed(h) \/ Fail(h) PROVE EventStep(e)
  <2>1. CASE CompleteWebhookEvent(h)
    <3>1. /\ \E next \in HandlerPcs \ {"apply"} : pc' = [pc EXCEPT ![h] = next]
          /\ applied' = applied /\ \A g \in Handlers \ {h} : work'[g] = work[g]
      BY <1>0, <2>1 DEF CompleteWebhookEvent, HandlerPcs, historyVars
    <3>2. work[h].outcome # "none"
      BY <1>0 DEF Work
    <3>3. log'[e] = "none" => log[e] = "none"
      BY <1>0, <2>1, <3>2 DEF CompleteWebhookEvent
    <3> QED BY <1>6, <3>1, <3>3
  <2>2. CASE Link(h) \/ SyncRead(h) \/ SyncWrite(h) \/ SyncFails(h) \/ HandlerDies(h)
             \/ \E o \in {"failed", "ignored"} : ApplyFails(h, o)
    <3>1. \E next \in HandlerPcs \ {"apply"} : pc' = [pc EXCEPT ![h] = next]
      BY <2>2 DEF Link, SyncRead, SyncWrite, SyncFails, HandlerDies, ApplyFails, End, HandlerPcs
    <3>2. applied' = applied /\ log' = log
      BY <2>2 DEF Link, SyncRead, SyncWrite, SyncFails, HandlerDies, ApplyFails, historyVars
    <3>3. \A g \in Handlers \ {h} : work'[g] = work[g]
      BY <1>0, <2>2 DEF Link, SyncRead, SyncWrite, SyncFails, HandlerDies, ApplyFails, End
    <3> QED BY <1>6, <3>1, <3>2, <3>3
  <2> QED BY <1>5, <1>7, <2>1, <2>2 DEF Proceed, Fail
<1>8. CASE (\E s \in Subs : GraceLapses(s)) \/ Maintain \/ MaintDies
  BY <1>1, <1>8 DEF GraceLapses, Maintain, ExpireGrace, PickUsers, MaintRead, MaintWrite, MaintEnds, MaintDies,
                    historyVars
<1>9. CASE UNCHANGED vars
  BY <1>1, <1>9 DEF vars, historyVars
<1>10. CASE Next
  BY <1>2, <1>3, <1>4, <1>7, <1>8, <1>10 DEF Next, Deliver
<1> QED BY <1>9, <1>10

LEMMA ReopenedGrows ==
  ASSUME [Next]_vars
  PROVE  reopened \subseteq reopened'
<1>1. CASE UNCHANGED vars
  BY <1>1 DEF vars
<1>2. CASE Deliver
  BY <1>2 DEF Deliver, ReceiveNew, ReceiveUnsure, ReceiveDuplicate, ReceiveConfused
<1>3. ASSUME NEW h \in Handlers, Proceed(h) \/ Fail(h) PROVE reopened' = reopened
  BY <1>3 DEF Proceed, Fail, Apply, ApplyUnguarded, ApplyFails, Link, SyncRead, SyncWrite, SyncFails,
              CompleteWebhookEvent, HandlerDies
<1>4. CASE (\E s \in Subs : GraceLapses(s)) \/ Maintain \/ MaintDies
  BY <1>4 DEF GraceLapses, Maintain, ExpireGrace, PickUsers, MaintRead, MaintWrite, MaintEnds, MaintDies
<1> QED BY <1>1, <1>2, <1>3, <1>4 DEF Next

\* The statement of an event runs at most once, unless the log could not be asked.
THEOREM AppliedAlwaysAtMostOnce == Spec => []AppliedAtMostOnce
<1>1. Init => OnceInv
  BY DEF Init, OnceInv, OnceFor, Before
<1>2. TypeInv /\ OnceInv /\ [Next]_vars => OnceInv'
  <2> SUFFICES ASSUME TypeInv, OnceInv, [Next]_vars, NEW e \in Events, e \notin reopened'
               PROVE  OnceFor(e)'
    BY DEF OnceInv
  <2>1. OnceFor(e) /\ applied[e] \in Nat
    BY ReopenedGrows DEF OnceInv, TypeInv, TypeOK
  <2>2. CASE Unmoved(e)
    BY <2>1, <2>2 DEF OnceFor, Unmoved
  <2>3. ASSUME NEW h \in Handlers, Begun(h, e) PROVE OnceFor(e)'
    BY <2>1, <2>3 DEF OnceFor, Begun
  <2>4. ASSUME NEW h \in Handlers, RanFor(h, e) PROVE OnceFor(e)'
    <3>1. applied'[e] = 1 /\ log[e] # "none" /\ log' = log /\ \A g \in Handlers : ~Before(g, e)'
      BY <2>1, <2>4 DEF OnceFor, RanFor
    <3> QED BY <3>1 DEF OnceFor
  <2> QED BY <2>2, <2>3, <2>4, EventSteps DEF EventStep
<1>3. OnceInv => AppliedAtMostOnce
  BY DEF OnceInv, OnceFor, AppliedAtMostOnce
<1>4. Spec => []TypeInv
  BY InitTypeInv, NextTypeInv, PTL DEF Spec
<1> QED BY <1>1, <1>2, <1>3, <1>4, PTL DEF Spec

-----------------------------------------------------------------------------
(* An event Stripe stops sending has been applied, or is about to be, or   *)
(* its delivery has failed.                                                *)

Settled(e) == applied[e] > 0 \/ e \in lost
Live(e) == Settled(e) \/ \E h \in Handlers : Before(h, e)
After(h, e) == pc[h] \notin {"idle", "apply"} /\ work[h].event = e

LiveFor(e) ==
  /\ log[e] # "none" \/ e \in acked => Live(e)
  /\ \A h \in Handlers : After(h, e) => Settled(e)

LiveInv == \A e \in Events : LiveFor(e)

\* What is settled stays so.
LEMMA SettledStays ==
  ASSUME TypeInv, [Next]_vars, NEW e \in Events, Settled(e)
  PROVE  Settled(e)'
<1>1. lost \subseteq lost'
  <2>1. CASE UNCHANGED vars
    BY <2>1 DEF vars
  <2>2. CASE Deliver
    BY <2>2 DEF Deliver, ReceiveNew, ReceiveUnsure, ReceiveDuplicate, ReceiveConfused, Begin
  <2>3. ASSUME NEW h \in Handlers, Proceed(h) \/ Fail(h) PROVE lost \subseteq lost'
    BY <2>3 DEF Proceed, Fail, Apply, ApplyUnguarded, ApplyFails, Link, SyncRead, SyncWrite, SyncFails,
                CompleteWebhookEvent, HandlerDies
  <2>4. CASE (\E s \in Subs : GraceLapses(s)) \/ Maintain \/ MaintDies
    BY <2>4 DEF GraceLapses, Maintain, ExpireGrace, PickUsers, MaintRead, MaintWrite, MaintEnds, MaintDies
  <2> QED BY <2>1, <2>2, <2>3, <2>4 DEF Next
<1>2. applied[e] \in Nat /\ applied \in [Events -> Nat]
  BY DEF TypeInv, TypeOK
<1>3. applied[e] > 0 => applied'[e] > 0
  <2>1. CASE applied' = applied
    BY <2>1
  <2>2. ASSUME NEW h \in Handlers, Apply(h) \/ ApplyUnguarded(h) PROVE applied[e] > 0 => applied'[e] > 0
    <3>1. PICK f \in Events : f = work[h].event
      BY <2>2, ApplyTypes
    <3>2. applied' = [applied EXCEPT ![f] = @ + 1]
      BY <2>2, <3>1 DEF Apply, ApplyUnguarded, Write
    <3> QED BY <1>2, <3>2
  <2>3. CASE UNCHANGED vars
    BY <2>1, <2>3 DEF vars, historyVars
  <2>4. CASE Deliver
    BY <2>1, <2>4 DEF Deliver, ReceiveNew, ReceiveUnsure, ReceiveDuplicate, ReceiveConfused, Begin, historyVars
  <2>5. ASSUME NEW h \in Handlers, Proceed(h) \/ Fail(h) PROVE applied[e] > 0 => applied'[e] > 0
    BY <2>1, <2>2, <2>5 DEF Proceed, Fail, ApplyFails, Link, SyncRead, SyncWrite, SyncFails,
                            CompleteWebhookEvent, HandlerDies, historyVars
  <2>6. CASE (\E s \in Subs : GraceLapses(s)) \/ Maintain \/ MaintDies
    BY <2>1, <2>6 DEF GraceLapses, Maintain, ExpireGrace, PickUsers, MaintRead, MaintWrite, MaintEnds, MaintDies,
                      historyVars
  <2> QED BY <2>3, <2>4, <2>5, <2>6 DEF Next
<1> QED BY <1>1, <1>3 DEF Settled

LEMMA LiveAfterDelivery ==
  ASSUME TypeInv, LiveInv, [Next]_vars, Deliver, NEW e \in Events
  PROVE  LiveFor(e)'
<1>0. /\ log \in [Events -> LogStatus] /\ pc \in [Handlers -> HandlerPcs] /\ work \in [Handlers -> Work]
      /\ LiveFor(e) /\ (Settled(e) => Settled(e)')
  BY SettledStays DEF TypeInv, TypeOK, LiveInv
<1>1. ASSUME NEW h \in Handlers, NEW f \in Events, ReceiveNew(h, f) \/ ReceiveUnsure(h, f) PROVE LiveFor(e)'
  <2>1. PICK b \in BOOLEAN : work' = [work EXCEPT ![h] = NewWork(f, b)]
    BY <1>1 DEF ReceiveNew, ReceiveUnsure, Begin
  <2>2. /\ pc[h] = "idle" /\ pc'[h] = "apply" /\ work'[h].event = f /\ acked' = acked
        /\ \A g \in Handlers \ {h} : pc'[g] = pc[g] /\ work'[g] = work[g]
        /\ \A x \in Events \ {f} : log'[x] = log[x]
    BY <1>0, <1>1, <2>1, WorkTypes DEF ReceiveNew, ReceiveUnsure, Begin
  <2>3. Before(h, f)' /\ ~After(h, e)' /\ \A g \in Handlers \ {h} : After(g, e)' => After(g, e)
    BY <2>2 DEF Before, After
  <2>4. Live(e) => Live(e)'
    BY <1>0, <2>2 DEF Live, Before
  <2>5. e = f => Live(e)'
    BY <2>3 DEF Live
  <2> QED BY <1>0, <2>2, <2>3, <2>4, <2>5 DEF LiveFor
<1>2. ASSUME NEW f \in Events, ReceiveDuplicate(f) \/ ReceiveConfused(f) PROVE LiveFor(e)'
  <2>1. UNCHANGED <<pc, work>> /\ acked' = acked \cup {f} /\ \A x \in Events \ {f} : log'[x] = log[x]
    BY <1>0, <1>2 DEF ReceiveDuplicate, ReceiveConfused
  <2>2. \A h \in Handlers : (After(h, e)' <=> After(h, e)) /\ (Before(h, e)' <=> Before(h, e))
    BY <2>1 DEF Before, After
  <2>3. Live(e) => Live(e)'
    BY <1>0, <2>2 DEF Live
  <2>4. e = f => Live(e)'
    <3>1. CASE ReceiveDuplicate(f)
      BY <1>0, <2>3, <3>1 DEF ReceiveDuplicate, IsNew, LiveFor
    <3>2. CASE ReceiveConfused(f)
      BY <3>2 DEF ReceiveConfused, Live, Settled
    <3> QED BY <1>2, <3>1, <3>2
  <2> QED BY <1>0, <2>1, <2>2, <2>3, <2>4 DEF LiveFor
<1> QED BY <1>1, <1>2 DEF Deliver

LEMMA LiveAfterWork ==
  ASSUME TypeInv, LiveInv, [Next]_vars, NEW h \in Handlers, Proceed(h) \/ Fail(h), NEW e \in Events
  PROVE  LiveFor(e)'
<1>0. /\ log \in [Events -> LogStatus] /\ pc \in [Handlers -> HandlerPcs] /\ work \in [Handlers -> Work]
      /\ applied \in [Events -> Nat]
      /\ LiveFor(e) /\ (Settled(e) => Settled(e)')
  BY SettledStays DEF TypeInv, TypeOK, LiveInv
<1>1. /\ \A g \in Handlers \ {h} : pc'[g] = pc[g] /\ work'[g] = work[g]
      /\ work'[h].event = work[h].event \/ pc'[h] = "idle"
      /\ pc[h] # "idle" /\ pc'[h] # "apply"
  <2>1. CASE Apply(h) \/ ApplyUnguarded(h)
    <3>1. \E next \in HandlerPcs \ {"apply"} : pc' = [pc EXCEPT ![h] = next]
      BY <2>1 DEF Apply, ApplyUnguarded, AfterApply, HandlerPcs
    <3> QED BY <1>0, <2>1, <3>1 DEF Apply, ApplyUnguarded
  <2>2. CASE Link(h) \/ SyncWrite(h)
    BY <1>0, <2>2 DEF Link, SyncWrite
  <2>3. CASE SyncRead(h)
    <3>1. PICK plan \in Plans : work' = [work EXCEPT ![h] = [work[h] EXCEPT !.plan = plan]]
      BY <1>0, <2>3 DEF SyncRead
    <3>2. PICK w \in Work : w = [work[h] EXCEPT !.plan = plan] /\ w.event = work[h].event
      BY <1>0, WorkTypes
    <3> QED BY <1>0, <2>3, <3>1, <3>2 DEF SyncRead
  <2>4. ASSUME NEW o \in {"processed", "ignored", "failed"}, End(h, o)
        PROVE  /\ work'[h].event = work[h].event /\ pc'[h] = "complete"
               /\ \A g \in Handlers \ {h} : pc'[g] = pc[g] /\ work'[g] = work[g]
    <3>1. PICK w \in Work : w = [work[h] EXCEPT !.outcome = o] /\ w.event = work[h].event
      BY <1>0, WorkTypes
    <3>2. work' = [work EXCEPT ![h] = w] /\ pc' = [pc EXCEPT ![h] = "complete"]
      BY <2>4, <3>1 DEF End
    <3> QED BY <1>0, <3>1, <3>2
  <2>5. CASE SyncFails(h) \/ \E o \in {"failed", "ignored"} : ApplyFails(h, o)
    BY <2>4, <2>5 DEF SyncFails, ApplyFails
  <2>6. CASE CompleteWebhookEvent(h) \/ HandlerDies(h)
    BY <1>0, <2>6 DEF CompleteWebhookEvent, HandlerDies
  <2> QED BY <2>1, <2>2, <2>3, <2>5, <2>6 DEF Proceed, Fail
<1>2. Before(h, e) => Settled(e)'
  <2>1. CASE Apply(h) \/ ApplyUnguarded(h)
    <3>1. Before(h, e) => applied' = [applied EXCEPT ![e] = @ + 1]
      BY <2>1 DEF Before, Apply, ApplyUnguarded, Write
    <3>2. Before(h, e) => applied'[e] = applied[e] + 1 /\ applied[e] \in Nat
      BY <1>0, <3>1
    <3> QED BY <3>2 DEF Settled
  <2>2. CASE HandlerDies(h) \/ \E o \in {"failed", "ignored"} : ApplyFails(h, o)
    BY <2>2 DEF HandlerDies, ApplyFails, Before, Settled
  <2>3. CASE Link(h) \/ SyncRead(h) \/ SyncWrite(h) \/ SyncFails(h) \/ CompleteWebhookEvent(h)
    BY <2>3 DEF Link, SyncRead, SyncWrite, SyncFails, CompleteWebhookEvent, Before
  <2> QED BY <2>1, <2>2, <2>3 DEF Proceed, Fail
<1>3. Live(e) => Live(e)'
  <2>1. \A g \in Handlers \ {h} : Before(g, e) => Before(g, e)'
    BY <1>1 DEF Before
  <2> QED BY <1>0, <1>2, <2>1 DEF Live
<1>4. \A g \in Handlers : After(g, e)' => Settled(e)'
  <2>1. \A g \in Handlers \ {h} : After(g, e)' => After(g, e)
    BY <1>1 DEF After
  <2>2. After(h, e)' => After(h, e) \/ Before(h, e)
    BY <1>1 DEF After, Before
  <2> QED BY <1>0, <1>2, <2>1, <2>2 DEF LiveFor
<1>5. log'[e] # "none" \/ e \in acked' => log[e] # "none" \/ e \in acked \/ After(h, e)
  <2>1. CASE CompleteWebhookEvent(h)
    <3>1. log[e] = "none" => log'[e] = "none"
      BY <1>0, <2>1 DEF CompleteWebhookEvent
    <3>2. acked' \subseteq acked \cup {work[h].event} /\ pc[h] = "complete"
      BY <2>1 DEF CompleteWebhookEvent
    <3> QED BY <3>1, <3>2 DEF After
  <2>2. CASE UNCHANGED <<log, acked>>
    BY <2>2
  <2> QED BY <2>1, <2>2 DEF Proceed, Fail, Apply, ApplyUnguarded, ApplyFails, Link, SyncRead, SyncWrite, SyncFails,
                            HandlerDies
<1>6. After(h, e) => Live(e)'
  BY <1>0 DEF LiveFor, Live
<1> QED BY <1>0, <1>3, <1>4, <1>5, <1>6 DEF LiveFor

\* No answer to a duplicate hides an event that nobody has at hand.
THEOREM AckedAlwaysApplied == Spec => []AckedEventsAreApplied
<1>1. Init => LiveInv
  BY DEF Init, LiveInv, LiveFor, After
<1>2. TypeInv /\ LiveInv /\ [Next]_vars => LiveInv'
  <2> SUFFICES ASSUME TypeInv, LiveInv, [Next]_vars, NEW e \in Events PROVE LiveFor(e)'
    BY DEF LiveInv
  <2>1. CASE UNCHANGED <<log, pc, work, acked>>
    <3>1. LiveFor(e) /\ (Settled(e) => Settled(e)')
      BY SettledStays DEF LiveInv
    <3>2. \A h \in Handlers : (After(h, e)' <=> After(h, e)) /\ (Before(h, e)' <=> Before(h, e))
      BY <2>1 DEF Before, After
    <3> QED BY <2>1, <3>1, <3>2 DEF LiveFor, Live
  <2>2. CASE UNCHANGED vars
    BY <2>1, <2>2 DEF vars
  <2>3. CASE (\E s \in Subs : GraceLapses(s)) \/ Maintain \/ MaintDies
    BY <2>1, <2>3 DEF GraceLapses, Maintain, ExpireGrace, PickUsers, MaintRead, MaintWrite, MaintEnds, MaintDies
  <2> QED BY <2>2, <2>3, LiveAfterDelivery, LiveAfterWork DEF Next
<1>3. TypeInv /\ LiveInv => AckedEventsAreApplied
  <2> SUFFICES ASSUME TypeInv, LiveInv, NEW e \in acked
               PROVE  applied[e] > 0 \/ e \in lost \/ \E h \in Handlers : work[h].event = e
    BY DEF AckedEventsAreApplied
  <2>1. e \in Events /\ Live(e)
    BY DEF TypeInv, TypeOK, LiveInv, LiveFor
  <2> QED BY <2>1 DEF Live, Settled, Before
<1>4. Spec => []TypeInv
  BY InitTypeInv, NextTypeInv, PTL DEF Spec
<1> QED BY <1>1, <1>2, <1>3, <1>4, PTL DEF Spec

\* What Stripe delivers at least once is applied once, but for the failures named.
THEOREM EventsAlwaysAppliedOnce == Spec => []EventsAreAppliedOnce
<1>1. AppliedAtMostOnce /\ AckedEventsAreApplied => EventsAreAppliedOnce
  BY DEF EventsAreAppliedOnce
<1> QED BY <1>1, AppliedAlwaysAtMostOnce, AckedAlwaysApplied, PTL

-----------------------------------------------------------------------------
(* A row shows one of the newest events that have found it.                *)

NewestFor(s) ==
  /\ met[s] = {} => subs[s].last = 0
  /\ met[s] # {} => \E e \in met[s] : Showing(s, e)

NewestInv == \A s \in Subs \ unguarded : NewestFor(s)

LEMMA NewestAfterApply ==
  ASSUME TypeInv, NewestInv, NEW h \in Handlers, Apply(h), NEW s \in Subs, s \notin unguarded
  PROVE  NewestFor(s)'
<1>e. PICK e \in Events : e = work[h].event
  BY ApplyTypes
<1>0. /\ NewestFor(s) /\ At[e] \in Nat /\ subs[s].last \in Nat /\ met[s] \subseteq Events
      /\ \A f \in met[s] : At[f] \in Nat
  BY Participants, RowTypes DEF TypeInv, TypeOK, NewestInv
<1>1. Write(e, {t \in Reached(e) : Guard(e, t)}, [t \in Subs |-> RowAfter(e, At[e])])
  BY <1>e DEF Apply
<1>2. CASE s \notin Reached(e)
  <2>1. subs'[s] = subs[s] /\ met'[s] = met[s]
    BY <1>1, <1>2 DEF Write
  <2> QED BY <1>0, <2>1 DEF NewestFor, Showing
<1>3. CASE s \in Reached(e) /\ Guard(e, s)
  <2>1. met'[s] = met[s] \cup {e}
    BY <1>1, <1>3 DEF Write
  <2>2. subs'[s].last = At[e] /\ subs'[s].status = Shows(e)
    <3>1. subs'[s] = RowAfter(e, At[e])
      BY <1>1, <1>3 DEF Write
    <3> QED BY <1>0, <3>1, RowTypes
  <2>3. \A f \in met[s] : At[f] <= At[e]
    BY <1>0, <1>3 DEF Guard, NewestFor, Showing
  <2> QED BY <1>0, <2>1, <2>2, <2>3 DEF NewestFor, Showing
<1>4. CASE s \in Reached(e) /\ ~Guard(e, s)
  <2>1. met'[s] = met[s] \cup {e} /\ subs'[s] = subs[s]
    BY <1>1, <1>4 DEF Write
  <2>2. At[e] < subs[s].last
    BY <1>0, <1>4 DEF Guard
  <2>3. PICK f \in met[s] : Showing(s, f)
    BY <1>0, <2>2 DEF NewestFor
  <2>4. Showing(s, f)'
    BY <1>0, <2>1, <2>2, <2>3 DEF Showing
  <2> QED BY <2>1, <2>3, <2>4 DEF NewestFor
<1> QED BY <1>2, <1>3, <1>4

\* The row keeps its order number, and its status but for the end of grace.
LEMMA NewestAfterTime ==
  ASSUME NEW s \in Subs, NewestFor(s), met'[s] = met[s], subs'[s].last = subs[s].last,
         \/ subs'[s].status = subs[s].status
         \/ subs[s].status = "past_due" /\ subs'[s].status = "grace_expired"
  PROVE  NewestFor(s)'
BY DEF NewestFor, Showing

\* Whatever the order of deliveries, a row shows one of the newest events.
THEOREM RowsAlwaysShowTheNewest == Spec => []RowsShowTheNewest
<1>1. Init => NewestInv
  BY DEF Init, NewestInv, NewestFor
<1>2. TypeInv /\ NewestInv /\ [Next]_vars => NewestInv'
  <2> SUFFICES ASSUME TypeInv, NewestInv, [Next]_vars, NEW s \in Subs, s \notin unguarded'
               PROVE  NewestFor(s)'
    BY DEF NewestInv
  <2>0. subs \in [Subs -> SubRow]
    BY DEF TypeInv, TypeOK
  <2>1. CASE s \notin unguarded /\ subs'[s] = subs[s] /\ met'[s] = met[s]
    BY <2>1, NewestAfterTime DEF NewestInv
  <2>2. ASSUME NEW h \in Handlers, Proceed(h) \/ Fail(h) PROVE NewestFor(s)'
    <3>1. CASE Apply(h)
      <4>1. s \notin unguarded
        BY <3>1 DEF Apply
      <4> QED BY <3>1, <4>1, NewestAfterApply
    <3>2. CASE ApplyUnguarded(h)
      <4>1. s \notin unguarded /\ s \notin Reached(work[h].event)
        BY <3>2 DEF ApplyUnguarded
      <4>2. subs'[s] = subs[s] /\ met'[s] = met[s]
        BY <3>2, <4>1 DEF ApplyUnguarded, Write
      <4> QED BY <2>1, <4>1, <4>2
    <3>3. CASE UNCHANGED <<subs, met, unguarded>>
      BY <2>1, <3>3
    <3> QED BY <2>2, <3>1, <3>2, <3>3 DEF Proceed, Fail, ApplyFails, Link, SyncRead, SyncWrite, SyncFails,
                            CompleteWebhookEvent, HandlerDies, tableVars, historyVars
  <2>3. CASE Deliver
    BY <2>1, <2>3 DEF Deliver, ReceiveNew, ReceiveUnsure, ReceiveDuplicate, ReceiveConfused, Begin, tableVars,
                      historyVars
  <2>4. ASSUME NEW t \in Subs, GraceLapses(t) PROVE NewestFor(s)'
    <3>1. s \notin unguarded /\ met' = met
      BY <2>4 DEF GraceLapses, historyVars
    <3>2. subs'[s].last = subs[s].last /\ subs'[s].status = subs[s].status
      BY <2>0, <2>4, RowTypes DEF GraceLapses
    <3> QED BY <3>1, <3>2, NewestAfterTime DEF NewestInv
  <2>5. CASE ExpireGrace
    <3>1. s \notin unguarded /\ met' = met
      BY <2>5 DEF ExpireGrace, historyVars
    <3>2. CASE s \in Expired
      <4>1. subs'[s] = [subs[s] EXCEPT !.status = "grace_expired"] /\ subs[s].status = "past_due"
        BY <2>5, <3>2 DEF ExpireGrace, Expired
      <4>2. subs'[s].last = subs[s].last /\ subs'[s].status = "grace_expired"
        BY <2>0, <4>1, RowTypes
      <4> QED BY <3>1, <4>1, <4>2, NewestAfterTime DEF NewestInv
    <3>3. CASE s \notin Expired
      <4>1. subs'[s] = subs[s]
        BY <2>5, <3>3 DEF ExpireGrace
      <4> QED BY <2>1, <3>1, <4>1
    <3> QED BY <3>2, <3>3
  <2>6. CASE PickUsers \/ (\E u \in Users : MaintRead(u)) \/ MaintWrite \/ MaintEnds \/ MaintDies
    BY <2>1, <2>6 DEF PickUsers, MaintRead, MaintWrite, MaintEnds, MaintDies, tableVars, historyVars
  <2>7. CASE UNCHANGED vars
    BY <2>1, <2>7 DEF vars, tableVars, historyVars
  <2> QED BY <2>2, <2>3, <2>4, <2>5, <2>6, <2>7 DEF Next, Maintain
<1>3. NewestInv => RowsShowTheNewest
  BY DEF NewestInv, NewestFor, RowsShowTheNewest
<1>4. Spec => []TypeInv
  BY InitTypeInv, NextTypeInv, PTL DEF Spec
<1> QED BY <1>1, <1>2, <1>3, <1>4, PTL DEF Spec
=============================================================================
