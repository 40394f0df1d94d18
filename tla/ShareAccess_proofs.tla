------------------------- MODULE ShareAccess_proofs -------------------------
(***************************************************************************)
(* Proofs about ShareAccess, for every set of shares, visits and ticket    *)
(* requests, every choice of limits, and every number of owner's acts.     *)
(***************************************************************************)
EXTENDS ShareAccess, TLAPS

-----------------------------------------------------------------------------
(* Type correctness: a request in flight has a ticket, an idle one has     *)
(* none.                                                                   *)

TapsHaveTickets ==
  \A x \in Taps : IF tap[x].pc = "idle" THEN tap[x] = NoTap ELSE tap[x].ticket \in Visits

TypeInv == TypeOK /\ TapsHaveTickets

LEMMA InitTypeInv == Init => TypeInv
<1> SUFFICES ASSUME Init PROVE TypeInv
  OBVIOUS
<1>1. share \in [Shares -> ShareRow]
  <2> DEFINE NewRows == [present: {TRUE}, revoked: {FALSE}, expired: {FALSE}, max_views: Limits,
                         views_count: {0}, locked: BOOLEAN]
  <2>1. ASSUME NEW row \in NewRows PROVE row \in ShareRow
    <3>1. {TRUE} \subseteq BOOLEAN /\ {FALSE} \subseteq BOOLEAN /\ {0} \subseteq Nat
      OBVIOUS
    <3> QED BY <3>1 DEF ShareRow
  <2>2. share \in [Shares -> NewRows]
    BY DEF Init
  <2> HIDE DEF NewRows
  <2> QED BY <2>1, <2>2
<1>2. doc \in DocRow
  BY DEF Init, DocRow
<1>3. tap \in [Taps -> TapState] /\ TapsHaveTickets
  <2>1. NoTap \in TapState /\ NoTap.pc = "idle"
    BY DEF NoTap, TapState, TapPcs
  <2> QED BY <2>1 DEF Init, TapsHaveTickets
<1> QED
  BY <1>1, <1>2, <1>3 DEF Init, TypeInv, TypeOK, VisitPcs, TicketStates, PurgeStages

\* What the statements on a share make of its row is a row.
LEMMA ShareRows ==
  ASSUME NEW row \in ShareRow, NEW n \in Limits, NEW b \in BOOLEAN, NEW k \in Nat
  PROVE  /\ [row EXCEPT !.present = b] \in ShareRow
         /\ [row EXCEPT !.revoked = b] \in ShareRow
         /\ [row EXCEPT !.expired = b] \in ShareRow
         /\ [row EXCEPT !.max_views = n] \in ShareRow
         /\ [row EXCEPT !.views_count = k] \in ShareRow
         /\ [row EXCEPT !.locked = b] \in ShareRow
BY DEF ShareRow

LEMMA TapRows ==
  ASSUME NEW old \in TapState, NEW pc \in TapPcs, NEW upload \in Nat, NEW row,
         row = [old EXCEPT !.pc = pc, !.upload = upload]
  PROVE  row \in TapState /\ row.pc = pc /\ row.ticket = old.ticket /\ row.upload = upload
BY DEF TapState

LEMMA VisitStepTypeInv ==
  ASSUME TypeInv, NEW v \in Visits, VisitStep(v)
  PROVE  TypeInv'
<1> USE ShareAssumption
    DEF TypeInv, TypeOK, TapsHaveTickets, shareVars, docVars, visitVars, tapVars, history
<1>1. CASE VerifyReads(v) \/ RawReads(v) \/ RawChecksUnlock(v) \/ RawAsksPlan(v) \/ RawFails(v)
  BY <1>1 DEF VerifyReads, RawReads, RawChecksUnlock, RawAsksPlan, RawFails, VisitPcs
<1>2. CASE VerifyInserts(v)
  BY <1>2 DEF VerifyInserts, VisitPcs
<1>3. CASE UnlockExpires(v)
  BY <1>3 DEF UnlockExpires
<1>4. CASE RawConsumes(v) \/ RawLosesReply(v)
  <2>1. Target[v] \in Shares /\ share[Target[v]] \in ShareRow
    BY ShareAssumption
  <2>2. share[Target[v]].views_count + 1 \in Nat
    BY <2>1 DEF ShareRow
  <2>3. CASE CountView(v)
    <3>1. share' \in [Shares -> ShareRow]
      <4>1. [share[Target[v]] EXCEPT !.views_count = share[Target[v]].views_count + 1] \in ShareRow
        BY <2>1, <2>2, ShareRows DEF ShareRow
      <4> QED BY <4>1, <2>1, <2>3 DEF CountView
    <3>2. counted' \subseteq Visits
      BY <2>3 DEF CountView
    <3>3. visit' \in [Visits -> VisitPcs]
      BY <1>4 DEF RawConsumes, RawLosesReply, VisitPcs
    <3> QED BY <3>1, <3>2, <3>3, <1>4 DEF RawConsumes, RawLosesReply
  <2>4. CASE ~CountView(v)
    BY <2>4, <1>4 DEF RawConsumes, RawLosesReply, VisitPcs
  <2> QED BY <2>3, <2>4
<1>5. CASE RawMints(v)
  BY <1>5 DEF RawMints, VisitPcs, TicketStates
<1>6. CASE TicketLapses(v)
  BY <1>6 DEF TicketLapses, TicketStates
<1> QED BY <1>1, <1>2, <1>3, <1>4, <1>5, <1>6 DEF VisitStep

LEMMA TapStepTypeInv ==
  ASSUME TypeInv, NEW x \in Taps, TapStep(x)
  PROVE  TypeInv'
<1> USE ShareAssumption
    DEF TypeInv, TypeOK, TapsHaveTickets, shareVars, docVars, visitVars, tapVars, history, TapState,
        TapPcs, NoTap
<1>t. tap[x] \in TapState
  OBVIOUS
<1>1. ASSUME NEW v \in Visits, TapConsumes(x, v)
      PROVE  TypeInv'
  <2>1. tap[x] = NoTap
    BY <1>1 DEF TapConsumes
  <2>2. tap' = [tap EXCEPT ![x] = [pc |-> "gate", ticket |-> v, upload |-> 0]]
    BY <2>1, <1>1 DEF TapConsumes
  <2>3. [pc |-> "gate", ticket |-> v, upload |-> 0] \in TapState
    OBVIOUS
  <2>4. tap' \in [Taps -> TapState] /\ TapsHaveTickets'
    BY <2>2, <2>3
  <2>5. servable' \in [Taps -> SUBSET Nat]
    BY <1>1 DEF TapConsumes, DocRow
  <2> QED BY <1>1, <2>4, <2>5 DEF TapConsumes, TicketStates
<1>2. CASE TapGate(x)
  BY <1>2 DEF TapGate
<1>3. CASE TapReadsKeys(x)
  <2>1. PICK row : row = [tap[x] EXCEPT !.pc = "fetch", !.upload = doc.upload]
    OBVIOUS
  <2>2. row \in TapState /\ row.pc = "fetch" /\ row.ticket = tap[x].ticket
    BY <2>1, <1>t, TapRows DEF DocRow
  <2>3. tap' = [tap EXCEPT ![x] = row]
    BY <2>1, <1>3 DEF TapReadsKeys
  <2>4. tap[x].ticket \in Visits
    BY <1>3 DEF TapReadsKeys
  <2>6. tap' \in [Taps -> TapState] /\ TapsHaveTickets'
    BY <2>2, <2>3, <2>4
  <2> QED BY <2>6, <1>3 DEF TapReadsKeys
<1>4. CASE TapServes(x)
  <2>1. PICK row : row = [tap[x] EXCEPT !.pc = "served", !.upload = object]
    OBVIOUS
  <2>2. row \in TapState /\ row.pc = "served" /\ row.ticket = tap[x].ticket
    BY <2>1, <1>t, TapRows DEF DocRow
  <2>3. tap' = [tap EXCEPT ![x] = row]
    BY <2>1, <1>4 DEF TapServes
  <2>4. tap[x].ticket \in Visits
    BY <1>4 DEF TapServes
  <2>5. responses' \in [Visits -> Nat]
    BY <2>4, <1>4 DEF TapServes
  <2>6. tap' \in [Taps -> TapState] /\ TapsHaveTickets'
    BY <2>2, <2>3, <2>4
  <2> QED BY <2>6, <2>5, <1>4 DEF TapServes
<1>5. CASE TapRefused(x)
  BY <1>5 DEF TapRefused
<1> QED BY <1>1, <1>2, <1>3, <1>4, <1>5 DEF TapStep

LEMMA ShareStepTypeInv ==
  ASSUME TypeInv, NEW s \in Shares, ShareStep(s)
  PROVE  TypeInv'
<1> USE DEF TypeInv, TypeOK, TapsHaveTickets, shareVars, docVars, visitVars, tapVars, history, Edit
<1>r. share[s] \in ShareRow /\ 0 \in Nat
  OBVIOUS
<1>1. CASE RevokeShare(s)
  <2>1. Revoked(share[s]) \in ShareRow
    BY <1>r DEF Revoked, ShareRow
  <2> QED BY <1>1, <2>1 DEF RevokeShare
<1>2. CASE ExtendShare(s)
  <2>1. [share[s] EXCEPT !.expired = FALSE] \in ShareRow
    BY <1>r DEF ShareRow
  <2> QED BY <1>2, <2>1 DEF ExtendShare
<1>3. CASE SetMaxViews(s)
  <2> PICK n \in Limits : share' = [share EXCEPT ![s].max_views = n]
    BY <1>3 DEF SetMaxViews
  <2>1. [share[s] EXCEPT !.max_views = n] \in ShareRow
    BY <1>r DEF ShareRow
  <2> QED BY <1>3, <2>1 DEF SetMaxViews
<1>4. CASE ResetViewsCount(s)
  <2>1. [share[s] EXCEPT !.views_count = 0] \in ShareRow
    BY <1>r DEF ShareRow
  <2> QED BY <1>4, <2>1 DEF ResetViewsCount
<1>5. CASE SetPassword(s)
  <2>1. [share[s] EXCEPT !.locked = TRUE] \in ShareRow
    BY <1>r DEF ShareRow
  <2> QED BY <1>5, <2>1 DEF SetPassword
<1>6. CASE ClearPassword(s)
  <2>1. [share[s] EXCEPT !.locked = FALSE] \in ShareRow
    BY <1>r DEF ShareRow
  <2> QED BY <1>6, <2>1 DEF ClearPassword
<1>7. CASE DeleteUnlocks(s)
  BY <1>7 DEF DeleteUnlocks
<1>8. CASE ShareExpires(s)
  <2>1. [share[s] EXCEPT !.expired = TRUE] \in ShareRow
    BY <1>r DEF ShareRow
  <2> QED BY <1>8, <2>1 DEF ShareExpires
<1> QED BY <1>1, <1>2, <1>3, <1>4, <1>5, <1>6, <1>7, <1>8 DEF ShareStep

LEMMA CronStepTypeInv ==
  ASSUME TypeInv, CronStep
  PROVE  TypeInv'
<1> PICK S \in SUBSET Shares : RevokeExpired(S) \/ DeleteExpired(S)
  BY DEF CronStep
<1>1. ASSUME NEW s \in Shares
      PROVE  Revoked(share[s]) \in ShareRow /\ [share[s] EXCEPT !.present = FALSE] \in ShareRow
  <2>1. share[s] \in ShareRow
    BY DEF TypeInv, TypeOK
  <2> QED BY <2>1 DEF ShareRow, Revoked
<1>2. share' \in [Shares -> ShareRow]
  <2>1. CASE RevokeExpired(S)
    BY <1>1, <2>1 DEF RevokeExpired, TypeInv, TypeOK
  <2>2. CASE DeleteExpired(S)
    BY <1>1, <2>2 DEF DeleteExpired, TypeInv, TypeOK
  <2> QED BY <2>1, <2>2
<1>3. UNCHANGED <<unlocks, resetting, wasOpen, docVars, visitVars, tapVars, history, edits>>
  BY DEF RevokeExpired, DeleteExpired
<1> QED
  BY <1>2, <1>3 DEF TypeInv, TypeOK, TapsHaveTickets, docVars, visitVars, tapVars, history

LEMMA DocStepTypeInv ==
  ASSUME TypeInv, DocStep
  PROVE  TypeInv'
<1> USE ShareAssumption
    DEF TypeInv, TypeOK, TapsHaveTickets, shareVars, docVars, visitVars, tapVars, history, DocRow,
        PurgeStages, Edit
<1>1. CASE Review
  BY <1>1 DEF Review, Witnessed
<1>2. CASE UploadOverwrites
  BY <1>2 DEF UploadOverwrites
<1>3. CASE UploadFinalizes
  BY <1>3 DEF UploadFinalizes
<1>4. CASE PurgeObject
  BY <1>4 DEF PurgeObject
<1>5. CASE PurgeUnlocks
  BY <1>5 DEF PurgeUnlocks
<1>6. CASE PurgeShares
  <2>1. ASSUME NEW s \in Shares PROVE [share[s] EXCEPT !.present = FALSE] \in ShareRow
    <3>1. share[s] \in ShareRow
      OBVIOUS
    <3> QED BY <3>1 DEF ShareRow
  <2> QED BY <1>6, <2>1 DEF PurgeShares
<1>7. CASE PurgeRow
  BY <1>7 DEF PurgeRow
<1> QED BY <1>1, <1>2, <1>3, <1>4, <1>5, <1>6, <1>7 DEF DocStep

LEMMA NextTypeInv ==
  ASSUME TypeInv, [Next]_vars
  PROVE  TypeInv'
<1>1. CASE UNCHANGED vars
  BY <1>1 DEF vars, TypeInv, TypeOK, TapsHaveTickets, shareVars, docVars, visitVars, tapVars, history
<1> QED
  BY <1>1, VisitStepTypeInv, TapStepTypeInv, ShareStepTypeInv, CronStepTypeInv, DocStepTypeInv
     DEF Next

\* Every reachable state is well typed.
THEOREM TypeCorrect == Spec => []TypeOK
<1>1. Spec => []TypeInv
  BY InitTypeInv, NextTypeInv, PTL DEF Spec
<1> QED BY <1>1, PTL DEF TypeInv

-----------------------------------------------------------------------------
(* Counted views, tickets and responses.  A visit is counted before its    *)
(* ticket is minted; whoever holds a ticket has taken it from "fresh", and *)
(* nothing makes it fresh again.                                           *)

CountedFirst ==
  \A v \in Visits :
    /\ v \in counted <=> visit[v] \in {"quota", "mint", "done"}
    /\ ticket[v] # "none" => visit[v] = "done"

TakenBeforeSent ==
  /\ \A v \in Visits : ticket[v] \in {"none", "fresh"} => responses[v] = 0
  /\ \A x \in Taps : tap[x].pc # "idle" => ticket[tap[x].ticket] \in {"used", "lapsed"}

OneHolder ==
  ~Replay =>
    /\ \A x, y \in Taps :
         tap[x].pc # "idle" /\ tap[y].pc # "idle" /\ x # y => tap[x].ticket # tap[y].ticket
    /\ \A x \in Taps : InFlight(x) => responses[tap[x].ticket] = 0
    /\ \A v \in Visits : responses[v] <= 1

TicketInv == TypeInv /\ CountedFirst /\ TakenBeforeSent /\ OneHolder

LEMMA InitTicketInv == Init => TicketInv
<1> SUFFICES ASSUME Init PROVE TicketInv
  OBVIOUS
<1>1. \A x \in Taps : tap[x].pc = "idle"
  BY DEF Init, NoTap
<1>2. \A v \in Visits : visit[v] = "idle" /\ ticket[v] = "none" /\ responses[v] = 0 /\ v \notin counted
  BY DEF Init
<1> QED
  BY <1>1, <1>2, InitTypeInv DEF TicketInv, CountedFirst, TakenBeforeSent, OneHolder, InFlight

\* Only visits and taps move views and tickets.
LEMMA OthersLeaveTickets ==
  ASSUME (\E s \in Shares : ShareStep(s)) \/ CronStep \/ DocStep \/ UNCHANGED vars
  PROVE  UNCHANGED <<visitVars, tapVars>>
<1>1. CASE \E s \in Shares : ShareStep(s)
  BY <1>1 DEF ShareStep, RevokeShare, ExtendShare, SetMaxViews, ResetViewsCount, SetPassword,
    ClearPassword, DeleteUnlocks, ShareExpires
<1>2. CASE CronStep
  BY <1>2 DEF CronStep, RevokeExpired, DeleteExpired
<1>3. CASE DocStep
  BY <1>3 DEF DocStep, Review, UploadOverwrites, UploadFinalizes, PurgeObject, PurgeUnlocks,
    PurgeShares, PurgeRow
<1>4. CASE UNCHANGED vars
  BY <1>4 DEF vars
<1> QED BY <1>1, <1>2, <1>3, <1>4

LEMMA VisitStepTicketInv ==
  ASSUME TicketInv, NEW v \in Visits, VisitStep(v)
  PROVE  (CountedFirst /\ TakenBeforeSent /\ OneHolder)'
<1> USE DEF TicketInv, TypeInv, TypeOK, shareVars, docVars, visitVars, tapVars, history
<1>1. CASE VerifyReads(v) \/ VerifyInserts(v) \/ UnlockExpires(v) \/ RawReads(v)
           \/ RawChecksUnlock(v) \/ RawConsumes(v) \/ RawLosesReply(v) \/ RawAsksPlan(v)
           \/ RawFails(v)
  <2>1. UNCHANGED tapVars
    BY <1>1 DEF VerifyReads, VerifyInserts, UnlockExpires, RawReads, RawChecksUnlock, RawConsumes,
      RawLosesReply, RawAsksPlan, RawFails
  <2>2. CountedFirst'
    BY <1>1, <2>1 DEF VerifyReads, VerifyInserts, UnlockExpires, RawReads, RawChecksUnlock,
      RawConsumes, RawLosesReply, RawAsksPlan, RawFails, CountView, CountedFirst, VisitPcs
  <2> QED BY <2>1, <2>2 DEF TakenBeforeSent, OneHolder, InFlight
<1>2. CASE RawMints(v)
  <2>1. ticket[v] = "none"
    BY <1>2 DEF RawMints, CountedFirst
  <2>2. CountedFirst'
    BY <1>2 DEF RawMints, CountedFirst
  <2>3. TakenBeforeSent'
    BY <1>2, <2>1 DEF RawMints, TakenBeforeSent, TapsHaveTickets
  <2> QED BY <1>2, <2>2, <2>3 DEF RawMints, OneHolder, InFlight
<1>3. CASE TicketLapses(v)
  <2>1. CountedFirst'
    BY <1>3 DEF TicketLapses, Redeemable, CountedFirst
  <2>2. TakenBeforeSent'
    BY <1>3 DEF TicketLapses, TakenBeforeSent, TapsHaveTickets
  <2> QED BY <1>3, <2>1, <2>2 DEF TicketLapses, OneHolder, InFlight
<1> QED BY <1>1, <1>2, <1>3 DEF VisitStep

LEMMA TapStepTicketInv ==
  ASSUME TicketInv, NEW x \in Taps, TapStep(x)
  PROVE  (CountedFirst /\ TakenBeforeSent /\ OneHolder)'
<1> USE ShareAssumption DEF TicketInv, TypeInv, TypeOK, TapsHaveTickets, shareVars, docVars,
      visitVars, tapVars, history, InFlight
<1>t. tap[x] \in TapState
  OBVIOUS
<1>1. ASSUME NEW v \in Visits, TapConsumes(x, v)
      PROVE  (CountedFirst /\ TakenBeforeSent /\ OneHolder)'
  <2>1. tap'[x].pc = "gate" /\ tap'[x].ticket = v
        /\ \A y \in Taps \ {x} : tap'[y] = tap[y]
    BY <1>1, <1>t DEF TapConsumes, TapState
  <2>2. CountedFirst'
    BY <1>1 DEF TapConsumes, Redeemable, CountedFirst
  <2>3. TakenBeforeSent'
    BY <1>1, <2>1 DEF TapConsumes, TakenBeforeSent
  <2>4. ASSUME ~Replay
        PROVE  responses[v] = 0 /\ \A y \in Taps : tap[y].pc # "idle" => tap[y].ticket # v
    BY <1>1, <2>4 DEF TapConsumes, Redeemable, TakenBeforeSent
  <2>5. OneHolder'
    BY <1>1, <2>1, <2>4 DEF TapConsumes, OneHolder
  <2> QED BY <2>2, <2>3, <2>5
<1>2. CASE TapGate(x) \/ TapReadsKeys(x)
  <2>1. InFlight(x) /\ tap'[x].pc \in {"keys", "fetch"} /\ tap'[x].ticket = tap[x].ticket
        /\ \A y \in Taps \ {x} : tap'[y] = tap[y]
    BY <1>2, <1>t DEF TapGate, TapReadsKeys, TapState
  <2>2. UNCHANGED <<visitVars, ticket, responses>>
    BY <1>2 DEF TapGate, TapReadsKeys
  <2> QED BY <2>1, <2>2 DEF CountedFirst, TakenBeforeSent, OneHolder
<1>3. CASE TapServes(x)
  <2>1. InFlight(x) /\ tap'[x].pc = "served" /\ tap'[x].ticket = tap[x].ticket
        /\ \A y \in Taps \ {x} : tap'[y] = tap[y]
    BY <1>3, <1>t DEF TapServes, TapState
  <2> DEFINE u == tap[x].ticket
  <2>2. u \in Visits /\ responses[u] \in Nat /\ responses'[u] = responses[u] + 1
        /\ \A w \in Visits \ {u} : responses'[w] = responses[w]
    BY <1>3, <2>1 DEF TapServes
  <2>3. CountedFirst'
    BY <1>3 DEF TapServes, CountedFirst
  <2>4. TakenBeforeSent'
    BY <1>3, <2>1, <2>2 DEF TapServes, TakenBeforeSent
  <2>5. ASSUME ~Replay PROVE responses[u] = 0
    BY <2>1, <2>5 DEF OneHolder
  <2>6. OneHolder'
    BY <2>1, <2>2, <2>5 DEF OneHolder
  <2> QED BY <2>3, <2>4, <2>6
<1>4. CASE TapRefused(x)
  <2>1. tap'[x].pc = "idle" /\ \A y \in Taps \ {x} : tap'[y] = tap[y]
    BY <1>4 DEF TapRefused, NoTap
  <2>2. UNCHANGED <<visitVars, ticket, responses>>
    BY <1>4 DEF TapRefused
  <2> QED BY <2>1, <2>2 DEF CountedFirst, TakenBeforeSent, OneHolder
<1> QED BY <1>1, <1>2, <1>3, <1>4 DEF TapStep

LEMMA NextTicketInv ==
  ASSUME TicketInv, [Next]_vars
  PROVE  TicketInv'
<1>1. TypeInv'
  BY NextTypeInv DEF TicketInv
<1>2. CASE UNCHANGED <<visitVars, tapVars>>
  BY <1>1, <1>2
     DEF TicketInv, CountedFirst, TakenBeforeSent, OneHolder, InFlight, visitVars, tapVars
<1> QED
  BY <1>1, <1>2, VisitStepTicketInv, TapStepTicketInv, OthersLeaveTickets DEF Next, TicketInv

\* Without replay a counted view buys at most one response, and no response
\* is sent without a counted view.
THEOREM OnePerView == Spec => []OneResponsePerView
<1>1. TicketInv => OneResponsePerView
  BY DEF TicketInv, TypeInv, TypeOK, CountedFirst, TakenBeforeSent, OneHolder, OneResponsePerView,
    TicketStates
<1>2. Spec => []TicketInv
  BY InitTicketInv, NextTicketInv, PTL DEF Spec
<1> QED BY <1>1, <1>2, PTL

-----------------------------------------------------------------------------
(* The password gate.  A share that never was without a password has one;  *)
(* the unlock row and the way to the UPDATE lead through it.               *)

LockedUnlessOpened == \A s \in Shares \ wasOpen : share[s].locked

GatePassedKnowingly ==
  \A v \in Visits :
    /\ Target[v] \notin wasOpen
    /\ v \in unlocks[Target[v]] \/ visit[v] \in {"insert_unlock", "consume"} \/ v \in counted
    => v \in Knowing

GateInv == TypeInv /\ LockedUnlessOpened /\ GatePassedKnowingly

LEMMA InitGateInv == Init => GateInv
<1> SUFFICES ASSUME Init PROVE GateInv
  OBVIOUS
<1>1. LockedUnlessOpened
  BY DEF Init, LockedUnlessOpened
<1>2. \A v \in Visits : v \notin unlocks[Target[v]] /\ visit[v] = "idle" /\ v \notin counted
  BY ShareAssumption DEF Init
<1> QED
  BY <1>1, <1>2, InitTypeInv DEF GateInv, GatePassedKnowingly

LEMMA VisitStepGateInv ==
  ASSUME GateInv, NEW v \in Visits, VisitStep(v)
  PROVE  (LockedUnlessOpened /\ GatePassedKnowingly)'
<1> USE ShareAssumption DEF GateInv, TypeInv, TypeOK, shareVars, docVars, visitVars, tapVars, history
<1>1. CASE VerifyReads(v) \/ RawReads(v) \/ RawChecksUnlock(v) \/ RawAsksPlan(v) \/ RawMints(v)
           \/ RawFails(v) \/ TicketLapses(v)
  <2>1. UNCHANGED shareVars /\ UNCHANGED counted /\ LockedUnlessOpened'
    BY <1>1 DEF VerifyReads, RawReads, RawChecksUnlock, RawAsksPlan, RawMints, RawFails,
      TicketLapses, LockedUnlessOpened
  <2>2. \A w \in Visits \ {v} : visit'[w] = visit[w]
    BY <1>1 DEF VerifyReads, RawReads, RawChecksUnlock, RawAsksPlan, RawMints, RawFails, TicketLapses
  <2>3. ASSUME Target[v] \notin wasOpen, visit'[v] \in {"insert_unlock", "consume"}
        PROVE  v \in Knowing
    BY <1>1, <2>3 DEF VerifyReads, RawReads, RawChecksUnlock, RawAsksPlan, RawMints, RawFails,
      TicketLapses, LockedUnlessOpened, GatePassedKnowingly
  <2> QED BY <2>1, <2>2, <2>3 DEF GatePassedKnowingly
<1>2. CASE VerifyInserts(v) \/ UnlockExpires(v)
  BY <1>2 DEF VerifyInserts, UnlockExpires, LockedUnlessOpened, GatePassedKnowingly
<1>3. CASE RawConsumes(v) \/ RawLosesReply(v)
  <2>1. UNCHANGED wasOpen /\ \A s \in Shares : share'[s].locked = share[s].locked
    <3>1. CASE CountView(v)
      BY <1>3, <3>1 DEF RawConsumes, RawLosesReply, CountView, ShareRow
    <3>2. CASE ~CountView(v)
      BY <1>3, <3>2 DEF RawConsumes, RawLosesReply
    <3> QED BY <3>1, <3>2
  <2>3. LockedUnlessOpened'
    BY <2>1 DEF LockedUnlessOpened
  <2>2. UNCHANGED <<unlocks, wasOpen>> /\ visit[v] = "consume" /\ counted' \subseteq counted \cup {v}
        /\ \A w \in Visits \ {v} : visit'[w] = visit[w]
    BY <1>3 DEF RawConsumes, RawLosesReply, CountView
  <2> QED BY <2>2, <2>3 DEF GatePassedKnowingly
<1> QED BY <1>1, <1>2, <1>3 DEF VisitStep

LEMMA TapStepGateInv ==
  ASSUME GateInv, NEW x \in Taps, TapStep(x)
  PROVE  (LockedUnlessOpened /\ GatePassedKnowingly)'
BY DEF GateInv, LockedUnlessOpened, GatePassedKnowingly, TapStep, TapConsumes, TapGate, TapReadsKeys,
  TapServes, TapRefused, shareVars, visitVars

\* What owners and jobs do to locks and unlock rows: passwords go only with a
\* note in wasOpen, unlock rows only go.
LEMMA OthersKeepGate ==
  ASSUME TypeInv, (\E s \in Shares : ShareStep(s)) \/ CronStep \/ DocStep
  PROVE  /\ UNCHANGED visitVars
         /\ wasOpen \subseteq wasOpen'
         /\ \A s \in Shares : unlocks'[s] \subseteq unlocks[s]
         /\ \A s \in Shares \ wasOpen' : share[s].locked => share'[s].locked
<1> USE DEF TypeInv, TypeOK, shareVars, docVars, visitVars, tapVars, history, ShareRow
<1>1. CASE \E s \in Shares : ShareStep(s)
  <2> PICK s \in Shares : ShareStep(s)
    BY <1>1
  <2>1. CASE RevokeShare(s) \/ ExtendShare(s) \/ SetMaxViews(s) \/ ResetViewsCount(s)
             \/ SetPassword(s) \/ ShareExpires(s)
    BY <2>1 DEF RevokeShare, Revoked, ExtendShare, SetMaxViews, ResetViewsCount, SetPassword,
      ShareExpires
  <2>2. CASE ClearPassword(s) \/ DeleteUnlocks(s)
    BY <2>2 DEF ClearPassword, DeleteUnlocks
  <2> QED BY <2>1, <2>2 DEF ShareStep
<1>2. CASE CronStep
  BY <1>2 DEF CronStep, RevokeExpired, DeleteExpired, Revoked
<1>3. CASE DocStep
  BY <1>3 DEF DocStep, Review, UploadOverwrites, UploadFinalizes, PurgeObject, PurgeUnlocks,
    PurgeShares, PurgeRow
<1> QED BY <1>1, <1>2, <1>3

LEMMA NextGateInv ==
  ASSUME GateInv, [Next]_vars
  PROVE  GateInv'
<1>1. TypeInv'
  BY NextTypeInv DEF GateInv
<1>2. CASE (\E s \in Shares : ShareStep(s)) \/ CronStep \/ DocStep
  BY <1>1, <1>2, OthersKeepGate, ShareAssumption
     DEF GateInv, LockedUnlessOpened, GatePassedKnowingly, visitVars
<1>3. CASE UNCHANGED vars
  BY <1>1, <1>3 DEF GateInv, LockedUnlessOpened, GatePassedKnowingly, vars, shareVars, visitVars
<1> QED
  BY <1>1, <1>2, <1>3, VisitStepGateInv, TapStepGateInv DEF Next, GateInv

\* Whoever is counted on a share that always had a password knew it, in
\* every order of owner's changes, verifications and raw requests.
THEOREM OnlyKnowingCounted == Spec => []OnlyKnowingVisitsCounted
<1>1. GateInv => OnlyKnowingVisitsCounted
  BY DEF GateInv, TypeInv, TypeOK, GatePassedKnowingly, OnlyKnowingVisitsCounted
<1>2. Spec => []GateInv
  BY InitGateInv, NextGateInv, PTL DEF Spec
<1> QED BY <1>1, <1>2, PTL

-----------------------------------------------------------------------------
(* What the ticket route sends.  While an exchange is in flight, every     *)
(* moment at which the row is servable is on record; the gate finds such a *)
(* moment, the key is that of the same upload unless one was completed.    *)

MomentsRecorded ==
  \A x \in Taps : InFlight(x) /\ Servable(doc) => doc.upload \in servable[x]

KeysOfServable ==
  \A x \in Taps \ replaced :
    /\ tap[x].pc = "keys" => doc.upload \in servable[x]
    /\ tap[x].pc \in {"fetch", "served"} => tap[x].upload \in servable[x]

SentInv == TypeInv /\ MomentsRecorded /\ KeysOfServable

LEMMA InitSentInv == Init => SentInv
<1> SUFFICES ASSUME Init PROVE SentInv
  OBVIOUS
<1>1. \A x \in Taps : tap[x].pc = "idle"
  BY DEF Init, NoTap
<1> QED BY <1>1, InitTypeInv DEF SentInv, MomentsRecorded, KeysOfServable, InFlight

LEMMA TapStepSentInv ==
  ASSUME SentInv, NEW x \in Taps, TapStep(x)
  PROVE  (MomentsRecorded /\ KeysOfServable)'
<1> USE DEF SentInv, TypeInv, TypeOK, shareVars, docVars, visitVars, tapVars, history, InFlight
<1>t. tap[x] \in TapState
  OBVIOUS
<1>d. UNCHANGED doc /\ \A y \in Taps \ {x} : tap'[y] = tap[y] /\ servable'[y] = servable[y]
                                            /\ (y \in replaced' <=> y \in replaced)
  BY DEF TapStep, TapConsumes, TapGate, TapReadsKeys, TapServes, TapRefused
<1>1. ASSUME NEW v \in Visits, TapConsumes(x, v)
      PROVE  (MomentsRecorded /\ KeysOfServable)'
  <2>1. tap'[x].pc = "gate" /\ (Servable(doc) => servable'[x] = {doc.upload})
    BY <1>1, <1>t DEF TapConsumes, TapState
  <2> QED BY <2>1, <1>d DEF MomentsRecorded, KeysOfServable, Servable
<1>2. CASE TapGate(x) \/ TapReadsKeys(x) \/ TapServes(x)
  <2>1. UNCHANGED <<servable, replaced>>
    BY <1>2 DEF TapGate, TapReadsKeys, TapServes
  <2>2. CASE TapGate(x)
    <3>1. tap'[x].pc = "keys" /\ doc.upload \in servable[x]
      BY <2>2, <1>t DEF TapGate, TapState, MomentsRecorded
    <3> QED BY <2>1, <2>2, <3>1, <1>d DEF MomentsRecorded, KeysOfServable, Servable, TapGate
  <2>3. CASE TapReadsKeys(x)
    <3>1. tap'[x].pc = "fetch" /\ tap'[x].upload = doc.upload
      BY <2>3, <1>t DEF TapReadsKeys, TapState
    <3> QED BY <2>1, <2>3, <3>1, <1>d DEF MomentsRecorded, KeysOfServable, Servable, TapReadsKeys
  <2>4. CASE TapServes(x)
    <3>1. tap'[x].pc = "served" /\ tap'[x].upload = tap[x].upload
      BY <2>4, <1>t DEF TapServes, TapState, Opens
    <3> QED BY <2>1, <2>4, <3>1, <1>d DEF MomentsRecorded, KeysOfServable, Servable, TapServes
  <2> QED BY <1>2, <2>2, <2>3, <2>4
<1>3. CASE TapRefused(x)
  <2>1. tap'[x].pc = "idle"
    BY <1>3 DEF TapRefused, NoTap
  <2> QED BY <2>1, <1>d DEF MomentsRecorded, KeysOfServable, Servable
<1> QED BY <1>1, <1>2, <1>3 DEF TapStep

LEMMA DocStepSentInv ==
  ASSUME SentInv, DocStep
  PROVE  (MomentsRecorded /\ KeysOfServable)'
<1> USE DEF SentInv, TypeInv, TypeOK, shareVars, docVars, visitVars, tapVars, history, DocRow
<1>1. CASE Review
  <2>1. UNCHANGED <<tap, replaced>> /\ doc'.upload = doc.upload
    BY <1>1 DEF Review
  <2>2. \A x \in Taps : servable[x] \subseteq servable'[x]
    BY <1>1 DEF Review, Witnessed
  <2>3. \A x \in Taps : InFlight(x) /\ Servable(doc') => doc'.upload \in servable'[x]
    BY <1>1 DEF Review, Witnessed
  <2>4. MomentsRecorded'
    BY <2>1, <2>3 DEF MomentsRecorded, InFlight, Servable
  <2>5. KeysOfServable'
    BY <2>1, <2>2 DEF KeysOfServable
  <2> QED BY <2>4, <2>5
<1>2. CASE UploadFinalizes
  <2>1. UNCHANGED <<tap, servable>> /\ ~Servable(doc')
        /\ replaced' = replaced \cup {x \in Taps : InFlight(x)}
    BY <1>2 DEF UploadFinalizes, Servable
  <2>2. MomentsRecorded'
    BY <2>1 DEF MomentsRecorded, Servable
  <2>3. KeysOfServable'
    BY <2>1 DEF KeysOfServable, InFlight
  <2> QED BY <2>2, <2>3
<1>3. CASE PurgeRow
  <2>1. UNCHANGED <<tap, servable, replaced>> /\ ~Servable(doc') /\ doc'.upload = doc.upload
    BY <1>3 DEF PurgeRow, Servable
  <2> QED BY <2>1 DEF MomentsRecorded, KeysOfServable, Servable
<1>4. CASE UploadOverwrites \/ PurgeObject \/ PurgeUnlocks \/ PurgeShares
  BY <1>4 DEF UploadOverwrites, PurgeObject, PurgeUnlocks, PurgeShares, MomentsRecorded,
    KeysOfServable, InFlight, Servable
<1> QED BY <1>1, <1>2, <1>3, <1>4 DEF DocStep

\* Visits and acts on shares touch neither the document nor an exchange.
LEMMA OthersKeepSent ==
  ASSUME (\E v \in Visits : VisitStep(v)) \/ (\E s \in Shares : ShareStep(s)) \/ CronStep
         \/ UNCHANGED vars
  PROVE  UNCHANGED <<doc, tap, servable, replaced>>
<1> USE DEF docVars, tapVars, history
<1>1. CASE \E v \in Visits : VisitStep(v)
  BY <1>1 DEF VisitStep, VerifyReads, VerifyInserts, UnlockExpires, RawReads, RawChecksUnlock,
    RawConsumes, RawLosesReply, RawAsksPlan, RawMints, RawFails, TicketLapses
<1>2. CASE \E s \in Shares : ShareStep(s)
  BY <1>2 DEF ShareStep, RevokeShare, ExtendShare, SetMaxViews, ResetViewsCount, SetPassword,
    ClearPassword, DeleteUnlocks, ShareExpires
<1>3. CASE CronStep
  BY <1>3 DEF CronStep, RevokeExpired, DeleteExpired
<1>4. CASE UNCHANGED vars
  BY <1>4 DEF vars
<1> QED BY <1>1, <1>2, <1>3, <1>4

LEMMA NextSentInv ==
  ASSUME SentInv, [Next]_vars
  PROVE  SentInv'
<1>1. TypeInv'
  BY NextTypeInv DEF SentInv
<1>2. CASE UNCHANGED <<doc, tap, servable, replaced>>
  BY <1>1, <1>2 DEF SentInv, MomentsRecorded, KeysOfServable, InFlight, Servable
<1> QED
  BY <1>1, <1>2, OthersKeepSent, TapStepSentInv, DocStepSentInv DEF Next, SentInv

\* Nothing the ticket route sends, replays included, is the content of an
\* upload that was at no moment of the exchange active and clean, unless an
\* upload was completed meanwhile.
THEOREM SentServable == Spec => []SentWhileServable
<1>1. SentInv => SentWhileServable
  BY DEF SentInv, KeysOfServable, SentWhileServable
<1>2. Spec => []SentInv
  BY InitSentInv, NextSentInv, PTL DEF Spec
<1> QED BY <1>1, <1>2, PTL

-----------------------------------------------------------------------------
(* The share link keeps its contract.                                      *)

Standings == [s \in Shares |-> Standing(s)]
Views     == [s \in Shares |-> share[s].views_count]
LimitsSet == [s \in Shares |-> share[s].max_views]
Grants    == [v \in Visits |-> Grant(v)]

LEMMA InitKeepsContract == Init => Contract!Init
<1> SUFFICES ASSUME Init PROVE Contract!Init
  OBVIOUS
<1> DEFINE NewRows == [present: {TRUE}, revoked: {FALSE}, expired: {FALSE}, max_views: Limits,
                       views_count: {0}, locked: BOOLEAN]
<1>1. ASSUME NEW s \in Shares
      PROVE  Standing(s) = "open" /\ share[s].views_count = 0 /\ share[s].max_views \in Limits
  <2>1. share[s] \in NewRows
    BY DEF Init
  <2>2. share[s].present /\ ~share[s].revoked /\ ~share[s].expired
        /\ share[s].views_count = 0 /\ share[s].max_views \in Limits
    BY <2>1
  <2> QED BY <2>2 DEF Standing
<1>2. \A v \in Visits : Grant(v) = "none"
  BY DEF Init, Grant
<1> QED BY <1>1, <1>2 DEF Contract!Init

\* Nothing is granted or used while views and responses stand still.
LEMMA SameGrants ==
  ASSUME UNCHANGED <<counted, responses>>
  PROVE  UNCHANGED Grants
BY DEF Grants, Grant

\* A step that leaves the shares and the grants alone is no step of the contract.
LEMMA Stutters ==
  ASSUME UNCHANGED share, UNCHANGED Grants
  PROVE  UNCHANGED Contract!vars
BY DEF Contract!vars, Grants, Standing

\* The UPDATE that counts a view is a grant.
LEMMA CountViewGrants ==
  ASSUME TicketInv, NEW v \in Visits, visit[v] = "consume", CountView(v), UNCHANGED responses
  PROVE  Contract!GrantView(v)
<1> USE ShareAssumption DEF TicketInv, TypeInv, TypeOK
<1> DEFINE t == Target[v]
<1>1. t \in Shares /\ share[t] \in ShareRow /\ share'[t].views_count = share[t].views_count + 1
      /\ share'[t].max_views = share[t].max_views /\ share'[t].present = share[t].present
      /\ share'[t].revoked = share[t].revoked /\ share'[t].expired = share[t].expired
      /\ \A s \in Shares \ {t} : share'[s] = share[s]
  BY DEF CountView, ShareRow
<1>2. Standing(t) = "open"
  BY DEF CountView, Countable, Standing
<1>3. Contract!HasViews(t)
  <2>1. share[t].views_count \in Nat /\ share[t].max_views \in Nat
    BY <1>1 DEF ShareRow
  <2>2. share[t].max_views = 0 \/ share[t].views_count < share[t].max_views
    BY <2>1 DEF CountView, Countable, Maxed
  <2> QED BY <1>1, <2>2 DEF Contract!HasViews
<1>4. Grant(v) = "none" /\ Grant(v)' = "held" /\ \A w \in Visits \ {v} : Grant(w)' = Grant(w)
  <2>1. v \notin counted /\ responses[v] = 0
    BY DEF CountedFirst, TakenBeforeSent
  <2> QED BY <2>1 DEF CountView, Grant
<1>5. UNCHANGED Standings /\ UNCHANGED LimitsSet
  BY <1>1 DEF Standings, LimitsSet, Standing
<1>6. Views' = [Views EXCEPT ![t] = Views[t] + 1]
  BY <1>1 DEF Views
<1>7. Grants' = [Grants EXCEPT ![v] = "held"]
  BY <1>4 DEF Grants
<1> QED
  BY <1>1, <1>2, <1>3, <1>4, <1>5, <1>6, <1>7
     DEF Contract!GrantView, Standings, LimitsSet, Views, Grants

LEMMA VisitStepKeepsContract ==
  ASSUME TicketInv, NEW v \in Visits, VisitStep(v)
  PROVE  Contract!GrantView(v) \/ UNCHANGED Contract!vars
<1>1. CASE CountView(v) /\ (RawConsumes(v) \/ RawLosesReply(v))
  BY <1>1, CountViewGrants DEF RawConsumes, RawLosesReply, tapVars
<1>2. CASE ~(CountView(v) /\ (RawConsumes(v) \/ RawLosesReply(v)))
  <2>1. UNCHANGED <<share, counted, responses>>
    BY <1>2 DEF VisitStep, VerifyReads, VerifyInserts, UnlockExpires, RawReads, RawChecksUnlock,
      RawConsumes, RawLosesReply, RawAsksPlan, RawMints, RawFails, TicketLapses, shareVars,
      visitVars, tapVars
  <2> QED BY <2>1, SameGrants, Stutters
<1> QED BY <1>1, <1>2

LEMMA TapStepKeepsContract ==
  ASSUME ~Replay, TicketInv, NEW x \in Taps, TapStep(x)
  PROVE  (\E v \in Visits : Contract!Respond(v)) \/ UNCHANGED Contract!vars
<1> USE DEF TicketInv, TypeInv, TypeOK, TapsHaveTickets
<1>s. UNCHANGED <<share, counted>>
  BY DEF TapStep, TapConsumes, TapGate, TapReadsKeys, TapServes, TapRefused, shareVars, visitVars
<1>1. CASE TapServes(x)
  <2>0. PICK u \in Visits : u = tap[x].ticket
    BY <1>1 DEF TapServes
  <2>1. InFlight(x)
    BY <1>1 DEF TapServes, InFlight
  <2>2. responses[u] = 0
    BY <2>0, <2>1 DEF OneHolder
  <2>3. u \in counted
    BY <2>0, <2>1 DEF CountedFirst, TakenBeforeSent, InFlight
  <2>4. responses'[u] = 1 /\ \A w \in Visits \ {u} : responses'[w] = responses[w]
    BY <1>1, <2>0, <2>2 DEF TapServes
  <2>5. Grant(u) = "held" /\ Grant(u)' = "used" /\ \A w \in Visits \ {u} : Grant(w)' = Grant(w)
    BY <1>s, <2>2, <2>3, <2>4 DEF Grant
  <2>6. Grants' = [Grants EXCEPT ![u] = "used"]
    BY <2>5 DEF Grants
  <2>7. UNCHANGED Standings /\ UNCHANGED Views /\ UNCHANGED LimitsSet
    BY <1>s DEF Standings, Views, LimitsSet, Standing
  <2>8. Contract!Respond(u)
    BY <2>5, <2>6, <2>7 DEF Contract!Respond, Standings, Views, LimitsSet, Grants
  <2> QED BY <2>8
<1>2. CASE ~TapServes(x)
  <2>1. UNCHANGED responses
    BY <1>2 DEF TapStep, TapConsumes, TapGate, TapReadsKeys, TapRefused
  <2> QED BY <1>s, <2>1, SameGrants, Stutters
<1> QED BY <1>1, <1>2

\* Rows that are revoked or deleted: the contract closes their shares.
LEMMA Closes ==
  ASSUME TypeInv, NEW S \in SUBSET Shares, UNCHANGED Grants,
         \A s \in Shares : share'[s].views_count = share[s].views_count
                           /\ share'[s].max_views = share[s].max_views,
         \A s \in S : Standing(s)' = "closed",
         \A s \in Shares \ S : share'[s] = share[s]
  PROVE  Contract!Close(S)
<1>1. Standings' = [s \in Shares |-> IF s \in S THEN "closed" ELSE Standings[s]]
  BY DEF Standings, Standing
<1>2. UNCHANGED Views /\ UNCHANGED LimitsSet
  BY DEF Views, LimitsSet
<1> QED BY <1>1, <1>2 DEF Contract!Close, Standings, Views, LimitsSet, Grants

LEMMA ShareStepKeepsContract ==
  ASSUME TicketInv, NEW s \in Shares, ShareStep(s)
  PROVE  [Contract!Next]_(Contract!vars)
<1> USE DEF TicketInv, TypeInv, TypeOK, ShareRow
<1>g. UNCHANGED Grants
  <2>1. UNCHANGED <<counted, responses>>
    BY OthersLeaveTickets DEF visitVars, tapVars
  <2> QED BY <2>1, SameGrants
<1>r. share[s] \in ShareRow
  OBVIOUS
<1>1. CASE RevokeShare(s)
  <2>1. Contract!Close({s})
    BY <1>1, <1>g, <1>r, Closes DEF RevokeShare, Revoked, Standing
  <2> QED BY <2>1 DEF Contract!Next
<1>2. CASE ExtendShare(s)
  <2>1. ~share'[s].expired /\ share'[s].present = share[s].present
        /\ share'[s].revoked = share[s].revoked /\ share'[s].views_count = share[s].views_count
        /\ share'[s].max_views = share[s].max_views
        /\ \A o \in Shares \ {s} : share'[o] = share[o]
    BY <1>2, <1>r DEF ExtendShare
  <2>2. UNCHANGED Views /\ UNCHANGED LimitsSet
    BY <2>1 DEF Views, LimitsSet
  <2>3. CASE Standing(s) = "lapsed"
    <3>1. Standing(s)' = "open" /\ \A o \in Shares \ {s} : Standing(o)' = Standing(o)
      BY <2>1, <2>3 DEF Standing
    <3>2. Standings' = [Standings EXCEPT ![s] = "open"]
      BY <3>1 DEF Standings
    <3>3. Contract!Renew(s)
      BY <1>g, <2>2, <2>3, <3>2 DEF Contract!Renew, Standings, Views, LimitsSet, Grants
    <3> QED BY <3>3 DEF Contract!Next
  <2>4. CASE Standing(s) # "lapsed"
    <3>1. UNCHANGED Standings
      BY <2>1, <2>4 DEF Standings, Standing
    <3> QED BY <1>g, <2>2, <3>1 DEF Contract!vars, Standings, Views, LimitsSet, Grants
  <2> QED BY <2>3, <2>4
<1>3. CASE SetMaxViews(s)
  <2> PICK n \in Limits : share' = [share EXCEPT ![s].max_views = n]
    BY <1>3 DEF SetMaxViews
  <2>1. UNCHANGED Standings /\ UNCHANGED Views
    BY <1>r DEF Standings, Views, Standing
  <2>2. LimitsSet' = [LimitsSet EXCEPT ![s] = n]
    BY <1>r DEF LimitsSet
  <2>3. Contract!SetLimit(s, n)
    BY <1>g, <2>1, <2>2 DEF Contract!SetLimit, Standings, Views, LimitsSet, Grants
  <2> QED BY <2>3 DEF Contract!Next
<1>4. CASE ResetViewsCount(s)
  <2>1. UNCHANGED Standings /\ UNCHANGED LimitsSet
    BY <1>4, <1>r DEF ResetViewsCount, Standings, LimitsSet, Standing
  <2>2. Views' = [Views EXCEPT ![s] = 0]
    BY <1>4, <1>r DEF ResetViewsCount, Views
  <2>3. Contract!ResetViews(s)
    BY <1>g, <2>1, <2>2 DEF Contract!ResetViews, Standings, Views, LimitsSet, Grants
  <2> QED BY <2>3 DEF Contract!Next
<1>5. CASE SetPassword(s) \/ ClearPassword(s) \/ DeleteUnlocks(s)
  <2>0. ASSUME NEW o \in Shares
        PROVE  share'[o].expired = share[o].expired /\ share'[o].present = share[o].present
               /\ share'[o].revoked = share[o].revoked /\ share'[o].max_views = share[o].max_views
               /\ share'[o].views_count = share[o].views_count
    BY <1>5, <1>r DEF SetPassword, ClearPassword, DeleteUnlocks
  <2>1. UNCHANGED Standings /\ UNCHANGED Views /\ UNCHANGED LimitsSet
    BY <2>0 DEF Standings, Views, LimitsSet, Standing
  <2> QED BY <1>g, <2>1 DEF Contract!vars, Standings, Views, LimitsSet, Grants
<1>6. CASE ShareExpires(s)
  <2>1. ~share[s].expired /\ share'[s].expired /\ share'[s].present = share[s].present
        /\ share'[s].revoked = share[s].revoked /\ share'[s].views_count = share[s].views_count
        /\ share'[s].max_views = share[s].max_views
        /\ \A o \in Shares \ {s} : share'[o] = share[o]
    BY <1>6, <1>r DEF ShareExpires
  <2>2. UNCHANGED Views /\ UNCHANGED LimitsSet
    BY <2>1 DEF Views, LimitsSet
  <2>3. CASE Standing(s) = "open"
    <3>1. Standing(s)' = "lapsed" /\ \A o \in Shares \ {s} : Standing(o)' = Standing(o)
      BY <2>1, <2>3 DEF Standing
    <3>2. Standings' = [Standings EXCEPT ![s] = "lapsed"]
      BY <3>1 DEF Standings
    <3>3. Contract!Lapse(s)
      BY <1>g, <2>2, <2>3, <3>2 DEF Contract!Lapse, Standings, Views, LimitsSet, Grants
    <3> QED BY <3>3 DEF Contract!Next
  <2>4. CASE Standing(s) # "open"
    <3>1. UNCHANGED Standings
      BY <2>1, <2>4 DEF Standings, Standing
    <3> QED BY <1>g, <2>2, <3>1 DEF Contract!vars, Standings, Views, LimitsSet, Grants
  <2> QED BY <2>3, <2>4
<1> QED BY <1>1, <1>2, <1>3, <1>4, <1>5, <1>6 DEF ShareStep

LEMMA CronStepKeepsContract ==
  ASSUME TicketInv, CronStep
  PROVE  \E S \in SUBSET Shares : Contract!Close(S)
<1> PICK S \in SUBSET Shares : RevokeExpired(S) \/ DeleteExpired(S)
  BY DEF CronStep
<1>g. UNCHANGED Grants
  <2>1. UNCHANGED <<counted, responses>>
    BY OthersLeaveTickets DEF visitVars, tapVars
  <2> QED BY <2>1, SameGrants
<1>1. ASSUME NEW s \in Shares
      PROVE  /\ share'[s].views_count = share[s].views_count
             /\ share'[s].max_views = share[s].max_views
             /\ s \in S => Standing(s)' = "closed"
             /\ s \notin S => share'[s] = share[s]
  BY DEF RevokeExpired, DeleteExpired, Revoked, Standing, TicketInv, TypeInv, TypeOK, ShareRow
<1> QED BY <1>g, <1>1, Closes DEF TicketInv

LEMMA DocStepKeepsContract ==
  ASSUME TicketInv, DocStep
  PROVE  Contract!Close(Shares) \/ UNCHANGED Contract!vars
<1>g. UNCHANGED Grants
  <2>1. UNCHANGED <<counted, responses>>
    BY OthersLeaveTickets DEF visitVars, tapVars
  <2> QED BY <2>1, SameGrants
<1>1. CASE PurgeShares
  <2>1. ASSUME NEW s \in Shares
        PROVE  /\ share'[s].views_count = share[s].views_count
               /\ share'[s].max_views = share[s].max_views
               /\ Standing(s)' = "closed"
    BY <1>1 DEF PurgeShares, Standing, TicketInv, TypeInv, TypeOK, ShareRow
  <2> QED BY <1>g, <2>1, Closes DEF TicketInv
<1>2. CASE ~PurgeShares
  <2>1. UNCHANGED share
    BY <1>2 DEF DocStep, Review, UploadOverwrites, UploadFinalizes, PurgeObject, PurgeUnlocks,
      PurgeRow, shareVars
  <2> QED BY <1>g, <2>1, Stutters
<1> QED BY <1>1, <1>2

\* ShareAccess implements ShareContract: whatever its requests, owners and
\* jobs do to rows, unlocks and tickets is, seen from the owner's side, a
\* granted view, a used grant, a closed, lapsed or renewed share, or nothing.
THEOREM ContractKept == ASSUME ~Replay PROVE Spec => KeepsContract
<1>1. ASSUME TicketInv, [Next]_vars PROVE [Contract!Next]_(Contract!vars)
  <2>1. CASE UNCHANGED vars
    <3>1. UNCHANGED <<share, counted, responses>>
      BY <2>1 DEF vars, shareVars, visitVars, tapVars
    <3> QED BY <3>1, SameGrants, Stutters
  <2>2. CASE \E v \in Visits : VisitStep(v)
    BY <1>1, <2>2, VisitStepKeepsContract DEF Contract!Next
  <2>3. CASE \E x \in Taps : TapStep(x)
    BY <1>1, <2>3, TapStepKeepsContract DEF Contract!Next
  <2>4. CASE \E s \in Shares : ShareStep(s)
    BY <1>1, <2>4, ShareStepKeepsContract
  <2>5. CASE CronStep
    BY <1>1, <2>5, CronStepKeepsContract DEF Contract!Next
  <2>6. CASE DocStep
    BY <1>1, <2>6, DocStepKeepsContract DEF Contract!Next
  <2> QED BY <1>1, <2>1, <2>2, <2>3, <2>4, <2>5, <2>6 DEF Next
<1>2. Spec => []TicketInv
  BY InitTicketInv, NextTicketInv, PTL DEF Spec
<1> QED BY InitKeepsContract, <1>1, <1>2, PTL DEF Spec, KeepsContract, Contract!Spec
=============================================================================
