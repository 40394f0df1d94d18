------------------------- MODULE PlanLimits_proofs -------------------------
(***************************************************************************)
(* Proofs about PlanLimits, for every finite set of visits and of share    *)
(* creations, every set of servers and every limit of at least one.        *)
(***************************************************************************)
EXTENDS PlanLimits, TLAPS, FiniteSetTheorems

-----------------------------------------------------------------------------
(* Type correctness: a request that asks for the plan runs on some server; *)
(* overrides are about views.                                              *)

ServersKnown == \A r \in Requests : pc[r] \in {"override", "lookup", "wait"} => server[r] \in Servers

OverridesAreOfVisits == \A r \in Requests : pc[r] = "override" => r \in Visits

TypeInv == TypeOK /\ ServersKnown /\ OverridesAreOfVisits

LEMMA BoundsAreNumbers ==
  /\ Cardinality(Visits) \in Nat /\ Cardinality(Creates) \in Nat
  /\ FarViews \in Nat /\ FarShares \in Nat /\ FarLapsed \in Nat
  /\ MaxViews \in Nat \ {0} /\ MaxShares \in Nat \ {0}
BY LimitAssumption, FS_CardinalityType

LEMMA UpIsBounded ==
  ASSUME NEW far \in Nat, NEW n \in 0..far
  PROVE  Up(n, far) \in 0..far /\ Up(n, far) <= n + 1 /\ (n < far => Up(n, far) = n + 1)
BY DEF Up

LEMMA CountersGoUp ==
  ASSUME TypeInv
  PROVE  /\ Up(views, FarViews) \in 0..FarViews /\ Up(views, FarViews) <= views + 1
         /\ Up(active, FarShares) \in 0..FarShares /\ Up(active, FarShares) <= active + 1
         /\ Up(unchecked, FarShares) \in 0..FarShares
         /\ Up(lapsed, FarLapsed) \in 0..FarLapsed
<1>1. /\ views \in 0..FarViews /\ active \in 0..FarShares
      /\ unchecked \in 0..FarShares /\ lapsed \in 0..FarLapsed
  BY DEF TypeInv, TypeOK
<1> QED BY <1>1, UpIsBounded, BoundsAreNumbers

LEMMA SharesAreCounted ==
  ASSUME TypeInv, NEW more \in 0..FarShares, Unchecked(more)
  PROVE  unchecked' \in 0..FarShares
BY BoundsAreNumbers DEF Unchecked

LEMMA InitTypeInv ==
  ASSUME Init
  PROVE  TypeInv
<1>1. /\ views \in 0..FarViews /\ active \in 0..FarShares
      /\ lapsed \in 0..FarLapsed /\ unchecked \in 0..FarShares
  BY BoundsAreNumbers DEF Init
<1>2. /\ pc \in [Requests -> Pcs] /\ server \in [Requests -> Servers \cup {NoServer}]
      /\ known \in [Requests -> Tiers]
  BY DEF Init, Pcs, Tiers
<1>3. cache \in [Servers -> Tiers \cup {"none"}] /\ load \in [Servers -> Tiers \cup {"none"}]
  BY DEF Init
<1>4. ServersKnown /\ OverridesAreOfVisits
  BY DEF Init, ServersKnown, OverridesAreOfVisits
<1> QED BY <1>1, <1>2, <1>3, <1>4 DEF Init, TypeInv, TypeOK

LEMMA AroundTypeInv ==
  ASSUME TypeInv, Around \/ \E s \in Servers : CacheExpires(s)
  PROVE  TypeInv'
<1> USE BoundsAreNumbers DEF TypeInv, TypeOK, ServersKnown, OverridesAreOfVisits, lookupVars, shareVars
<1>1. ASSUME NEW t \in Tiers, ChangeTier(t) PROVE TypeInv'
  BY <1>1 DEF ChangeTier
<1>2. CASE ChangeOverride
  BY <1>2 DEF ChangeOverride
<1>3. CASE NewMonth
  BY <1>3 DEF NewMonth
<1>4. CASE ShareRevoked
  <2>1. active' \in 0..FarShares /\ unchecked' \in 0..FarShares
    BY <1>4, SharesAreCounted DEF ShareRevoked
  <2> QED BY <1>4, <2>1 DEF ShareRevoked
<1>6. CASE ShareExpires
  <2>1. active' \in 0..FarShares /\ unchecked' \in 0..FarShares
    BY <1>6, SharesAreCounted DEF ShareExpires
  <2>2. lapsed' \in 0..FarLapsed
    BY <1>6, CountersGoUp DEF ShareExpires
  <2> QED BY <1>6, <2>1, <2>2 DEF ShareExpires
<1>7. CASE LapsedRevoked
  BY <1>7 DEF LapsedRevoked
<1>8. CASE ShareExtended
  <2>1. active' \in 0..FarShares /\ unchecked' \in 0..FarShares
    BY <1>8, CountersGoUp, SharesAreCounted DEF ShareExtended
  <2>2. lapsed' \in 0..FarLapsed
    BY <1>8 DEF ShareExtended
  <2> QED BY <1>8, <2>1, <2>2 DEF ShareExtended
<1>5. ASSUME NEW s \in Servers, CacheExpires(s) PROVE TypeInv'
  BY <1>5 DEF CacheExpires
<1> QED BY <1>1, <1>2, <1>3, <1>4, <1>5, <1>6, <1>7, <1>8 DEF Around

LEMMA PlanLoadedTypeInv ==
  ASSUME TypeInv, NEW s \in Servers, PlanLoaded(s)
  PROVE  TypeInv'
<1> USE BoundsAreNumbers DEF TypeInv, TypeOK
<1>1. PICK t \in Tiers :
        /\ (t = load[s] /\ UNCHANGED faults) \/ Fault
        /\ cache' = [cache EXCEPT ![s] = t]
        /\ known' = [r \in Requests |-> IF pc[r] = "wait" /\ server[r] = s THEN t ELSE known[r]]
  BY DEF PlanLoaded
<1>2. cache' \in [Servers -> Tiers \cup {"none"}] /\ known' \in [Requests -> Tiers] /\ faults' \in Nat
  BY <1>1 DEF Fault
<1>3. load' \in [Servers -> Tiers \cup {"none"}] /\ pc' \in [Requests -> Pcs]
  BY DEF PlanLoaded, Pcs
<1>4. ServersKnown' /\ OverridesAreOfVisits'
  BY DEF PlanLoaded, ServersKnown, OverridesAreOfVisits
<1> QED BY <1>2, <1>3, <1>4 DEF PlanLoaded, shareVars

LEMMA RequestTypeInv ==
  ASSUME TypeInv, NEW r \in Requests, NEW s \in Servers, Request(r, s)
  PROVE  TypeInv'
BY DEF TypeInv, TypeOK, ServersKnown, OverridesAreOfVisits, Request, Goto, Pcs, shareVars

LEMMA LookupTypeInv ==
  ASSUME TypeInv, NEW r \in Requests, UseCached(r) \/ LoadPlan(r) \/ CheckOverride(r)
  PROVE  TypeInv'
<1> USE DEF TypeInv, TypeOK, ServersKnown, OverridesAreOfVisits, Goto, Forget, Pcs, shareVars
<1>1. CASE UseCached(r)
  <2>1. cache[server[r]] \in Tiers
    BY <1>1 DEF UseCached
  <2> QED BY <1>1, <2>1 DEF UseCached
<1>2. CASE LoadPlan(r)
  <2>1. load' \in [Servers -> Tiers \cup {"none"}]
    BY <1>2 DEF LoadPlan
  <2> QED BY <1>2, <2>1 DEF LoadPlan
<1>3. CASE CheckOverride(r)
  <2>1. PICK next \in {"unlimited", "lookup"} : pc' = [pc EXCEPT ![r] = next]
    BY <1>3 DEF CheckOverride
  <2>2. pc' \in [Requests -> Pcs] /\ ServersKnown' /\ OverridesAreOfVisits'
    BY <1>3, <2>1 DEF CheckOverride
  <2>3. /\ freeViews' \in BOOLEAN /\ known' \in [Requests -> Tiers]
        /\ server' \in [Requests -> Servers \cup {NoServer}]
    BY <1>3 DEF CheckOverride, Tiers
  <2> QED BY <1>3, <2>2, <2>3 DEF CheckOverride
<1> QED BY <1>1, <1>2, <1>3

LEMMA CountingTypeInv ==
  ASSUME TypeInv, NEW r \in Requests,
         \/ CompareViews(r) \/ CountView(r) \/ CountFails(r)
         \/ CompareShares(r) \/ CreateShare(r) \/ RequestDies(r)
  PROVE  TypeInv'
<1> USE CountersGoUp
    DEF TypeInv, TypeOK, ServersKnown, OverridesAreOfVisits, Goto, Forget, Pcs, lookupVars, shareVars
<1>1. CASE CompareViews(r)
  <2>1. PICK next \in {"limited", "idle", "unlimited"} : pc' = [pc EXCEPT ![r] = next]
    BY <1>1 DEF CompareViews
  <2>2. pc' \in [Requests -> Pcs] /\ ServersKnown' /\ OverridesAreOfVisits'
    BY <1>1, <2>1 DEF CompareViews
  <2>3. freeViews' \in BOOLEAN /\ known' \in [Requests -> Tiers]
    BY <1>1 DEF CompareViews, Tiers
  <2> QED BY <1>1, <2>2, <2>3 DEF CompareViews
<1>2. CASE CountView(r)
  BY <1>2 DEF CountView
<1>3. CASE CountFails(r)
  BY <1>3 DEF CountFails, Fault
<1>4. CASE CompareShares(r)
  <2>1. PICK next \in {"limited", "idle", "unlimited"} : pc' = [pc EXCEPT ![r] = next]
    BY <1>4 DEF CompareShares
  <2>2. pc' \in [Requests -> Pcs] /\ ServersKnown' /\ OverridesAreOfVisits'
    BY <1>4, <2>1 DEF CompareShares
  <2>3. known' \in [Requests -> Tiers]
    BY <1>4 DEF CompareShares, Tiers
  <2> QED BY <1>4, <2>2, <2>3 DEF CompareShares
<1>5. CASE CreateShare(r)
  <2>1. active' \in 0..FarShares /\ unchecked' \in 0..FarShares
    BY <1>5, SharesAreCounted DEF CreateShare
  <2>2. pc' \in [Requests -> Pcs] /\ ServersKnown' /\ OverridesAreOfVisits'
    BY <1>5 DEF CreateShare
  <2> QED BY <1>5, <2>1, <2>2 DEF CreateShare
<1>6. CASE RequestDies(r)
  BY <1>6 DEF RequestDies, Fault, Tiers
<1> QED BY <1>1, <1>2, <1>3, <1>4, <1>5, <1>6

LEMMA NextTypeInv ==
  ASSUME TypeInv, [Next]_vars
  PROVE  TypeInv'
<1>1. CASE UNCHANGED vars
  BY <1>1 DEF vars, lookupVars, shareVars, TypeInv, TypeOK, ServersKnown, OverridesAreOfVisits
<1>2. CASE Next
  <2>1. \A v \in Visits : v \in Requests
    BY DEF Requests
  <2> QED BY <1>2, <2>1, AroundTypeInv, PlanLoadedTypeInv, RequestTypeInv, LookupTypeInv, CountingTypeInv
      DEF Next, Proceed
<1> QED BY <1>1, <1>2

\* Counters, caches and the locals of every request keep their types.
THEOREM TypeCorrect == Spec => []TypeOK
<1>1. Spec => []TypeInv
  BY InitTypeInv, NextTypeInv, PTL DEF Spec
<1>2. TypeInv => TypeOK
  BY DEF TypeInv
<1> QED BY <1>1, <1>2, PTL

-----------------------------------------------------------------------------
(* What a request that proceeds does to the sets of requests let through.  *)

LEMMA SlotsAreFinite ==
  ASSUME NEW S, IsFiniteSet(S)
  PROVE  /\ IsFiniteSet(LetThrough(S)) /\ Cardinality(LetThrough(S)) \in Nat
         /\ Cardinality(LetThrough(S)) <= Cardinality(S)
<1>1. LetThrough(S) \in SUBSET S
  BY DEF LetThrough
<1> QED BY <1>1, FS_Subset, FS_CardinalityType

\* Fewer requests let through, fewer views: the sum does not grow.
LEMMA FewerSlots ==
  ASSUME NEW S, IsFiniteSet(S), LetThrough(S)' \subseteq LetThrough(S)
  PROVE  /\ Cardinality(LetThrough(S)') \in Nat
         /\ Cardinality(LetThrough(S)') <= Cardinality(LetThrough(S))
<1>1. IsFiniteSet(LetThrough(S)) /\ LetThrough(S)' \in SUBSET LetThrough(S)
  BY SlotsAreFinite
<1> QED BY <1>1, FS_Subset, FS_CardinalityType

-----------------------------------------------------------------------------
(* Views. Every request that was let through below the limit has a slot;   *)
(* the views counted and the slots held together stay near the limit.      *)

ViewsInv ==
  freeViews =>
    /\ Unlimited(Visits) = {}
    /\ views + Cardinality(LetThrough(Visits)) <= MaxViews + Cardinality(Visits) - 1

\* Steps that let nobody through and count nothing.
LEMMA ViewsIdle ==
  ASSUME TypeInv, ViewsInv, views' \in Nat, views' <= views, freeViews' => freeViews,
         \A v \in Visits : pc'[v] \in {"limited", "unlimited"} => pc'[v] = pc[v]
  PROVE  ViewsInv'
<1>1. LetThrough(Visits)' \subseteq LetThrough(Visits) /\ Unlimited(Visits)' \subseteq Unlimited(Visits)
  BY DEF LetThrough, Unlimited
<1>2. /\ Cardinality(LetThrough(Visits)') \in Nat /\ Cardinality(LetThrough(Visits)) \in Nat
      /\ Cardinality(LetThrough(Visits)') <= Cardinality(LetThrough(Visits))
  BY <1>1, FewerSlots, SlotsAreFinite, LimitAssumption
<1>3. views \in Nat
  BY BoundsAreNumbers DEF TypeInv, TypeOK
<1> QED BY <1>1, <1>2, <1>3, BoundsAreNumbers DEF ViewsInv

LEMMA NewMonthViewsInv ==
  ASSUME TypeInv, ViewsInv, NewMonth
  PROVE  ViewsInv'
<1>1. LetThrough(Visits)' = LetThrough(Visits) /\ Unlimited(Visits)' = Unlimited(Visits)
  BY DEF NewMonth, LetThrough, Unlimited
<1>2. /\ Cardinality(LetThrough(Visits)) \in Nat
      /\ Cardinality(LetThrough(Visits)) <= Cardinality(Visits)
  BY SlotsAreFinite, LimitAssumption
<1>3. CASE freeViews' = FALSE
  BY <1>3 DEF ViewsInv
<1>4. CASE Unlimited(Visits) = {}
  <2>1. views' = 0
    BY DEF NewMonth
  <2>2. Cardinality(LetThrough(Visits)) <= MaxViews + Cardinality(Visits) - 1
    BY <1>2, BoundsAreNumbers
  <2> QED BY <1>1, <1>2, <1>4, <2>1, <2>2, BoundsAreNumbers DEF ViewsInv
<1> QED BY <1>3, <1>4 DEF NewMonth

LEMMA CompareViewsInv ==
  ASSUME TypeInv, ViewsInv, NEW v \in Requests, CompareViews(v)
  PROVE  ViewsInv'
<1>0. v \in Visits /\ pc[v] = "compare" /\ pc \in [Requests -> Pcs] /\ views \in Nat /\ views' = views
  BY BoundsAreNumbers DEF CompareViews, TypeInv, TypeOK
<1>1. CASE known[v] = "free" /\ BelowMaxViews /\ Goto(v, "limited") /\ UNCHANGED freeViews
  <2>1. Unlimited(Visits)' = Unlimited(Visits)
    BY <1>0, <1>1 DEF Unlimited, Goto
  <2>2. /\ Cardinality(LetThrough(Visits)') \in Nat
        /\ Cardinality(LetThrough(Visits)') <= Cardinality(Visits)
    <3>1. LetThrough(Visits)' \in SUBSET Visits
      BY DEF LetThrough
    <3> QED BY <3>1, LimitAssumption, FS_Subset, FS_CardinalityType
  <2>3. views <= MaxViews - 1
    BY <1>0, <1>1, BoundsAreNumbers DEF BelowMaxViews
  <2> QED BY <1>0, <1>1, <2>1, <2>2, <2>3, BoundsAreNumbers DEF ViewsInv
<1>2. CASE Goto(v, "unlimited") /\ freeViews' = FALSE
  BY <1>2 DEF ViewsInv
<1>3. CASE Goto(v, "idle") /\ UNCHANGED freeViews
  <2>1. \A w \in Visits : pc'[w] \in {"limited", "unlimited"} => pc'[w] = pc[w]
    BY <1>0, <1>3 DEF Goto, Requests
  <2> QED BY <1>0, <1>3, <2>1, ViewsIdle
<1> QED BY <1>1, <1>2, <1>3 DEF CompareViews

LEMMA CountViewInv ==
  ASSUME TypeInv, ViewsInv, NEW v \in Requests, CountView(v)
  PROVE  ViewsInv'
<1>0. /\ v \in LetThrough(Visits) /\ v \in Visits /\ pc \in [Requests -> Pcs] /\ freeViews' = freeViews
      /\ views \in Nat /\ views' \in Nat /\ views' <= views + 1
  BY BoundsAreNumbers, CountersGoUp DEF CountView, TypeInv, TypeOK, LetThrough
<1>1. LetThrough(Visits)' = LetThrough(Visits) \ {v} /\ Unlimited(Visits)' \subseteq Unlimited(Visits)
  BY <1>0 DEF CountView, Goto, LetThrough, Unlimited, Requests
<1>2. /\ Cardinality(LetThrough(Visits)) \in Nat
      /\ Cardinality(LetThrough(Visits) \ {v}) = Cardinality(LetThrough(Visits)) - 1
  BY <1>0, SlotsAreFinite, FS_RemoveElement, LimitAssumption
<1> QED BY <1>0, <1>1, <1>2, BoundsAreNumbers DEF ViewsInv

LEMMA CountFailsInv ==
  ASSUME TypeInv, ViewsInv, NEW v \in Requests, CountFails(v)
  PROVE  ViewsInv'
<1>0. /\ v \in LetThrough(Visits) /\ v \in Visits /\ pc \in [Requests -> Pcs] /\ freeViews' = freeViews
      /\ views \in Nat /\ views' \in Nat /\ views' <= views + 1
  BY BoundsAreNumbers, CountersGoUp DEF CountFails, TypeInv, TypeOK, LetThrough
<1>1. LetThrough(Visits)' = LetThrough(Visits) \ {v} /\ Unlimited(Visits)' \subseteq Unlimited(Visits)
  BY <1>0 DEF CountFails, Goto, LetThrough, Unlimited, Requests
<1>2. /\ Cardinality(LetThrough(Visits)) \in Nat
      /\ Cardinality(LetThrough(Visits) \ {v}) = Cardinality(LetThrough(Visits)) - 1
  BY <1>0, SlotsAreFinite, FS_RemoveElement, LimitAssumption
<1> QED BY <1>0, <1>1, <1>2, BoundsAreNumbers DEF ViewsInv

LEMMA NextViewsInv ==
  ASSUME TypeInv, ViewsInv, [Next]_vars
  PROVE  ViewsInv'
<1>0. views \in Nat /\ pc \in [Requests -> Pcs] /\ \A v \in Visits : v \in Requests
  BY BoundsAreNumbers DEF TypeInv, TypeOK, Requests
<1>1. CASE UNCHANGED vars
  BY <1>0, <1>1, ViewsIdle DEF vars
<1>2. CASE Around
  <2>1. CASE NewMonth
    BY <2>1, NewMonthViewsInv
  <2>2. CASE ~NewMonth
    BY <1>0, <1>2, <2>2, ViewsIdle DEF Around, ChangeTier, ChangeOverride,
           ShareRevoked, ShareExpires, LapsedRevoked, ShareExtended
  <2> QED BY <2>1, <2>2
<1>3. ASSUME NEW s \in Servers, CacheExpires(s) \/ PlanLoaded(s)
      PROVE  ViewsInv'
  BY <1>0, <1>3, ViewsIdle DEF CacheExpires, PlanLoaded
<1>4. ASSUME NEW r \in Requests, NEW s \in Servers, Request(r, s)
      PROVE  ViewsInv'
  BY <1>0, <1>4, ViewsIdle DEF Request, Goto
<1>5. ASSUME NEW r \in Requests, UseCached(r) \/ LoadPlan(r) \/ CompareShares(r) \/ CreateShare(r)
      PROVE  ViewsInv'
  <2>1. \A v \in Visits : pc'[v] \in {"limited", "unlimited"} => pc'[v] = pc[v]
    BY <1>0, <1>5, LimitAssumption
       DEF UseCached, LoadPlan, CompareShares, CreateShare, LetThrough, Goto
  <2>2. views' = views /\ freeViews' = freeViews
    BY <1>5 DEF UseCached, LoadPlan, CompareShares, CreateShare
  <2> QED BY <1>0, <2>1, <2>2, ViewsIdle
<1>6. ASSUME NEW r \in Requests, CheckOverride(r)
      PROVE  ViewsInv'
  <2>1. CASE freeViews' = FALSE
    BY <2>1 DEF ViewsInv
  <2>2. CASE Goto(r, "lookup") /\ UNCHANGED freeViews
    BY <1>0, <1>6, <2>2, ViewsIdle DEF CheckOverride, Goto
  <2> QED BY <1>6, <2>1, <2>2 DEF CheckOverride
<1>7. ASSUME NEW r \in Requests, RequestDies(r)
      PROVE  ViewsInv'
  BY <1>0, <1>7, ViewsIdle DEF RequestDies, Goto
<1>8. CASE Next
  BY <1>0, <1>2, <1>3, <1>4, <1>5, <1>6, <1>7, <1>8, CompareViewsInv, CountViewInv, CountFailsInv
  DEF Next, Proceed
<1> QED BY <1>1, <1>8

\* A month without unlimited views stays within the limit and the number of requests
\* at once less one, though every comparison may be stale when the count moves.
THEOREM ViewsAlwaysNearLimit == Spec => []ViewsStayNearLimit
<1>1. Init => TypeInv /\ ViewsInv
  <2>1. ASSUME Init PROVE ViewsInv
    <3>1. LetThrough(Visits) = {} /\ Unlimited(Visits) = {} /\ views = 0
      BY <2>1 DEF Init, LetThrough, Unlimited, Requests
    <3>2. Cardinality({}) = 0
      BY FS_EmptySet
    <3> QED BY <3>1, <3>2, BoundsAreNumbers DEF ViewsInv
  <2> QED BY <2>1, InitTypeInv
<1>2. TypeInv /\ ViewsInv /\ [Next]_vars => TypeInv' /\ ViewsInv'
  BY NextTypeInv, NextViewsInv
<1>3. TypeInv /\ ViewsInv => ViewsStayNearLimit
  <2>1. TypeInv => views \in Nat
    BY BoundsAreNumbers DEF TypeInv, TypeOK
  <2> QED BY <2>1, SlotsAreFinite, LimitAssumption, BoundsAreNumbers DEF ViewsInv, ViewsStayNearLimit
<1> QED BY <1>1, <1>2, <1>3, PTL DEF Spec

-----------------------------------------------------------------------------
(* Shares. What is unchecked stands outside; below the limit it is         *)
(* forgotten, as the bound then holds by itself.                           *)

Limited == {c \in Creates : pc[c] = "limited"}

SharesInv == active + Cardinality(Limited) <= MaxShares + Cardinality(Creates) - 1 + unchecked

LEMMA LimitedAreFinite ==
  /\ IsFiniteSet(Limited) /\ Cardinality(Limited) \in Nat
  /\ Cardinality(Limited) <= Cardinality(Creates)
<1>1. Limited \in SUBSET Creates
  BY DEF Limited
<1> QED BY <1>1, FS_Subset, FS_CardinalityType, LimitAssumption

LEMMA LimitedAreFiniteNext ==
  /\ Cardinality(Limited') \in Nat
  /\ Cardinality(Limited') <= Cardinality(Creates)
<1>1. Limited' \in SUBSET Creates
  BY DEF Limited
<1> QED BY <1>1, FS_Subset, FS_CardinalityType, LimitAssumption

\* Sums that move together keep their bound.
LEMMA BoundKept ==
  ASSUME NEW a \in Nat, NEW aNew \in Nat, NEW u \in Nat, NEW uNew \in Nat,
         NEW l \in Nat, NEW lNew \in Nat, NEW m \in Nat, NEW n \in Nat,
         a + l <= m + n - 1 + u, lNew <= l,
         (aNew <= a /\ uNew = u) \/ (aNew <= a + 1 /\ uNew = u + 1)
  PROVE  aNew + lNew <= m + n - 1 + uNew
OBVIOUS

\* A counter that moves, at least as much to the unchecked as to the active shares.
LEMMA CountMoves ==
  ASSUME TypeInv, TypeInv', SharesInv, NEW more \in Nat, Unchecked(more),
         (active' <= active /\ more = unchecked) \/ (active' <= active + 1 /\ more = unchecked + 1),
         Limited' \subseteq Limited
  PROVE  SharesInv'
<1>1. /\ active \in Nat /\ active' \in Nat /\ unchecked \in Nat /\ unchecked' \in Nat
  BY BoundsAreNumbers DEF TypeInv, TypeOK
<1>2. CASE active' < MaxShares
  BY <1>1, <1>2, LimitedAreFiniteNext, BoundsAreNumbers DEF SharesInv
<1>3. CASE unchecked' = more
  <2>1. Cardinality(Limited') <= Cardinality(Limited)
    <3>1. Limited' \in SUBSET Limited
      OBVIOUS
    <3> QED BY <3>1, LimitedAreFinite, FS_Subset
  <2>2. active + Cardinality(Limited) <= MaxShares + Cardinality(Creates) - 1 + unchecked
    BY DEF SharesInv
  <2>3. Cardinality(Limited') \in Nat /\ Cardinality(Limited) \in Nat
    BY LimitedAreFinite, LimitedAreFiniteNext
  <2>4. MaxShares \in Nat /\ Cardinality(Creates) \in Nat
    BY BoundsAreNumbers
  <2>5. active' + Cardinality(Limited') <= MaxShares + Cardinality(Creates) - 1 + unchecked'
    BY <1>1, <1>3, <2>1, <2>2, <2>3, <2>4, BoundKept
  <2> QED BY <2>5 DEF SharesInv
<1> QED BY <1>2, <1>3 DEF Unchecked

LEMMA SharesIdle ==
  ASSUME TypeInv, SharesInv, active' = active, unchecked' = unchecked,
         \A c \in Creates : pc'[c] = "limited" => pc[c] = "limited"
  PROVE  SharesInv'
<1>1. Limited' \in SUBSET Limited
  BY DEF Limited
<1>2. /\ Cardinality(Limited') \in Nat /\ Cardinality(Limited) \in Nat
      /\ Cardinality(Limited') <= Cardinality(Limited)
  BY <1>1, LimitedAreFinite, LimitedAreFiniteNext, FS_Subset
<1>3. active \in Nat /\ unchecked \in Nat
  BY BoundsAreNumbers DEF TypeInv, TypeOK
<1> QED BY <1>2, <1>3, BoundsAreNumbers DEF SharesInv

LEMMA AroundSharesInv ==
  ASSUME TypeInv, TypeInv', SharesInv, Around
  PROVE  SharesInv'
<1>0. active \in 0..FarShares /\ unchecked \in 0..FarShares /\ active' \in Nat /\ unchecked' \in Nat
  BY BoundsAreNumbers DEF TypeInv, TypeOK
<1>1. CASE ShareRevoked \/ ShareExpires
  <2>1. Limited' \subseteq Limited
    BY <1>1 DEF ShareRevoked, ShareExpires, Limited
  <2>2. Unchecked(unchecked) /\ active' <= active
    BY <1>0, <1>1, BoundsAreNumbers DEF ShareRevoked, ShareExpires
  <2>3. unchecked \in Nat
    BY <1>0, BoundsAreNumbers
  <2> QED BY <2>1, <2>2, <2>3, CountMoves
<1>2. CASE ShareExtended
  <2>1. Limited' \subseteq Limited
    BY <1>2 DEF ShareExtended, Limited
  <2>2. CASE unchecked < FarShares
    <3>1. Up(unchecked, FarShares) = unchecked + 1 /\ active' <= active + 1
      BY <1>0, <1>2, <2>2, UpIsBounded, CountersGoUp, BoundsAreNumbers DEF ShareExtended
    <3>2. Unchecked(unchecked + 1)
      BY <1>2, <3>1 DEF ShareExtended
    <3>3. unchecked + 1 \in Nat /\ active' <= active + 1
      BY <1>0, <3>1, BoundsAreNumbers
    <3> QED BY <2>1, <3>2, <3>3, CountMoves
  <2>3. CASE unchecked = FarShares
    <3>1. active' <= FarShares
      BY <1>0, BoundsAreNumbers DEF TypeInv, TypeOK
    <3>2. unchecked' = FarShares \/ active' < MaxShares
      BY <1>2, <2>3, BoundsAreNumbers DEF ShareExtended, Unchecked, Up
    <3> QED BY <1>0, <3>1, <3>2, LimitedAreFiniteNext, BoundsAreNumbers DEF SharesInv
  <2> QED BY <1>0, <2>2, <2>3, BoundsAreNumbers
<1>3. CASE ChangeOverride \/ NewMonth \/ LapsedRevoked \/ \E t \in Tiers : ChangeTier(t)
  BY <1>3, SharesIdle DEF ChangeTier, ChangeOverride, NewMonth, LapsedRevoked, shareVars
<1> QED BY <1>1, <1>2, <1>3 DEF Around

LEMMA CompareSharesInv ==
  ASSUME TypeInv, SharesInv, NEW c \in Requests, CompareShares(c)
  PROVE  SharesInv'
<1>0. /\ c \in Creates /\ pc[c] = "compare" /\ pc \in [Requests -> Pcs]
      /\ active \in Nat /\ unchecked \in Nat /\ active' = active /\ unchecked' = unchecked
  BY BoundsAreNumbers DEF CompareShares, TypeInv, TypeOK, shareVars
<1>1. CASE BelowMaxShares
  BY <1>0, <1>1, LimitedAreFiniteNext, BoundsAreNumbers DEF SharesInv, BelowMaxShares
<1>2. CASE Goto(c, "unlimited") \/ Goto(c, "idle")
  <2>1. \A x \in Creates : pc'[x] = "limited" => pc[x] = "limited"
    BY <1>0, <1>2 DEF Goto, Requests
  <2> QED BY <1>0, <2>1, SharesIdle
<1> QED BY <1>1, <1>2 DEF CompareShares

LEMMA CreateShareInv ==
  ASSUME TypeInv, TypeInv', SharesInv, NEW c \in Requests, CreateShare(c)
  PROVE  SharesInv'
<1>0. /\ c \in Creates /\ pc \in [Requests -> Pcs] /\ pc' = [pc EXCEPT ![c] = "idle"]
      /\ active \in 0..FarShares /\ unchecked \in 0..FarShares
      /\ active' \in 0..FarShares /\ unchecked' \in Nat /\ active' <= active + 1
  BY BoundsAreNumbers, CountersGoUp DEF CreateShare, Goto, TypeInv, TypeOK, LetThrough
<1>1. CASE pc[c] = "limited"
  <2>1. Limited' = Limited \ {c} /\ c \in Limited
    BY <1>0, <1>1 DEF Limited, Requests
  <2>2. Cardinality(Limited') = Cardinality(Limited) - 1
    BY <2>1, LimitedAreFinite, FS_RemoveElement
  <2>3. unchecked' = unchecked \/ active' < MaxShares
    BY <1>1 DEF CreateShare, Unchecked
  <2> QED BY <1>0, <2>2, <2>3, LimitedAreFinite, LimitedAreFiniteNext, BoundsAreNumbers DEF SharesInv
<1>2. CASE pc[c] = "unlimited"
  <2>1. Limited' \subseteq Limited
    BY <1>0 DEF Limited, Requests
  <2>2. CASE unchecked < FarShares
    <3>1. Up(unchecked, FarShares) = unchecked + 1
      BY <1>0, <2>2, UpIsBounded, BoundsAreNumbers
    <3>2. Unchecked(unchecked + 1)
      BY <1>2, <3>1 DEF CreateShare
    <3>3. unchecked + 1 \in Nat /\ active' <= active + 1
      BY <1>0, BoundsAreNumbers
    <3> QED BY <2>1, <3>2, <3>3, CountMoves
  <2>3. CASE unchecked = FarShares
    <3>1. unchecked' = FarShares \/ active' < MaxShares
      BY <1>2, <2>3, BoundsAreNumbers DEF CreateShare, Unchecked, Up
    <3> QED BY <1>0, <3>1, LimitedAreFiniteNext, BoundsAreNumbers DEF SharesInv
  <2> QED BY <1>0, <2>2, <2>3, BoundsAreNumbers
<1> QED BY <1>1, <1>2 DEF CreateShare, LetThrough

LEMMA NextSharesInv ==
  ASSUME TypeInv, SharesInv, [Next]_vars
  PROVE  SharesInv'
<1>0. pc \in [Requests -> Pcs] /\ TypeInv' /\ \A c \in Creates : c \in Requests
  BY NextTypeInv DEF TypeInv, TypeOK, Requests
<1>1. CASE UNCHANGED vars
  BY <1>0, <1>1, SharesIdle DEF vars, shareVars
<1>2. ASSUME NEW s \in Servers, CacheExpires(s) \/ PlanLoaded(s)
      PROVE  SharesInv'
  BY <1>0, <1>2, SharesIdle DEF CacheExpires, PlanLoaded, shareVars
<1>3. ASSUME NEW r \in Requests, NEW s \in Servers, Request(r, s)
      PROVE  SharesInv'
  BY <1>0, <1>3, SharesIdle DEF Request, Goto, shareVars
<1>4. ASSUME NEW r \in Requests, UseCached(r) \/ LoadPlan(r) \/ CheckOverride(r) \/ RequestDies(r)
      PROVE  SharesInv'
  <2>1. \A c \in Creates : pc'[c] = "limited" => pc[c] = "limited"
    BY <1>0, <1>4 DEF UseCached, LoadPlan, CheckOverride, RequestDies, Goto
  <2>2. active' = active /\ unchecked' = unchecked
    BY <1>4 DEF UseCached, LoadPlan, CheckOverride, RequestDies, shareVars
  <2> QED BY <2>1, <2>2, SharesIdle
<1>5. ASSUME NEW r \in Requests, CompareViews(r) \/ CountView(r) \/ CountFails(r)
      PROVE  SharesInv'
  <2>1. \A c \in Creates : pc'[c] = "limited" => pc[c] = "limited"
    BY <1>0, <1>5, LimitAssumption DEF CompareViews, CountView, CountFails, LetThrough, Goto
  <2>2. active' = active /\ unchecked' = unchecked
    BY <1>5 DEF CompareViews, CountView, CountFails, shareVars
  <2> QED BY <2>1, <2>2, SharesIdle
<1>6. CASE Next
  <2>1. \A v \in Visits : v \in Requests
    BY DEF Requests
  <2> QED BY <1>0, <1>2, <1>3, <1>4, <1>5, <1>6, <2>1, AroundSharesInv, CompareSharesInv, CreateShareInv
      DEF Next, Proceed
<1> QED BY <1>1, <1>6

\* The same for active shares, which expire, are revoked and are brought back at any
\* moment: beyond the limit are at most the requests at it at once less one, and those
\* that nobody compared since there was room.
THEOREM SharesAlwaysNearLimit == Spec => []SharesStayNearLimit
<1>1. Init => TypeInv /\ SharesInv
  <2>1. ASSUME Init PROVE SharesInv
    <3>1. Limited = {} /\ active = 0 /\ unchecked = 0
      BY <2>1 DEF Init, Limited, Requests
    <3>2. Cardinality({}) = 0
      BY FS_EmptySet
    <3> QED BY <3>1, <3>2, BoundsAreNumbers DEF SharesInv
  <2> QED BY <2>1, InitTypeInv
<1>2. TypeInv /\ SharesInv /\ [Next]_vars => TypeInv' /\ SharesInv'
  BY NextTypeInv, NextSharesInv
<1>3. TypeInv /\ SharesInv => SharesStayNearLimit
  <2>1. TypeInv => active \in Nat /\ unchecked \in Nat
    BY BoundsAreNumbers DEF TypeInv, TypeOK
  <2> QED BY <2>1, LimitedAreFinite, BoundsAreNumbers DEF SharesInv, SharesStayNearLimit
<1> QED BY <1>1, <1>2, <1>3, PTL DEF Spec

\* Both limits are exceeded by at most the requests at them at once, less one, and the
\* shares that nobody compared.
THEOREM CountsAlwaysNearLimits == Spec => []CountsStayNearLimits
<1>1. ViewsStayNearLimit /\ SharesStayNearLimit => CountsStayNearLimits
  BY DEF CountsStayNearLimits
<1> QED BY <1>1, ViewsAlwaysNearLimit, SharesAlwaysNearLimit, PTL
=============================================================================
