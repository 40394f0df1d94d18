----------------------------- MODULE PlanLimits -----------------------------
(***************************************************************************)
(* The limits of one user's plan: views of the user's documents in a month *)
(* and active shares. A request looks up the plan in the cache of its      *)
(* server, or loads it, compares a counter with the limit, and moves the   *)
(* counter in a later statement.                                           *)
(*                                                                         *)
(* The cache of the billing flags and that of the plans are one cache here:*)
(* its entry is the tier of the user: "free", or "open" for Pro, an owner,  *)
(* or when limits are not enforced.                                        *)
(***************************************************************************)
EXTENDS Naturals, FiniteSets

CONSTANTS
  Visits,      \* views being served, each again and again
  Creates,     \* share creations
  Servers,     \* processes of the application, each with caches of its own
  MaxViews,    \* maxViewsPerMonth of the free plan
  MaxShares,   \* maxActiveShares of the free plan
  NoServer,    \* no server
  FarViews,    \* bound: views are not counted beyond
  FarShares,   \* bound: nor active shares
  FarLapsed,   \* bound: nor those that expired
  MaxFaults    \* bound: statements that throw, requests that die

Requests == Visits \cup Creates

ASSUME LimitAssumption ==
  /\ IsFiniteSet(Visits) /\ IsFiniteSet(Creates) /\ Visits \cap Creates = {}
  /\ NoServer \notin Servers
  /\ MaxViews \in Nat \ {0} /\ MaxShares \in Nat \ {0} /\ MaxFaults \in Nat
  /\ FarViews \in Nat /\ FarViews >= MaxViews + Cardinality(Visits)
  /\ FarLapsed \in Nat /\ FarShares \in Nat /\ FarShares >= MaxShares + Cardinality(Creates)

VARIABLES
  tier,      \* what the database says of the user
  override,  \* an unexpired row of owner_view_limit_overrides
  cache,     \* [Servers -> Tiers \cup {"none"}]: planCache
  load,      \* [Servers -> Tiers \cup {"none"}]: planInFlight, with what it has read
  views,     \* user_usage_monthly.view_count of this month
  active,    \* share_tokens neither revoked nor expired
  lapsed,    \* share_tokens expired and not revoked
  pc,        \* [Requests -> Pcs]
  server,    \* [Requests -> Servers \cup {NoServer}]: where it runs
  known,     \* [Requests -> Tiers]: the tier it was told
  faults,    \* faults so far
  freeViews, \* no view of this month was let through without a limit (history)
  unchecked  \* active shares that were compared with no limit, since there was room (history)

lookupVars == <<cache, load, server, known>>
shareVars == <<active, lapsed, unchecked>>
vars == <<tier, override, lookupVars, views, shareVars, pc, faults, freeViews>>

-----------------------------------------------------------------------------
Tiers == {"free", "open"}

\* Limited or not, a request that was let through has yet to move its counter.
Pcs == {"idle", "override", "lookup", "wait", "compare", "limited", "unlimited"}

Init ==
  /\ tier \in Tiers /\ override = FALSE
  /\ cache = [s \in Servers |-> "none"]
  /\ load = [s \in Servers |-> "none"]
  /\ views = 0 /\ active = 0 /\ lapsed = 0 /\ unchecked = 0
  /\ pc = [r \in Requests |-> "idle"]
  /\ server = [r \in Requests |-> NoServer]
  /\ known = [r \in Requests |-> "free"]
  /\ faults = 0 /\ freeViews = TRUE

Fault == faults < MaxFaults /\ faults' = faults + 1

LetThrough(set) == {r \in set : pc[r] \in {"limited", "unlimited"}}
Unlimited(set) == {r \in set : pc[r] = "unlimited"}

Up(n, far) == IF n < far THEN n + 1 ELSE n

-----------------------------------------------------------------------------
(* What changes around the requests.                                       *)

\* Billing events, the flags of the settings page.
ChangeTier(t) ==
  /\ t # tier /\ tier' = t
  /\ UNCHANGED <<override, lookupVars, views, shareVars, pc, faults, freeViews>>

\* Set and cleared by an admin, or expired.
ChangeOverride ==
  /\ override' = ~override
  /\ UNCHANGED <<tier, lookupVars, views, shareVars, pc, faults, freeViews>>

\* The count starts over, also for the views that are being counted.
NewMonth ==
  /\ views' = 0
  /\ freeViews' = (Unlimited(Visits) = {})
  /\ UNCHANGED <<tier, override, lookupVars, shareVars, pc, faults>>

\* Below the limit, what came without a comparison is of the past.
Unchecked(more) == unchecked' = IF active' < MaxShares THEN 0 ELSE more

\* Mutant of ShareRevoked: a share that is over already is taken off once more.
ShareRevokedAgain ==
  /\ active' = active - 1 /\ Unchecked(unchecked)
  /\ UNCHANGED <<tier, override, lookupVars, views, lapsed, pc, faults, freeViews>>

\* By its owner or an admin, or deleted with its document.
ShareRevoked ==
  /\ active > 0 /\ active' = active - 1 /\ Unchecked(unchecked)
  /\ UNCHANGED <<tier, override, lookupVars, views, lapsed, pc, faults, freeViews>>

ShareExpires ==
  /\ active > 0 /\ active' = active - 1 /\ Unchecked(unchecked)
  /\ lapsed' = Up(lapsed, FarLapsed)
  /\ UNCHANGED <<tier, override, lookupVars, views, pc, faults, freeViews>>

\* By the nightly batch, retention, or as any other. It never comes back.
LapsedRevoked ==
  /\ lapsed > 0 /\ lapsed' = lapsed - 1
  /\ UNCHANGED <<tier, override, lookupVars, views, active, unchecked, pc, faults, freeViews>>

\* The UPDATE of expires_at, for one share or each of several: nobody compares.
ShareExtended ==
  /\ lapsed > 0 /\ lapsed' = lapsed - 1
  /\ active' = Up(active, FarShares) /\ Unchecked(Up(unchecked, FarShares))
  /\ UNCHANGED <<tier, override, lookupVars, views, pc, faults, freeViews>>

\* Mutant of Expires: what was paid for stays in the cache.
ExpiresIfFree(s) == cache[s] = "free"

Expires(s) == cache[s] # "none"

CacheExpires(s) ==
  /\ Expires(s)
  /\ cache' = [cache EXCEPT ![s] = "none"]
  /\ UNCHANGED <<tier, override, load, server, known, views, shareVars, pc, faults,
                 freeViews>>

-----------------------------------------------------------------------------
(* getPlanForUser. *)

Goto(r, next) == pc' = [pc EXCEPT ![r] = next]

\* Where a request ran and what it was told do not matter from here on.
Forget(r) ==
  /\ server' = [server EXCEPT ![r] = NoServer]
  /\ known' = [known EXCEPT ![r] = "free"]

UseCached(r) ==
  /\ pc[r] = "lookup" /\ cache[server[r]] # "none"
  /\ known' = [known EXCEPT ![r] = cache[server[r]]]
  /\ Goto(r, "compare")
  /\ UNCHANGED <<tier, override, cache, load, server, views, shareVars, faults, freeViews>>

\* The first to miss loads, the others wait for it.
LoadPlan(r) ==
  /\ pc[r] = "lookup" /\ cache[server[r]] = "none"
  /\ load' = IF load[server[r]] = "none" THEN [load EXCEPT ![server[r]] = tier] ELSE load
  /\ Goto(r, "wait")
  /\ UNCHANGED <<tier, override, cache, server, known, views, shareVars, faults, freeViews>>

\* The plan that was read goes into the cache and to all who wait. When a statement
\* threw it is Free, or what the flags of the environment make of it.
PlanLoaded(s) ==
  /\ load[s] # "none"
  /\ \E t \in Tiers :
       /\ (t = load[s] /\ UNCHANGED faults) \/ Fault
       /\ cache' = [cache EXCEPT ![s] = t]
       /\ known' = [r \in Requests |-> IF pc[r] = "wait" /\ server[r] = s THEN t ELSE known[r]]
  /\ load' = [load EXCEPT ![s] = "none"]
  /\ pc' = [r \in Requests |-> IF pc[r] = "wait" /\ server[r] = s THEN "compare" ELSE pc[r]]
  /\ UNCHANGED <<tier, override, server, views, shareVars, freeViews>>

-----------------------------------------------------------------------------
(* A view: assertCanServeView, then incrementMonthlyViews.                 *)

\* Some process of the application gets the request.
Request(r, s) ==
  /\ pc[r] = "idle"
  /\ server' = [server EXCEPT ![r] = s]
  /\ Goto(r, IF r \in Visits THEN "override" ELSE "lookup")
  /\ UNCHANGED <<tier, override, cache, load, known, views, shareVars, faults, freeViews>>

CheckOverride(v) ==
  /\ pc[v] = "override"
  /\ \/ override /\ Goto(v, "unlimited") /\ Forget(v) /\ freeViews' = FALSE
     \/ ~override /\ Goto(v, "lookup") /\ UNCHANGED <<server, known, freeViews>>
  /\ UNCHANGED <<tier, override, cache, load, views, shareVars, faults>>

\* Mutant of BelowMaxViews: off by one.
UpToMaxViews == views <= MaxViews

BelowMaxViews == views < MaxViews

\* getMonthlyViewCount and the comparison; Pro is throttled at times.
CompareViews(v) ==
  /\ v \in Visits /\ pc[v] = "compare"
  /\ \/ known[v] = "free" /\ BelowMaxViews /\ Goto(v, "limited") /\ UNCHANGED freeViews
     \/ known[v] = "free" /\ ~BelowMaxViews /\ Goto(v, "idle") /\ UNCHANGED freeViews
     \/ known[v] = "open" /\ Goto(v, "unlimited") /\ freeViews' = FALSE
     \/ known[v] = "open" /\ Goto(v, "idle") /\ UNCHANGED freeViews
  /\ Forget(v)
  /\ UNCHANGED <<tier, override, cache, load, views, shareVars, faults>>

\* insert ... on conflict do update set view_count = view_count + 1
CountView(v) ==
  /\ v \in LetThrough(Visits)
  /\ views' = Up(views, FarViews)
  /\ Goto(v, "idle")
  /\ UNCHANGED <<tier, override, lookupVars, shareVars, faults, freeViews>>

\* The increment throws, before or after it commits: the share route serves the view all
\* the same, the others answer 503.
CountFails(v) ==
  /\ v \in LetThrough(Visits) /\ Fault
  /\ views' \in {views, Up(views, FarViews)}
  /\ Goto(v, "idle")
  /\ UNCHANGED <<tier, override, lookupVars, shareVars, freeViews>>

-----------------------------------------------------------------------------
(* A share: assertCanCreateShare, then the insert.                         *)

\* Mutant of BelowMaxShares: off by one.
UpToMaxShares == active <= MaxShares

BelowMaxShares == active < MaxShares

CompareShares(c) ==
  /\ c \in Creates /\ pc[c] = "compare"
  /\ \/ known[c] = "free" /\ BelowMaxShares /\ Goto(c, "limited")
     \/ known[c] = "free" /\ ~BelowMaxShares /\ Goto(c, "idle")
     \/ known[c] = "open" /\ Goto(c, "unlimited")
     \/ known[c] = "open" /\ Goto(c, "idle")
  /\ Forget(c)
  /\ UNCHANGED <<tier, override, cache, load, views, shareVars, faults, freeViews>>

CreateShare(c) ==
  /\ c \in LetThrough(Creates)
  /\ active' = Up(active, FarShares)
  /\ Unchecked(IF pc[c] = "unlimited" THEN Up(unchecked, FarShares) ELSE unchecked)
  /\ Goto(c, "idle")
  /\ UNCHANGED <<tier, override, lookupVars, views, lapsed, faults, freeViews>>

\* Killed, refused for another reason, or a statement of the check throws (the share
\* route then serves the view and does not count it).
RequestDies(r) ==
  /\ pc[r] # "idle" /\ Fault
  /\ Goto(r, "idle") /\ Forget(r)
  /\ UNCHANGED <<tier, override, cache, load, views, shareVars, freeViews>>

-----------------------------------------------------------------------------
Around == \/ \E t \in Tiers : ChangeTier(t)
          \/ ChangeOverride \/ NewMonth
          \/ ShareRevoked \/ ShareExpires \/ LapsedRevoked \/ ShareExtended

Proceed(r) == UseCached(r) \/ LoadPlan(r)
              \/ CheckOverride(r) \/ CompareViews(r) \/ CountView(r)
              \/ CompareShares(r) \/ CreateShare(r)

Next == \/ Around
        \/ \E s \in Servers : CacheExpires(s) \/ PlanLoaded(s)
        \/ \E r \in Requests : (\E s \in Servers : Request(r, s)) \/ Proceed(r) \/ RequestDies(r)
        \/ \E v \in Visits : CountFails(v)

Spec == Init /\ [][Next]_vars

\* Entries expire after PLAN_CACHE_MS; statements return, and requests go on.
Fairness ==
  /\ \A s \in Servers : WF_vars(CacheExpires(s)) /\ WF_vars(PlanLoaded(s))
  /\ \A r \in Requests : WF_vars(Proceed(r))

FairSpec == Spec /\ Fairness

-----------------------------------------------------------------------------
(* Properties                                                              *)

TypeOK ==
  /\ tier \in Tiers /\ override \in BOOLEAN
  /\ cache \in [Servers -> Tiers \cup {"none"}] /\ load \in [Servers -> Tiers \cup {"none"}]
  /\ views \in 0..FarViews /\ active \in 0..FarShares /\ lapsed \in 0..FarLapsed /\ unchecked \in 0..FarShares
  /\ pc \in [Requests -> Pcs] /\ server \in [Requests -> Servers \cup {NoServer}] /\ known \in [Requests -> Tiers]
  /\ faults \in Nat /\ freeViews \in BOOLEAN

\* The count is compared in one statement and moved in another, so that a month may see
\* more views than the plan has: by at most the requests that are at it at once, less
\* one, whatever the caches say and though months turn under them.
ViewsStayNearLimit == freeViews => views <= MaxViews + Cardinality(Visits) - 1

\* The same for shares, which expire and are revoked in between, beside those that nobody
\* compares: created without a limit, or brought back by an extension. Whenever there is
\* room again, all of that is of the past.
SharesStayNearLimit == active <= MaxShares + Cardinality(Creates) - 1 + unchecked

\* Neither count runs away from its limit.
CountsStayNearLimits == ViewsStayNearLimit /\ SharesStayNearLimit

\* Once a user stays on the free plan, with limits enforced and no override, a time
\* comes after which nothing is let through without a limit: no server keeps an old
\* entry, nor a load that had read the old plan.
Held == tier = "free" /\ ~override
LimitsTakeHold == <>[]Held => <>[](Unlimited(Requests) = {})
=============================================================================
