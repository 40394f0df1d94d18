--------------------------- MODULE ShareContract ---------------------------
(***************************************************************************)
(* What a share link of DocLinks promises its owner, without the requests, *)
(* tickets and statements that bring it about.                             *)
(*                                                                         *)
(* A view is granted to a visit only while the share is open and below its *)
(* limit; each grant counts one view and buys at most one response; a      *)
(* closed share stays closed, whatever is done to its expiry or limit.     *)
(***************************************************************************)
EXTENDS Naturals

CONSTANTS
  Shares,  \* share tokens
  Visits,  \* requests for a view
  Target,  \* [Visits -> Shares]: the share a visit is about
  Limits   \* the view limits an owner may set; 0 is no limit

VARIABLES
  standing,  \* [Shares -> Standings]
  views,     \* [Shares -> Nat]: views counted since the last reset
  limit,     \* [Shares -> Limits]: the most views allowed, 0 for no limit
  grant      \* [Visits -> Grants]

vars == <<standing, views, limit, grant>>

Standings == {"open", "lapsed", "closed"}
Grants    == {"none", "held", "used"}

\* Has the share a view left?
HasViews(s) == limit[s] = 0 \/ views[s] < limit[s]

Init ==
  /\ standing \in [Shares -> {"open"}]
  /\ views = [s \in Shares |-> 0]
  /\ limit \in [Shares -> Limits]
  /\ grant = [v \in Visits |-> "none"]

GrantView(v) ==
  LET s == Target[v] IN
    /\ grant[v] = "none"
    /\ standing[s] = "open"
    /\ HasViews(s)
    /\ grant' = [grant EXCEPT ![v] = "held"]
    /\ views' = [views EXCEPT ![s] = @ + 1]
    /\ UNCHANGED <<standing, limit>>

Respond(v) ==
  /\ grant[v] = "held"
  /\ grant' = [grant EXCEPT ![v] = "used"]
  /\ UNCHANGED <<standing, views, limit>>

Close(S) ==
  /\ standing' = [s \in Shares |-> IF s \in S THEN "closed" ELSE standing[s]]
  /\ UNCHANGED <<views, limit, grant>>

Lapse(s) ==
  /\ standing[s] = "open"
  /\ standing' = [standing EXCEPT ![s] = "lapsed"]
  /\ UNCHANGED <<views, limit, grant>>

Renew(s) ==
  /\ standing[s] = "lapsed"
  /\ standing' = [standing EXCEPT ![s] = "open"]
  /\ UNCHANGED <<views, limit, grant>>

SetLimit(s, n) ==
  /\ limit' = [limit EXCEPT ![s] = n]
  /\ UNCHANGED <<standing, views, grant>>

ResetViews(s) ==
  /\ views' = [views EXCEPT ![s] = 0]
  /\ UNCHANGED <<standing, limit, grant>>

Next ==
  \/ \E S \in SUBSET Shares : Close(S)
  \/ \E v \in Visits : GrantView(v) \/ Respond(v)
  \/ \E s \in Shares : Lapse(s) \/ Renew(s) \/ ResetViews(s)
  \/ \E s \in Shares, n \in Limits : SetLimit(s, n)

Spec == Init /\ [][Next]_vars
=============================================================================
