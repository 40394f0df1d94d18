-------------------------- MODULE MCStripeBilling --------------------------
(* Small instances of StripeBilling for TLC. *)
EXTENDS StripeBilling, TLC

CONSTANTS s1, s2, created, renewal, updated, cancel, other, ended, h1, h2

\* One customer with both subscriptions, or two with one each.
OneOwner == s1 :> 1 @@ s2 :> 1
TwoOwners == s1 :> 2 @@ s2 :> 1

\* A subscription starts, a payment of it fails, and Stripe says it is past due in the
\* same second; it is canceled. The other one starts early or is canceled.
What == created :> "active" @@ renewal :> "payment_failed" @@ updated :> "past_due"
        @@ cancel :> "canceled" @@ other :> "active" @@ ended :> "canceled"
Seconds == created :> 1 @@ renewal :> 2 @@ updated :> 2 @@ cancel :> 3 @@ other :> 1 @@ ended :> 2
Story == [e \in Events |-> What[e]]
Subject == [e \in Events |-> IF e \in {other, ended} THEN s2 ELSE s1]
When == [e \in Events |-> Seconds[e]]

Interchangeable == Permutations(Handlers)
=============================================================================
