--------------------------- MODULE MCShareAccess ---------------------------
(* A small instance of ShareAccess for TLC. *)
EXTENDS ShareAccess, TLC

CONSTANTS s1, v1, v2

\* Two visits of one link: the first by someone who knows the password.
OneShare   == {s1}
TwoVisits  == {v1, v2}
SameTarget == [v \in TwoVisits |-> s1]
FirstKnows == {v1}

\* Requests to the ticket route are interchangeable.
Interchangeable == Permutations(Taps)
=============================================================================
