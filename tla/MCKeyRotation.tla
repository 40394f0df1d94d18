--------------------------- MODULE MCKeyRotation ---------------------------
(* Small instances of KeyRotation for TLC. *)
EXTENDS KeyRotation

CONSTANTS k1, k2, w1, w2

BothWays == {<<k1, k2>>, <<k2, k1>>}
=============================================================================
