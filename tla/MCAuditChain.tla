---------------------------- MODULE MCAuditChain ----------------------------
(* Small instances of AuditChain for TLC. *)
EXTENDS AuditChain, TLC

CONSTANTS d1, d2, r1, r2, x1, x2, b1

Interchangeable == Permutations(Docs) \cup Permutations(Readers) \cup Permutations(Singles)
=============================================================================
