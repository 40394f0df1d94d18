-------------------------- MODULE MCUploadPipeline --------------------------
(* Small instances of UploadPipeline for TLC. *)
EXTENDS UploadPipeline, TLC

\* Requests of one kind, and sweeps, are interchangeable; documents are not (R2
\* lists them in order).
Interchangeable == Permutations(Completions) \cup Permutations(Aborts) \cup Permutations(Sweepers)
=============================================================================
