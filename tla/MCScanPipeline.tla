--------------------------- MODULE MCScanPipeline ---------------------------
(* Model values and symmetry for checking ScanPipeline.                    *)
EXTENDS ScanPipeline, TLC

CONSTANTS d1, d2, w1, w2

Symmetry == Permutations(Runs)
=============================================================================
