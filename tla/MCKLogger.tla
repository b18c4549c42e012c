------------------------------ MODULE MCKLogger -----------------------------
(* KLogger for TLC.                                                        *)
EXTENDS KLogger, TLC

CONSTANTS r1, r2

Same == Permutations({r1, r2})

=============================================================================
