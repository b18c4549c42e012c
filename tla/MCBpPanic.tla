----------------------------- MODULE MCBpPanic -------------------------------
(* BpPanic for TLC.                                                        *)
EXTENDS BpPanic

MCJumps == {-2, 2}

=============================================================================
