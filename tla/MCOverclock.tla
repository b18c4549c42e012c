----------------------------- MODULE MCOverclock -----------------------------
(* Four frequencies, each with a voltage of its own: a low one, the kernel's  *)
(* top, the default of the module and one to overclock to.                    *)
EXTENDS Overclock

MCNeeds == [r \in Rates |-> r]
=============================================================================
