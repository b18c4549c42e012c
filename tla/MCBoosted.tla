------------------------------ MODULE MCBoosted ------------------------------
(* A table of four frequencies, a low and a full policy, and two sets of     *)
(* tunables: steps finer and coarser than the table, and no steps.           *)
EXTENDS Boosted

MCFreqs == {2, 4, 6, 8}
MCLimits == {[min |-> 2, max |-> 8], [min |-> 2, max |-> 6]}
MCTunables ==
  {[awake |-> 4, sleep |-> 2, wakeup |-> 4, up |-> 1, down |-> 3],
   [awake |-> 6, sleep |-> 0, wakeup |-> 4, up |-> 0, down |-> 0]}

=============================================================================
