---------------------------- MODULE MCChargeOnly ----------------------------
(* Delays of one, two, three and four ticks; any system call may fail.       *)
EXTENDS ChargeOnly
=============================================================================
