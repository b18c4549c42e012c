--------------------------- MODULE MCSioScheduler ----------------------------
(* SioScheduler for TLC.                                                   *)
EXTENDS SioScheduler

\* As in sio-iosched.c, synchronous requests and reads expire first.
MCExpire == [c \in Classes |-> (IF c[1] = "sync" THEN 0 ELSE 1) + (IF c[2] = "read" THEN 0 ELSE 1)]

=============================================================================
