------------------------------ MODULE LogFeed -------------------------------
(***************************************************************************)
(* What log_kernel promises: a feed of numbered entries.  A reader gets    *)
(* them one at a time and in order.  The ring keeps the last Size bytes;   *)
(* a write that comes within a header of the entry a reader is at skips    *)
(* entries of that reader, whole ones, enough to cover the length of what  *)
(* is written and not one more.                                            *)
(***************************************************************************)
EXTENDS Naturals, Sequences

CONSTANTS
  Readers,
  Size,   \* bytes in the ring
  Hdr,    \* bytes in a header
  Sizes   \* what an entry may measure, with its header

VARIABLES
  n,      \* entries written so far
  place,  \* where entry i begins among all bytes ever written, for i up to n + 1
  first,  \* where a new reader starts
  next,   \* the entry each open reader gets next; 0 is closed
  got     \* the entry each reader got last; 0 is none

vars == <<n, place, first, next, got>>

Init ==
  /\ n = 0 /\ place = <<0>>
  /\ first = 1 /\ next = [r \in Readers |-> 0] /\ got = next

\* An entry of s bytes comes no closer to entry i than a header.
RoomFor(s, i) == place[n + 1] + Hdr + s < place[i] + Size

\* The entries up to j cover s bytes, from entry i on; those before j do not.
Covers(s, i, j) == place[j] >= place[i] + s /\ \A k \in i .. j - 1 : place[k] < place[i] + s

\* Where a write of s bytes leaves a reader that is at entry i.
Skips(s, i, j) == IF RoomFor(s, i) THEN j = i ELSE j \in i .. n + 1 /\ Covers(s, i, j)

Write(s) ==
  /\ n' = n + 1
  /\ place' = Append(place, place[n + 1] + s)
  /\ Skips(s, first, first')
  /\ next' \in [Readers -> 0 .. n']
  /\ \A r \in Readers : IF next[r] = 0 THEN next'[r] = 0 ELSE Skips(s, next[r], next'[r])
  /\ UNCHANGED got

Open(r) ==
  /\ next[r] = 0
  /\ next' = [next EXCEPT ![r] = first]
  /\ UNCHANGED <<n, place, first, got>>

Close(r) ==
  /\ next[r] # 0
  /\ next' = [next EXCEPT ![r] = 0]
  /\ got' = [got EXCEPT ![r] = 0]
  /\ UNCHANGED <<n, place, first>>

Take(r) ==
  /\ next[r] \in 1 .. n
  /\ got' = [got EXCEPT ![r] = next[r]]
  /\ next' = [next EXCEPT ![r] = @ + 1]
  /\ UNCHANGED <<n, place, first>>

Flush ==
  /\ first' = n + 1
  /\ next' = [r \in Readers |-> IF next[r] = 0 THEN 0 ELSE n + 1]
  /\ UNCHANGED <<n, place, got>>

Next == (\E s \in Sizes : Write(s)) \/ Flush \/ \E r \in Readers : Open(r) \/ Close(r) \/ Take(r)

Spec == Init /\ [][Next]_vars

=============================================================================
