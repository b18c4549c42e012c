---------------------------- MODULE SioScheduler ----------------------------
(***************************************************************************)
(* The I/O scheduler of modules/sources/overclock/sio-iosched.c.  Every    *)
(* call but the sysfs stores is made under the lock of the request queue.  *)
(*                                                                         *)
(* A class is <<sync, data_dir>>.  Requests are numbered in the order they *)
(* are added.  Tunables and counters that sio_init_queue leaves as kmalloc *)
(* returned them have any value of Garbage (as unsigned: that is how they  *)
(* are compared).  passed, urgent and overdue are history: the reads       *)
(* dispatched past a waiting write, those of them that were dispatched     *)
(* because they had expired, and the requests dispatched past an expired   *)
(* asynchronous write, since the settings were last changed.               *)
(***************************************************************************)
EXTENDS Integers, Sequences, SequencesExt

Classes    == {"async", "sync"} \X {"read", "write"}
AsyncWrite == <<"async", "write">>

CONSTANTS
  fifo_expire,  \* per class, the time until a request expires
  FifoBatch,    \* the initial fifo_batch
  Garbage,      \* what uninitialised memory may hold
  Settings,     \* values the user stores in the tunables
  Word,         \* the values of an unsigned int: 2^32
  MaxRequests,  \* bound: requests added
  MaxTime       \* bound: jiffies

ASSUME SioAssumption ==
  /\ fifo_expire \in [Classes -> Nat] /\ FifoBatch \in Nat
  /\ Word \in Nat \ {0} /\ Garbage \cup Settings \subseteq 0 .. Word - 1

VARIABLES
  fifo_list, fifo_time, added,          \* the queues
  batched, starved,                     \* sd
  fifo_batch, writes_starved,
  jiffies,
  passed, urgent, overdue               \* history

queue == <<fifo_list, fifo_time, added>>
waits == <<passed, urgent, overdue>>
vars  == <<queue, batched, starved, fifo_batch, writes_starved, jiffies, waits>>

\* sio_init_queue.
Init ==
  /\ fifo_list = [c \in Classes |-> <<>>] /\ fifo_time = <<>> /\ added = 0
  /\ batched = 0 /\ starved \in Garbage
  /\ fifo_batch = FifoBatch /\ writes_starved \in Garbage
  /\ jiffies = 0 /\ passed = 0 /\ urgent = 0 /\ overdue = 0

-----------------------------------------------------------------------------
tick ==
  /\ jiffies < MaxTime /\ jiffies' = jiffies + 1
  /\ UNCHANGED <<queue, batched, starved, fifo_batch, writes_starved, waits>>

sio_add_request(c) ==
  /\ added < MaxRequests
  /\ added' = added + 1
  /\ fifo_time' = Append(fifo_time, jiffies + fifo_expire[c])
  /\ fifo_list' = [fifo_list EXCEPT ![c] = Append(@, added + 1)]
  /\ UNCHANGED <<batched, starved, fifo_batch, writes_starved, jiffies, waits>>

Earlier(c, m, d, n) == fifo_time[fifo_list[d][n]] < fifo_time[fifo_list[c][m]]

\* Mutant: rq is added to next's place without leaving its own.
LeavesOwnPlace_Added(lists, c, m) == lists

LeavesOwnPlace(lists, c, m) == [lists EXCEPT ![c] = RemoveAt(@, m)]

\* next, at position n of class d, has been merged into rq, at position m of c:
\* rq takes next's place in the list, or next is deleted from it.
Merged(c, m, d, n, time) ==
  /\ <<c, m>> # <<d, n>>
  /\ IF Earlier(c, m, d, n)
     THEN /\ fifo_list' = LeavesOwnPlace([fifo_list EXCEPT ![d][n] = fifo_list[c][m]], c, m)
          /\ fifo_time' = [fifo_time EXCEPT ![fifo_list[c][m]] = time]
     ELSE /\ fifo_list' = [fifo_list EXCEPT ![d] = RemoveAt(@, n)]
          /\ UNCHANGED fifo_time
  /\ UNCHANGED <<added, batched, starved, fifo_batch, writes_starved, jiffies, waits>>

\* Mutant: rq keeps its own time.
sio_merged_requests_KeepsTime(c, m, d, n) == Merged(c, m, d, n, fifo_time[fifo_list[c][m]])

\* The block layer merges requests of one direction, synchronous or not.
sio_merged_requests(c, m, d, n) == Merged(c, m, d, n, fifo_time[fifo_list[d][n]])

-----------------------------------------------------------------------------
(* sio_dispatch_requests                                                   *)

Queued      == {c \in Classes : fifo_list[c] # <<>>}
WriteQueued == \E c \in Queued : c[2] = "write"

\* sio_expired_request finds one.
Expired(c) == c \in Queued /\ jiffies > fifo_time[fifo_list[c][1]]

\* Mutant: reads first.
expired_rank_Reads(c) ==
  (IF c[1] = "async" THEN 0 ELSE 2) + (IF c[2] = "read" THEN 0 ELSE 1)

\* The order in which sio_choose_expired_request and sio_choose_request look at
\* the classes.
expired_rank(c) ==
  (IF c[1] = "async" THEN 0 ELSE 2) + (IF c[2] = "write" THEN 0 ELSE 1)
request_rank(c, data_dir) ==
  (IF c[2] = data_dir THEN 0 ELSE 2) + (IF c[1] = "sync" THEN 0 ELSE 1)

sio_choose_expired_request(c) ==
  Expired(c) /\ \A d \in Classes : Expired(d) => expired_rank(c) <= expired_rank(d)
sio_choose_request(c, data_dir) ==
  c \in Queued /\ \A d \in Queued : request_rank(c, data_dir) <= request_rank(d, data_dir)

AfterBatch == batched > fifo_batch

\* Mutant: the test for starving writes is dropped.
Direction_Read == "read"
Direction == IF starved > writes_starved THEN "write" ELSE "read"

\* What is dispatched has expired, and is dispatched for that.
ForExpiry == AfterBatch /\ \E d \in Classes : Expired(d)

\* The class whose first request is dispatched.
Chosen(c) ==
  IF ForExpiry
  THEN sio_choose_expired_request(c)
  ELSE sio_choose_request(c, Direction)

BatchedBefore == IF AfterBatch THEN 0 ELSE batched

sio_dispatch_request(c) == batched' = BatchedBefore + 1

dispatch(c) ==
  /\ Chosen(c)
  /\ sio_dispatch_request(c)
  /\ fifo_list' = [fifo_list EXCEPT ![c] = Tail(@)]
  /\ starved' = IF c[2] = "write" THEN 0 ELSE (starved + 1) % Word
  /\ passed' = IF c[2] = "read" /\ WriteQueued THEN passed + 1 ELSE 0
  /\ urgent' = IF c[2] = "read" /\ WriteQueued THEN urgent + (IF ForExpiry THEN 1 ELSE 0) ELSE 0
  /\ overdue' = IF c # AsyncWrite /\ Expired(AsyncWrite) THEN overdue + 1 ELSE 0
  /\ UNCHANGED <<fifo_time, added, fifo_batch, writes_starved, jiffies>>

\* Nothing is queued, but a batch may end.
dispatch_none ==
  /\ Queued = {}
  /\ batched' = BatchedBefore
  /\ UNCHANGED <<queue, starved, fifo_batch, writes_starved, jiffies, waits>>

\* sysfs: sio_fifo_batch_store, sio_writes_starved_store.
store(batch, starve) ==
  /\ fifo_batch' = batch /\ writes_starved' = starve
  /\ passed' = 0 /\ urgent' = 0 /\ overdue' = 0
  /\ UNCHANGED <<queue, batched, starved, jiffies>>

Next ==
  \/ tick \/ dispatch_none
  \/ \E c \in Classes :
       \/ sio_add_request(c)
       \/ dispatch(c)
       \/ \E d \in {e \in Classes : e[2] = c[2]} :
            \E m \in DOMAIN fifo_list[c], n \in DOMAIN fifo_list[d] : sio_merged_requests(c, m, d, n)
  \/ \E value \in Settings : store(value, writes_starved) \/ store(fifo_batch, value)

Spec == Init /\ [][Next]_vars

-----------------------------------------------------------------------------
\* The shape of the state; a request is queued at most once.
TypeOK ==
  /\ fifo_list \in [Classes -> Seq(1 .. added)] /\ fifo_time \in Seq(Nat)
  /\ Len(fifo_time) = added
  /\ \A c, d \in Classes : \A i \in DOMAIN fifo_list[c], j \in DOMAIN fifo_list[d] :
       fifo_list[c][i] = fifo_list[d][j] => <<c, i>> = <<d, j>>
  /\ batched \in Nat /\ fifo_batch \in Nat /\ {starved, writes_starved} \subseteq 0 .. Word - 1

\* The list is searched for expired requests at its front only, which finds one
\* if there is one: no request expires before the one at the front, whatever
\* has been merged.
FrontExpiresFirst ==
  \A c \in Queued : \A i \in DOMAIN fifo_list[c] :
    fifo_time[fifo_list[c][1]] <= fifo_time[fifo_list[c][i]]

\* A write that waits is passed by writes_starved + 1 reads and by those that are
\* dispatched because they have expired, unless these are so many that starved wraps.
\* While there are batches, an expired read passes only where a batch ends: one read
\* more, and one more still if starved, which nobody initialises, wraps first.
\* sio-iosched.c:32, "max times reads can starve a write", says one read fewer; and the
\* 2 of that line is the bound only once it is stored, as sio_init_queue does not.
WritesNotStarved ==
  /\ urgent < Word - writes_starved - 1 => passed <= writes_starved + 1 + urgent
  /\ fifo_batch > 0 /\ writes_starved < Word - 2 => passed <= writes_starved + 3

\* Asynchronous writes are the first to be served once they have expired, at the
\* end of the batch at the latest.
ExpiredWritesServed == overdue <= fifo_batch + 1

=============================================================================
