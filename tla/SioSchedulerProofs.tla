------------------------- MODULE SioSchedulerProofs --------------------------
(***************************************************************************)
(* Proofs about SioScheduler: the lists stay sorted by the time their      *)
(* requests expire, whatever is merged; a write is passed by a bounded     *)
(* number of reads, and an expired asynchronous write by at most a batch.  *)
(***************************************************************************)
EXTENDS SioScheduler, SequenceTheorems, TLAPS

Types ==
  /\ added \in Nat /\ jiffies \in Nat
  /\ fifo_list \in [Classes -> Seq(1 .. added)]
  /\ fifo_time \in Seq(Nat) /\ Len(fifo_time) = added
  /\ batched \in Nat /\ starved \in 0 .. Word - 1
  /\ fifo_batch \in Nat /\ writes_starved \in 0 .. Word - 1
  /\ passed \in Nat /\ urgent \in Nat /\ overdue \in Nat

Distinct ==
  \A c, d \in Classes : \A i \in DOMAIN fifo_list[c], j \in DOMAIN fifo_list[d] :
    fifo_list[c][i] = fifo_list[d][j] => <<c, i>> = <<d, j>>

TimeAt(c, i) == fifo_time[fifo_list[c][i]]

Sorted ==
  \A c \in Classes : \A i, j \in DOMAIN fifo_list[c] : i <= j => TimeAt(c, i) <= TimeAt(c, j)

InReach ==
  \A c \in Classes : \A i \in DOMAIN fifo_list[c] : TimeAt(c, i) <= jiffies + fifo_expire[c]

ListsInv == Types /\ Distinct /\ Sorted /\ InReach

\* Once starved is past writes_starved only expired reads pass a write; starved counts
\* the others, if it has not wrapped.
CountedReads ==
  urgent < Word - writes_starved - 1 =>
    /\ starved <= writes_starved => passed <= starved + urgent
    /\ starved > writes_starved /\ passed > urgent =>
         passed <= writes_starved + 1 + urgent /\ starved <= writes_starved + 1 + urgent
    /\ passed >= urgent

\* With batches, starved is past writes_starved by one; or an expired read has just
\* ended a batch, so that the next to be dispatched is a write.
BatchedReads ==
  fifo_batch > 0 /\ writes_starved < Word - 2 =>
    \/ passed = 0
    \/ starved <= writes_starved /\ passed <= starved + 1
    \/ starved = writes_starved + 1 /\ passed <= writes_starved + 2
    \/ starved > writes_starved /\ passed <= writes_starved + 3 /\ batched <= 1

PassedInv == CountedReads /\ BatchedReads

OverdueInv ==
  /\ overdue <= batched /\ overdue <= fifo_batch + 1
  /\ overdue > 0 => Queued # {}

IInv == ListsInv /\ PassedInv /\ OverdueInv
-----------------------------------------------------------------------------
\* Where the entry at position i of a list stood before position n was removed.
Before(i, n) == IF i < n THEN i ELSE i + 1

\* An unsigned int is incremented, or wraps.
LEMMA Increment ==
  ASSUME NEW n \in 0 .. Word - 1
  PROVE  (n + 1) % Word = IF n = Word - 1 THEN 0 ELSE n + 1
<1>1. Word \in Nat \ {0}
  BY SioAssumption
<1>2. CASE n = Word - 1
  BY <1>1, <1>2
<1>3. CASE n # Word - 1
  BY <1>1, <1>3
<1> QED BY <1>2, <1>3

\* RemoveAt keeps the other entries in their order.
LEMMA RemoveAtEntries ==
  ASSUME NEW S, NEW s \in Seq(S), NEW n \in DOMAIN s
  PROVE  /\ RemoveAt(s, n) \in Seq(S)
         /\ Len(RemoveAt(s, n)) = Len(s) - 1
         /\ DOMAIN RemoveAt(s, n) = 1 .. Len(s) - 1
         /\ \A i \in 1 .. Len(s) - 1 :
              /\ Before(i, n) \in DOMAIN s /\ Before(i, n) # n
              /\ RemoveAt(s, n)[i] = s[Before(i, n)]
<1> DEFINE a == SubSeq(s, 1, n - 1)
           b == SubSeq(s, n + 1, Len(s))
<1>1. n \in 1 .. Len(s) /\ Len(s) \in Nat /\ DOMAIN s = 1 .. Len(s) /\ n \in Nat
  OBVIOUS
<1>2. a \in Seq(S) /\ Len(a) = n - 1 /\ \A i \in 1 .. n - 1 : a[i] = s[i]
  BY <1>1
<1>3. b \in Seq(S) /\ Len(b) = Len(s) - n /\ \A i \in 1 .. Len(s) - n : b[i] = s[n + i]
  BY <1>1
<1>4. RemoveAt(s, n) = a \o b
  BY DEF RemoveAt
<1> HIDE DEF a, b
<1>5. /\ a \o b \in Seq(S) /\ Len(a \o b) = Len(s) - 1
      /\ DOMAIN (a \o b) = 1 .. Len(s) - 1
  <2>1. a \o b \in Seq(S) /\ Len(a \o b) = Len(a) + Len(b)
    BY <1>2, <1>3, ConcatProperties
  <2>2. Len(a) + Len(b) = Len(s) - 1
    BY <1>1, <1>2, <1>3
  <2>3. DOMAIN (a \o b) = 1 .. Len(a \o b)
    BY <2>1, LenProperties
  <2> QED BY <2>1, <2>2, <2>3
<1>6. ASSUME NEW i \in 1 .. Len(s) - 1
      PROVE  /\ Before(i, n) \in DOMAIN s /\ Before(i, n) # n
             /\ (a \o b)[i] = s[Before(i, n)]
  <2>1. CASE i < n
    BY <1>1, <1>2, <1>3, <2>1 DEF Before
  <2>2. CASE ~ (i < n)
    <3>1. (a \o b)[i] = b[i - (n - 1)]
      <4>1. i \in 1 .. Len(a) + Len(b) /\ ~ (i <= Len(a)) /\ Len(a) = n - 1
        BY <1>1, <1>2, <1>3, <2>2
      <4>2. (a \o b)[i] = IF i <= Len(a) THEN a[i] ELSE b[i - Len(a)]
        BY <1>2, <1>3, <4>1, ConcatProperties
      <4> QED BY <4>1, <4>2
    <3>2. i - (n - 1) \in 1 .. Len(s) - n /\ n + (i - (n - 1)) = i + 1
      BY <1>1, <2>2
    <3>3. b[i - (n - 1)] = s[i + 1]
      BY <1>3, <3>2
    <3>4. Before(i, n) = i + 1 /\ i + 1 \in DOMAIN s /\ i + 1 # n
      BY <1>1, <2>2 DEF Before
    <3> QED BY <3>1, <3>3, <3>4
  <2> QED BY <2>1, <2>2
<1> QED BY <1>4, <1>5, <1>6, Zenon

\* Dispatching removes the first entry.
LEMMA TailRemovesFirst ==
  ASSUME NEW S, NEW s \in Seq(S), s # <<>>
  PROVE  1 \in DOMAIN s /\ Tail(s) = RemoveAt(s, 1)
<1>1. 1 \in DOMAIN s /\ Len(s) \in Nat
  OBVIOUS
<1>2. Tail(s) \in Seq(S) /\ Len(Tail(s)) = Len(s) - 1
  BY HeadTailProperties
<1>3. \A i \in 1 .. Len(s) - 1 : Tail(s)[i] = s[Before(i, 1)]
  BY <1>1, HeadTailProperties DEF Before
<1>4. /\ RemoveAt(s, 1) \in Seq(S) /\ Len(RemoveAt(s, 1)) = Len(s) - 1
      /\ \A i \in 1 .. Len(s) - 1 : RemoveAt(s, 1)[i] = s[Before(i, 1)]
  BY <1>1, RemoveAtEntries
<1>5. Tail(s) = RemoveAt(s, 1)
  BY <1>2, <1>3, <1>4, SeqEqual
<1> QED BY <1>1, <1>5

\* Where the entries of each list stood before position n of class d was removed.
From(d, n) == [c \in Classes |-> [i \in Nat |-> IF c = d THEN Before(i, n) ELSE i]]

Without(lists, d, n) == [lists EXCEPT ![d] = RemoveAt(@, n)]

\* The entries of new are those of lists, in their old order, but the one at
\* position n of class d.
KeepsOthers(new, lists, d, n) ==
  \A c \in Classes : \A i \in DOMAIN new[c] :
    /\ i \in Nat
    /\ From(d, n)[c][i] \in DOMAIN lists[c]
    /\ <<c, From(d, n)[c][i]>> # <<d, n>>
    /\ new[c][i] = lists[c][From(d, n)[c][i]]

\* Removing one entry from one list.
LEMMA WithoutEntries ==
  ASSUME NEW S, NEW lists \in [Classes -> Seq(S)],
         NEW d \in Classes, NEW n \in DOMAIN lists[d]
  PROVE  /\ Without(lists, d, n) \in [Classes -> Seq(S)]
         /\ KeepsOthers(Without(lists, d, n), lists, d, n)
<1> DEFINE new == Without(lists, d, n)
<1>1. lists[d] \in Seq(S)
  OBVIOUS
<1>2. /\ RemoveAt(lists[d], n) \in Seq(S)
      /\ DOMAIN RemoveAt(lists[d], n) = 1 .. Len(lists[d]) - 1
      /\ \A i \in 1 .. Len(lists[d]) - 1 :
           /\ Before(i, n) \in DOMAIN lists[d] /\ Before(i, n) # n
           /\ RemoveAt(lists[d], n)[i] = lists[d][Before(i, n)]
  BY <1>1, RemoveAtEntries
<1>3. new \in [Classes -> Seq(S)]
  BY <1>2 DEF Without
<1>4. new[d] = RemoveAt(lists[d], n) /\ \A c \in Classes : c # d => new[c] = lists[c]
  BY DEF Without
<1>5. ASSUME NEW c \in Classes, NEW i \in DOMAIN new[c]
      PROVE  /\ i \in Nat
             /\ From(d, n)[c][i] \in DOMAIN lists[c]
             /\ <<c, From(d, n)[c][i]>> # <<d, n>>
             /\ new[c][i] = lists[c][From(d, n)[c][i]]
  <2>1. i \in Nat /\ DOMAIN lists[c] \subseteq Nat
    <3>1. new[c] \in Seq(S) /\ lists[c] \in Seq(S)
      BY <1>3
    <3> HIDE DEF new
    <3> QED BY <1>5, <3>1
  <2>2. From(d, n)[c][i] = IF c = d THEN Before(i, n) ELSE i
    BY <2>1 DEF From
  <2>3. CASE c = d
    <3>1. /\ i \in 1 .. Len(lists[d]) - 1
          /\ new[c][i] = RemoveAt(lists[d], n)[i]
      BY <1>2, <1>4, <1>5, <2>3
    <3> QED BY <1>2, <2>1, <2>2, <2>3, <3>1
  <2>4. CASE c # d
    BY <1>4, <1>5, <2>1, <2>2, <2>4
  <2> QED BY <2>3, <2>4
<1> QED BY <1>3, <1>5 DEF KeepsOthers

\* The entries keep their order.
LEMMA FromIncreases ==
  ASSUME NEW d \in Classes, NEW n \in Nat, NEW c \in Classes,
         NEW i \in Nat, NEW j \in Nat, i <= j
  PROVE  From(d, n)[c][i] <= From(d, n)[c][j] /\ (i # j => From(d, n)[c][i] # From(d, n)[c][j])
  BY DEF From, Before
-----------------------------------------------------------------------------
\* Removing an entry, with every other entry expiring when the entry at its old
\* position did, keeps the lists sorted.
LEMMA SortedKept ==
  ASSUME Types, Sorted, InReach, NEW d \in Classes, NEW n \in Nat,
         jiffies' = jiffies,
         \A c \in Classes : \A i \in DOMAIN fifo_list'[c] :
           /\ i \in Nat
           /\ From(d, n)[c][i] \in DOMAIN fifo_list[c]
           /\ fifo_time'[fifo_list'[c][i]] = fifo_time[fifo_list[c][From(d, n)[c][i]]]
  PROVE  Sorted' /\ InReach'
<1>1. ASSUME NEW c \in Classes, NEW i \in DOMAIN fifo_list'[c], NEW j \in DOMAIN fifo_list'[c],
             i <= j
      PROVE  fifo_time'[fifo_list'[c][i]] <= fifo_time'[fifo_list'[c][j]]
  <2>1. From(d, n)[c][i] <= From(d, n)[c][j]
    BY <1>1, FromIncreases
  <2> QED BY <1>1, <2>1 DEF Sorted, TimeAt
<1>2. ASSUME NEW c \in Classes, NEW i \in DOMAIN fifo_list'[c]
      PROVE  fifo_time'[fifo_list'[c][i]] <= jiffies' + fifo_expire[c]
  BY <1>2 DEF InReach, TimeAt
<1> QED BY <1>1, <1>2 DEF Sorted, InReach, TimeAt

\* Removing an entry keeps requests queued once.
LEMMA DistinctKept ==
  ASSUME Distinct, NEW d \in Classes, NEW n \in Nat,
         \A c \in Classes : \A i \in DOMAIN fifo_list'[c] :
           /\ i \in Nat
           /\ From(d, n)[c][i] \in DOMAIN fifo_list[c]
           /\ fifo_list'[c][i] = fifo_list[c][From(d, n)[c][i]]
  PROVE  Distinct'
<1>1. ASSUME NEW c \in Classes, NEW e \in Classes,
             NEW i \in DOMAIN fifo_list'[c], NEW j \in DOMAIN fifo_list'[e],
             fifo_list'[c][i] = fifo_list'[e][j]
      PROVE  <<c, i>> = <<e, j>>
  <2>1. c = e /\ From(d, n)[c][i] = From(d, n)[e][j]
    BY <1>1 DEF Distinct
  <2>2. i <= j \/ j <= i
    BY <1>1
  <2> QED BY <1>1, <2>1, <2>2, FromIncreases
<1> QED BY <1>1 DEF Distinct
-----------------------------------------------------------------------------
\* A merge: rq stands where next stood and expires when next did, or next is gone.
LEMMA MergeKeepsLists ==
  ASSUME ListsInv, NEW c \in Classes, NEW d \in Classes,
         NEW m \in DOMAIN fifo_list[c], NEW n \in DOMAIN fifo_list[d],
         sio_merged_requests(c, m, d, n)
  PROVE  ListsInv' /\ Queued' # {}
<1> USE DEF ListsInv
<1> DEFINE rq   == fifo_list[c][m]
           next == fifo_list[d][n]
           moved == [fifo_list EXCEPT ![d][n] = rq]
<1>1. /\ fifo_list \in [Classes -> Seq(1 .. added)] /\ fifo_time \in Seq(Nat)
      /\ Len(fifo_time) = added /\ added \in Nat /\ jiffies \in Nat
  BY DEF Types
<1>2. m \in Nat /\ n \in Nat /\ m \in 1 .. Len(fifo_list[c]) /\ n \in 1 .. Len(fifo_list[d])
  BY <1>1
<1>3. rq \in 1 .. added /\ next \in 1 .. added
  BY <1>1, <1>2
<1>4. <<c, m>> # <<d, n>>
  BY DEF sio_merged_requests, Merged
<1>5. CASE ~ Earlier(c, m, d, n)
  <2>1. fifo_list' = Without(fifo_list, d, n) /\ fifo_time' = fifo_time
    BY <1>5 DEF sio_merged_requests, Merged, Without
  <2>2. /\ fifo_list' \in [Classes -> Seq(1 .. added)]
        /\ \A e \in Classes : \A i \in DOMAIN fifo_list'[e] :
             /\ i \in Nat
             /\ From(d, n)[e][i] \in DOMAIN fifo_list[e]
             /\ fifo_list'[e][i] = fifo_list[e][From(d, n)[e][i]]
    <3>1. /\ Without(fifo_list, d, n) \in [Classes -> Seq(1 .. added)]
          /\ KeepsOthers(Without(fifo_list, d, n), fifo_list, d, n)
      BY <1>1, WithoutEntries, Zenon
    <3> QED BY <2>1, <3>1 DEF KeepsOthers
  <2>3. Types' /\ jiffies' = jiffies
    BY <2>1, <2>2 DEF sio_merged_requests, Merged, Types, waits
  <2>4. Distinct'
    BY <1>2, <2>2, DistinctKept
  <2>5. Sorted' /\ InReach'
    <3>1. \A e \in Classes : \A i \in DOMAIN fifo_list'[e] :
            /\ i \in Nat
            /\ From(d, n)[e][i] \in DOMAIN fifo_list[e]
            /\ fifo_time'[fifo_list'[e][i]] = fifo_time[fifo_list[e][From(d, n)[e][i]]]
      BY <2>1, <2>2
    <3> QED BY <1>2, <2>3, <3>1, SortedKept
  <2>6. Queued' # {}
    <3>1. CASE c = d
      <4>1. fifo_list'[d] = RemoveAt(fifo_list[d], n)
        BY <1>1, <2>1 DEF Without
      <4>2. Len(fifo_list'[d]) = Len(fifo_list[d]) - 1
        BY <1>1, <4>1, RemoveAtEntries
      <4>3. Len(fifo_list[d]) >= 2
        BY <1>1, <1>2, <1>4, <3>1
      <4> QED BY <2>2, <4>2, <4>3 DEF Queued
    <3>2. CASE c # d
      <4>1. fifo_list'[c] = fifo_list[c] /\ fifo_list[c] # <<>>
        BY <1>1, <1>2, <2>1, <3>2 DEF Without
      <4> QED BY <4>1 DEF Queued
    <3> QED BY <3>1, <3>2
  <2> QED BY <2>3, <2>4, <2>5, <2>6
<1>6. CASE Earlier(c, m, d, n)
  <2>1. /\ fifo_list' = Without(moved, c, m)
        /\ fifo_time' = [fifo_time EXCEPT ![rq] = fifo_time[next]]
    BY <1>6 DEF sio_merged_requests, Merged, LeavesOwnPlace, Without
  <2>2. /\ moved \in [Classes -> Seq(1 .. added)]
        /\ \A e \in Classes : DOMAIN moved[e] = DOMAIN fifo_list[e]
        /\ \A e \in Classes : \A i \in DOMAIN fifo_list[e] :
             moved[e][i] = IF <<e, i>> = <<d, n>> THEN rq ELSE fifo_list[e][i]
    <3>1. /\ [fifo_list[d] EXCEPT ![n] = rq] \in Seq(1 .. added)
          /\ Len([fifo_list[d] EXCEPT ![n] = rq]) = Len(fifo_list[d])
          /\ \A j \in 1 .. Len(fifo_list[d]) :
               [fifo_list[d] EXCEPT ![n] = rq][j] = IF j = n THEN rq ELSE fifo_list[d][j]
      BY <1>1, <1>2, <1>3, ExceptSeq
    <3>2. moved = [fifo_list EXCEPT ![d] = [fifo_list[d] EXCEPT ![n] = rq]]
      BY <1>1
    <3>3. /\ moved[d] = [fifo_list[d] EXCEPT ![n] = rq]
          /\ \A e \in Classes : e # d => moved[e] = fifo_list[e]
      BY <1>1, <3>2
    <3>4. moved \in [Classes -> Seq(1 .. added)]
      BY <1>1, <3>1, <3>2
    <3>5. /\ DOMAIN moved[d] = DOMAIN fifo_list[d] /\ DOMAIN fifo_list[d] = 1 .. Len(fifo_list[d])
      BY <1>1, <3>1, <3>3
    <3> HIDE DEF moved
    <3> QED BY <3>1, <3>3, <3>4, <3>5
  <2> HIDE DEF moved
  <2>3. m \in DOMAIN moved[c]
    BY <2>2
  <2>4. /\ fifo_list' \in [Classes -> Seq(1 .. added)]
        /\ \A e \in Classes : \A i \in DOMAIN fifo_list'[e] :
             /\ i \in Nat
             /\ From(c, m)[e][i] \in DOMAIN fifo_list[e]
             /\ <<e, From(c, m)[e][i]>> # <<c, m>>
             /\ fifo_list'[e][i] = IF <<e, From(c, m)[e][i]>> = <<d, n>> THEN rq
                                   ELSE fifo_list[e][From(c, m)[e][i]]
    <3>1. /\ fifo_list' \in [Classes -> Seq(1 .. added)]
          /\ \A e \in Classes : \A i \in DOMAIN fifo_list'[e] :
               /\ i \in Nat
               /\ From(c, m)[e][i] \in DOMAIN moved[e]
               /\ <<e, From(c, m)[e][i]>> # <<c, m>>
               /\ fifo_list'[e][i] = moved[e][From(c, m)[e][i]]
      <4>1. /\ Without(moved, c, m) \in [Classes -> Seq(1 .. added)]
            /\ KeepsOthers(Without(moved, c, m), moved, c, m)
        BY <2>2, <2>3, WithoutEntries, Zenon
      <4> QED BY <2>1, <4>1 DEF KeepsOthers
    <3> QED BY <2>2, <3>1
  <2>5. /\ fifo_time' \in Seq(Nat) /\ Len(fifo_time') = added /\ fifo_time'[rq] = fifo_time[next]
        /\ \A r \in 1 .. added : r # rq => fifo_time'[r] = fifo_time[r]
    <3>1. rq \in 1 .. Len(fifo_time) /\ fifo_time[next] \in Nat
      BY <1>1, <1>3
    <3> QED BY <1>1, <1>3, <2>1, <3>1, ExceptSeq
  <2>6. Types' /\ jiffies' = jiffies
    BY <2>4, <2>5 DEF sio_merged_requests, Merged, Types, waits
  <2>7. \A e \in Classes : \A i \in DOMAIN fifo_list[e] :
          <<e, i>> # <<c, m>> => fifo_list[e][i] # rq /\ fifo_list[e][i] \in 1 .. added
    BY <1>1 DEF Distinct
  <2>8. \A e \in Classes : \A i \in DOMAIN fifo_list'[e] :
          /\ i \in Nat
          /\ From(c, m)[e][i] \in DOMAIN fifo_list[e]
          /\ fifo_time'[fifo_list'[e][i]] = fifo_time[fifo_list[e][From(c, m)[e][i]]]
    BY <2>4, <2>5, <2>7
  <2>9. Sorted' /\ InReach'
    BY <1>2, <2>6, <2>8, SortedKept
  <2>10. Distinct'
    <3>1. ASSUME NEW e \in Classes, NEW f \in Classes,
                 NEW i \in DOMAIN fifo_list'[e], NEW j \in DOMAIN fifo_list'[f],
                 fifo_list'[e][i] = fifo_list'[f][j]
          PROVE  <<e, i>> = <<f, j>>
      <4>1. <<e, From(c, m)[e][i]>> = <<f, From(c, m)[f][j]>>
        BY <2>4, <2>7, <3>1 DEF Distinct
      <4>2. i \in Nat /\ j \in Nat /\ (i <= j \/ j <= i)
        BY <2>4, <3>1
      <4> QED BY <1>2, <4>1, <4>2, FromIncreases
    <3> QED BY <3>1 DEF Distinct
  <2>11. Queued' # {}
    <3>1. fifo_list'[c] = RemoveAt(moved[c], m)
      BY <2>1, <2>2 DEF Without
    <3>2. Len(moved[c]) = Len(fifo_list[c]) /\ Len(moved[d]) = Len(fifo_list[d])
      BY <1>1, <2>2, LenProperties
    <3>3. CASE c = d
      <4>1. Len(fifo_list'[c]) = Len(fifo_list[c]) - 1
        BY <2>2, <2>3, <3>1, <3>2, RemoveAtEntries
      <4>2. Len(fifo_list[c]) >= 2
        BY <1>1, <1>2, <1>4, <3>3
      <4> QED BY <2>4, <4>1, <4>2 DEF Queued
    <3>4. CASE c # d
      <4>1. fifo_list'[d] = moved[d]
        BY <2>1, <2>2, <3>4 DEF Without
      <4>2. Len(fifo_list'[d]) >= 1
        BY <1>1, <1>2, <3>2, <4>1
      <4> QED BY <2>4, <4>2 DEF Queued
    <3> QED BY <3>3, <3>4
  <2> QED BY <2>6, <2>9, <2>10, <2>11
<1> QED BY <1>5, <1>6

\* A new request expires after those of its list.
LEMMA AddKeepsLists ==
  ASSUME ListsInv, NEW c \in Classes, sio_add_request(c)
  PROVE  ListsInv' /\ Queued' # {}
<1> USE DEF ListsInv
<1>1. /\ fifo_list \in [Classes -> Seq(1 .. added)] /\ fifo_time \in Seq(Nat)
      /\ Len(fifo_time) = added /\ added \in Nat /\ jiffies \in Nat
      /\ fifo_expire \in [Classes -> Nat]
  BY SioAssumption DEF Types
<1>2. /\ added' = added + 1 /\ jiffies' = jiffies
      /\ fifo_time' = Append(fifo_time, jiffies + fifo_expire[c])
      /\ fifo_list' = [fifo_list EXCEPT ![c] = Append(fifo_list[c], added + 1)]
  BY <1>1 DEF sio_add_request
<1>3. /\ fifo_time' \in Seq(Nat) /\ Len(fifo_time') = added + 1
      /\ fifo_time'[added + 1] = jiffies + fifo_expire[c]
      /\ \A r \in 1 .. added : fifo_time'[r] = fifo_time[r]
  BY <1>1, <1>2
<1>4. /\ fifo_list'[c] = Append(fifo_list[c], added + 1)
      /\ \A d \in Classes : d # c => fifo_list'[d] = fifo_list[d]
  BY <1>1, <1>2
<1>5. fifo_list' \in [Classes -> Seq(1 .. added')]
  <2>1. \A d \in Classes : fifo_list[d] \in Seq(1 .. added + 1)
    BY <1>1, SeqMonotonic
  <2>2. Append(fifo_list[c], added + 1) \in Seq(1 .. added + 1)
    BY <1>1, <2>1
  <2> QED BY <1>1, <1>2, <2>1, <2>2
<1>6. \A d \in Classes : \A i \in DOMAIN fifo_list[d] :
        /\ fifo_list[d][i] \in 1 .. added /\ i \in 1 .. Len(fifo_list[d])
        /\ Len(fifo_list[d]) \in Nat
  BY <1>1
<1>7. ASSUME NEW d \in Classes, NEW i \in DOMAIN fifo_list'[d]
      PROVE  /\ i \in Nat
             /\ \/ i \in DOMAIN fifo_list[d] /\ fifo_list'[d][i] = fifo_list[d][i]
                \/ /\ i \notin DOMAIN fifo_list[d]
                   /\ d = c /\ i = Len(fifo_list[c]) + 1 /\ fifo_list'[d][i] = added + 1
  <2>1. CASE d = c
    <3>1. /\ fifo_list[c] \in Seq(Nat) /\ added + 1 \in Nat
          /\ DOMAIN fifo_list[c] = 1 .. Len(fifo_list[c]) /\ Len(fifo_list[c]) \in Nat
      BY <1>1
    <3>2. /\ DOMAIN Append(fifo_list[c], added + 1) = 1 .. Len(fifo_list[c]) + 1
          /\ Append(fifo_list[c], added + 1)[Len(fifo_list[c]) + 1] = added + 1
          /\ \A j \in 1 .. Len(fifo_list[c]) :
               Append(fifo_list[c], added + 1)[j] = fifo_list[c][j]
      BY <3>1
    <3> QED BY <1>4, <1>7, <2>1, <3>1, <3>2
  <2>2. CASE d # c
    BY <1>1, <1>4, <1>7, <2>2
  <2> QED BY <2>1, <2>2
<1>8. Types'
  BY <1>2, <1>3, <1>5 DEF sio_add_request, Types, waits
<1>9. Distinct'
  <2>1. ASSUME NEW d \in Classes, NEW e \in Classes,
               NEW i \in DOMAIN fifo_list'[d], NEW j \in DOMAIN fifo_list'[e],
               fifo_list'[d][i] = fifo_list'[e][j]
        PROVE  <<d, i>> = <<e, j>>
    <3>1. CASE i \in DOMAIN fifo_list[d] /\ j \in DOMAIN fifo_list[e]
      BY <1>7, <2>1, <3>1 DEF Distinct
    <3>2. CASE i \notin DOMAIN fifo_list[d] /\ j \notin DOMAIN fifo_list[e]
      BY <1>7, <2>1, <3>2
    <3>3. CASE i \in DOMAIN fifo_list[d] /\ j \notin DOMAIN fifo_list[e]
      <4>1. fifo_list'[d][i] \in 1 .. added /\ fifo_list'[e][j] = added + 1
        BY <1>6, <1>7, <3>3
      <4> QED BY <1>1, <2>1, <4>1
    <3>4. CASE i \notin DOMAIN fifo_list[d] /\ j \in DOMAIN fifo_list[e]
      <4>1. fifo_list'[e][j] \in 1 .. added /\ fifo_list'[d][i] = added + 1
        BY <1>6, <1>7, <3>4
      <4> QED BY <1>1, <2>1, <4>1
    <3> QED BY <3>1, <3>2, <3>3, <3>4
  <2> QED BY <2>1 DEF Distinct
<1>10. ASSUME NEW d \in Classes, NEW i \in DOMAIN fifo_list'[d]
       PROVE  /\ fifo_time'[fifo_list'[d][i]] \in Nat
              /\ fifo_time'[fifo_list'[d][i]] <= jiffies + fifo_expire[d]
              /\ i \in DOMAIN fifo_list[d] =>
                   fifo_time'[fifo_list'[d][i]] = fifo_time[fifo_list[d][i]]
              /\ i \notin DOMAIN fifo_list[d] =>
                   fifo_time'[fifo_list'[d][i]] = jiffies + fifo_expire[d]
  <2>1. CASE i \in DOMAIN fifo_list[d]
    <3>1. fifo_list'[d][i] = fifo_list[d][i] /\ fifo_list[d][i] \in 1 .. added
      BY <1>6, <1>7, <1>10, <2>1
    <3>2. fifo_time'[fifo_list'[d][i]] = fifo_time[fifo_list[d][i]]
      BY <1>3, <3>1
    <3>3. fifo_time[fifo_list[d][i]] \in Nat
      BY <1>1, <3>1
    <3> QED BY <2>1, <3>2, <3>3 DEF InReach, TimeAt
  <2>2. CASE i \notin DOMAIN fifo_list[d]
    <3>1. d = c /\ fifo_list'[d][i] = added + 1
      BY <1>7, <1>10, <2>2
    <3> QED BY <1>1, <1>3, <2>2, <3>1
  <2> QED BY <2>1, <2>2
<1>11. InReach'
  BY <1>2, <1>10 DEF InReach, TimeAt
<1>12. Sorted'
  <2>1. ASSUME NEW d \in Classes, NEW i \in DOMAIN fifo_list'[d], NEW j \in DOMAIN fifo_list'[d],
               i <= j
        PROVE  fifo_time'[fifo_list'[d][i]] <= fifo_time'[fifo_list'[d][j]]
    <3>1. CASE j \in DOMAIN fifo_list[d]
      <4>1. i \in DOMAIN fifo_list[d]
        BY <1>1, <1>6, <1>7, <2>1, <3>1
      <4> QED BY <1>10, <2>1, <3>1, <4>1 DEF Sorted, TimeAt
    <3>2. CASE j \notin DOMAIN fifo_list[d]
      BY <1>10, <3>2
    <3> QED BY <3>1, <3>2
  <2> QED BY <2>1 DEF Sorted, TimeAt
<1>13. Queued' # {}
  BY <1>1, <1>4 DEF Queued
<1> QED BY <1>8, <1>9, <1>11, <1>12, <1>13

\* Dispatching removes the first request of a list.
LEMMA DispatchKeepsLists ==
  ASSUME ListsInv, NEW c \in Classes, dispatch(c)
  PROVE  ListsInv'
<1> USE DEF ListsInv
<1>1. /\ fifo_list \in [Classes -> Seq(1 .. added)] /\ added \in Nat
      /\ batched \in Nat /\ passed \in Nat /\ overdue \in Nat
  BY DEF Types
<1>2. fifo_list[c] # <<>>
  BY DEF dispatch, Chosen, ForExpiry, sio_choose_expired_request, sio_choose_request, Expired, Queued
<1>3. 1 \in DOMAIN fifo_list[c] /\ Tail(fifo_list[c]) = RemoveAt(fifo_list[c], 1)
  BY <1>1, <1>2, TailRemovesFirst
<1>4. fifo_list' = Without(fifo_list, c, 1) /\ fifo_time' = fifo_time /\ jiffies' = jiffies
  BY <1>1, <1>3 DEF dispatch, Without
<1>5. /\ Without(fifo_list, c, 1) \in [Classes -> Seq(1 .. added)]
      /\ KeepsOthers(Without(fifo_list, c, 1), fifo_list, c, 1)
  BY <1>1, <1>3, WithoutEntries, Zenon
<1>6. /\ fifo_list' \in [Classes -> Seq(1 .. added)]
      /\ KeepsOthers(fifo_list', fifo_list, c, 1)
  BY <1>4, <1>5
<1>7. Types'
  <2>1. starved \in 0 .. Word - 1 /\ Word \in Nat \ {0} /\ batched \in Nat
        /\ {passed, urgent, overdue} \subseteq Nat
    BY SioAssumption DEF Types
  <2>2. starved' \in 0 .. Word - 1
    BY <2>1, Increment DEF dispatch
  <2>3. batched' \in Nat /\ passed' \in Nat /\ urgent' \in Nat /\ overdue' \in Nat
    BY <2>1 DEF dispatch, sio_dispatch_request, BatchedBefore
  <2> QED BY <1>1, <1>6, <2>2, <2>3 DEF dispatch, Types
<1>8. Distinct'
  <2>1. \A e \in Classes : \A i \in DOMAIN fifo_list'[e] :
          /\ i \in Nat
          /\ From(c, 1)[e][i] \in DOMAIN fifo_list[e]
          /\ fifo_list'[e][i] = fifo_list[e][From(c, 1)[e][i]]
    BY <1>6 DEF KeepsOthers
  <2>2. Distinct /\ 1 \in Nat
    OBVIOUS
  <2> HIDE DEF ListsInv
  <2> QED BY <2>1, <2>2, DistinctKept, Zenon
<1>9. \A e \in Classes : \A i \in DOMAIN fifo_list'[e] :
        /\ i \in Nat
        /\ From(c, 1)[e][i] \in DOMAIN fifo_list[e]
        /\ fifo_time'[fifo_list'[e][i]] = fifo_time[fifo_list[e][From(c, 1)[e][i]]]
  BY <1>4, <1>6 DEF KeepsOthers
<1>10. Sorted' /\ InReach'
  BY <1>4, <1>9, SortedKept
<1> QED BY <1>7, <1>8, <1>10
-----------------------------------------------------------------------------
LEMMA ClassList ==
  Classes = {<<"async", "read">>, <<"async", "write">>, <<"sync", "read">>, <<"sync", "write">>}
  BY DEF Classes

\* While writes are preferred and one is queued, only an expired read is chosen.
LEMMA ReadChosen ==
  ASSUME NEW c \in Classes, Chosen(c), c[2] = "read", WriteQueued, starved > writes_starved
  PROVE  ForExpiry
<1>1. SUFFICES ASSUME ~ ForExpiry PROVE FALSE
  OBVIOUS
<1>2. c \in Queued /\ \A d \in Queued : request_rank(c, "write") <= request_rank(d, "write")
  BY <1>1 DEF Chosen, sio_choose_request, Direction
<1>3. PICK w \in Queued : w[2] = "write"
  BY DEF WriteQueued
<1>4. request_rank(c, "write") <= request_rank(w, "write")
  BY <1>2
<1>5. request_rank(c, "write") >= 2
  BY DEF request_rank
<1>6. request_rank(w, "write") <= 1
  BY <1>3 DEF request_rank
<1>7. request_rank(c, "write") \in Nat /\ request_rank(w, "write") \in Nat
  BY DEF request_rank
<1> QED BY <1>4, <1>5, <1>6, <1>7

\* An expired asynchronous write is chosen when a batch ends.
LEMMA ExpiredWriteChosen ==
  ASSUME NEW c \in Classes, Chosen(c), AfterBatch, Expired(AsyncWrite)
  PROVE  c = AsyncWrite
<1>1. AsyncWrite \in Classes
  BY ClassList DEF AsyncWrite
<1>2. expired_rank(c) <= expired_rank(AsyncWrite)
  BY <1>1 DEF Chosen, ForExpiry, sio_choose_expired_request
<1>3. expired_rank(AsyncWrite) = 0
  BY DEF expired_rank, AsyncWrite
<1>4. \A d \in Classes : d # AsyncWrite => expired_rank(d) >= 1
  BY ClassList DEF expired_rank, AsyncWrite
<1>5. expired_rank(c) \in Nat
  BY DEF expired_rank
<1> QED BY <1>2, <1>3, <1>4, <1>5

LEMMA DispatchKeepsPassed ==
  ASSUME Types, PassedInv, NEW c \in Classes, dispatch(c)
  PROVE  PassedInv'
<1>1. /\ batched \in Nat /\ starved \in 0 .. Word - 1 /\ passed \in Nat /\ urgent \in Nat
      /\ fifo_batch \in Nat /\ writes_starved \in 0 .. Word - 1 /\ Word \in Nat \ {0}
  BY SioAssumption DEF Types
<1>2. /\ fifo_batch' = fifo_batch /\ writes_starved' = writes_starved
      /\ batched' = (IF AfterBatch THEN 0 ELSE batched) + 1
      /\ starved' = IF c[2] = "write" THEN 0 ELSE (starved + 1) % Word
      /\ passed' = IF c[2] = "read" /\ WriteQueued THEN passed + 1 ELSE 0
      /\ urgent' = IF c[2] = "read" /\ WriteQueued THEN urgent + (IF ForExpiry THEN 1 ELSE 0) ELSE 0
  BY DEF dispatch, sio_dispatch_request, BatchedBefore
<1>3. c[2] = "read" \/ c[2] = "write"
  BY ClassList
<1>4. CASE c[2] = "read" /\ WriteQueued
  <2>1. /\ passed' = passed + 1
        /\ starved' = IF starved = Word - 1 THEN 0 ELSE starved + 1
        /\ urgent' = urgent + (IF ForExpiry THEN 1 ELSE 0)
    BY <1>1, <1>2, <1>4, Increment
  <2>2. CASE starved > writes_starved
    <3>1. ForExpiry
      BY <1>4, <2>2, ReadChosen DEF dispatch
    <3>2. batched' = 1 /\ batched > fifo_batch /\ urgent' = urgent + 1
      BY <1>2, <2>1, <3>1 DEF ForExpiry, AfterBatch
    <3>3. CountedReads'
      BY <1>1, <1>2, <2>1, <2>2, <3>2 DEF PassedInv, CountedReads
    <3>4. BatchedReads'
      BY <1>1, <1>2, <2>1, <2>2, <3>2 DEF PassedInv, BatchedReads
    <3> QED BY <3>3, <3>4 DEF PassedInv
  <2>3. CASE ~ (starved > writes_starved)
    <3>1. urgent' = urgent \/ urgent' = urgent + 1
      BY <1>1, <2>1
    <3>2. CountedReads'
      BY <1>1, <1>2, <2>1, <2>3, <3>1 DEF PassedInv, CountedReads
    <3>3. BatchedReads'
      BY <1>1, <1>2, <2>1, <2>3 DEF PassedInv, BatchedReads
    <3> QED BY <3>2, <3>3 DEF PassedInv
  <2> QED BY <1>1, <2>2, <2>3
<1>5. CASE ~ (c[2] = "read" /\ WriteQueued)
  <2>1. passed' = 0 /\ urgent' = 0 /\ starved' \in Nat
    BY <1>1, <1>2, <1>5, Increment
  <2> QED BY <1>1, <1>2, <2>1 DEF PassedInv, CountedReads, BatchedReads
<1> QED BY <1>4, <1>5

LEMMA DispatchKeepsOverdue ==
  ASSUME Types, OverdueInv, NEW c \in Classes, dispatch(c)
  PROVE  OverdueInv'
<1>1. /\ batched \in Nat /\ overdue \in Nat /\ fifo_batch \in Nat
      /\ fifo_list \in [Classes -> Seq(1 .. added)] /\ AsyncWrite \in Classes
  BY ClassList DEF Types, AsyncWrite
<1>2. /\ fifo_batch' = fifo_batch
      /\ batched' = (IF AfterBatch THEN 0 ELSE batched) + 1
      /\ overdue' = IF c # AsyncWrite /\ Expired(AsyncWrite) THEN overdue + 1 ELSE 0
      /\ fifo_list' = [fifo_list EXCEPT ![c] = Tail(@)]
      /\ Chosen(c)
  BY DEF dispatch, sio_dispatch_request, BatchedBefore
<1>3. CASE c # AsyncWrite /\ Expired(AsyncWrite)
  <2>1. ~ AfterBatch
    BY <1>2, <1>3, ExpiredWriteChosen
  <2>2. batched <= fifo_batch
    BY <1>1, <2>1 DEF AfterBatch
  <2>3. fifo_list'[AsyncWrite] = fifo_list[AsyncWrite]
    BY <1>1, <1>2, <1>3
  <2>4. AsyncWrite \in Queued'
    BY <1>1, <1>3, <2>3 DEF Expired, Queued
  <2> QED BY <1>1, <1>2, <1>3, <2>1, <2>2, <2>4 DEF OverdueInv
<1>4. CASE ~ (c # AsyncWrite /\ Expired(AsyncWrite))
  BY <1>1, <1>2, <1>4 DEF OverdueInv
<1> QED BY <1>3, <1>4

LEMMA InitIInv == Init => IInv
<1> SUFFICES ASSUME Init PROVE IInv
  OBVIOUS
<1>1. Types
  BY SioAssumption DEF Init, Types
<1>2. \A c \in Classes : DOMAIN fifo_list[c] = {}
  BY DEF Init
<1>3. Distinct /\ Sorted /\ InReach
  BY <1>2 DEF Distinct, Sorted, InReach
<1>4. PassedInv /\ OverdueInv
  BY <1>1 DEF Init, Types, PassedInv, CountedReads, BatchedReads, waits, OverdueInv
<1> QED BY <1>1, <1>3, <1>4 DEF IInv, ListsInv

LEMMA NextIInv == IInv /\ [Next]_vars => IInv'
<1> SUFFICES ASSUME IInv, [Next]_vars PROVE IInv'
  OBVIOUS
<1> USE DEF IInv
<1>1. CASE tick
  <2>1. /\ jiffies' = jiffies + 1 /\ Types'
        /\ UNCHANGED <<queue, batched, starved, fifo_batch, writes_starved, waits>>
    BY <1>1 DEF tick, ListsInv, Types, queue, waits
  <2>2. Distinct' /\ Sorted' /\ PassedInv' /\ OverdueInv'
    BY <2>1 DEF ListsInv, Distinct, Sorted, TimeAt, PassedInv, CountedReads, BatchedReads, waits,
       OverdueInv, Queued, queue
  <2>3. InReach'
    <3>1. ASSUME NEW c \in Classes, NEW i \in DOMAIN fifo_list[c]
          PROVE  TimeAt(c, i) <= (jiffies + 1) + fifo_expire[c]
      <4>1. /\ fifo_list[c] \in Seq(1 .. added) /\ fifo_time \in Seq(Nat)
            /\ Len(fifo_time) = added /\ jiffies \in Nat /\ fifo_expire[c] \in Nat
        BY SioAssumption DEF ListsInv, Types
      <4>2. TimeAt(c, i) \in Nat
        <5>1. fifo_list[c][i] \in 1 .. added
          BY <4>1
        <5>2. fifo_time[fifo_list[c][i]] \in Nat
          BY <4>1, <5>1
        <5> QED BY <5>2 DEF TimeAt
      <4>3. TimeAt(c, i) <= jiffies + fifo_expire[c]
        BY DEF ListsInv, InReach
      <4> QED BY <4>1, <4>2, <4>3
    <3> QED BY <2>1, <3>1 DEF InReach, TimeAt, queue
  <2> QED BY <2>1, <2>2, <2>3 DEF ListsInv
<1>2. CASE dispatch_none
  <2>1. /\ UNCHANGED <<queue, starved, fifo_batch, writes_starved, jiffies, waits>>
        /\ batched' = (IF AfterBatch THEN 0 ELSE batched) /\ Queued = {}
    BY <1>2 DEF dispatch_none, BatchedBefore
  <2>2. ListsInv'
    BY <2>1 DEF ListsInv, Types, Distinct, Sorted, InReach, TimeAt, queue, waits
  <2>3. PassedInv' /\ OverdueInv'
    BY <2>1 DEF ListsInv, Types, PassedInv, CountedReads, BatchedReads, waits,
       OverdueInv, Queued, queue
  <2> QED BY <2>2, <2>3
<1>3. ASSUME NEW c \in Classes, sio_add_request(c) PROVE IInv'
  <2>1. ListsInv' /\ Queued' # {}
    BY <1>3, AddKeepsLists
  <2>2. PassedInv' /\ OverdueInv'
    BY <1>3, <2>1 DEF sio_add_request, PassedInv, CountedReads, BatchedReads, waits, OverdueInv
  <2> QED BY <2>1, <2>2
<1>4. ASSUME NEW c \in Classes, dispatch(c) PROVE IInv'
  BY <1>4, DispatchKeepsLists, DispatchKeepsPassed, DispatchKeepsOverdue DEF ListsInv
<1>5. ASSUME NEW c \in Classes, NEW d \in Classes,
             NEW m \in DOMAIN fifo_list[c], NEW n \in DOMAIN fifo_list[d],
             sio_merged_requests(c, m, d, n)
      PROVE  IInv'
  <2>1. ListsInv' /\ Queued' # {}
    BY <1>5, MergeKeepsLists
  <2>2. PassedInv' /\ OverdueInv'
    BY <1>5, <2>1 DEF sio_merged_requests, Merged, PassedInv, CountedReads, BatchedReads, waits, OverdueInv
  <2> QED BY <2>1, <2>2
<1>6. ASSUME NEW batch \in Nat, NEW starve \in 0 .. Word - 1, store(batch, starve) PROVE IInv'
  <2>1. /\ UNCHANGED <<queue, batched, starved, jiffies>>
        /\ fifo_batch' = batch /\ writes_starved' = starve /\ waits' = <<0, 0, 0>>
        /\ passed' = 0 /\ urgent' = 0 /\ overdue' = 0
    BY <1>6 DEF store, waits
  <2>2. ListsInv'
    BY <2>1 DEF ListsInv, Types, Distinct, Sorted, InReach, TimeAt, queue, waits
  <2>3. PassedInv' /\ OverdueInv'
    BY <2>1 DEF ListsInv, Types, PassedInv, CountedReads, BatchedReads, waits, OverdueInv
  <2> QED BY <2>2, <2>3
<1>7. ASSUME NEW value \in Settings, store(value, writes_starved) \/ store(fifo_batch, value)
      PROVE  IInv'
  <2>1. /\ value \in 0 .. Word - 1 /\ value \in Nat
        /\ fifo_batch \in Nat /\ writes_starved \in 0 .. Word - 1
    BY SioAssumption DEF ListsInv, Types
  <2> QED BY <1>6, <1>7, <2>1
<1>8. CASE UNCHANGED vars
  BY <1>8 DEF vars, queue, ListsInv, Types, Distinct, Sorted, InReach, TimeAt, PassedInv, CountedReads, BatchedReads, waits,
     OverdueInv, Queued
<1> QED BY <1>1, <1>2, <1>3, <1>4, <1>5, <1>7, <1>8 DEF Next

\* IInv is an invariant of the scheduler.
THEOREM Invariance == Spec => []IInv
<1>1. Init => IInv
  BY InitIInv
<1>2. IInv /\ [Next]_vars => IInv'
  BY NextIInv
<1> QED BY <1>1, <1>2, PTL DEF Spec

\* The state keeps its shape, and sio_add_request, sio_merged_requests and
\* sio_dispatch_request never queue a request twice.
THEOREM TypesHold == Spec => []TypeOK
<1>1. IInv => TypeOK
  BY DEF IInv, ListsInv, Types, Distinct, TypeOK
<1> QED BY <1>1, Invariance, PTL

\* sio_expired_request may look at the front of a list only: no request of the list
\* expires before it.
THEOREM FrontIsEarliest == Spec => []FrontExpiresFirst
<1>1. IInv => FrontExpiresFirst
  <2> SUFFICES ASSUME IInv, NEW c \in Queued, NEW i \in DOMAIN fifo_list[c]
               PROVE  fifo_time[fifo_list[c][1]] <= fifo_time[fifo_list[c][i]]
    BY DEF FrontExpiresFirst
  <2>1. c \in Classes /\ fifo_list[c] \in Seq(1 .. added)
    BY DEF Queued, IInv, ListsInv, Types
  <2>2. 1 \in DOMAIN fifo_list[c] /\ 1 <= i
    BY <2>1
  <2> QED BY <2>1, <2>2 DEF IInv, ListsInv, Sorted, TimeAt
<1> QED BY <1>1, Invariance, PTL

\* sio_dispatch_requests lets writes_starved + 1 reads pass a waiting write and those
\* that have expired, of which there are two at most while there are batches.
THEOREM WritesServed == Spec => []WritesNotStarved
<1>1. IInv => WritesNotStarved
  <2> SUFFICES ASSUME IInv PROVE WritesNotStarved
    OBVIOUS
  <2>1. /\ passed \in Nat /\ urgent \in Nat /\ starved \in 0 .. Word - 1
        /\ fifo_batch \in Nat /\ writes_starved \in 0 .. Word - 1 /\ Word \in Nat
    BY SioAssumption DEF IInv, ListsInv, Types
  <2> QED BY <2>1 DEF IInv, PassedInv, CountedReads, BatchedReads, WritesNotStarved
<1> QED BY <1>1, Invariance, PTL

\* sio_dispatch_requests lets at most a batch pass an expired asynchronous write.
THEOREM ExpiredServed == Spec => []ExpiredWritesServed
<1>1. IInv => ExpiredWritesServed
  BY DEF IInv, OverdueInv, ExpiredWritesServed
<1> QED BY <1>1, Invariance, PTL

=============================================================================
