---------------------------- MODULE KLoggerProofs ----------------------------
(***************************************************************************)
(* For any number of readers, any ring and any messages.  First, control:  *)
(* the mutex and the wait queue of klogger are used so that no wakeup is   *)
(* lost and, as long as the console stays out of the critical sections, no *)
(* reader is moved while it copies an entry.  Then, data: the ring holds   *)
(* whole entries from the start head to the write head, every reader       *)
(* stands on the start of one, and what the readers see of it is LogFeed.  *)
(***************************************************************************)
EXTENDS KLogger, SequenceTheorems, WellFoundedInduction, NaturalsInduction,
        TLAPS

PCs == {"closed", "opening", "user", "start", "test", "schedule",
        "lock", "race", "copy", "copy2", "advance"}

\* The part of TypeOK that control depends on.  (What get_next_entry returns is
\* not needed: only that every reader has a place.)
ControlOK ==
  /\ waiting \subseteq Readers
  /\ mutex \in Readers \cup {None}
  /\ pc \in [Readers -> PCs]
  /\ DOMAIN r_off = Readers

IInv == ControlOK /\ CriticalSection /\ NoLostWakeup

LEMMA InitIInv == Init => IInv
BY LogAssumption DEF Init, IInv, ControlOK, PCs, CriticalSection, InCritical, NoLostWakeup

LEMMA NextIInv == IInv /\ [Next]_vars => IInv'
<1> SUFFICES ASSUME IInv, [Next]_vars PROVE IInv'
  OBVIOUS
<1> USE LogAssumption DEF IInv, ControlOK, PCs
<1>1. ASSUME NEW count \in Counts, klogger_kernel_write(count) PROVE IInv'
  BY <1>1 DEF klogger_kernel_write, console_write, CriticalSection, InCritical, NoLostWakeup
<1>2. ASSUME NEW r \in Readers, Read(r) PROVE IInv'
  <2>1. CASE read_prepare(r, "start")
    BY <2>1 DEF read_prepare, Goto, ring, CriticalSection, InCritical, NoLostWakeup
  <2>2. CASE read_test(r)
    BY <2>2 DEF read_test, Goto, ring, CriticalSection, InCritical, NoLostWakeup
  <2>3. CASE read_wake(r)
    BY <2>3 DEF read_wake, Goto, ring, CriticalSection, InCritical, NoLostWakeup
  <2>4. CASE read_lock(r)
    BY <2>4 DEF read_lock, Goto, Lock, ring, CriticalSection, InCritical, NoLostWakeup
  <2>5. CASE read_race(r)
    BY <2>5 DEF read_race, Goto, Unlock, ring, CriticalSection, InCritical, NoLostWakeup
  <2>6. CASE read_copy(r) \/ read_copy2(r)
    BY <2>6 DEF read_copy, read_copy2, Goto, ring, CriticalSection, InCritical, NoLostWakeup
  <2>7. CASE read_advance(r)
    BY <2>7 DEF read_advance, Goto, Unlock, ring, CriticalSection, InCritical, NoLostWakeup
  <2>8. CASE open_list(r)
    BY <2>8 DEF open_list, Goto, Unlock, ring, CriticalSection, InCritical, NoLostWakeup
  <2> QED
    BY <1>2, <2>1, <2>2, <2>3, <2>4, <2>5, <2>6, <2>7, <2>8 DEF Read
<1>3. ASSUME NEW r \in Readers, User(r) PROVE IInv'
  <2>1. CASE open_head(r)
    BY <2>1 DEF open_head, Goto, Lock, ring, CriticalSection, InCritical, NoLostWakeup
  <2>2. CASE klogger_release(r)
    BY <2>2 DEF klogger_release, Goto, ring, CriticalSection, InCritical, NoLostWakeup
  <2>3. CASE read_prepare(r, "user")
    BY <2>3 DEF read_prepare, Goto, ring, CriticalSection, InCritical, NoLostWakeup
  <2>4. CASE read_signal(r)
    BY <2>4 DEF read_signal, Goto, ring, CriticalSection, InCritical, NoLostWakeup
  <2>5. CASE read_fault(r)
    BY <2>5 DEF read_fault, Goto, Unlock, ring, CriticalSection, InCritical, NoLostWakeup
  <2> QED
    BY <1>3, <2>1, <2>2, <2>3, <2>4, <2>5 DEF User
<1>4. CASE flush_log
  BY <1>4 DEF flush_log, CriticalSection, InCritical, NoLostWakeup
<1>5. CASE UNCHANGED vars
  BY <1>5 DEF vars, CriticalSection, InCritical, NoLostWakeup
<1> QED
  BY <1>1, <1>2, <1>3, <1>4, <1>5 DEF Next

LEMMA Invariance == Spec => []IInv
BY InitIInv, NextIInv, PTL DEF Spec

\* Every path through klogger_open and klogger_read gives the mutex back, and
\* two readers are never inside it together.
THEOREM MutexDiscipline == Spec => []CriticalSection
<1>1. IInv => CriticalSection
  BY DEF IInv
<1> QED
  BY <1>1, Invariance, PTL

\* No wakeup is lost, with or without the console in the critical sections.
THEOREM WakeupsArrive == Spec => []NoLostWakeup
<1>1. IInv => NoLostWakeup
  BY DEF IInv
<1> QED
  BY <1>1, Invariance, PTL

\* While the console keeps out of the critical sections, a reader that holds the
\* mutex is moved by nobody else: what klogger_read measures with get_entry_len
\* is what it copies and what it steps over.
THEOREM ReadsExclusive == ASSUME Preempt = FALSE PROVE Spec => CopiesUndisturbed
<1> DEFINE Step == \A r \in Readers :
                     InCritical(r) /\ pc'[r] = pc[r] => r_off'[r] = r_off[r]
<1>1. IInv /\ [Next]_vars => [Step]_vars
  <2> SUFFICES ASSUME IInv, Next, NEW r \in Readers, InCritical(r), pc'[r] = pc[r]
               PROVE  r_off'[r] = r_off[r]
    OBVIOUS
  <2> mutex = r
    BY DEF IInv, CriticalSection
  <2> mutex # None
    BY LogAssumption
  <2> pc \in [Readers -> PCs] /\ DOMAIN r_off = Readers
    BY DEF IInv, ControlOK
  <2>1. CASE \E count \in Counts : klogger_kernel_write(count)
    BY <2>1 DEF klogger_kernel_write, console_write
  <2>2. ASSUME NEW q \in Readers, Read(q) PROVE r_off'[r] = r_off[r]
    <3>1. CASE read_advance(q)
      <4>1. mutex = q /\ pc[q] = "advance" /\ pc' = [pc EXCEPT ![q] = "user"]
        BY <3>1 DEF read_advance, Unlock, Goto
      <4> QED
        BY <4>1
    <3>2. CASE ~ read_advance(q)
      BY <2>2, <3>2 DEF Read, read_prepare, read_test, read_wake, read_lock, read_race,
                        read_copy, read_copy2, open_list
    <3> QED
      BY <3>1, <3>2
  <2>3. ASSUME NEW q \in Readers, User(q) PROVE r_off'[r] = r_off[r]
    BY <2>3 DEF User, open_head, klogger_release, read_prepare, read_signal, read_fault, Lock
  <2>4. CASE flush_log
    BY <2>4 DEF flush_log
  <2> QED
    BY <2>1, <2>2, <2>3, <2>4 DEF Next
<1> QED
  BY <1>1, Invariance, PTL DEF Spec, CopiesUndisturbed

-----------------------------------------------------------------------------
(* Types.                                                                  *)

\* The buffer holds bytes of entries that have a length.
Ring(buf, lens) == buf \in [Offset -> (0 .. Len(lens)) \X Nat] /\ lens \in Seq(Nat)

\* From the start of one entry to the start of the next.
Stride(buf, lens, off) == logger_offset(off + get_entry_len(buf, lens, off))

\* What the recursion of get_next_entry makes of a function, and that there is
\* one it does not change.
Walking(f, buf, lens, n) ==
  [p \in Offset \X (0 .. n) |->
     LET nr   == get_entry_len(buf, lens, p[1])
         next == logger_offset(p[1] + nr)
     IN  IF nr >= p[2] THEN next ELSE f[<<next, p[2] - nr>>]]

LEMMA OffsetRange == \A n \in Nat : logger_offset(n) \in Offset
BY LogAssumption DEF logger_offset, Offset

\* An entry has at least a header.
LEMMA EntryLength ==
  ASSUME NEW buf, NEW lens, Ring(buf, lens), NEW off \in Offset
  PROVE  get_entry_len(buf, lens, off) \in Nat /\ get_entry_len(buf, lens, off) >= Hdr
<1> buf[off][1] \in 0 .. Len(lens)
  BY DEF Ring
<1> ASSUME buf[off][1] # 0 PROVE lens[buf[off][1]] \in Nat
  <2> lens \in Seq(Nat) /\ buf[off][1] \in 1 .. Len(lens)
    BY DEF Ring
  <2> QED
    BY ElementOfSeq
<1> QED
  BY LogAssumption DEF get_entry_len

LEMMA StrideRange ==
  ASSUME NEW buf, NEW lens, Ring(buf, lens), NEW off \in Offset
  PROVE  Stride(buf, lens, off) \in Offset
BY EntryLength, OffsetRange DEF Stride, Offset

\* A least counterexample.
LEMMA LeastBad ==
  ASSUME NEW Bad, Bad \subseteq Nat, Bad # {}
  PROVE  \E m \in Bad : \A k \in Nat : k < m => k \notin Bad
<1>1. PICK m \in Bad : \A k \in Bad : ~ (<<k, m>> \in OpToRel(<, Nat))
  BY NatLessThanWellFounded, WFMin
<1>2. \A k \in Bad : ~ (k < m)
  BY <1>1 DEF OpToRel
<1> QED
  BY <1>2

\* The recursion of get_next_entry has a solution: the distance to go grows
\* smaller with every entry.
LEMMA WalkExists ==
  ASSUME NEW buf, NEW lens, Ring(buf, lens), NEW n \in Nat
  PROVE  \E g : g = Walking(g, buf, lens, n)
<1> DEFINE Bad == {m \in Nat : ~ \E f : f = Walking(f, buf, lens, m)}
<1> SUFFICES Bad = {}
  OBVIOUS
<1> SUFFICES ASSUME Bad # {} PROVE FALSE
  OBVIOUS
<1>1. PICK m \in Bad : \A k \in Nat : k < m => k \notin Bad
  <2> Bad \subseteq Nat
    OBVIOUS
  <2> HIDE DEF Bad
  <2> QED
    BY LeastBad
<1> DEFINE len_at(o) == get_entry_len(buf, lens, o)
<1>2. \A o \in Offset : len_at(o) \in Nat /\ len_at(o) >= 1
  BY EntryLength, LogAssumption
<1>2a. \A o \in Offset : logger_offset(o + len_at(o)) \in Offset
  BY StrideRange DEF Stride
<1>3. CASE m = 0
  <2> DEFINE f == [p \in Offset \X (0 .. 0) |-> logger_offset(p[1] + len_at(p[1]))]
  <2> f = Walking(f, buf, lens, 0)
    BY <1>2 DEF Walking
  <2> QED
    BY <1>1, <1>3
<1>4. CASE m # 0
  <2>1. m \in Nat /\ m - 1 \in Nat /\ m - 1 < m
    BY <1>1, <1>4
  <2>2. PICK g : g = Walking(g, buf, lens, m - 1)
    BY <1>1, <2>1
  <2> DEFINE f == [p \in Offset \X (0 .. m) |->
                     IF p[2] < m THEN g[p]
                     ELSE IF len_at(p[1]) >= p[2] THEN logger_offset(p[1] + len_at(p[1]))
                     ELSE g[<<logger_offset(p[1] + len_at(p[1])), p[2] - len_at(p[1])>>]]
  <2> DEFINE h == Walking(f, buf, lens, m)
  <2>3. ASSUME NEW p \in Offset \X (0 .. m) PROVE f[p] = h[p]
    <3> DEFINE nr == len_at(p[1])
               next == logger_offset(p[1] + nr)
    <3>1. p[1] \in Offset /\ p[2] \in 0 .. m /\ p = <<p[1], p[2]>>
      OBVIOUS
    <3>2. nr \in Nat /\ nr >= 1 /\ next \in Offset
      BY <3>1, <1>2, <1>2a
    <3>3. h[p] = IF nr >= p[2] THEN next ELSE f[<<next, p[2] - nr>>]
      BY DEF Walking
    <3>4. f[p] = IF p[2] < m THEN g[p] ELSE IF nr >= p[2] THEN next ELSE g[<<next, p[2] - nr>>]
      OBVIOUS
    <3>5. ASSUME ~ (nr >= p[2])
          PROVE  f[<<next, p[2] - nr>>] = g[<<next, p[2] - nr>>]
      <4>1. p[2] - nr \in 0 .. m /\ p[2] - nr < m
        BY <2>1, <3>1, <3>2, <3>5
      <4> QED
        BY <4>1, <3>2
    <3>6. ASSUME p[2] < m
          PROVE  g[p] = IF nr >= p[2] THEN next ELSE g[<<next, p[2] - nr>>]
      <4>1. p \in Offset \X (0 .. m - 1)
        <5> p[2] \in 0 .. m - 1
          BY <2>1, <3>1, <3>6
        <5> QED
          BY <3>1
      <4>2. g[p] = Walking(g, buf, lens, m - 1)[p]
        BY <2>2
      <4> QED
        BY <4>1, <4>2 DEF Walking
    <3> HIDE DEF nr, next, f, h
    <3> QED
      BY <3>3, <3>4, <3>5, <3>6
  <2>4. f = h
    <3> DOMAIN f = Offset \X (0 .. m) /\ f = [p \in Offset \X (0 .. m) |-> f[p]]
      OBVIOUS
    <3> h = [p \in Offset \X (0 .. m) |-> h[p]]
      BY DEF Walking
    <3> HIDE DEF f, h
    <3> QED
      BY <2>3
  <2> QED
    BY <1>1, <2>4
<1> QED
  BY <1>3, <1>4

\* get_next_entry is a fixed point of its recursion.
LEMMA WalkDef ==
  ASSUME NEW buf, NEW lens, Ring(buf, lens), NEW n \in Nat
  PROVE  \E f : /\ f = Walking(f, buf, lens, n)
                /\ \A off : get_next_entry(buf, lens, off, n) = f[<<off, n>>]
<1> DEFINE f == CHOOSE g : g = Walking(g, buf, lens, n)
<1> f = Walking(f, buf, lens, n)
  BY WalkExists
<1> \A off : get_next_entry(buf, lens, off, n) = f[<<off, n>>]
  BY DEF get_next_entry, Walking
<1> QED
  OBVIOUS

LEMMA NextEntryRange ==
  ASSUME NEW buf, NEW lens, Ring(buf, lens), NEW n \in Nat, NEW off \in Offset
  PROVE  get_next_entry(buf, lens, off, n) \in Offset
<1> PICK f : /\ f = Walking(f, buf, lens, n)
             /\ \A o : get_next_entry(buf, lens, o, n) = f[<<o, n>>]
  BY WalkDef
<1> DEFINE Bad == {m \in 0 .. n : \E o \in Offset : f[<<o, m>>] \notin Offset}
<1>1. ASSUME NEW m \in Bad, \A k \in Nat : k < m => k \notin Bad PROVE FALSE
  <2> PICK o \in Offset : f[<<o, m>>] \notin Offset
    BY <1>1
  <2> DEFINE nr == get_entry_len(buf, lens, o)
             next == logger_offset(o + nr)
  <2>1. nr \in Nat /\ nr >= 1 /\ next \in Offset
    BY EntryLength, StrideRange, LogAssumption DEF Stride
  <2>2. f[<<o, m>>] = Walking(f, buf, lens, n)[<<o, m>>] /\ m \in 0 .. n
    BY <1>1
  <2>3. f[<<o, m>>] = IF nr >= m THEN next ELSE f[<<next, m - nr>>]
    BY <2>2 DEF Walking
  <2>4. ~ (nr >= m) /\ f[<<next, m - nr>>] \notin Offset
    BY <2>1, <2>3
  <2>5. m - nr \in 0 .. n /\ m - nr < m
    BY <2>1, <2>2, <2>4
  <2>6. m - nr \in Bad
    BY <2>1, <2>4, <2>5
  <2> QED
    BY <1>1, <2>5, <2>6
<1>2. Bad = {}
  <2> Bad \subseteq Nat
    OBVIOUS
  <2> HIDE DEF Bad
  <2> QED
    BY <1>1, LeastBad
<1>3. n \in 0 .. n
  OBVIOUS
<1> QED
  BY <1>2, <1>3

LEMMA FixUpRange ==
  ASSUME NEW buf, NEW lens, Ring(buf, lens), NEW n \in Nat, NEW off \in Offset, NEW at
  PROVE  fix_up(buf, lens, at, n, off) \in Offset
BY NextEntryRange DEF fix_up

LEMMA WriteRange ==
  ASSUME NEW buf, NEW lens, Ring(buf, lens), NEW at \in Offset, NEW i \in 0 .. Len(lens),
         NEW k \in Nat, NEW count \in Nat
  PROVE  Ring(do_write_log(buf, at, i, k, count), lens)
<1> \A o \in Offset : logger_offset(o + Size - at) \in Nat
  BY OffsetRange, LogAssumption DEF Offset
<1> QED
  BY DEF Ring, do_write_log

LEMMA Lengthen ==
  ASSUME NEW buf, NEW lens, Ring(buf, lens), NEW n \in Nat
  PROVE  Ring(buf, Append(lens, n)) /\ Len(Append(lens, n)) = Len(lens) + 1
<1> Len(Append(lens, n)) = Len(lens) + 1 /\ Append(lens, n) \in Seq(Nat) /\ Len(lens) \in Nat
  BY AppendProperties, LenProperties DEF Ring
<1> QED
  BY DEF Ring

\* The types that the proofs about the ring need.
Typed ==
  /\ TypeOK
  /\ Ring(buffer, entries)
  /\ tape # <<>>
  /\ \A r \in Readers : pc[r] = "copy2" => Len(copied[r]) <= len[r]

LEMMA InitTyped == Init => Typed
<1> 0 \in Offset
  BY LogAssumption DEF Offset
<1> <<>> \in Seq(Nat) /\ Len(<<>>) = 0 /\ <<>> \in Seq(Nat \X Nat)
  BY EmptySeq
<1> <<0>> \in Seq(Nat) /\ <<0>> # <<>>
  OBVIOUS
<1> QED
  BY LogAssumption DEF Init, Typed, TypeOK, Ring

LEMMA PieceLengths ==
  ASSUME NEW count \in Counts
  PROVE  HeaderLen(count) \in Nat /\ PayloadWritten(count) \in Nat
BY LogAssumption DEF HeaderLen, PayloadWritten, Min2

LEMMA ConsoleTyped ==
  ASSUME Typed, NEW count \in Counts, klogger_kernel_write(count)
  PROVE  Typed'
<1> DEFINE n == HeaderLen(count)  pw == PayloadWritten(count)  h == WithHeader(count)
<1>1. n \in Nat /\ pw \in Nat /\ Hdr \in Nat
  BY PieceLengths, LogAssumption
<1>2. /\ Ring(buffer, entries) /\ w_off \in Offset /\ head \in Offset
      /\ r_off \in [Readers -> Offset] /\ readers \subseteq Readers /\ waiting \subseteq Readers
  BY DEF Typed, TypeOK
<1>3. Ring(buffer, Lengths(count)) /\ Len(Lengths(count)) \in 0 .. Len(Lengths(count))
  <2> Len(entries) \in Nat
    BY <1>2, LenProperties DEF Ring
  <2> QED
    BY <1>1, <1>2, Lengthen DEF Lengths
<1>4. Ring(h, Lengths(count))
  BY <1>1, <1>2, <1>3, WriteRange DEF WithHeader
<1>5. Body \in Offset /\ logger_offset(Body + pw) \in Offset
  BY <1>1, <1>2, OffsetRange DEF Body, Offset
<1>6. \A off \in Offset : fix_up_readers(count, off) \in Offset
  BY <1>1, <1>4, FixUpRange DEF fix_up_readers
<1>7. Ring(buffer', entries')
  BY <1>1, <1>3, <1>4, <1>5, WriteRange DEF klogger_kernel_write, console_write
<1>8. entries' \in Seq(Nat) /\ buffer' \in [Offset -> Nat \X Nat]
  BY <1>7 DEF Ring
<1>9. head' \in Offset /\ w_off' \in Offset /\ r_off' \in [Readers -> Offset]
  BY <1>2, <1>5, <1>6 DEF klogger_kernel_write, console_write
<1>10. waiting' \subseteq Readers /\ UNCHANGED <<readers, mutex, pc, len, copied, got>>
  BY <1>2 DEF klogger_kernel_write, console_write
<1>11. tape' \in Seq(Nat) /\ tape' # <<>>
  <2>1. tape \in Seq(Nat) /\ tape # <<>>
    BY DEF Typed, TypeOK
  <2>2. Len(tape) \in 1 .. Len(tape)
    BY <2>1, LenProperties, EmptySeq
  <2>3. tape[Len(tape)] + Hdr + n \in Nat
    BY <1>1, <2>1, <2>2, ElementOfSeq
  <2>4. tape' = Append(tape, tape[Len(tape)] + Hdr + n)
    BY DEF klogger_kernel_write, console_write
  <2> HIDE DEF n
  <2> QED
    BY <2>1, <2>3, <2>4, AppendProperties
<1> QED
  BY <1>7, <1>8, <1>9, <1>10, <1>11 DEF Typed, TypeOK

LEMMA CellsRange ==
  ASSUME buffer \in [Offset -> Nat \X Nat], NEW off \in Offset, NEW n \in Nat
  PROVE  Cells(off, n) \in Seq(Nat \X Nat) /\ Len(Cells(off, n)) = n
<1> \A k \in 1 .. n : off + k - 1 \in Nat
  BY LogAssumption DEF Offset
<1> \A k \in 1 .. n : logger_offset(off + k - 1) \in Offset
  BY OffsetRange
<1> Cells(off, n) \in [1 .. n -> Nat \X Nat]
  BY DEF Cells
<1> QED
  BY SeqDef, LenProperties DEF Cells

LEMMA FirstPiece ==
  /\ \A a \in Nat, b \in 0 .. Size - 1 : /\ Min2(a, Size - b) \in Nat
                                        /\ Min2(a, Size - b) <= a
  /\ 0 \in Offset
  /\ \A a, b \in Nat : b <= a => a - b \in Nat
<1> 0 \in Offset
  BY LogAssumption DEF Offset
<1> QED
  BY LogAssumption DEF Min2

LEMMA NextTyped == Typed /\ [Next]_vars => Typed'
<1> SUFFICES ASSUME Typed, [Next]_vars PROVE Typed'
  OBVIOUS
<1> USE DEF Typed, TypeOK
<1>0. <<>> \in Seq(Nat \X Nat)
  BY EmptySeq
<1>1. ASSUME NEW count \in Counts, klogger_kernel_write(count) PROVE Typed'
  BY <1>1, ConsoleTyped
<1>2. ASSUME NEW r \in Readers, Read(r) PROVE Typed'
  <2>1. CASE read_prepare(r, "start")
    BY <2>1 DEF read_prepare, Goto, ring
  <2>2. CASE read_test(r)
    BY <2>2 DEF read_test, Goto, ring
  <2>3. CASE read_wake(r)
    BY <2>3 DEF read_wake, Goto, ring
  <2>4. CASE read_lock(r)
    BY <2>4 DEF read_lock, Goto, Lock, ring
  <2>5. CASE read_race(r)
    <3>1. get_entry_len(buffer, entries, r_off[r]) \in Nat
      BY EntryLength
    <3>2. /\ pc' \in [Readers -> {"closed", "opening", "user", "start", "test", "schedule",
                                 "lock", "race", "copy", "copy2", "advance"}]
          /\ \A q \in Readers : pc'[q] = "copy2" => pc[q] = "copy2"
      BY <2>5 DEF read_race, Goto
    <3>3. mutex' \in Readers \cup {None} /\ len' \in [Readers -> Nat]
      <4> DEFINE e == get_entry_len(buffer, entries, r_off[r])
      <4>1. mutex' \in {None, mutex} /\ (len' = len \/ len' = [len EXCEPT ![r] = e])
        BY <2>5 DEF read_race, Unlock
      <4> HIDE DEF e
      <4>2. e \in Nat /\ len \in [Readers -> Nat] /\ mutex \in Readers \cup {None}
        BY <3>1 DEF e
      <4> QED
        BY <4>1, <4>2
    <3>4. /\ UNCHANGED <<ring, readers, r_off, waiting, copied, got>>
          /\ \A q \in Readers : pc[q] = "copy2" => len'[q] = len[q]
      BY <2>5 DEF read_race, Goto
    <3> QED
      BY <3>2, <3>3, <3>4 DEF ring
  <2>6. CASE read_copy(r)
    <3> DEFINE n == Min2(len[r], Size - r_off[r])
    <3>0. r_off[r] \in 0 .. Size - 1 /\ len[r] \in Nat
      BY DEF Offset
    <3>1. n \in Nat /\ n <= len[r]
      BY <3>0, FirstPiece
    <3>2. Cells(r_off[r], n) \in Seq(Nat \X Nat) /\ Len(Cells(r_off[r], n)) = n
      BY <3>1, CellsRange
    <3> QED
      BY <2>6, <3>1, <3>2 DEF read_copy, Goto, ring
  <2>7. CASE read_copy2(r)
    <3> DEFINE n == len[r] - Len(copied[r])
    <3>0. len[r] \in Nat /\ Len(copied[r]) \in Nat /\ Len(copied[r]) <= len[r]
      BY <2>7, LenProperties DEF read_copy2, Goto
    <3>1. n \in Nat /\ 0 \in Offset
      BY <3>0, FirstPiece
    <3>2. Cells(0, n) \in Seq(Nat \X Nat)
      BY <3>1, CellsRange
    <3>3. copied[r] \o Cells(0, n) \in Seq(Nat \X Nat)
      BY <3>2, ConcatProperties
    <3> QED
      BY <2>7, <3>3 DEF read_copy2, Goto, ring
  <2>8. CASE read_advance(r)
    <3>0. r_off[r] \in 0 .. Size - 1 /\ len[r] \in Nat
      BY DEF Offset
    <3>1. logger_offset(r_off[r] + len[r]) \in Offset
      BY <3>0, OffsetRange
    <3> QED
      BY <1>0, <2>8, <3>1 DEF read_advance, Goto, Unlock, ForgetLocals, ring
  <2>9. CASE open_list(r)
    BY <2>9 DEF open_list, Goto, Unlock, ring
  <2> QED
    BY <1>2, <2>1, <2>2, <2>3, <2>4, <2>5, <2>6, <2>7, <2>8, <2>9 DEF Read
<1>3. ASSUME NEW r \in Readers, User(r) PROVE Typed'
  <2>1. CASE open_head(r)
    BY <2>1 DEF open_head, Goto, Lock, ring
  <2>2. CASE klogger_release(r)
    BY <1>0, <2>2 DEF klogger_release, Goto, ring
  <2>3. CASE read_prepare(r, "user")
    BY <2>3 DEF read_prepare, Goto, ring
  <2>4. CASE read_signal(r)
    BY <2>4 DEF read_signal, Goto, ring
  <2>5. CASE read_fault(r)
    BY <1>0, <2>5 DEF read_fault, Goto, Unlock, ForgetLocals, ring
  <2> QED
    BY <1>3, <2>1, <2>2, <2>3, <2>4, <2>5 DEF User
<1>4. CASE flush_log
  BY <1>4 DEF flush_log
<1>5. CASE UNCHANGED vars
  BY <1>5 DEF vars
<1> QED
  BY <1>1, <1>2, <1>3, <1>4, <1>5 DEF Next

LEMMA TypedInvariant == Spec => []Typed
BY InitTyped, NextTyped, PTL DEF Spec

\* Offsets stay within the ring and what the readers hold is cells of it, for
\* every size of the ring and whether or not the console preempts the readers.
THEOREM Types == Spec => []TypeOK
<1>1. Typed => TypeOK
  BY DEF Typed
<1> QED
  BY <1>1, TypedInvariant, PTL

-----------------------------------------------------------------------------

\* Arithmetic of the ring: At(w, d) is d bytes behind w.
At(w, d) == logger_offset(w + Size - d)

LEMMA OffsetOf == ASSUME NEW n \in 0 .. 2 * Size - 1
                  PROVE  logger_offset(n) = IF n < Size THEN n ELSE n - Size
<1>1. CASE n < Size
  BY <1>1, LogAssumption DEF logger_offset
<1>2. CASE n >= Size
  BY <1>2, LogAssumption DEF logger_offset
<1> QED
  BY <1>1, <1>2, LogAssumption

LEMMA AtIs ==
  ASSUME NEW w \in Offset, NEW d \in 0 .. Size
  PROVE  At(w, d) = IF d <= w THEN w - d ELSE w + Size - d
<1> w \in Nat /\ w < Size /\ Size \in Nat /\ d \in Nat /\ d <= Size
  BY LogAssumption DEF Offset
<1>1. w + Size - d \in 0 .. 2 * Size - 1
  OBVIOUS
<1>2. logger_offset(w + Size - d) = IF w + Size - d < Size THEN w + Size - d ELSE w + Size - d - Size
  BY <1>1, OffsetOf
<1> QED
  BY <1>2 DEF At

LEMMA Onward ==
  ASSUME NEW w \in Offset, NEW m \in 0 .. Size
  PROVE  logger_offset(w + m) = IF w + m < Size THEN w + m ELSE w + m - Size
<1> w \in Nat /\ w < Size /\ Size \in Nat /\ m \in Nat /\ m <= Size
  BY LogAssumption DEF Offset
<1> w + m \in 0 .. 2 * Size - 1
  OBVIOUS
<1> QED
  BY OffsetOf

LEMMA AtRange ==
  ASSUME NEW w \in Offset, NEW d \in 0 .. Size
  PROVE  At(w, d) \in Offset /\ (At(w, d) = w <=> d \in {0, Size})
BY AtIs, LogAssumption DEF Offset

LEMMA AtStep ==
  ASSUME NEW w \in Offset, NEW d \in 0 .. Size, NEW m \in 0 .. d
  PROVE  logger_offset(At(w, d) + m) = At(w, d - m)
<1> w \in Nat /\ w < Size /\ Size \in Nat /\ d \in Nat /\ d <= Size /\ m \in Nat /\ m <= d
  BY LogAssumption DEF Offset
<1>1. At(w, d) = IF d <= w THEN w - d ELSE w + Size - d
  BY AtIs
<1>2. At(w, d - m) = IF d - m <= w THEN w - (d - m) ELSE w + Size - (d - m)
  BY AtIs
<1>3. logger_offset(At(w, d) + m) = IF At(w, d) + m < Size THEN At(w, d) + m ELSE At(w, d) + m - Size
  <2> m \in 0 .. Size /\ At(w, d) \in Offset
    BY AtRange
  <2> QED
    BY Onward
<1> QED
  BY <1>1, <1>2, <1>3

LEMMA AtMoved ==
  ASSUME NEW w \in Offset, NEW n \in 0 .. Size, NEW d \in 0 .. Size - n
  PROVE  At(logger_offset(w + n), d + n) = At(w, d) /\ logger_offset(w + n) \in Offset
<1> w \in Nat /\ w < Size /\ Size \in Nat /\ d \in Nat /\ d + n <= Size /\ n \in Nat
  BY LogAssumption DEF Offset
<1> DEFINE v == logger_offset(w + n)
<1>1. v = IF w + n < Size THEN w + n ELSE w + n - Size
  BY Onward
<1>2. v \in Offset
  BY <1>1 DEF Offset
<1>3. At(v, d + n) = IF d + n <= v THEN v - (d + n) ELSE v + Size - (d + n)
  <2> d + n \in 0 .. Size
    OBVIOUS
  <2> HIDE DEF v
  <2> QED
    BY <1>2, AtIs
<1>4. At(w, d) = IF d <= w THEN w - d ELSE w + Size - d
  BY AtIs
<1> HIDE DEF v
<1>5. At(v, d + n) = At(w, d)
  BY <1>1, <1>3, <1>4
<1> QED
  BY <1>2, <1>5 DEF v

\* How far o is ahead of w, for an o that is d behind it.
LEMMA Distance ==
  ASSUME NEW w \in Offset, NEW d \in 1 .. Size
  PROVE  logger_offset(At(w, d) + Size - w) = Size - d
<1> w \in Nat /\ w < Size /\ Size \in Nat /\ d \in Nat /\ d <= Size /\ d >= 1
  BY LogAssumption DEF Offset
<1>1. At(w, d) = IF d <= w THEN w - d ELSE w + Size - d
  BY AtIs
<1>2. At(w, d) + Size - w \in 0 .. 2 * Size - 1
  BY <1>1
<1> DEFINE e == At(w, d) + Size - w
<1>3. logger_offset(e) = IF e < Size THEN e ELSE e - Size
  <2> e \in 0 .. 2 * Size - 1
    BY <1>2
  <2> HIDE DEF e
  <2> QED
    BY OffsetOf
<1> QED
  BY <1>1, <1>3

\* The cells after one piece has been written.
OnePiece(b, buf, w, i, k, m) ==
  \A d \in 1 .. Size :
    b[At(w, d)] = IF Size - d < m THEN <<i, k + (Size - d)>> ELSE buf[At(w, d)]

LEMMA Piece ==
  ASSUME NEW buf, NEW w \in Offset, NEW i, NEW k \in Nat, NEW m \in 0 .. Size
  PROVE  OnePiece(do_write_log(buf, w, i, k, m), buf, w, i, k, m)
<1> SUFFICES ASSUME NEW d \in 1 .. Size
             PROVE  do_write_log(buf, w, i, k, m)[At(w, d)] =
                      IF Size - d < m THEN <<i, k + (Size - d)>> ELSE buf[At(w, d)]
  BY DEF OnePiece
<1> At(w, d) \in Offset
  BY AtRange
<1> logger_offset(At(w, d) + Size - w) = Size - d
  BY Distance
<1> QED
  BY DEF do_write_log

\* The cells after the header and the payload have been written: the new entry is
\* the last Hdr + m bytes before the new write head.
LEMMA TwoPieces ==
  ASSUME NEW buf, NEW w \in Offset, NEW i, NEW m \in Nat, Hdr + m <= Size, NEW d \in 1 .. Size
  PROVE  LET w1 == logger_offset(w + Hdr)
             w2 == logger_offset(w1 + m)
             b  == do_write_log(do_write_log(buf, w, i, 0, Hdr), w1, i, Hdr, m)
         IN  b[At(w2, d)] = IF d <= Hdr + m THEN <<i, Hdr + m - d>> ELSE buf[At(w2, d)]
<1> DEFINE w1 == logger_offset(w + Hdr)
           w2 == logger_offset(w1 + m)
           b1 == do_write_log(buf, w, i, 0, Hdr)
           b  == do_write_log(b1, w1, i, Hdr, m)
<1>0. Hdr \in 0 .. Size /\ m \in 0 .. Size /\ Size \in Nat /\ d \in Nat /\ d <= Size /\ d >= 1
      /\ Hdr \in Nat
  BY LogAssumption
<1>1. w1 \in Offset /\ w2 \in Offset
  <2> w1 \in Offset
    BY <1>0, AtMoved
  <2> HIDE DEF w1
  <2> QED
    BY <1>0, AtMoved
<1>p. OnePiece(b, b1, w1, i, Hdr, m) /\ OnePiece(b1, buf, w, i, 0, Hdr)
  <2> HIDE DEF w1
  <2> QED
    BY <1>0, <1>1, Piece
<1> HIDE DEF b, b1
<1>2. CASE d <= m
  <2>1. At(w2, d) = At(w1, Size - m + d)
    <3> DEFINE e == Size - m + d
    <3> e \in 1 .. Size /\ d \in 0 .. Size
      BY <1>0, <1>2
    <3>1. At(w1, e) = IF e <= w1 THEN w1 - e ELSE w1 + Size - e
      BY <1>1, AtIs
    <3>2. At(w2, d) = IF d <= w2 THEN w2 - d ELSE w2 + Size - d
      BY <1>1, AtIs
    <3>3. w2 = IF w1 + m < Size THEN w1 + m ELSE w1 + m - Size
      BY <1>0, <1>1, Onward
    <3>4. w1 \in Nat /\ w2 \in Nat /\ w1 < Size
      BY <1>0, <1>1 DEF Offset
    <3> HIDE DEF w1, w2
    <3> QED
      BY <1>0, <1>2, <3>1, <3>2, <3>3, <3>4
  <2>2. Size - m + d \in 1 .. Size /\ Size - (Size - m + d) = m - d /\ m - d < m
    BY <1>0, <1>2
  <2>3. b[At(w1, Size - m + d)] = <<i, Hdr + (m - d)>>
    <3> DEFINE e == Size - m + d
    <3>1. b[At(w1, e)] = IF Size - e < m THEN <<i, Hdr + (Size - e)>> ELSE b1[At(w1, e)]
      <4> HIDE DEF e, w1
      <4> e \in 1 .. Size
        BY <2>2 DEF e
      <4> QED
        BY <1>p DEF OnePiece
    <3> HIDE DEF w1
    <3> QED
      BY <2>2, <3>1
  <2>4. d <= Hdr + m /\ Hdr + (m - d) = Hdr + m - d
    BY <1>0, <1>2
  <2> QED
    BY <2>1, <2>3, <2>4 DEF b, b1
<1>3. CASE d > m
  <2>1. d - m \in 1 .. Size /\ d - m \in 0 .. Size - m
    BY <1>0, <1>3
  <2>2. At(w2, d) = At(w1, d - m)
    <3> At(w2, (d - m) + m) = At(w1, d - m)
      BY <1>0, <1>1, <2>1, AtMoved
    <3> (d - m) + m = d
      BY <1>0
    <3> QED
      OBVIOUS
  <2>3. b[At(w1, d - m)] = b1[At(w1, d - m)]
    <3> DEFINE e == d - m
    <3>1. b[At(w1, e)] = IF Size - e < m THEN <<i, Hdr + (Size - e)>> ELSE b1[At(w1, e)]
      <4> HIDE DEF e, w1
      <4> e \in 1 .. Size
        BY <2>1 DEF e
      <4> QED
        BY <1>p DEF OnePiece
    <3>2. ~ (Size - e < m)
      BY <1>0
    <3> QED
      BY <3>1, <3>2
  <2>4. CASE d <= Hdr + m
    <3>1. Size - Hdr + (d - m) \in 1 .. Size /\ Size - (Size - Hdr + (d - m)) = Hdr + m - d
          /\ Hdr + m - d < Hdr /\ d - m \in 0 .. Size
      BY <1>0, <1>3, <2>4
    <3>2. At(w1, d - m) = At(w, Size - Hdr + (d - m))
      <4> DEFINE e == Size - Hdr + (d - m)  c == d - m
      <4>1. At(w, e) = IF e <= w THEN w - e ELSE w + Size - e
        BY <3>1, AtIs
      <4>2. At(w1, c) = IF c <= w1 THEN w1 - c ELSE w1 + Size - c
        BY <1>1, <3>1, AtIs
      <4>3. w1 = IF w + Hdr < Size THEN w + Hdr ELSE w + Hdr - Size
        BY <1>0, Onward
      <4>4. w \in Nat /\ w1 \in Nat /\ w < Size
        BY <1>0, <1>1 DEF Offset
      <4> HIDE DEF w1
      <4> QED
        BY <1>0, <1>3, <2>4, <4>1, <4>2, <4>3, <4>4
    <3>3. b1[At(w, Size - Hdr + (d - m))] = <<i, 0 + (Hdr + m - d)>>
      <4> DEFINE e == Size - Hdr + (d - m)
      <4>1. b1[At(w, e)] = IF Size - e < Hdr THEN <<i, 0 + (Size - e)>> ELSE buf[At(w, e)]
        <5> HIDE DEF e
        <5> e \in 1 .. Size
          BY <3>1 DEF e
        <5> QED
          BY <1>p DEF OnePiece
      <4> QED
        BY <3>1, <4>1
    <3> QED
      BY <1>0, <2>2, <2>3, <2>4, <3>1, <3>2, <3>3 DEF b, b1
  <2>5. CASE d > Hdr + m
    <3>1. d - m - Hdr \in 1 .. Size /\ d - m - Hdr \in 0 .. Size - Hdr /\ ~ (Size - (d - m - Hdr) < Hdr)
      BY <1>0, <2>5
    <3>2. At(w1, d - m) = At(w, d - m - Hdr)
      <4> At(w1, (d - m - Hdr) + Hdr) = At(w, d - m - Hdr)
        BY <1>0, <3>1, AtMoved
      <4> (d - m - Hdr) + Hdr = d - m
        BY <1>0
      <4> QED
        OBVIOUS
    <3>3. b1[At(w, d - m - Hdr)] = buf[At(w, d - m - Hdr)]
      <4> DEFINE e == d - m - Hdr
      <4>1. b1[At(w, e)] = IF Size - e < Hdr THEN <<i, 0 + (Size - e)>> ELSE buf[At(w, e)]
        <5> HIDE DEF e
        <5> e \in 1 .. Size
          BY <3>1 DEF e
        <5> QED
          BY <1>p DEF OnePiece
      <4> QED
        BY <3>1, <4>1
    <3>4. ~ (d <= Hdr + m)
      BY <1>0, <2>5
    <3> QED
      BY <2>2, <2>3, <3>2, <3>3, <3>4 DEF b, b1
  <2> QED
    BY <1>0, <2>4, <2>5
<1> QED
  BY <1>0, <1>2, <1>3

-----------------------------------------------------------------------------
(* The entries in the ring.                                                *)

\* dist[i] bytes from the first byte of entry i to the write head w, for every
\* entry written and the one to come, and what the buffer holds in between.
Placed(buf, lens, w, dist) ==
  /\ dist \in [1 .. Len(lens) + 1 -> Nat] /\ dist[Len(lens) + 1] = 0
  /\ \A j \in 1 .. Len(lens) : dist[j] = dist[j + 1] + Hdr + lens[j]
  /\ \A i, j \in 1 .. Len(lens) + 1 : i <= j => dist[j] <= dist[i]
  /\ \A i \in 1 .. Len(lens), d \in Nat :
       1 <= d /\ d <= dist[i] => \E j \in 1 .. Len(lens) : dist[j + 1] < d /\ d <= dist[j]
  /\ \A j \in 1 .. Len(lens), k \in Nat :
       k < Hdr + lens[j] /\ dist[j] - k <= Size => buf[At(w, dist[j] - k)] = <<j, k>>

\* Entry i starts at off, and a header can be written before it is reached.
Starts(lens, w, dist, off, i) ==
  i \in 1 .. Len(lens) + 1 /\ dist[i] < Size - Hdr /\ off = At(w, dist[i])

\* The distances once an entry of n bytes has been written.
Lengthened(dist, L, n) == [i \in 1 .. L + 2 |-> IF i = L + 2 THEN 0 ELSE dist[i] + n]

\* A write that is shorter than the ring leaves the entries placed.
LEMMA PlacedNext ==
  ASSUME NEW buf, NEW lens \in Seq(Nat), NEW w \in Offset, NEW dist, Placed(buf, lens, w, dist),
         NEW h \in Nat, Hdr + h < Size
  PROVE  LET L  == Len(lens)
             w1 == logger_offset(w + Hdr)
             w2 == logger_offset(w1 + h)
             b  == do_write_log(do_write_log(buf, w, L + 1, 0, Hdr), w1, L + 1, Hdr, h)
         IN  Placed(b, Append(lens, h), w2, Lengthened(dist, L, Hdr + h))
<1> DEFINE L == Len(lens)
           w1 == logger_offset(w + Hdr)
           w2 == logger_offset(w1 + h)
           b == do_write_log(do_write_log(buf, w, L + 1, 0, Hdr), w1, L + 1, Hdr, h)
           n == Hdr + h
           lens2 == Append(lens, h)
           d2 == Lengthened(dist, L, n)
<1>1. /\ L \in Nat /\ Len(lens2) = L + 1 /\ lens2[L + 1] = h
      /\ \A j \in 1 .. L : lens2[j] = lens[j] /\ lens[j] \in Nat
  BY AppendProperties, LenProperties, ElementOfSeq
<1>2. Hdr \in Nat /\ Hdr >= 1 /\ Size \in Nat /\ n \in Nat /\ n < Size /\ h \in Nat /\ n = Hdr + h
  BY LogAssumption
<1>3. /\ dist \in [1 .. L + 1 -> Nat] /\ dist[L + 1] = 0
      /\ \A j \in 1 .. L : dist[j] = dist[j + 1] + Hdr + lens[j]
      /\ \A i, j \in 1 .. L + 1 : i <= j => dist[j] <= dist[i]
      /\ \A i \in 1 .. L, d \in Nat :
           1 <= d /\ d <= dist[i] => \E j \in 1 .. L : dist[j + 1] < d /\ d <= dist[j]
  BY DEF Placed
<1>4. /\ d2 \in [1 .. L + 2 -> Nat] /\ d2[L + 2] = 0 /\ d2[L + 1] = n
      /\ \A j \in 1 .. L + 1 : d2[j] = dist[j] + n
  BY <1>1, <1>2, <1>3 DEF Lengthened
<1>5. \A d \in 1 .. Size : b[At(w2, d)] = IF d <= n THEN <<L + 1, n - d>> ELSE buf[At(w, d - n)]
  <2> SUFFICES ASSUME NEW d \in 1 .. Size
               PROVE  b[At(w2, d)] = IF d <= n THEN <<L + 1, n - d>> ELSE buf[At(w, d - n)]
    OBVIOUS
  <2>1. b[At(w2, d)] = IF d <= n THEN <<L + 1, n - d>> ELSE buf[At(w2, d)]
    <3>1. Hdr + h <= Size
      BY <1>2
    <3>2. b[At(w2, d)] = IF d <= Hdr + h THEN <<L + 1, Hdr + h - d>> ELSE buf[At(w2, d)]
      <4> HIDE DEF L
      <4> QED
        BY <3>1, TwoPieces
    <3>3. Hdr + h - d = n - d
      BY <1>2
    <3> HIDE DEF b, w2, L
    <3> QED
      BY <3>2, <3>3
  <2>2. CASE d > n
    <3>1. w1 \in Offset /\ h \in 0 .. Size /\ Hdr \in 0 .. Size
      BY <1>2, AtMoved
    <3>2. d - n \in 0 .. Size - h /\ d - n + Hdr \in 0 .. Size - h /\ d - n \in 0 .. Size - Hdr
      BY <1>2, <2>2
    <3>3. At(w1, (d - n) + Hdr) = At(w, d - n)
      BY <3>1, <3>2, AtMoved
    <3>4. At(w2, (d - n + Hdr) + h) = At(w1, d - n + Hdr)
      <4> HIDE DEF w1
      <4> QED
        BY <3>1, <3>2, AtMoved
    <3>5. (d - n + Hdr) + h = d
      BY <1>2
    <3>6. ~ (d <= n)
      BY <1>2, <2>2
    <3> QED
      BY <2>1, <3>3, <3>4, <3>5, <3>6
  <2> QED
    BY <1>2, <2>1, <2>2
<1> HIDE DEF L, w1, w2, b, n, lens2, d2
<1>4a. \A j \in 1 .. L + 1 : j \in Nat /\ j >= 1 /\ j <= L + 1 /\ dist[j] \in Nat /\ d2[j] = dist[j] + n
  BY <1>1, <1>3, <1>4
<1>4b. \A j \in 1 .. L : j \in 1 .. L + 1 /\ j + 1 \in 1 .. L + 1 /\ j # L + 1
  BY <1>1
<1>4c. \A j \in 1 .. L + 1 : j = L + 1 \/ j \in 1 .. L
  BY <1>1
<1>6. ASSUME NEW j \in 1 .. L + 1 PROVE d2[j] = d2[j + 1] + Hdr + lens2[j]
  <2>1. CASE j = L + 1
    <3> d2[j] = n /\ d2[j + 1] = 0 /\ lens2[j] = h
      <4> (L + 1) + 1 = L + 2
        BY <1>1
      <4> QED
        BY <1>1, <1>4, <2>1
    <3> QED
      BY <1>2
  <2>2. CASE j \in 1 .. L
    <3> /\ dist[j] = dist[j + 1] + Hdr + lens[j] /\ dist[j] \in Nat /\ dist[j + 1] \in Nat
        /\ d2[j] = dist[j] + n /\ d2[j + 1] = dist[j + 1] + n
        /\ lens2[j] = lens[j] /\ lens[j] \in Nat
      BY <1>1, <1>3, <1>4a, <1>4b, <2>2
    <3> QED
      BY <1>2
  <2> QED
    BY <1>4c, <2>1, <2>2
<1>7. ASSUME NEW i \in 1 .. L + 2, NEW j \in 1 .. L + 2, i <= j PROVE d2[j] <= d2[i]
  <2>1. CASE j = L + 2
    BY <1>4, <2>1
  <2>2. CASE j # L + 2
    <3>1. i \in 1 .. L + 1 /\ j \in 1 .. L + 1
      BY <1>1, <1>7, <2>2
    <3>2. dist[j] <= dist[i] /\ dist[i] \in Nat /\ dist[j] \in Nat
      BY <1>3, <1>4a, <1>7, <3>1
    <3> QED
      BY <1>2, <1>4, <3>1, <3>2
  <2> QED
    BY <2>1, <2>2
<1>8. ASSUME NEW i \in 1 .. L + 1, NEW d \in Nat, 1 <= d, d <= d2[i]
      PROVE  \E j \in 1 .. L + 1 : d2[j + 1] < d /\ d <= d2[j]
  <2>1. CASE d <= n
    <3>1. L + 1 \in 1 .. L + 1 /\ (L + 1) + 1 = L + 2
      BY <1>1
    <3> QED
      BY <1>2, <1>4, <1>8, <2>1, <3>1
  <2>2. CASE d > n
    <3>0. dist[i] \in Nat /\ d2[i] = dist[i] + n
      BY <1>4a
    <3>1. i \in 1 .. L /\ d - n \in Nat /\ 1 <= d - n /\ d - n <= dist[i]
      <4>1. d - n \in Nat /\ 1 <= d - n /\ d - n <= dist[i]
        BY <1>2, <1>8, <2>2, <3>0
      <4>2. i # L + 1
        BY <1>2, <1>3, <4>1
      <4> QED
        BY <1>4c, <4>1, <4>2
    <3>2. PICK j \in 1 .. L : dist[j + 1] < d - n /\ d - n <= dist[j]
      BY <1>3, <3>1
    <3>3. dist[j] \in Nat /\ dist[j + 1] \in Nat /\ j \in 1 .. L + 1
          /\ d2[j] = dist[j] + n /\ d2[j + 1] = dist[j + 1] + n
      BY <1>4a, <1>4b, <3>2
    <3>4. d2[j + 1] < d /\ d <= d2[j]
      BY <1>2, <3>2, <3>3
    <3> QED
      BY <3>3, <3>4
  <2> QED
    BY <1>2, <2>1, <2>2
<1>9. ASSUME NEW j \in 1 .. L + 1, NEW k \in Nat, k < Hdr + lens2[j], d2[j] - k <= Size
      PROVE  b[At(w2, d2[j] - k)] = <<j, k>>
  <2>1. CASE j = L + 1
    <3>0. d2[j] = n /\ lens2[j] = h
      BY <1>1, <1>4, <2>1
    <3>1. d2[j] - k \in 1 .. Size /\ d2[j] - k <= n /\ n - (d2[j] - k) = k
      BY <1>2, <1>9, <3>0
    <3> QED
      BY <1>5, <2>1, <3>1
  <2>2. CASE j # L + 1
    <3>1. j \in 1 .. L /\ dist[j] \in Nat /\ dist[j + 1] \in Nat /\ dist[j] = dist[j + 1] + Hdr + lens[j]
          /\ lens2[j] = lens[j] /\ lens[j] \in Nat /\ d2[j] = dist[j] + n
      BY <1>1, <1>3, <1>4a, <1>4b, <1>4c, <2>2
    <3>2. d2[j] - k \in 1 .. Size /\ ~ (d2[j] - k <= n) /\ (d2[j] - k) - n = dist[j] - k
          /\ dist[j] - k <= Size
      <4>1. k < Hdr + lens[j]
        BY <1>9, <3>1
      <4>0. \A a, c, l \in Nat : a = c + Hdr + l /\ k < Hdr + l =>
              a - k > 0 /\ (a + n) - k = (a - k) + n /\ a - k \in Int
        BY <1>2
      <4>2. dist[j] - k > 0 /\ d2[j] - k = (dist[j] - k) + n /\ dist[j] - k \in Int
        BY <3>1, <4>0, <4>1
      <4> QED
        BY <1>2, <1>9, <4>2
    <3>3. buf[At(w, dist[j] - k)] = <<j, k>>
      BY <1>9, <3>1, <3>2 DEF Placed, L
    <3> QED
      BY <1>5, <3>2, <3>3
  <2> QED
    BY <2>1, <2>2
<1> Placed(b, lens2, w2, d2)
  <2>1. Len(lens2) + 1 = L + 2
    BY <1>1
  <2> QED
    BY <1>1, <1>4, <1>6, <1>7, <1>8, <1>9, <2>1 DEF Placed
<1> QED
  BY DEF L, w1, w2, b, n, lens2, d2

\* Entries lo to K of a buffer are at pos and reach, one after the other, to the
\* place pos[K + 1]; dist[i] bytes are left from entry i on.
Path(buf, lens, pos, dist, lo, K) ==
  /\ K \in Nat /\ lo \in 1 .. K + 1
  /\ dist \in [1 .. K + 1 -> Nat] /\ dist[K + 1] = 0
  /\ \A i \in lo .. K :
       /\ pos[i] \in Offset
       /\ dist[i] = dist[i + 1] + get_entry_len(buf, lens, pos[i])
       /\ logger_offset(pos[i] + get_entry_len(buf, lens, pos[i])) = pos[i + 1]

\* The entries from i to j - 1 cover n bytes, and without the last of them they do not.
Covering(dist, i, j, n) ==
  dist[j] + n <= dist[i] /\ \A k \in i .. j - 1 : dist[i] < dist[k] + n

\* Where get_next_entry ends up on a path, started at entry i.
LEMMA WalkLands ==
  ASSUME NEW buf, NEW lens, Ring(buf, lens), NEW n \in Nat, n >= 1, NEW K, NEW pos, NEW dist,
         NEW lo, Path(buf, lens, pos, dist, lo, K), NEW first \in lo .. K, n <= dist[first]
  PROVE  \E j \in first + 1 .. K + 1 :
           /\ get_next_entry(buf, lens, pos[first], n) = pos[j]
           /\ Covering(dist, first, j, n)
           /\ dist[K] + n <= dist[first] => j <= K
<1>0. /\ K \in Nat /\ lo \in 1 .. K + 1 /\ lo \in Nat /\ lo >= 1
      /\ dist \in [1 .. K + 1 -> Nat] /\ dist[K + 1] = 0
      /\ \A i \in lo .. K :
           /\ pos[i] \in Offset
           /\ dist[i] = dist[i + 1] + get_entry_len(buf, lens, pos[i])
           /\ logger_offset(pos[i] + get_entry_len(buf, lens, pos[i])) = pos[i + 1]
  BY DEF Path
<1>0a. K \in Nat /\ lo \in Nat /\ lo >= 1
  BY <1>0
<1> PICK f : /\ f = Walking(f, buf, lens, n)
             /\ \A o : get_next_entry(buf, lens, o, n) = f[<<o, n>>]
  BY WalkDef
<1> DEFINE Lands(i, m) == \E j \in i + 1 .. K + 1 :
                            /\ f[<<pos[i], m>>] = pos[j]
                            /\ Covering(dist, i, j, m)
                            /\ dist[K] + m <= dist[i] => j <= K
           Bad == {m \in 1 .. n : \E i \in lo .. K : m <= dist[i] /\ ~ Lands(i, m)}
<1>1. ASSUME NEW m \in Bad, \A k \in Nat : k < m => k \notin Bad PROVE FALSE
  <2> HIDE DEF Lands
  <2>0. m \in 1 .. n /\ \E i \in lo .. K : m <= dist[i] /\ ~ Lands(i, m)
    OBVIOUS
  <2> PICK i \in lo .. K : m <= dist[i] /\ ~ Lands(i, m)
    BY <2>0
  <2> DEFINE nr == get_entry_len(buf, lens, pos[i])
  <2>1. /\ pos[i] \in Offset /\ dist[i] = dist[i + 1] + nr
        /\ logger_offset(pos[i] + nr) = pos[i + 1]
    BY <1>0
  <2>2. nr \in Nat /\ nr >= 1
    BY <2>1, EntryLength, LogAssumption
  <2>3. /\ m \in 1 .. n /\ m \in 0 .. n /\ i \in Nat /\ i >= lo /\ i <= K /\ i >= 1
        /\ i + 1 \in 1 .. K + 1 /\ i \in 1 .. K + 1 /\ K \in 1 .. K + 1
    BY <1>0a, <2>0
  <2>3a. i \in Nat /\ i >= 1 /\ i <= K /\ m \in Nat /\ m >= 1
    BY <2>3
  <2>4. f[<<pos[i], m>>] = IF nr >= m THEN pos[i + 1] ELSE f[<<pos[i + 1], m - nr>>]
    <3> f[<<pos[i], m>>] = Walking(f, buf, lens, n)[<<pos[i], m>>]
      OBVIOUS
    <3> QED
      BY <2>1, <2>3 DEF Walking
  <2>5. dist[i] \in Nat /\ dist[i + 1] \in Nat /\ dist[K] \in Nat
    BY <1>0, <2>3
  <2>6. i = K => dist[K] = dist[i]
    OBVIOUS
  <2> HIDE DEF nr, Bad
  <2>7. CASE nr >= m
    <3>1. dist[i + 1] + m <= dist[i] /\ (dist[K] + m <= dist[i] => i + 1 <= K)
      <4>1. dist[i + 1] + m <= dist[i]
        BY <2>1, <2>2, <2>3a, <2>5, <2>7
      <4>2. CASE i = K
        BY <2>3a, <2>5, <2>6, <4>1, <4>2
      <4>3. CASE i # K
        BY <1>0a, <2>3a, <4>1, <4>3
      <4> QED
        BY <4>2, <4>3
    <3>2. i + 1 \in i + 1 .. K + 1 /\ \A k \in i .. (i + 1) - 1 : k = i
      BY <1>0a, <2>3a
    <3>3. dist[i] < dist[i] + m
      BY <2>3, <2>5
    <3>4. Covering(dist, i, i + 1, m)
      BY <3>1, <3>2, <3>3 DEF Covering
    <3> QED
      BY <2>4, <2>7, <3>1, <3>2, <3>4 DEF Lands
  <2>8. CASE ~ (nr >= m)
    <3>1. /\ m - nr \in 1 .. n /\ m - nr < m /\ m - nr \in Nat
          /\ m - nr <= dist[i + 1]
      BY <2>1, <2>2, <2>3, <2>5, <2>8
    <3>2. m - nr \notin Bad
      BY <1>1, <3>1
    <3>3. CASE i = K
      \* The last stride covers all that is left.
      <4> QED
        BY <1>0, <2>1, <2>2, <2>3, <2>5, <2>8, <3>3, <3>1
    <3>4. CASE i # K
      <4>1. i + 1 \in lo .. K
        BY <1>0a, <2>3, <3>4
      <4>2. PICK j \in (i + 1) + 1 .. K + 1 :
              /\ f[<<pos[i + 1], m - nr>>] = pos[j]
              /\ Covering(dist, i + 1, j, m - nr)
              /\ dist[K] + (m - nr) <= dist[i + 1] => j <= K
        BY <3>1, <3>2, <4>1 DEF Bad, Lands
      <4>3. j \in i + 1 .. K + 1 /\ j \in 1 .. K + 1
        <5> j \in (i + 1) + 1 .. K + 1
          OBVIOUS
        <5> QED
          BY <1>0a, <2>3a
      <4>4. dist[j] \in Nat
        BY <1>0, <4>3
      <4>5. dist[j] + m <= dist[i]
        BY <2>1, <2>2, <2>3, <2>5, <3>1, <4>2, <4>4 DEF Covering
      <4>6. ASSUME dist[K] + m <= dist[i] PROVE j <= K
        <5> dist[K] + (m - nr) <= dist[i + 1]
          BY <2>1, <2>2, <2>3, <2>5, <4>6
        <5> QED
          BY <4>2
      <4>7. ASSUME NEW k \in i .. j - 1 PROVE dist[i] < dist[k] + m
        <5>1. CASE k = i
          BY <2>3, <2>5, <5>1
        <5>2. CASE k # i
          <6>1. k \in i + 1 .. j - 1 /\ k \in 1 .. K + 1
            BY <1>0a, <2>3a, <4>3, <5>2
          <6>2. dist[i + 1] < dist[k] + (m - nr) /\ dist[k] \in Nat
            BY <1>0, <4>2, <6>1 DEF Covering
          <6> QED
            BY <2>1, <2>2, <2>3, <2>5, <6>2
        <5> QED
          BY <5>1, <5>2
      <4>8. Covering(dist, i, j, m)
        BY <4>5, <4>7 DEF Covering
      <4> QED
        BY <2>4, <2>8, <4>2, <4>3, <4>6, <4>8 DEF Lands
    <3> QED
      BY <3>3, <3>4
  <2> QED
    BY <2>7, <2>8
<1>2. Bad = {}
  <2> Bad \subseteq Nat
    OBVIOUS
  <2> HIDE DEF Bad
  <2> QED
    BY <1>1, LeastBad
<1>3. n \in 1 .. n
  OBVIOUS
<1>4. \A i \in lo .. K : n <= dist[i] => Lands(i, n)
  BY <1>2, <1>3
<1> QED
  BY <1>4

\* A place that is d bytes behind w is d + Hdr + h bytes behind where two writes leave w.
LEMMA AtMovedTwice ==
  ASSUME NEW w \in Offset, NEW h \in Nat, Hdr + h <= Size, NEW d \in Nat, d + (Hdr + h) <= Size
  PROVE  LET w1 == logger_offset(w + Hdr)
             w2 == logger_offset(w1 + h)
         IN  At(w2, d + (Hdr + h)) = At(w, d) /\ w1 \in Offset /\ w2 \in Offset
<1> DEFINE w1 == logger_offset(w + Hdr)
           w2 == logger_offset(w1 + h)
<1>1. Hdr \in 0 .. Size /\ h \in 0 .. Size /\ d \in 0 .. Size - Hdr /\ d + Hdr \in 0 .. Size - h
      /\ (d + Hdr) + h = d + (Hdr + h)
  BY LogAssumption
<1>2. w1 \in Offset /\ At(w1, d + Hdr) = At(w, d)
  BY <1>1, AtMoved
<1>3. w2 \in Offset /\ At(w2, (d + Hdr) + h) = At(w1, d + Hdr)
  <2> HIDE DEF w1
  <2> QED
    BY <1>1, <1>2, AtMoved
<1> QED
  BY <1>1, <1>2, <1>3

\* fix_up_readers moves the readers that the new entry would run into.
LEMMA Caught ==
  ASSUME NEW w \in Offset, NEW n \in Nat, n < Size, NEW d \in Nat, d < Size - Hdr, Hdr < Size
  PROVE  LET w1 == logger_offset(w + Hdr)
         IN  clock_interval(w1, logger_offset(w1 + n), At(w, d)) <=> d >= Size - Hdr - n
<1> DEFINE w1 == logger_offset(w + Hdr)
           w3 == logger_offset(w1 + n)
           c == At(w, d)
<1>1. /\ Size \in Nat /\ Hdr \in 0 .. Size /\ Hdr \in Nat /\ Hdr >= 1 /\ d \in 0 .. Size
      /\ n \in 0 .. Size /\ w \in Nat /\ w < Size
  BY LogAssumption DEF Offset
<1>2. w1 = IF w + Hdr < Size THEN w + Hdr ELSE w + Hdr - Size
  BY <1>1, Onward
<1>3. w1 \in Offset
  BY <1>1, <1>2 DEF Offset
<1>4. w3 = IF w1 + n < Size THEN w1 + n ELSE w1 + n - Size
  <2> HIDE DEF w1
  <2> QED
    BY <1>1, <1>3, Onward
<1>5. c = IF d <= w THEN w - d ELSE w + Size - d
  BY <1>1, AtIs
<1> HIDE DEF w1, w3, c
<1>6. w1 \in Nat /\ w3 \in Nat /\ c \in Nat
  BY <1>1, <1>2, <1>4, <1>5
<1>7. clock_interval(w1, w3, c) <=> d >= Size - Hdr - n
  BY <1>1, <1>2, <1>4, <1>5, <1>6 DEF clock_interval
<1> QED
  BY <1>7 DEF w1, w3, c

\* fix_up_readers leaves a pointer at the start of an entry: the one it was at or
\* a later one, and if the ring has room for two entries and a header no later
\* than the entry being written.
LEMMA FixUpLands ==
  ASSUME NEW buf, NEW lens, Ring(buf, lens), NEW w \in Offset, NEW dist, Placed(buf, lens, w, dist),
         NEW h \in Nat, Hdr + h < Size, NEW off, NEW i, Starts(lens, w, dist, off, i)
  PROVE  LET L  == Len(lens)
             n  == Hdr + h
             w1 == logger_offset(w + Hdr)
             w2 == logger_offset(w1 + h)
             b  == do_write_log(buf, w, L + 1, 0, Hdr)
             to == fix_up(b, Append(lens, h), w1, n, off)
         IN  \E j \in i .. L + 2 :
               /\ Starts(Append(lens, h), w2, Lengthened(dist, L, n), to, j)
               /\ Hdr + (n + n) <= Size => j <= L + 1
               /\ IF dist[i] < Size - Hdr - n THEN j = i
                  ELSE Covering(Lengthened(dist, L, n), i, j, n)
<1> DEFINE L == Len(lens)
           n == Hdr + h
           w1 == logger_offset(w + Hdr)
           w2 == logger_offset(w1 + h)
           b == do_write_log(buf, w, L + 1, 0, Hdr)
           lens2 == Append(lens, h)
           d2 == Lengthened(dist, L, n)
           to == fix_up(b, lens2, w1, n, off)
<1>0. lens \in Seq(Nat)
  BY DEF Ring
<1>1. /\ L \in Nat /\ Len(lens2) = L + 1 /\ lens2[L + 1] = h
      /\ \A j \in 1 .. L : lens2[j] = lens[j] /\ lens[j] \in Nat
  BY <1>0, AppendProperties, LenProperties, ElementOfSeq
<1>2. Hdr \in Nat /\ Hdr >= 1 /\ Size \in Nat /\ n \in Nat /\ n < Size /\ h \in Nat /\ n = Hdr + h
  BY LogAssumption
<1>3. /\ dist \in [1 .. L + 1 -> Nat] /\ dist[L + 1] = 0
      /\ \A j \in 1 .. L : dist[j] = dist[j + 1] + Hdr + lens[j]
      /\ \A k, j \in 1 .. L + 1 : k <= j => dist[j] <= dist[k]
      /\ \A j \in 1 .. L, k \in Nat :
           k < Hdr + lens[j] /\ dist[j] - k <= Size => buf[At(w, dist[j] - k)] = <<j, k>>
  BY DEF Placed
<1>4. /\ d2 \in [1 .. L + 2 -> Nat] /\ d2[L + 2] = 0 /\ d2[L + 1] = n
      /\ \A j \in 1 .. L + 1 : d2[j] = dist[j] + n
  BY <1>1, <1>2, <1>3 DEF Lengthened
<1>5. i \in 1 .. L + 1 /\ dist[i] < Size - Hdr /\ off = At(w, dist[i]) /\ dist[i] \in Nat
  BY <1>3 DEF Starts
<1>6. Ring(b, lens2)
  <2>1. Ring(buf, lens2) /\ L + 1 \in 0 .. Len(lens2)
    BY <1>1, Lengthen
  <2> HIDE DEF lens2, L
  <2> QED
    BY <1>2, <2>1, WriteRange
<1>7. \A d \in Nat : d + n <= Size => At(w2, d + n) = At(w, d)
  BY <1>2, AtMovedTwice
<1>8. w1 \in Offset /\ w2 \in Offset
  <2> w + Hdr \in Nat
    BY <1>2 DEF Offset
  <2> w1 \in Offset
    BY OffsetRange
  <2> HIDE DEF w1
  <2> w1 + h \in Nat
    BY <1>2 DEF Offset
  <2> QED
    BY OffsetRange
<1>9. At(w2, 0) = w2 /\ At(w, 0) = w /\ At(w, Size) = w
  <2> 0 \in 0 .. Size /\ Size \in 0 .. Size
    BY <1>2
  <2> HIDE DEF w2
  <2> QED
    BY <1>8, AtRange
<1>10. clock_interval(w1, logger_offset(w1 + n), off) <=> dist[i] >= Size - Hdr - n
  <2> Hdr < Size
    BY <1>2
  <2> HIDE DEF n
  <2> QED
    BY <1>2, <1>5, Caught
<1>11. \A k \in 1 .. L + 1 : k \in Nat /\ k >= 1 /\ k <= L + 1 /\ dist[k] \in Nat
  BY <1>1, <1>3
<1>12. \A k \in 1 .. L + 1 : k = L + 1 \/ (k \in 1 .. L /\ k + 1 \in 1 .. L + 1 /\ k + 1 # L + 2)
  BY <1>1
<1> HIDE DEF L, n, w1, w2, b, lens2, d2
<1>13. CASE dist[i] >= Size - Hdr - n
  <2> DEFINE pos == [k \in 1 .. L + 2 |-> IF k = L + 2 THEN w2 ELSE At(w, dist[k])]
             long(k) == get_entry_len(b, lens2, pos[k])
  <2>1. ASSUME NEW k \in i .. L + 1
        PROVE  /\ pos[k] \in Offset /\ d2[k] = d2[k + 1] + long(k)
               /\ logger_offset(pos[k] + long(k)) = pos[k + 1]
    <3>1. k \in 1 .. L + 1 /\ dist[k] \in Nat /\ dist[k] <= dist[i] /\ dist[k] < Size - Hdr
      BY <1>1, <1>2, <1>3, <1>5, <1>11
    <3>2. k # L + 2 /\ k \in 1 .. L + 2 /\ k + 1 \in 1 .. L + 2
      BY <1>1, <3>1
    <3>3. pos[k] = At(w, dist[k])
      BY <3>2
    <3>4. CASE k \in 1 .. L
      <4>1. /\ dist[k] = dist[k + 1] + Hdr + lens[k] /\ dist[k + 1] \in Nat /\ lens[k] \in Nat
            /\ lens2[k] = lens[k] /\ k + 1 # L + 2 /\ k + 1 \in 1 .. L + 1
        BY <1>1, <1>3, <1>11, <1>12, <3>4
      <4>2. dist[k] \in 1 .. Size /\ dist[k] \in 0 .. Size /\ dist[k] - 0 = dist[k] /\ 0 < Hdr + lens[k]
            /\ ~ (Size - dist[k] < Hdr) /\ Hdr + lens[k] \in 0 .. dist[k]
            /\ dist[k] - (Hdr + lens[k]) = dist[k + 1]
        BY <1>2, <3>1, <4>1
      <4>3. b[At(w, dist[k])] = buf[At(w, dist[k])]
        <5> DEFINE e == dist[k]
        <5>p. OnePiece(b, buf, w, L + 1, 0, Hdr)
          <6> Hdr \in 0 .. Size /\ 0 \in Nat
            BY <1>2, <4>2
          <6> QED
            BY Piece DEF b
        <5>1. b[At(w, e)] = IF Size - e < Hdr THEN <<L + 1, 0 + (Size - e)>> ELSE buf[At(w, e)]
          <6> HIDE DEF e
          <6> e \in 1 .. Size
            BY <4>2 DEF e
          <6> QED
            BY <5>p DEF OnePiece
        <5> QED
          BY <4>2, <5>1
      <4>4. b[At(w, dist[k])] = <<k, 0>>
        <5> dist[k] <= Size /\ 0 \in Nat
          BY <4>2
        <5> QED
          BY <1>3, <3>4, <4>2, <4>3
      <4>5. long(k) = Hdr + lens[k]
        <5> k # 0
          BY <3>1
        <5> QED
          BY <3>3, <4>1, <4>4 DEF get_entry_len
      <4>6. pos[k + 1] = At(w, dist[k + 1])
        BY <3>2, <4>1
      <4>7. At(w, dist[k]) \in Offset /\ logger_offset(At(w, dist[k]) + (Hdr + lens[k])) = At(w, dist[k + 1])
        BY <4>2, AtRange, AtStep
      <4>8. d2[k] = d2[k + 1] + (Hdr + lens[k])
        <5> d2[k] = dist[k] + n /\ d2[k + 1] = dist[k + 1] + n
          BY <1>4, <3>1, <4>1
        <5> QED
          BY <1>2, <4>1
      <4> HIDE DEF pos
      <4> QED
        BY <3>3, <4>5, <4>6, <4>7, <4>8
    <3>5. CASE k = L + 1
      <4>1. pos[k] = w /\ pos[k + 1] = w2
        <5> (L + 1) + 1 = L + 2
          BY <1>1
        <5> QED
          BY <1>3, <1>9, <3>2, <3>3, <3>5
      <4>2. b[w] = <<L + 1, 0>>
        <5>1. Size \in 1 .. Size /\ Size - Size = 0 /\ 0 < Hdr /\ 0 + (Size - Size) = 0 /\ Hdr \in 0 .. Size
          BY <1>2
        <5>p. OnePiece(b, buf, w, L + 1, 0, Hdr)
          BY <5>1, Piece DEF b
        <5>2. b[At(w, Size)] = IF Size - Size < Hdr THEN <<L + 1, 0 + (Size - Size)>> ELSE buf[At(w, Size)]
          <6> DEFINE e == Size
          <6> HIDE DEF e
          <6> e \in 1 .. Size
            BY <5>1 DEF e
          <6> b[At(w, e)] = IF Size - e < Hdr THEN <<L + 1, 0 + (Size - e)>> ELSE buf[At(w, e)]
            BY <5>p DEF OnePiece
          <6> QED
            BY DEF e
        <5> QED
          BY <1>9, <5>1, <5>2
      <4>3. long(k) = n
        <5> L + 1 # 0
          BY <1>1
        <5> QED
          BY <1>1, <1>2, <4>1, <4>2 DEF get_entry_len
      <4>4. logger_offset(w + n) = w2
        <5> DEFINE v == logger_offset(w1 + h)
        <5>1. Hdr \in 0 .. Size /\ h \in 0 .. Size /\ n \in 0 .. Size /\ w \in Nat /\ w < Size
          BY <1>2 DEF Offset
        <5>2. w1 = IF w + Hdr < Size THEN w + Hdr ELSE w + Hdr - Size
          BY <5>1, Onward DEF w1
        <5>3. v = IF w1 + h < Size THEN w1 + h ELSE w1 + h - Size
          BY <5>1, <1>8, Onward
        <5>4. logger_offset(w + n) = IF w + n < Size THEN w + n ELSE w + n - Size
          BY <5>1, Onward
        <5>5. w1 \in Nat
          BY <1>2, <5>1, <5>2
        <5>6. v = w2
          BY DEF w2, w1
        <5> HIDE DEF v
        <5>7. logger_offset(w + n) = v
          BY <1>2, <5>1, <5>2, <5>3, <5>4, <5>5
        <5> QED
          BY <5>6, <5>7
      <4>5. d2[k] = n /\ d2[k + 1] = 0
        <5> (L + 1) + 1 = L + 2
          BY <1>1
        <5> QED
          BY <1>4, <3>5
      <4> HIDE DEF pos
      <4> QED
        BY <1>2, <4>1, <4>3, <4>4, <4>5
    <3> QED
      BY <1>12, <3>1, <3>4, <3>5
  <2>2. PICK j \in i + 1 .. (L + 1) + 1 :
          /\ get_next_entry(b, lens2, pos[i], n) = pos[j]
          /\ Covering(d2, i, j, n)
          /\ d2[L + 1] + n <= d2[i] => j <= L + 1
    <3>1. L + 1 \in Nat /\ (L + 1) + 1 = L + 2 /\ i \in 1 .. (L + 1) + 1 /\ i \in i .. L + 1
          /\ d2 \in [1 .. (L + 1) + 1 -> Nat] /\ d2[(L + 1) + 1] = 0
      BY <1>1, <1>4, <1>5
    <3>2. n >= 1 /\ n <= d2[i]
      BY <1>2, <1>4, <1>5
    <3> HIDE DEF pos
    <3>3. \A k \in i .. L + 1 :
            /\ pos[k] \in Offset
            /\ d2[k] = d2[k + 1] + get_entry_len(b, lens2, pos[k])
            /\ logger_offset(pos[k] + get_entry_len(b, lens2, pos[k])) = pos[k + 1]
      BY <2>1
    <3> DEFINE K == L + 1
    <3>4. Path(b, lens2, pos, d2, i, K) /\ i \in i .. K
      BY <3>1, <3>3 DEF Path
    <3> HIDE DEF K
    <3>5. \E j \in i + 1 .. K + 1 :
            /\ get_next_entry(b, lens2, pos[i], n) = pos[j]
            /\ Covering(d2, i, j, n)
            /\ d2[K] + n <= d2[i] => j <= K
      BY <1>2, <1>6, <3>2, <3>4, WalkLands
    <3> QED
      BY <3>5 DEF K
  <2>3. to = pos[j]
    <3> pos[i] = off
      BY <1>1, <1>5, <1>11
    <3> QED
      BY <1>10, <1>13, <2>2 DEF fix_up
  <2>4. j \in 1 .. L + 2 /\ j \in i .. L + 2
    BY <1>1, <1>5, <2>2
  <2>5. d2[j] <= dist[i] /\ d2[j] < Size - Hdr
    <3> d2[i] = dist[i] + n /\ d2[j] \in Nat /\ d2[j] + n <= d2[i]
      BY <1>4, <1>5, <2>2, <2>4 DEF Covering
    <3> QED
      BY <1>2, <1>5
  <2>6. pos[j] = At(w2, d2[j])
    <3>1. CASE j = L + 2
      BY <1>4, <1>9, <2>4, <3>1
    <3>2. CASE j # L + 2
      <4>1. j \in 1 .. L + 1
        BY <1>1, <2>4, <3>2
      <4>2. d2[j] = dist[j] + n /\ dist[j] \in Nat
        BY <1>4, <1>11, <4>1
      <4>3. dist[j] + n <= Size
        BY <1>2, <2>5, <4>2
      <4> QED
        BY <1>7, <2>4, <3>2, <4>2, <4>3
    <3> QED
      BY <3>1, <3>2
  <2>7. ASSUME Hdr + (n + n) <= Size PROVE j <= L + 1
    <3> d2[i] = dist[i] + n /\ d2[L + 1] = n
      BY <1>4, <1>5
    <3> QED
      BY <1>2, <1>5, <1>13, <2>2, <2>7
  <2>8. Starts(lens2, w2, d2, to, j)
    <3> Len(lens2) + 1 = L + 2
      BY <1>1
    <3> QED
      BY <2>3, <2>4, <2>5, <2>6 DEF Starts
  <2>9. IF dist[i] < Size - Hdr - n THEN j = i ELSE Covering(d2, i, j, n)
    BY <1>2, <1>5, <1>13, <2>2
  <2> HIDE DEF to
  <2> QED
    BY <2>4, <2>7, <2>8, <2>9 DEF to, L, n, w1, w2, b, lens2, d2
<1>14. CASE ~ (dist[i] >= Size - Hdr - n)
  <2>1. to = off
    BY <1>10, <1>14 DEF fix_up
  <2>2. dist[i] + n < Size - Hdr /\ dist[i] + n <= Size
    BY <1>2, <1>5, <1>14
  <2>3. off = At(w2, dist[i] + n) /\ d2[i] = dist[i] + n
    BY <1>4, <1>5, <1>7, <2>2
  <2>4. i \in i .. L + 2 /\ i \in 1 .. L + 2 /\ i <= L + 1
    BY <1>1, <1>5
  <2>5. Starts(lens2, w2, d2, to, i)
    <3> Len(lens2) + 1 = L + 2
      BY <1>1
    <3> QED
      BY <2>1, <2>2, <2>3, <2>4 DEF Starts
  <2>6. dist[i] < Size - Hdr - n
    BY <1>2, <1>5, <1>14
  <2> HIDE DEF to
  <2> QED
    BY <2>4, <2>5, <2>6 DEF to, L, n, w1, w2, b, lens2, d2
<1> QED
  BY <1>2, <1>5, <1>13, <1>14

-----------------------------------------------------------------------------
(* The invariant of the ring.                                              *)

\* No message is longer than the maximal payload.  The pieces of a longer one are
\* each clipped against header.len - ret, and the header may count bytes that are
\* not there.
MessagesFit == \A count \in Counts : 1 <= Tag + count /\ 2 + Tag + count <= MaxPayload

\* The ring takes an entry of maximal length and a header.
\* The ring of klogger is 128 KB, the longest entry 4 KB.
RingFits == Hdr + MaxPayload <= Size

\* What a reader has copied when the entry goes on at the start of the buffer.
Part(r) == [k \in 1 .. Min2(len[r], Size - r_off[r]) |-> <<EntryAt(r_off[r]), k - 1>>]

\* The same distances, measured along all that was ever written.
Laid(tp, dist, L) ==
  Len(tp) = L + 1 /\ \A i \in 1 .. L + 1 : tp[i] \in Nat /\ tp[i] + dist[i] = tp[L + 1]

LEMMA LaidNext ==
  ASSUME NEW tp \in Seq(Nat), NEW L \in Nat, NEW dist \in [1 .. L + 1 -> Nat], Laid(tp, dist, L),
         NEW n \in Nat
  PROVE  Laid(Append(tp, tp[Len(tp)] + n), Lengthened(dist, L, n), L + 1)
<1> DEFINE t2 == Append(tp, tp[Len(tp)] + n)
           d2 == Lengthened(dist, L, n)
<1>1. /\ Len(tp) = L + 1 /\ L + 1 \in 1 .. L + 1 /\ (L + 1) + 1 = L + 2
      /\ \A i \in 1 .. L + 1 : tp[i] \in Nat /\ tp[i] + dist[i] = tp[L + 1] /\ dist[i] \in Nat
  BY DEF Laid
<1> DEFINE x == tp[Len(tp)] + n
<1>2. x \in Nat /\ x = tp[L + 1] + n
  <2> Len(tp) = L + 1 /\ tp[L + 1] \in Nat
    BY <1>1
  <2> QED
    OBVIOUS
<1>3. /\ Len(t2) = L + 2 /\ t2[L + 2] = x
      /\ \A i \in 1 .. L + 1 : t2[i] = tp[i]
  <2> HIDE DEF x
  <2>1. /\ Len(Append(tp, x)) = Len(tp) + 1 /\ Append(tp, x)[Len(tp) + 1] = x
        /\ \A i \in 1 .. Len(tp) : Append(tp, x)[i] = tp[i]
    BY <1>2, AppendProperties
  <2>2. Len(tp) + 1 = L + 2
    BY <1>1
  <2> QED
    BY <1>1, <2>1, <2>2 DEF x
<1>4. d2[L + 2] = 0 /\ \A i \in 1 .. L + 1 : d2[i] = dist[i] + n
  BY DEF Lengthened
<1> HIDE DEF t2, d2, x
<1>5. ASSUME NEW i \in 1 .. L + 2 PROVE t2[i] \in Nat /\ t2[i] + d2[i] = t2[L + 2]
  <2>1. CASE i = L + 2
    <3> t2[i] = x /\ d2[i] = 0
      BY <1>3, <1>4, <2>1
    <3> QED
      BY <1>2, <1>3
  <2>2. CASE i # L + 2
    <3>1. i \in 1 .. L + 1
      BY <2>2
    <3>2. tp[i] \in Nat /\ dist[i] \in Nat /\ tp[i] + dist[i] = tp[L + 1]
      BY <1>1, <3>1
    <3>3. t2[i] = tp[i] /\ d2[i] = dist[i] + n
      BY <1>3, <1>4, <3>1
    <3>4. t2[i] \in Nat /\ t2[i] + d2[i] = tp[L + 1] + n
      <4> DEFINE a == tp[i]  b == dist[i]  c == tp[L + 1]
      <4>1. a \in Nat /\ b \in Nat /\ a + b = c /\ t2[i] = a /\ d2[i] = b + n
        BY <3>2, <3>3
      <4> HIDE DEF a, b, c
      <4>2. a + (b + n) = c + n
        BY <4>1
      <4> QED
        BY <4>1, <4>2 DEF c
    <3> QED
      BY <1>2, <1>3, <3>4
  <2> QED
    BY <2>1, <2>2
<1> QED
  BY <1>1, <1>3, <1>5 DEF Laid, t2, d2

\* The start head and the readers are at starts of entries that are still there.
Located ==
  \E dist :
    /\ Placed(buffer, entries, w_off, dist)
    /\ Laid(tape, dist, Written)
    /\ \E i \in Nat : Starts(entries, w_off, dist, head, i)
    /\ \A r \in Readers : Preempt \/ pc[r] = "closed"
                          \/ \E i \in Nat : Starts(entries, w_off, dist, r_off[r], i)

\* A reader inside klogger_read has measured its entry and copied the bytes of it.
Holding(r) ==
  /\ pc[r] \in {"copy", "copy2", "advance"} =>
       w_off # r_off[r] /\ len[r] = get_entry_len(buffer, entries, r_off[r])
  /\ pc[r] = "copy2" => copied[r] = Part(r)
  /\ pc[r] = "advance" => copied[r] = Whole(EntryAt(r_off[r]))

\* Unless the console preempts the readers, they hold and have got whole entries.
Undivided == Preempt \/ (WholeEntries /\ \A r \in Readers : Holding(r))

\* What is at the start of an entry and behind it.
LEMMA Standing ==
  ASSUME Typed, RingFits, NEW dist, Placed(buffer, entries, w_off, dist),
         NEW off, NEW i, Starts(entries, w_off, dist, off, i)
  PROVE  /\ i \in 1 .. Written + 1 /\ EntryAt(off) = i /\ off \in Offset
         /\ off = w_off <=> i = Written + 1
         /\ off # w_off =>
              /\ get_entry_len(buffer, entries, off) = Hdr + entries[i] /\ entries[i] \in Nat
              /\ Starts(entries, w_off, dist, logger_offset(off + (Hdr + entries[i])), i + 1)
              /\ \A k \in Nat : k < Hdr + entries[i] => buffer[logger_offset(off + k)] = <<i, k>>
<1> DEFINE L == Len(entries)
<1>1. /\ L \in Nat /\ entries \in Seq(Nat) /\ w_off \in Offset
      /\ \A j \in 1 .. L : entries[j] \in Nat
  BY LenProperties, ElementOfSeq DEF Typed, TypeOK
<1>2. Hdr \in Nat /\ Hdr >= 1 /\ Size \in Nat /\ Hdr < Size
  BY LogAssumption DEF RingFits
<1>3. /\ dist \in [1 .. L + 1 -> Nat] /\ dist[L + 1] = 0
      /\ \A j \in 1 .. L : dist[j] = dist[j + 1] + Hdr + entries[j]
      /\ \A j \in 1 .. L, k \in Nat :
           k < Hdr + entries[j] /\ dist[j] - k <= Size => buffer[At(w_off, dist[j] - k)] = <<j, k>>
  BY DEF Placed
<1>4. i \in 1 .. L + 1 /\ dist[i] < Size - Hdr /\ off = At(w_off, dist[i]) /\ dist[i] \in Nat
  BY <1>3 DEF Starts
<1>5. dist[i] \in 0 .. Size /\ dist[i] # Size
  BY <1>2, <1>4
<1>6. off \in Offset /\ (off = w_off <=> dist[i] = 0)
  BY <1>1, <1>4, <1>5, AtRange
<1>7. CASE i = L + 1
  BY <1>3, <1>4, <1>6, <1>7 DEF EntryAt, Written
<1>8. CASE i # L + 1
  <2>1. i \in 1 .. L /\ i + 1 \in 1 .. L + 1 /\ i # 0
    BY <1>1, <1>4, <1>8
  <2>2. dist[i] = dist[i + 1] + Hdr + entries[i] /\ dist[i + 1] \in Nat /\ entries[i] \in Nat
    BY <1>1, <1>3, <2>1
  <2>3. dist[i] # 0 /\ Hdr + entries[i] \in 0 .. dist[i] /\ dist[i] - (Hdr + entries[i]) = dist[i + 1]
        /\ dist[i + 1] < Size - Hdr
    <3> DEFINE this == dist[i]  that == dist[i + 1]  body == entries[i]
    <3>1. this = that + Hdr + body /\ this \in Nat /\ that \in Nat /\ body \in Nat /\ this < Size - Hdr
          /\ Hdr \in Nat /\ Hdr >= 1
      BY <1>2, <1>4, <2>2
    <3> HIDE DEF this, that, body
    <3>2. this # 0 /\ Hdr + body \in 0 .. this /\ this - (Hdr + body) = that /\ that < Size - Hdr
      BY <1>2, <3>1
    <3> QED
      BY <3>2 DEF this, that, body
  <2>4. ASSUME NEW k \in Nat, k < Hdr + entries[i] PROVE buffer[logger_offset(off + k)] = <<i, k>>
    <3>1. k \in 0 .. dist[i] /\ dist[i] - k <= Size
      <4>0. dist[i] \in Nat /\ Size \in Nat /\ Hdr + entries[i] \in Nat /\ Hdr + entries[i] <= dist[i]
            /\ dist[i] <= Size
        BY <1>2, <1>5, <2>2, <2>3
      <4> QED
        BY <2>4, <4>0
    <3>2. logger_offset(off + k) = At(w_off, dist[i] - k)
      BY <1>1, <1>4, <1>5, <3>1, AtStep
    <3> QED
      BY <1>3, <2>1, <2>4, <3>1, <3>2
  <2>5. buffer[off] = <<i, 0>>
    <3>1. dist[i] - 0 = dist[i] /\ 0 \in Nat /\ 0 < Hdr + entries[i] /\ dist[i] - 0 <= Size
      BY <1>2, <1>5, <2>2
    <3>2. buffer[At(w_off, dist[i] - 0)] = <<i, 0>>
      BY <1>3, <2>1, <3>1
    <3> QED
      BY <1>4, <3>1, <3>2
  <2>6. get_entry_len(buffer, entries, off) = Hdr + entries[i]
    BY <2>1, <2>5 DEF get_entry_len
  <2>7. logger_offset(off + (Hdr + entries[i])) = At(w_off, dist[i + 1])
    BY <1>1, <1>4, <1>5, <2>3, AtStep
  <2>8. Starts(entries, w_off, dist, logger_offset(off + (Hdr + entries[i])), i + 1)
    BY <2>1, <2>3, <2>7 DEF Starts
  <2>9. EntryAt(off) = i /\ off # w_off
    BY <1>6, <2>3, <2>5 DEF EntryAt
  <2> QED
    BY <1>4, <1>6, <1>8, <2>2, <2>4, <2>6, <2>8, <2>9 DEF Written
<1> QED
  BY <1>7, <1>8

\* The header counts what is written.
LEMMA Pieces ==
  ASSUME MessagesFit, RingFits, NEW count \in Counts
  PROVE  /\ HeaderLen(count) \in Nat /\ PayloadWritten(count) = HeaderLen(count)
         /\ Hdr + HeaderLen(count) < Size /\ Hdr + HeaderLen(count) <= Hdr + MaxPayload - 1
<1>1. 1 <= Tag + count /\ 2 + Tag + count <= MaxPayload /\ Tag \in Nat /\ count \in Nat
      /\ MaxPayload \in Nat /\ Hdr \in Nat /\ Size \in Nat
  BY LogAssumption DEF MessagesFit
<1>2. HeaderLen(count) = 1 + Tag + count
  BY <1>1 DEF HeaderLen, Min2
<1>3. PayloadWritten(count) = 1 + Tag + count
  BY <1>1, <1>2 DEF PayloadWritten, Min2
<1> QED
  BY <1>1, <1>2, <1>3 DEF RingFits

\* Where a write leaves a place that is the start of an entry.
LEMMA ConsoleMoves ==
  ASSUME Typed, MessagesFit, RingFits, NEW count \in Counts, klogger_kernel_write(count),
         NEW dist, Placed(buffer, entries, w_off, dist)
  PROVE  LET d2 == Lengthened(dist, Written, Hdr + HeaderLen(count))
         IN  /\ Placed(buffer', entries', w_off', d2) /\ Written' = Written + 1
             /\ \A off, i : Starts(entries, w_off, dist, off, i) =>
                  \E j \in i .. Written + 2 :
                    /\ Starts(entries', w_off', d2, fix_up_readers(count, off), j)
                    /\ Hdr + ((Hdr + HeaderLen(count)) + (Hdr + HeaderLen(count))) <= Size => j <= Written + 1
                    /\ IF dist[i] < Size - Hdr - (Hdr + HeaderLen(count)) THEN j = i
                       ELSE Covering(d2, i, j, Hdr + HeaderLen(count))
<1> DEFINE h == HeaderLen(count)
           L == Len(entries)
<1>1. h \in Nat /\ PayloadWritten(count) = h /\ Hdr + h < Size
  BY Pieces
<1>2. entries \in Seq(Nat) /\ Ring(buffer, entries) /\ w_off \in Offset
  BY DEF Typed, TypeOK
<1>3. Lengths(count) = Append(entries, h) /\ Len(Append(entries, h)) = L + 1
  BY <1>1, <1>2, AppendProperties DEF Lengths
<1>4. WithHeader(count) = do_write_log(buffer, w_off, L + 1, 0, Hdr)
  BY <1>3 DEF WithHeader
<1>5. /\ entries' = Append(entries, h)
      /\ buffer' = do_write_log(do_write_log(buffer, w_off, L + 1, 0, Hdr), logger_offset(w_off + Hdr),
                                L + 1, Hdr, h)
      /\ w_off' = logger_offset(logger_offset(w_off + Hdr) + h)
  BY <1>1, <1>3, <1>4 DEF klogger_kernel_write, console_write, Body
<1>6. \A off : fix_up_readers(count, off) =
                 fix_up(do_write_log(buffer, w_off, L + 1, 0, Hdr), Append(entries, h),
                        logger_offset(w_off + Hdr), Hdr + h, off)
  BY <1>3, <1>4 DEF fix_up_readers, Body
<1>7. Placed(buffer', entries', w_off', Lengthened(dist, L, Hdr + h))
  <2> HIDE DEF h
  <2> QED
    BY <1>1, <1>2, <1>5, PlacedNext
<1>8. ASSUME NEW off, NEW i, Starts(entries, w_off, dist, off, i)
      PROVE  \E j \in i .. L + 2 :
               /\ Starts(entries', w_off', Lengthened(dist, L, Hdr + h), fix_up_readers(count, off), j)
               /\ Hdr + ((Hdr + h) + (Hdr + h)) <= Size => j <= L + 1
               /\ IF dist[i] < Size - Hdr - (Hdr + h) THEN j = i
                  ELSE Covering(Lengthened(dist, L, Hdr + h), i, j, Hdr + h)
  <2> HIDE DEF h
  <2> QED
    BY <1>1, <1>2, <1>5, <1>6, <1>8, FixUpLands
<1> QED
  BY <1>3, <1>5, <1>7, <1>8 DEF Written

\* The list of readers and the program counters agree.
Bookkeeping ==
  Preempt \/ \A r \in Readers :
    /\ r \in readers <=> pc[r] \notin {"closed", "opening"}
    /\ pc[r] = "opening" => r_off[r] = head
    /\ r \notin readers => got[r] = <<>>

\* The inductive invariant of the ring.
RInv == IInv /\ Typed /\ Located /\ Undivided /\ Bookkeeping

LEMMA InitRInv == RingFits /\ Init => RInv
<1> SUFFICES ASSUME RingFits, Init PROVE RInv
  OBVIOUS
<1>1. IInv /\ Typed
  BY InitIInv, InitTyped
<1>2. /\ Size \in Nat /\ Hdr < Size /\ 0 \in Offset /\ 0 \in 0 .. Size
  BY LogAssumption DEF RingFits, Offset
<1>3. At(0, 0) = 0
  BY <1>2, AtRange
<1>4. Located
  <2> DEFINE dist == [i \in 1 .. Len(entries) + 1 |-> 0]
  <2>1. Len(entries) = 0 /\ w_off = 0 /\ head = 0 /\ \A r \in Readers : pc[r] = "closed"
    BY DEF Init
  <2>2. Placed(buffer, entries, w_off, dist)
    BY <2>1 DEF Placed
  <2>2a. Laid(tape, dist, Written)
    BY <2>1 DEF Init, Laid, Written
  <2>3. Starts(entries, w_off, dist, head, 1)
    <3> 1 \in 1 .. Len(entries) + 1 /\ dist[1] = 0 /\ 0 < Size - Hdr
      BY <1>2, <2>1, LogAssumption
    <3> HIDE DEF dist
    <3> QED
      BY <1>3, <2>1 DEF Starts
  <2> HIDE DEF dist
  <2> QED
    BY <2>1, <2>2, <2>2a, <2>3 DEF Located
<1>5. Undivided /\ Bookkeeping
  BY DEF Init, Undivided, WholeEntries, Holding, Bookkeeping
<1> QED
  BY <1>1, <1>4, <1>5 DEF RInv

\* The steps that write nothing.
LEMMA LocatedKept ==
  ASSUME Typed, RingFits, Located, UNCHANGED <<buffer, w_off, entries, tape>>, head' \in {head, w_off},
         \A r \in Readers :
           \/ Preempt \/ pc'[r] = "closed" \/ r_off'[r] \in {head, w_off}
           \/ /\ pc[r] # "closed"
              /\ \/ r_off'[r] = r_off[r]
                 \/ /\ r_off[r] # w_off
                    /\ r_off'[r] = logger_offset(r_off[r] + get_entry_len(buffer, entries, r_off[r]))
  PROVE  Located'
<1>1. PICK dist :
        /\ Placed(buffer, entries, w_off, dist)
        /\ Laid(tape, dist, Written)
        /\ \E i \in Nat : Starts(entries, w_off, dist, head, i)
        /\ \A r \in Readers : Preempt \/ pc[r] = "closed"
                              \/ \E i \in Nat : Starts(entries, w_off, dist, r_off[r], i)
  BY DEF Located
<1> DEFINE St(off) == \E i \in Nat : Starts(entries, w_off, dist, off, i)
<1>2. St(w_off)
  <2>1. Written \in Nat /\ w_off \in Offset
    BY LenProperties DEF Typed, TypeOK, Written
  <2>2. Hdr < Size /\ Size \in Nat /\ Hdr \in Nat /\ 0 \in 0 .. Size
    BY LogAssumption DEF RingFits
  <2>3. dist[Written + 1] = 0 /\ At(w_off, 0) = w_off
    BY <1>1, <2>1, <2>2, AtRange DEF Placed, Written
  <2>4. Starts(entries, w_off, dist, w_off, Written + 1)
    BY <2>1, <2>2, <2>3 DEF Starts, Written
  <2> QED
    BY <2>1, <2>4
<1>3. ASSUME NEW off, St(off), off # w_off
      PROVE  St(logger_offset(off + get_entry_len(buffer, entries, off)))
  <2>1. PICK i \in Nat : Starts(entries, w_off, dist, off, i)
    BY <1>3
  <2>2. /\ get_entry_len(buffer, entries, off) = Hdr + entries[i]
        /\ Starts(entries, w_off, dist, logger_offset(off + (Hdr + entries[i])), i + 1)
    BY <1>1, <1>3, <2>1, Standing
  <2> QED
    BY <2>2
<1>4. St(head)
  BY <1>1
<1>5. \A r \in Readers : Preempt \/ pc[r] = "closed" \/ St(r_off[r])
  BY <1>1
<1> HIDE DEF St
<1>6. St(head') /\ \A r \in Readers : Preempt \/ pc'[r] = "closed" \/ St(r_off'[r])
  BY <1>2, <1>3, <1>4, <1>5
<1> QED
  BY <1>1, <1>6 DEF St, Located, Written

LEMMA ConsoleLays ==
  ASSUME Typed, NEW count \in Counts, klogger_kernel_write(count),
         NEW dist, Placed(buffer, entries, w_off, dist), Laid(tape, dist, Written)
  PROVE  /\ Laid(tape', Lengthened(dist, Written, Hdr + HeaderLen(count)), Written')
         /\ Written' = Written + 1
         /\ tape' = Append(tape, tape[Written + 1] + (Hdr + HeaderLen(count)))
<1> DEFINE h == HeaderLen(count)
<1>1. h \in Nat /\ Hdr \in Nat
  BY PieceLengths, LogAssumption
<1>2. entries \in Seq(Nat) /\ tape \in Seq(Nat) /\ Written \in Nat
  BY LenProperties DEF Typed, TypeOK, Written
<1>3. entries' = Append(entries, h) /\ tape' = Append(tape, tape[Len(tape)] + Hdr + h)
  BY DEF klogger_kernel_write, console_write, Lengths
<1> HIDE DEF h
<1>4. Written' = Written + 1
  BY <1>1, <1>2, <1>3, AppendProperties DEF Written
<1>5. Len(tape) = Written + 1 /\ tape[Len(tape)] \in Nat
  BY <1>2 DEF Laid
<1>6. tape' = Append(tape, tape[Len(tape)] + (Hdr + h))
  <2> \A a \in Nat : a + Hdr + h = a + (Hdr + h)
    BY <1>1
  <2> tape[Len(tape)] + Hdr + h = tape[Len(tape)] + (Hdr + h)
    BY <1>5
  <2> QED
    BY <1>3
<1>7. dist \in [1 .. Written + 1 -> Nat] /\ Hdr + h \in Nat
  BY <1>1 DEF Placed, Written
<1>8. Laid(Append(tape, tape[Len(tape)] + (Hdr + h)), Lengthened(dist, Written, Hdr + h), Written + 1)
  BY <1>2, <1>7, LaidNext
<1> QED
  BY <1>4, <1>5, <1>6, <1>8 DEF h

\* A console write.
LEMMA ConsoleKeeps ==
  ASSUME RInv, MessagesFit, RingFits, NEW count \in Counts, klogger_kernel_write(count)
  PROVE  RInv'
<1> USE DEF RInv
<1>0. Preempt \in BOOLEAN
  BY LogAssumption
<1>1. /\ Preempt \/ mutex = None
      /\ head' = fix_up_readers(count, head)
      /\ r_off' = [r \in Readers |-> IF r \in readers THEN fix_up_readers(count, r_off[r]) ELSE r_off[r]]
      /\ UNCHANGED <<readers, mutex, pc, len, copied, got>>
      /\ entries' = Append(entries, HeaderLen(count))
  BY DEF klogger_kernel_write, console_write, Lengths
<1>2. IInv'
  <2> Next
    BY DEF Next
  <2> QED
    BY NextIInv
<1>3. Typed'
  BY ConsoleTyped
<1>4. \A r \in Readers : ~ Preempt => ~ InCritical(r)
  BY <1>1, LogAssumption DEF IInv, CriticalSection
<1>5. \A r \in Readers : Preempt \/ pc[r] = "closed" \/ r \in readers
  <2>1. CASE Preempt
    BY <2>1
  <2>2. CASE ~ Preempt
    <3>1. \A r \in Readers : pc[r] # "opening"
      <4>1. \A r \in Readers : ~ InCritical(r)
        BY <1>4, <2>2, Zenon
      <4> QED
        BY <4>1, Zenon DEF InCritical
    <3>2. \A r \in Readers : r \in readers <=> pc[r] \notin {"closed", "opening"}
      <4> Bookkeeping
        OBVIOUS
      <4> QED
        BY <2>2, Zenon DEF Bookkeeping
    <3> QED
      BY <3>1, <3>2, Zenon
  <2> QED
    BY <2>1, <2>2, Zenon
<1>6. Located'
  <2>1. PICK dist :
          /\ Placed(buffer, entries, w_off, dist)
          /\ Laid(tape, dist, Written)
          /\ \E i \in Nat : Starts(entries, w_off, dist, head, i)
          /\ \A r \in Readers : Preempt \/ pc[r] = "closed"
                                \/ \E i \in Nat : Starts(entries, w_off, dist, r_off[r], i)
    BY DEF Located
  <2> DEFINE d2 == Lengthened(dist, Written, Hdr + HeaderLen(count))
  <2>1a. Laid(tape', d2, Written') /\ Written' = Written + 1
    BY <2>1, ConsoleLays
  <2>2. /\ Placed(buffer', entries', w_off', d2)
        /\ \A off, i : Starts(entries, w_off, dist, off, i) =>
             \E j \in i .. Written + 2 : Starts(entries', w_off', d2, fix_up_readers(count, off), j)
    BY <2>1, ConsoleMoves
  <2>3. \A i \in Nat : \A j \in i .. Written + 2 : j \in Nat
    BY DEF Written
  <2> HIDE DEF d2
  <2>4. \A off : (\E i \in Nat : Starts(entries, w_off, dist, off, i)) =>
           \E j \in Nat : Starts(entries', w_off', d2, fix_up_readers(count, off), j)
    BY <2>2, <2>3
  <2>5. \E i \in Nat : Starts(entries', w_off', d2, head', i)
    BY <1>1, <2>1, <2>4
  <2>6. ASSUME NEW r \in Readers
        PROVE  Preempt \/ pc'[r] = "closed" \/ \E i \in Nat : Starts(entries', w_off', d2, r_off'[r], i)
    <3>1. CASE r \in readers
      BY <1>1, <2>1, <2>4, <3>1
    <3>2. CASE r \notin readers
      BY <1>1, <1>5, <3>2
    <3> QED
      BY <3>1, <3>2
  <2> QED
    BY <2>1a, <2>2, <2>5, <2>6 DEF Located
<1>7. Undivided'
  <2> SUFFICES ASSUME ~ Preempt PROVE WholeEntries' /\ \A r \in Readers : Holding(r)'
    BY <1>0 DEF Undivided
  <2>1. \A r \in Readers : Holding(r)'
    BY <1>1, <1>4 DEF Holding, InCritical
  <2>2. Written \in Nat /\ Written' = Written + 1
        /\ \A i \in 1 .. Written : entries'[i] = entries[i]
    <3> entries \in Seq(Nat) /\ HeaderLen(count) \in Nat
      BY PieceLengths DEF Typed, TypeOK
    <3> QED
      BY <1>1, AppendProperties, LenProperties DEF Written
  <2>3. \A i \in 1 .. Written : i \in 1 .. Written' /\ Whole(i)' = Whole(i)
    BY <2>2 DEF Whole
  <2>4. WholeEntries'
    BY <1>1, <2>3 DEF Undivided, WholeEntries
  <2> QED
    BY <2>1, <2>4
<1>8. Bookkeeping'
  BY <1>1, <1>4 DEF Bookkeeping, InCritical
<1> QED
  BY <1>2, <1>3, <1>6, <1>7, <1>8

\* A reader that is in an entry: where it is and what is there.
LEMMA InEntry ==
  ASSUME RInv, RingFits, ~ Preempt, NEW r \in Readers, pc[r] \in {"copy", "copy2", "advance"}
  PROVE  /\ EntryAt(r_off[r]) \in 1 .. Written /\ entries[EntryAt(r_off[r])] \in Nat
         /\ len[r] = Hdr + entries[EntryAt(r_off[r])] /\ len[r] \in Nat /\ len[r] <= Size
         /\ r_off[r] \in Nat /\ r_off[r] < Size
         /\ \A k \in Nat : k < len[r] => buffer[logger_offset(r_off[r] + k)] = <<EntryAt(r_off[r]), k>>
<1>1. PICK dist :
        /\ Placed(buffer, entries, w_off, dist)
        /\ \E i \in Nat : Starts(entries, w_off, dist, r_off[r], i)
  BY DEF RInv, Located
<1>2. PICK i \in Nat : Starts(entries, w_off, dist, r_off[r], i)
  BY <1>1
<1>3. r_off[r] # w_off /\ len[r] = get_entry_len(buffer, entries, r_off[r])
  BY DEF RInv, Undivided, Holding
<1>4. Typed /\ len[r] \in Nat /\ r_off[r] \in Nat /\ r_off[r] < Size /\ Written \in Nat
  <2> Typed /\ len[r] \in Nat /\ r_off[r] \in Offset /\ entries \in Seq(Nat)
    BY DEF RInv, Typed, TypeOK
  <2> Written \in Nat
    BY LenProperties DEF Written
  <2> QED
    BY LogAssumption DEF Offset
<1>5. /\ i \in 1 .. Written + 1 /\ EntryAt(r_off[r]) = i /\ i # Written + 1
      /\ get_entry_len(buffer, entries, r_off[r]) = Hdr + entries[i] /\ entries[i] \in Nat
      /\ \A k \in Nat : k < Hdr + entries[i] => buffer[logger_offset(r_off[r] + k)] = <<i, k>>
  BY <1>1, <1>2, <1>3, <1>4, Standing
<1>6. len[r] <= Size
  <2>1. i \in 1 .. Written /\ i + 1 \in 1 .. Written + 1
    BY <1>4, <1>5
  <2>2. dist[i] = dist[i + 1] + Hdr + entries[i] /\ dist[i] \in Nat /\ dist[i + 1] \in Nat
        /\ dist[i] < Size - Hdr
    BY <1>1, <1>2, <2>1 DEF Placed, Starts, Written
  <2> QED
    BY <1>3, <1>5, <2>2, LogAssumption
<1>7. i \in 1 .. Written
  BY <1>4, <1>5
<1>8. len[r] = Hdr + entries[i]
  BY <1>3, <1>5
<1>9. \A k \in Nat : k < len[r] => buffer[logger_offset(r_off[r] + k)] = <<i, k>>
  BY <1>5, <1>8, Zenon
<1> QED
  BY <1>4, <1>5, <1>6, <1>7, <1>8, <1>9, Zenon

\* A step of a reader.
LEMMA ReaderKeeps ==
  ASSUME RInv, MessagesFit, RingFits, NEW q \in Readers, Read(q) \/ User(q)
  PROVE  RInv'
<1> USE DEF RInv
<1>0. Preempt \in BOOLEAN
  BY LogAssumption
<1>1. IInv' /\ Typed'
  <2> Next
    BY DEF Next
  <2> QED
    BY NextIInv, NextTyped
<1>2. pc \in [Readers -> PCs] /\ r_off \in [Readers -> Offset] /\ len \in [Readers -> Nat]
      /\ DOMAIN copied = Readers /\ DOMAIN got = Readers
  BY DEF IInv, ControlOK, Typed, TypeOK
<1>3. UNCHANGED ring
  BY DEF Read, User, read_prepare, read_test, read_wake, read_lock, read_race, read_copy, read_copy2,
     read_advance, open_list, open_head, klogger_release, read_signal, read_fault
<1>4. \A r \in Readers : r # q => /\ pc'[r] = pc[r] /\ r_off'[r] = r_off[r] /\ len'[r] = len[r]
                                  /\ copied'[r] = copied[r] /\ got'[r] = got[r]
                                  /\ r \in readers' <=> r \in readers
  BY <1>2 DEF Read, User, read_prepare, read_test, read_wake, read_lock, read_race, read_copy,
     read_copy2, read_advance, open_list, open_head, klogger_release, read_signal, read_fault,
     Goto, ForgetLocals
<1>5. \/ pc'[q] = "closed" \/ r_off'[q] = head
      \/ /\ pc[q] # "closed"
         /\ \/ r_off'[q] = r_off[q]
            \/ pc[q] = "advance" /\ r_off'[q] = logger_offset(r_off[q] + len[q])
  BY <1>2 DEF Read, User, read_prepare, read_test, read_wake, read_lock, read_race, read_copy,
     read_copy2, read_advance, open_list, open_head, klogger_release, read_signal, read_fault,
     Goto
<1>6. Located'
  <2> SUFFICES ASSUME NEW r \in Readers, ~ Preempt, pc'[r] # "closed", r_off'[r] # head
               PROVE  /\ pc[r] # "closed"
                      /\ \/ r_off'[r] = r_off[r]
                         \/ /\ r_off[r] # w_off
                            /\ r_off'[r] = logger_offset(r_off[r] + get_entry_len(buffer, entries, r_off[r]))
    BY <1>3, LocatedKept DEF ring
  <2>1. CASE r # q
    BY <1>4, <2>1
  <2>2. CASE r = q
    BY <1>5, <2>2 DEF Undivided, Holding
  <2> QED
    BY <2>1, <2>2
<1>7. Undivided'
  <2> SUFFICES ASSUME ~ Preempt PROVE WholeEntries' /\ \A r \in Readers : Holding(r)'
    BY <1>0, <1>3 DEF Undivided
  <2>0. WholeEntries /\ \A r \in Readers : Holding(r)
    BY DEF Undivided
  <2>1. UNCHANGED <<buffer, entries, w_off>>
    BY <1>3 DEF ring
  <2>2. \A r \in Readers : r # q => Holding(r)'
    <3> SUFFICES ASSUME NEW r \in Readers, r # q PROVE Holding(r)'
      OBVIOUS
    <3>1. Part(r)' = Part(r) /\ EntryAt(r_off[r])' = EntryAt(r_off[r])
          /\ Whole(EntryAt(r_off[r]))' = Whole(EntryAt(r_off[r]))
      BY <1>4, <2>1 DEF Part, EntryAt, Whole, Written
    <3> QED
      BY <1>4, <2>0, <2>1, <3>1 DEF Holding
  <2>3. CASE read_copy(q)
    <3> DEFINE i == EntryAt(r_off[q])  m == Min2(len[q], Size - r_off[q])
    <3>1. pc[q] = "copy" /\ pc'[q] = "copy2" /\ UNCHANGED <<r_off, len, got>>
          /\ copied'[q] = Cells(r_off[q], m)
      BY <1>2, <2>3 DEF read_copy, Goto
    <3>2. /\ len[q] \in Nat /\ r_off[q] \in Nat
          /\ \A k \in Nat : k < len[q] => buffer[logger_offset(r_off[q] + k)] = <<i, k>>
      BY <3>1, InEntry
    <3>3. m \in Nat /\ m <= len[q]
      BY <1>2, FirstPiece DEF Offset
    <3>4. Cells(r_off[q], m) = Part(q)
      <4>1. ASSUME NEW k \in 1 .. m PROVE buffer[logger_offset(r_off[q] + k - 1)] = <<i, k - 1>>
        <5>1. k - 1 \in Nat /\ k - 1 < len[q] /\ r_off[q] + k - 1 = r_off[q] + (k - 1)
          BY <3>2, <3>3
        <5> QED
          BY <3>2, <5>1
      <4> HIDE DEF i
      <4> QED
        BY <4>1 DEF Cells, Part, i
    <3>5. Part(q)' = Part(q)
      BY <2>1, <3>1 DEF Part, EntryAt, Written
    <3>6. Holding(q)'
      BY <2>0, <2>1, <3>1, <3>4, <3>5 DEF Holding
    <3>7. WholeEntries'
      BY <2>0, <2>1, <3>1 DEF WholeEntries, Whole, Written
    <3> QED
      BY <2>2, <3>6, <3>7
  <2>4. CASE read_copy2(q)
    <3> DEFINE i == EntryAt(r_off[q])  m == Min2(len[q], Size - r_off[q])  n == len[q]
    <3>1. pc[q] = "copy2" /\ pc'[q] = "advance" /\ UNCHANGED <<r_off, len, got>>
          /\ copied'[q] = copied[q] \o Cells(0, n - Len(copied[q]))
      BY <1>2, <2>4 DEF read_copy2, Goto
    <3>2. /\ n \in Nat /\ n <= Size /\ r_off[q] \in Nat /\ r_off[q] < Size /\ n = Hdr + entries[i]
          /\ \A k \in Nat : k < n => buffer[logger_offset(r_off[q] + k)] = <<i, k>>
      BY <3>1, InEntry
    <3>3. m \in Nat /\ m <= n /\ (m = n \/ m = Size - r_off[q]) /\ n - m \in Nat /\ Size \in Nat
      BY <3>2, LogAssumption DEF Min2
    <3>4. copied[q] = [k \in 1 .. m |-> <<i, k - 1>>] /\ Len(copied[q]) = m
      <4>1. copied[q] = [k \in 1 .. m |-> <<i, k - 1>>]
        BY <2>0, <3>1 DEF Holding, Part
      <4>2. copied[q] \in Seq(Nat \X Nat) /\ DOMAIN copied[q] = 1 .. m
        BY <4>1 DEF Typed, TypeOK
      <4> QED
        BY <3>3, <4>1, <4>2, LenProperties
    <3>5. Cells(0, n - m) \in Seq(Nat \X Nat) /\ Len(Cells(0, n - m)) = n - m
      <4> 0 \in Offset /\ buffer \in [Offset -> Nat \X Nat]
        BY FirstPiece DEF Typed, TypeOK
      <4> QED
        BY <3>3, CellsRange
    <3> HIDE DEF i, m, n
    <3>6. \A k \in 1 .. n - m : Cells(0, n - m)[k] = <<i, (m + k) - 1>>
      <4> SUFFICES ASSUME NEW k \in 1 .. n - m PROVE Cells(0, n - m)[k] = <<i, (m + k) - 1>>
        OBVIOUS
      <4>1. Cells(0, n - m)[k] = buffer[logger_offset(0 + k - 1)]
        BY DEF Cells
      <4>2. m = Size - r_off[q] /\ m + (k - 1) \in Nat /\ m + (k - 1) < n /\ (m + k) - 1 = m + (k - 1)
            /\ 0 + k - 1 = k - 1 /\ k - 1 \in 0 .. Size - 1
        BY <3>2, <3>3
      <4>3. logger_offset(r_off[q] + (m + (k - 1))) = logger_offset(k - 1)
        <5>1. r_off[q] + (m + (k - 1)) = (k - 1) + Size /\ k - 1 \in Nat
          BY <3>2, <3>3, <4>2
        <5>2. logger_offset((k - 1) + Size) = logger_offset(k - 1)
          <6>1. logger_offset(k - 1) = k - 1
            <7> k - 1 \in 0 .. 2 * Size - 1 /\ k - 1 < Size
              BY <3>3, <4>2
            <7> QED
              BY OffsetOf
          <6>2. logger_offset((k - 1) + Size) = k - 1
            <7> DEFINE e == (k - 1) + Size
            <7> e \in 0 .. 2 * Size - 1 /\ ~ (e < Size) /\ e - Size = k - 1
              BY <3>3, <4>2
            <7> HIDE DEF e
            <7> logger_offset(e) = k - 1
              BY OffsetOf
            <7> QED
              BY DEF e
          <6> QED
            BY <6>1, <6>2
        <5> QED
          BY <5>1, <5>2
      <4> QED
        BY <3>2, <4>1, <4>2, <4>3
    <3>7. copied'[q] = [k \in 1 .. n |-> <<i, k - 1>>]
      <4> DEFINE s == copied[q]  t == Cells(0, n - m)
      <4>1. s \in Seq(Nat \X Nat) /\ t \in Seq(Nat \X Nat) /\ Len(s) = m /\ Len(t) = n - m
        BY <3>4, <3>5 DEF Typed, TypeOK
      <4>2. /\ s \o t \in Seq(Nat \X Nat) /\ Len(s \o t) = m + (n - m)
            /\ \A k \in 1 .. m + (n - m) : (s \o t)[k] = IF k <= m THEN s[k] ELSE t[k - m]
        <5> HIDE DEF s, t
        <5> /\ s \o t \in Seq(Nat \X Nat) /\ Len(s \o t) = Len(s) + Len(t)
            /\ \A k \in 1 .. Len(s) + Len(t) : (s \o t)[k] = IF k <= Len(s) THEN s[k] ELSE t[k - Len(s)]
          BY <4>1, ConcatProperties
        <5> QED
          BY <4>1
      <4>3. m + (n - m) = n
        BY <3>2, <3>3
      <4>4. \A k \in 1 .. n : (s \o t)[k] = <<i, k - 1>>
        <5> SUFFICES ASSUME NEW k \in 1 .. n PROVE (s \o t)[k] = <<i, k - 1>>
          OBVIOUS
        <5>1. CASE k <= m
          <6> k \in 1 .. m
            BY <3>3, <5>1
          <6> QED
            BY <3>4, <4>2, <4>3, <5>1
        <5>2. CASE ~ (k <= m)
          <6>1. k - m \in 1 .. n - m /\ (m + (k - m)) - 1 = k - 1
            BY <3>2, <3>3, <5>2
          <6>2. (s \o t)[k] = t[k - m]
            BY <4>2, <4>3, <5>2
          <6> QED
            BY <3>6, <6>1, <6>2
        <5> QED
          BY <5>1, <5>2
      <4>5. DOMAIN (s \o t) = 1 .. n
        BY <4>2, <4>3, LenProperties
      <4>6. s \o t = [k \in 1 .. n |-> (s \o t)[k]]
        <5> s \o t \in [1 .. n -> Nat \X Nat]
          BY <4>2, <4>3, LenProperties
        <5> QED
          OBVIOUS
      <4>7. copied'[q] = s \o t
        BY <3>1, <3>4
      <4> HIDE DEF s, t
      <4> QED
        BY <4>4, <4>6, <4>7
    <3>8. EntryAt(r_off[q])' = EntryAt(r_off[q])
      BY <2>1, <3>1 DEF EntryAt, Written
    <3>8a. copied'[q] = Whole(EntryAt(r_off[q]))'
      BY <2>1, <3>2, <3>7, <3>8 DEF Whole, i
    <3>9. Holding(q)'
      BY <2>0, <2>1, <3>1, <3>8a DEF Holding
    <3>10. WholeEntries'
      BY <2>0, <2>1, <3>1 DEF WholeEntries, Whole, Written
    <3> QED
      BY <2>2, <3>9, <3>10
  <2>5. CASE read_advance(q)
    <3>1. pc[q] = "advance" /\ pc'[q] = "user" /\ got' = [got EXCEPT ![q] = copied[q]]
      BY <1>2, <2>5 DEF read_advance, Goto
    <3>2. Holding(q)'
      BY <3>1 DEF Holding
    <3>3. got'[q] = Whole(EntryAt(r_off[q])) /\ EntryAt(r_off[q]) \in 1 .. Written
      BY <1>2, <2>0, <3>1, InEntry DEF Holding
    <3>4. WholeEntries'
      BY <1>2, <2>0, <2>1, <3>1, <3>3 DEF WholeEntries, Whole, Written
    <3> QED
      BY <2>2, <3>2, <3>4
  <2>6. CASE ~ (read_copy(q) \/ read_copy2(q) \/ read_advance(q))
    <3>1. /\ pc'[q] \notin {"copy2", "advance"}
          /\ pc'[q] = "copy" => w_off # r_off[q] /\ len'[q] = get_entry_len(buffer, entries, r_off[q])
                                /\ r_off'[q] = r_off[q]
      BY <1>2, <2>6 DEF Read, User, read_prepare, read_test, read_wake, read_lock, read_race,
         open_list, open_head, klogger_release, read_signal, read_fault, Goto
    <3>2. Holding(q)'
      BY <2>1, <3>1 DEF Holding
    <3>3. got'[q] = got[q] \/ got'[q] = <<>>
      BY <1>2, <2>6 DEF Read, User, read_prepare, read_test, read_wake, read_lock, read_race,
         open_list, open_head, klogger_release, read_signal, read_fault
    <3>4. WholeEntries'
      BY <1>4, <2>0, <2>1, <3>3 DEF WholeEntries, Whole, Written
    <3> QED
      BY <2>2, <3>2, <3>4
  <2> QED
    BY <2>3, <2>4, <2>5, <2>6
<1>8. Bookkeeping'
  <2> SUFFICES ASSUME ~ Preempt, NEW r \in Readers
               PROVE  /\ r \in readers' <=> pc'[r] \notin {"closed", "opening"}
                      /\ pc'[r] = "opening" => r_off'[r] = head'
                      /\ r \notin readers' => got'[r] = <<>>
    BY <1>0 DEF Bookkeeping
  <2>0. /\ r \in readers <=> pc[r] \notin {"closed", "opening"}
        /\ pc[r] = "opening" => r_off[r] = head
        /\ r \notin readers => got[r] = <<>>
    BY DEF Bookkeeping
  <2>1. CASE r # q
    BY <1>3, <1>4, <2>0, <2>1 DEF ring
  <2>2. CASE r = q
    BY <1>2, <1>3, <2>0, <2>2 DEF Read, User, read_prepare, read_test, read_wake, read_lock, read_race,
       read_copy, read_copy2, read_advance, open_list, open_head, klogger_release, read_signal,
       read_fault, Goto, ring
  <2> QED
    BY <2>1, <2>2
<1> QED
  BY <1>1, <1>6, <1>7, <1>8

\* The ring takes two entries and a header: one write moves no reader past the
\* entry that it writes.
RingRoomy == Hdr + 2 * (Hdr + MaxPayload - 1) <= Size

LEMMA NextRInv == ASSUME MessagesFit, RingFits PROVE RInv /\ [Next]_vars => RInv'
<1> SUFFICES ASSUME RInv, [Next]_vars PROVE RInv'
  OBVIOUS
<1> USE DEF RInv
<1>0. IInv' /\ Typed'
  BY NextIInv, NextTyped
<1>1. CASE \E count \in Counts : klogger_kernel_write(count)
  BY <1>1, ConsoleKeeps
<1>2. CASE \E r \in Readers : Read(r) \/ User(r)
  BY <1>2, ReaderKeeps
<1>3. CASE flush_log
  <2>1. /\ mutex = None /\ head' = w_off
        /\ r_off' = [r \in Readers |-> IF r \in readers THEN w_off ELSE r_off[r]]
        /\ UNCHANGED <<buffer, w_off, entries, tape, readers, mutex, waiting, pc, len, copied, got>>
    BY <1>3 DEF flush_log
  <2>2. \A r \in Readers : ~ InCritical(r)
    BY <2>1, LogAssumption DEF IInv, CriticalSection
  <2>3. Located'
    BY <2>1, LocatedKept
  <2>4. Undivided'
    <3>1. \A r \in Readers : Holding(r)'
      BY <2>1, <2>2 DEF Holding, InCritical
    <3>2. WholeEntries <=> WholeEntries'
      BY <2>1 DEF WholeEntries, Whole, Written
    <3> QED
      BY <3>1, <3>2 DEF Undivided
  <2>5. Bookkeeping'
    BY <2>1, <2>2 DEF Bookkeeping, InCritical
  <2> QED
    BY <1>0, <2>3, <2>4, <2>5
<1>4. CASE UNCHANGED vars
  <2>1. UNCHANGED <<buffer, w_off, head, readers, r_off, mutex, waiting, pc, len, copied, got,
                    entries, tape>>
    BY <1>4 DEF vars
  <2>2. Located'
    BY <2>1, LocatedKept
  <2>3. Undivided'
    <3>1. \A r \in Readers : Holding(r) <=> Holding(r)'
      BY <2>1 DEF Holding, Part, EntryAt, Whole, Written
    <3>2. WholeEntries <=> WholeEntries'
      BY <2>1 DEF WholeEntries, Whole, Written
    <3> QED
      BY <3>1, <3>2 DEF Undivided
  <2>4. Bookkeeping'
    BY <2>1 DEF Bookkeeping
  <2> QED
    BY <1>0, <2>2, <2>3, <2>4
<1> QED
  BY <1>1, <1>2, <1>3, <1>4 DEF Next

LEMMA RingInvariant == ASSUME MessagesFit, RingFits PROVE Spec => []RInv
BY InitRInv, NextRInv, PTL DEF Spec

\* From the start of an entry on there are whole entries.
LEMMA StartIsAligned ==
  ASSUME Typed, RingFits, NEW dist, Placed(buffer, entries, w_off, dist),
         NEW off, NEW i, Starts(entries, w_off, dist, off, i)
  PROVE  Aligned(off)
<1> DEFINE L == Len(entries)  D == dist[i]
<1>1. /\ L \in Nat /\ entries \in Seq(Nat) /\ w_off \in Offset /\ w_off \in Nat /\ w_off < Size
      /\ \A j \in 1 .. L : entries[j] \in Nat
  <2> entries \in Seq(Nat) /\ w_off \in Offset
    BY DEF Typed, TypeOK
  <2> QED
    BY LenProperties, ElementOfSeq, LogAssumption DEF Offset
<1>2. Hdr \in Nat /\ Hdr >= 1 /\ Size \in Nat /\ Hdr < Size
  BY LogAssumption DEF RingFits
<1>3. /\ dist \in [1 .. L + 1 -> Nat] /\ dist[L + 1] = 0
      /\ \A j \in 1 .. L : dist[j] = dist[j + 1] + Hdr + entries[j]
      /\ \A k \in 1 .. L, d \in Nat :
           1 <= d /\ d <= dist[k] => \E j \in 1 .. L : dist[j + 1] < d /\ d <= dist[j]
      /\ \A j \in 1 .. L, k \in Nat :
           k < Hdr + entries[j] /\ dist[j] - k <= Size => buffer[At(w_off, dist[j] - k)] = <<j, k>>
  BY DEF Placed
<1>4. /\ i \in 1 .. L + 1 /\ off = At(w_off, D)
      /\ D \in Nat /\ D < Size - Hdr /\ D \in 0 .. Size /\ D < Size
  BY <1>2, <1>3 DEF Starts
<1>5. \A j \in 1 .. L : j + 1 \in 1 .. L + 1 /\ dist[j] \in Nat /\ dist[j + 1] \in Nat
                         /\ (j + 1 = L + 1 \/ j + 1 \in 1 .. L)
  <2> SUFFICES ASSUME NEW j \in 1 .. L
               PROVE  j + 1 \in 1 .. L + 1 /\ j \in 1 .. L + 1 /\ (j + 1 = L + 1 \/ j + 1 \in 1 .. L)
    BY <1>3
  <2> QED
    BY <1>1
<1> HIDE DEF L, D
<1>6. Behind(off) = D
  <2>0. w_off \in Nat /\ w_off < Size /\ Size \in Nat /\ D \in Nat /\ D < Size
    BY <1>1, <1>2, <1>4
  <2>1. off = IF D <= w_off THEN w_off - D ELSE w_off + Size - D
    BY <1>1, <1>4, AtIs
  <2> DEFINE e == w_off + Size - off
  <2>2. e \in 0 .. 2 * Size - 1
    BY <2>0, <2>1
  <2>3. logger_offset(e) = IF e < Size THEN e ELSE e - Size
    <3> HIDE DEF e
    <3> QED
      BY <2>2, OffsetOf
  <2>4. logger_offset(e) = D
    BY <2>0, <2>1, <2>3
  <2> QED
    BY <2>4 DEF Behind
<1>7. \A d \in Nat : 1 <= d /\ d <= D =>
        \E j \in 1 .. L : dist[j + 1] < d /\ d <= dist[j] /\ buffer[At(w_off, d)] = <<j, dist[j] - d>>
  <2> SUFFICES ASSUME NEW d \in Nat, 1 <= d, d <= D
               PROVE  \E j \in 1 .. L : /\ dist[j + 1] < d /\ d <= dist[j]
                                        /\ buffer[At(w_off, d)] = <<j, dist[j] - d>>
    OBVIOUS
  <2>1. i \in 1 .. L
    <3> i # L + 1
      BY <1>3, <1>4 DEF D
    <3> QED
      BY <1>1, <1>4
  <2>2. PICK j \in 1 .. L : dist[j + 1] < d /\ d <= dist[j]
    BY <1>3, <2>1 DEF D
  <2>3. /\ dist[j] = dist[j + 1] + Hdr + entries[j] /\ dist[j] \in Nat /\ dist[j + 1] \in Nat
        /\ entries[j] \in Nat
    BY <1>1, <1>3, <1>5
  <2>4. dist[j] - d \in Nat /\ dist[j] - d < Hdr + entries[j] /\ dist[j] - (dist[j] - d) = d /\ d <= Size
    BY <1>2, <1>4, <2>2, <2>3
  <2>5. buffer[At(w_off, dist[j] - (dist[j] - d))] = <<j, dist[j] - d>>
    BY <1>3, <2>4
  <2> QED
    BY <2>2, <2>4, <2>5
<1>8. \A k \in Nat : k < D => Ahead(off, k) = buffer[At(w_off, D - k)]
  <2> SUFFICES ASSUME NEW k \in Nat, k < D PROVE logger_offset(off + k) = At(w_off, D - k)
    BY <1>6 DEF Ahead
  <2> k \in 0 .. D
    BY <1>4
  <2> QED
    BY <1>1, <1>4, AtStep
<1>9. Ahead(off, D) = <<L + 1, 0>>
  BY <1>4, <1>6 DEF Ahead, Written, L
<1>10. Ahead(off, 0)[2] = 0
  <2>1. CASE D = 0
    BY <1>9, <2>1
  <2>2. CASE D # 0
    <3>1. i \in 1 .. L
      BY <1>1, <1>3, <1>4, <2>2 DEF D
    <3>2. D - 0 = D /\ 0 < D /\ D <= Size /\ 0 < Hdr + entries[i] /\ 0 \in Nat
      BY <1>1, <1>2, <1>4, <2>2, <3>1
    <3>3. buffer[At(w_off, D - 0)] = <<i, 0>>
      BY <1>3, <3>1, <3>2 DEF D
    <3> QED
      BY <1>8, <3>2, <3>3
  <2> QED
    BY <2>1, <2>2
<1>11. ASSUME NEW k \in 0 .. Size - 1, k < D
       PROVE  Ahead(off, k)[1] \in 1 .. L /\ Ahead(off, k + 1) = After(Ahead(off, k))
  <2> DEFINE d == D - k
  <2>1. k \in Nat /\ d \in Nat /\ 1 <= d /\ d <= D /\ d <= Size
    <3> D \in Nat /\ D < Size /\ Size \in Nat /\ k \in Nat /\ k < D
      BY <1>2, <1>4, <1>11
    <3> QED
      OBVIOUS
  <2>2. PICK j \in 1 .. L : dist[j + 1] < d /\ d <= dist[j] /\ buffer[At(w_off, d)] = <<j, dist[j] - d>>
    BY <1>7, <2>1
  <2>3. Ahead(off, k) = <<j, dist[j] - d>>
    BY <1>8, <1>11, <2>1, <2>2
  <2>4. /\ dist[j] = dist[j + 1] + Hdr + entries[j] /\ dist[j] \in Nat /\ dist[j + 1] \in Nat
        /\ entries[j] \in Nat /\ (j + 1 = L + 1 \/ j + 1 \in 1 .. L) /\ j \in Nat
    BY <1>1, <1>3, <1>5
  <2>5. After(Ahead(off, k)) = IF (dist[j] - d) + 1 < Hdr + entries[j] THEN <<j, (dist[j] - d) + 1>>
                               ELSE <<j + 1, 0>>
    BY <2>3 DEF After
  <2>6. CASE d = 1
    <3>1. dist[j + 1] = 0 /\ k + 1 = D /\ ~ ((dist[j] - d) + 1 < Hdr + entries[j])
      BY <1>2, <1>4, <2>1, <2>2, <2>4, <2>6
    <3>2. j + 1 = L + 1
      <4> SUFFICES ASSUME j + 1 \in 1 .. L PROVE FALSE
        BY <2>4
      <4> DEFINE m == j + 1
      <4>1. m \in 1 .. L /\ dist[m] = 0
        BY <3>1
      <4> HIDE DEF m
      <4>2. dist[m] = dist[m + 1] + Hdr + entries[m] /\ dist[m + 1] \in Nat /\ entries[m] \in Nat
        BY <1>1, <1>3, <1>5, <4>1
      <4> QED
        BY <1>2, <4>1, <4>2
    <3> QED
      BY <1>9, <2>3, <2>5, <3>1, <3>2
  <2>7. CASE d # 1
    <3>1. k + 1 \in Nat /\ k + 1 < D /\ D - (k + 1) = d - 1 /\ d - 1 \in Nat /\ d - 1 >= 1
      BY <1>4, <2>1, <2>7
    <3>2. Ahead(off, k + 1) = buffer[At(w_off, d - 1)]
      BY <1>8, <3>1
    <3>3. CASE (dist[j] - d) + 1 < Hdr + entries[j]
      <4>1. (dist[j] - d) + 1 \in Nat /\ dist[j] - ((dist[j] - d) + 1) = d - 1 /\ d - 1 <= Size
        <5> d \in Nat /\ d >= 1 /\ d <= Size /\ d <= dist[j] /\ dist[j] \in Nat /\ Size \in Nat
          BY <1>2, <2>1, <2>2, <2>4
        <5> HIDE DEF d
        <5> QED
          OBVIOUS
      <4>2. buffer[At(w_off, dist[j] - ((dist[j] - d) + 1))] = <<j, (dist[j] - d) + 1>>
        BY <1>3, <3>3, <4>1
      <4> QED
        BY <2>3, <2>5, <3>2, <3>3, <4>1, <4>2
    <3>4. CASE ~ ((dist[j] - d) + 1 < Hdr + entries[j])
      <4>1. dist[j + 1] = d - 1
        <5>1. /\ dist[j] = dist[j + 1] + (Hdr + entries[j]) /\ ~ ((dist[j] - d) + 1 < Hdr + entries[j])
              /\ dist[j + 1] < d /\ d \in Nat /\ dist[j] \in Nat /\ dist[j + 1] \in Nat
              /\ Hdr + entries[j] \in Nat
          BY <1>2, <2>1, <2>2, <2>4, <3>4
        <5>2. \A a, b, c \in Nat : a = b + c /\ ~ ((a - d) + 1 < c) /\ b < d => b = d - 1
          BY <5>1
        <5> QED
          BY <5>1, <5>2
      <4>2. j + 1 \in 1 .. L
        BY <1>3, <2>4, <3>1, <4>1
      <4> DEFINE m == j + 1
      <4>3. m \in 1 .. L /\ dist[m] = d - 1
        BY <4>1, <4>2
      <4> HIDE DEF m
      <4>4. 0 \in Nat /\ 0 < Hdr + entries[m] /\ dist[m] - 0 = d - 1 /\ d - 1 <= Size
        <5>1. entries[m] \in Nat /\ dist[m] = d - 1 /\ d \in Nat /\ d <= Size
          BY <1>1, <2>1, <4>3
        <5> HIDE DEF d
        <5> QED
          BY <1>2, <5>1
      <4>5. buffer[At(w_off, dist[m] - 0)] = <<m, 0>>
        BY <1>3, <4>3, <4>4
      <4> QED
        BY <2>3, <2>5, <3>2, <3>4, <4>4, <4>5 DEF m
    <3> QED
      BY <3>3, <3>4
  <2> QED
    BY <2>6, <2>7
<1> QED
  BY <1>6, <1>10, <1>11 DEF Aligned, Written, L

\* A new reader starts on an entry boundary, even if the console interrupts the
\* readers at any point: fix_up_readers measures the overwritten entries from the
\* old head, and the entries on its way there are still intact.
THEOREM HeadOnBoundary == ASSUME MessagesFit, RingFits PROVE Spec => []HeadAligned
<1>1. RInv => HeadAligned
  BY StartIsAligned DEF RInv, Located, HeadAligned
<1> QED
  BY <1>1, RingInvariant, PTL

\* While the console keeps out of the critical sections, a reader on the list is at
\* the first byte of an entry whose bytes, and those of all that follow it, are still
\* there: nothing that moves it, be it a read, a write that laps it or a flush,
\* leaves it anywhere else.
THEOREM ReadersOnBoundary ==
  ASSUME Preempt = FALSE, MessagesFit, RingFits PROVE Spec => []ReadersAligned
<1>1. ASSUME RInv PROVE ReadersAligned
  <2> SUFFICES ASSUME NEW r \in readers PROVE Aligned(r_off[r])
    BY DEF ReadersAligned
  <2>1. r \in Readers /\ pc[r] # "closed" /\ Typed
    BY <1>1 DEF RInv, Bookkeeping, Typed, TypeOK
  <2>2. PICK dist :
          /\ Placed(buffer, entries, w_off, dist)
          /\ \E i \in Nat : Starts(entries, w_off, dist, r_off[r], i)
    BY <1>1, <2>1 DEF RInv, Located
  <2> QED
    BY <2>1, <2>2, StartIsAligned
<1> QED
  BY <1>1, RingInvariant, PTL

\* While the console keeps out of the critical sections, klogger_read returns
\* exactly one entry, first byte to last, however the ring wraps and however often
\* the reader was lapped.
THEOREM EntriesStayWhole ==
  ASSUME Preempt = FALSE, MessagesFit, RingFits PROVE Spec => []WholeEntries
<1>1. RInv => WholeEntries
  BY DEF RInv, Undivided
<1> QED
  BY <1>1, RingInvariant, PTL

-----------------------------------------------------------------------------
(* The refinement of LogFeed.                                              *)

\* The mapping of KLogger's INSTANCE of LogFeed.
NextOf == [r \in Readers |-> IF r \in readers THEN EntryAt(r_off[r]) ELSE 0]
GotOf  == [r \in Readers |-> IF got[r] = <<>> THEN 0 ELSE got[r][1][1]]

\* EntryAt gives the number of the entry.
LEMMA NumberOf ==
  ASSUME RingFits, NEW buf, NEW lens \in Seq(Nat), NEW w \in Offset, NEW dist,
         Placed(buf, lens, w, dist), NEW off, NEW i, Starts(lens, w, dist, off, i)
  PROVE  i = IF off = w THEN Len(lens) + 1 ELSE buf[off][1]
<1> DEFINE L == Len(lens)
<1>1. L \in Nat /\ \A j \in 1 .. L : lens[j] \in Nat
  BY LenProperties, ElementOfSeq
<1>2. Hdr \in Nat /\ Hdr >= 1 /\ Size \in Nat /\ Hdr < Size
  BY LogAssumption DEF RingFits
<1>3. /\ dist \in [1 .. L + 1 -> Nat] /\ dist[L + 1] = 0
      /\ \A j \in 1 .. L : dist[j] = dist[j + 1] + Hdr + lens[j]
      /\ \A j \in 1 .. L, k \in Nat :
           k < Hdr + lens[j] /\ dist[j] - k <= Size => buf[At(w, dist[j] - k)] = <<j, k>>
  BY DEF Placed
<1>4. i \in 1 .. L + 1 /\ off = At(w, dist[i]) /\ dist[i] \in Nat /\ dist[i] < Size
      /\ dist[i] \in 0 .. Size
  <2> i \in 1 .. L + 1 /\ off = At(w, dist[i]) /\ dist[i] \in Nat /\ dist[i] < Size - Hdr
    BY <1>3 DEF Starts
  <2> HIDE DEF L
  <2> QED
    BY <1>2
<1>5. off = w <=> dist[i] = 0
  BY <1>2, <1>4, AtRange
<1>6. CASE i = L + 1
  BY <1>3, <1>5, <1>6
<1>7. CASE i # L + 1
  <2>1. i \in 1 .. L /\ i + 1 \in 1 .. L + 1
    BY <1>1, <1>4, <1>7
  <2>2. dist[i] = dist[i + 1] + Hdr + lens[i] /\ dist[i + 1] \in Nat /\ lens[i] \in Nat
    BY <1>1, <1>3, <2>1
  <2>3. dist[i] # 0 /\ 0 \in Nat /\ 0 < Hdr + lens[i] /\ dist[i] - 0 = dist[i] /\ dist[i] - 0 <= Size
    <3> DEFINE here == dist[i]  next == dist[i + 1]  body == lens[i]
    <3>1. here = next + Hdr + body /\ here \in Nat /\ next \in Nat /\ body \in Nat /\ here < Size
      BY <1>4, <2>2
    <3> HIDE DEF here, next, body
    <3>2. here # 0 /\ 0 < Hdr + body /\ here - 0 = here /\ here - 0 <= Size
      BY <1>2, <3>1
    <3> QED
      BY <3>2 DEF here, body
  <2>4. buf[At(w, dist[i] - 0)] = <<i, 0>>
    BY <1>3, <2>1, <2>3
  <2> QED
    BY <1>4, <1>5, <2>3, <2>4
<1> QED
  BY <1>6, <1>7

LEMMA FeedInit == ASSUME RingFits PROVE Init => Feed!Init
BY LogAssumption DEF Init, Feed!Init, Written, EntryAt

\* Where a write leaves a pointer, in terms of the feed.
LEMMA Skipped ==
  ASSUME NEW dist, Placed(buffer, entries, w_off, dist), Laid(tape, dist, Written), Written \in Nat,
         NEW n \in Nat, NEW i \in 1 .. Written + 1, NEW j \in i .. Written + 1,
         IF dist[i] < Size - Hdr - n THEN j = i
         ELSE Covering(Lengthened(dist, Written, n), i, j, n)
  PROVE  Feed!Skips(n, i, j)
<1> DEFINE P == tape[Written + 1]  d2 == Lengthened(dist, Written, n)
<1>1. \A k \in 1 .. Written + 1 :
        tape[k] \in Nat /\ dist[k] \in Nat /\ tape[k] + dist[k] = P /\ d2[k] = dist[k] + n
  BY DEF Laid, Placed, Lengthened, Written
<1>2. P \in Nat /\ Size \in Nat /\ Hdr \in Nat
  BY <1>1, LogAssumption
<1>3. i \in Nat /\ j \in 1 .. Written + 1 /\ \A k \in i .. j - 1 : k \in 1 .. Written + 1
  OBVIOUS
<1> HIDE DEF P, d2
<1>4. Feed!RoomFor(n, i) <=> dist[i] < Size - Hdr - n
  <2>1. Feed!RoomFor(n, i) <=> P + Hdr + n < tape[i] + Size
    BY DEF Feed!RoomFor, P
  <2>2. tape[i] \in Nat /\ dist[i] \in Nat /\ tape[i] + dist[i] = P
    BY <1>1
  <2> QED
    BY <1>2, <2>1, <2>2
<1>5. ASSUME Covering(d2, i, j, n) PROVE Feed!Covers(n, i, j)
  <2>1. tape[i] \in Nat /\ dist[i] \in Nat /\ tape[i] + dist[i] = P /\ d2[i] = dist[i] + n
    BY <1>1
  <2>2. tape[j] >= tape[i] + n
    <3> tape[j] \in Nat /\ dist[j] \in Nat /\ tape[j] + dist[j] = P /\ d2[j] = dist[j] + n
      BY <1>1, <1>3
    <3> d2[j] + n <= d2[i]
      BY <1>5 DEF Covering
    <3> QED
      BY <1>2, <2>1
  <2>3. ASSUME NEW k \in i .. j - 1 PROVE tape[k] < tape[i] + n
    <3> tape[k] \in Nat /\ dist[k] \in Nat /\ tape[k] + dist[k] = P /\ d2[k] = dist[k] + n
      BY <1>1, <1>3
    <3> d2[i] < d2[k] + n
      BY <1>5 DEF Covering
    <3> QED
      BY <1>2, <2>1
  <2> QED
    BY <2>2, <2>3 DEF Feed!Covers
<1>6. CASE dist[i] < Size - Hdr - n
  BY <1>4, <1>6 DEF Feed!Skips
<1>7. CASE ~ (dist[i] < Size - Hdr - n)
  <2> Covering(d2, i, j, n)
    BY <1>7 DEF d2
  <2> QED
    BY <1>4, <1>5, <1>7 DEF Feed!Skips
<1> QED
  BY <1>6, <1>7

LEMMA FeedConsole ==
  ASSUME RInv, Preempt = FALSE, MessagesFit, RingFits, RingRoomy,
         NEW count \in Counts, klogger_kernel_write(count)
  PROVE  Feed!Write(Hdr + HeaderLen(count))
<1> USE DEF RInv
<1>1. /\ head' = fix_up_readers(count, head)
      /\ r_off' = [r \in Readers |-> IF r \in readers THEN fix_up_readers(count, r_off[r]) ELSE r_off[r]]
      /\ UNCHANGED <<readers, pc, got>>
  BY DEF klogger_kernel_write, console_write
<1>2. PICK dist :
        /\ Placed(buffer, entries, w_off, dist)
        /\ Laid(tape, dist, Written)
        /\ \E i \in Nat : Starts(entries, w_off, dist, head, i)
        /\ \A r \in Readers : Preempt \/ pc[r] = "closed"
                              \/ \E i \in Nat : Starts(entries, w_off, dist, r_off[r], i)
  BY DEF Located
<1> DEFINE n == Hdr + HeaderLen(count)
           d2 == Lengthened(dist, Written, n)
<1>3. n \in Nat /\ Hdr + (n + n) <= Size /\ Written \in Nat
  <2>1. HeaderLen(count) \in Nat /\ n <= Hdr + MaxPayload - 1
    BY Pieces
  <2>2. Hdr \in Nat /\ MaxPayload \in Nat /\ Size \in Nat /\ Hdr + 2 * (Hdr + MaxPayload - 1) <= Size
    BY LogAssumption DEF RingRoomy
  <2>3. Written \in Nat
    BY LenProperties DEF Typed, TypeOK, Written
  <2>4. n \in Nat
    BY <2>1, <2>2
  <2> HIDE DEF n
  <2> QED
    BY <2>1, <2>2, <2>3, <2>4
<1>4. /\ Placed(buffer', entries', w_off', d2) /\ Written' = Written + 1
      /\ \A off, i : Starts(entries, w_off, dist, off, i) =>
           \E j \in i .. Written + 2 :
             /\ Starts(entries', w_off', d2, fix_up_readers(count, off), j)
             /\ Hdr + (n + n) <= Size => j <= Written + 1
             /\ IF dist[i] < Size - Hdr - n THEN j = i ELSE Covering(d2, i, j, n)
  BY <1>2, ConsoleMoves
<1>5. Typed' /\ Typed
  BY ConsoleTyped
<1>5a. tape' = Append(tape, tape[Written + 1] + n)
  BY <1>2, <1>5, ConsoleLays
<1> HIDE DEF n, d2
<1>6. ASSUME NEW off, NEW i, Starts(entries, w_off, dist, off, i)
      PROVE  LET j == IF fix_up_readers(count, off) = w_off' THEN Written' + 1
                      ELSE buffer'[fix_up_readers(count, off)][1]
             IN  i \in 1 .. Written + 1 /\ EntryAt(off) = i /\ j \in i .. Written + 1 /\ Feed!Skips(n, i, j)
  <2>1. i \in 1 .. Written + 1 /\ EntryAt(off) = i
    BY <1>2, <1>5, <1>6, Standing
  <2>2. PICK j \in i .. Written + 2 :
          /\ Starts(entries', w_off', d2, fix_up_readers(count, off), j) /\ j <= Written + 1
          /\ IF dist[i] < Size - Hdr - n THEN j = i ELSE Covering(d2, i, j, n)
    BY <1>3, <1>4, <1>6
  <2>3. entries' \in Seq(Nat) /\ w_off' \in Offset
    BY <1>5 DEF Typed, TypeOK
  <2>4. j = IF fix_up_readers(count, off) = w_off' THEN Written' + 1
            ELSE buffer'[fix_up_readers(count, off)][1]
    <3> DEFINE to == fix_up_readers(count, off)
    <3>1. Starts(entries', w_off', d2, to, j) /\ Placed(buffer', entries', w_off', d2)
      BY <1>4, <2>2
    <3> HIDE DEF to
    <3>2. j = IF to = w_off' THEN Len(entries') + 1 ELSE buffer'[to][1]
      BY <2>3, <3>1, NumberOf
    <3> QED
      BY <3>2 DEF to, Written
  <2>5. j \in i .. Written + 1 /\ j \in 1 .. Written + 1
    BY <1>3, <2>1, <2>2
  <2>6. Feed!Skips(n, i, j)
    BY <1>2, <1>3, <2>1, <2>2, <2>5, Skipped DEF d2
  <2> QED
    BY <2>1, <2>4, <2>5, <2>6
<1>7. EntryAt(head)' \in EntryAt(head) .. Written' /\ Feed!Skips(n, EntryAt(head), EntryAt(head)')
  <2>1. PICK i \in Nat : Starts(entries, w_off, dist, head, i)
    BY <1>2
  <2>2. EntryAt(head)' = IF fix_up_readers(count, head) = w_off' THEN Written' + 1
                         ELSE buffer'[fix_up_readers(count, head)][1]
    BY <1>1 DEF EntryAt
  <2> QED
    BY <1>4, <1>6, <2>1, <2>2
<1>8. ASSUME NEW r \in Readers
      PROVE  /\ NextOf'[r] \in 0 .. Written'
             /\ IF NextOf[r] = 0 THEN NextOf'[r] = 0 ELSE Feed!Skips(n, NextOf[r], NextOf'[r])
  <2>1. CASE r \in readers
    <3>1. PICK i \in Nat : Starts(entries, w_off, dist, r_off[r], i)
      BY <1>2, <2>1 DEF Bookkeeping
    <3>2. EntryAt(r_off[r])' = IF fix_up_readers(count, r_off[r]) = w_off' THEN Written' + 1
                               ELSE buffer'[fix_up_readers(count, r_off[r])][1]
      BY <1>1, <2>1 DEF EntryAt
    <3>3. /\ i \in 1 .. Written + 1 /\ EntryAt(r_off[r]) = i
          /\ EntryAt(r_off[r])' \in i .. Written + 1 /\ Feed!Skips(n, i, EntryAt(r_off[r])')
      BY <1>6, <3>1, <3>2
    <3>4. NextOf[r] = i /\ NextOf'[r] = EntryAt(r_off[r])'
      BY <1>1, <2>1, <3>3 DEF NextOf
    <3>5. i # 0 /\ NextOf'[r] \in 0 .. Written'
      BY <1>3, <1>4, <3>3, <3>4
    <3> QED
      BY <3>3, <3>4, <3>5
  <2>2. CASE r \notin readers
    BY <1>1, <1>3, <1>4, <2>2 DEF NextOf
  <2> QED
    BY <2>1, <2>2
<1>9. GotOf' = GotOf
  BY <1>1 DEF GotOf
<1>10. NextOf' \in [Readers -> 0 .. Written']
  <2> DOMAIN NextOf' = Readers /\ NextOf' = [r \in Readers |-> NextOf'[r]]
    BY DEF NextOf
  <2> QED
    BY <1>8
<1> QED
  BY <1>4, <1>5a, <1>7, <1>8, <1>9, <1>10 DEF Feed!Write, NextOf, GotOf, n

LEMMA FeedFlush == ASSUME RInv, Preempt = FALSE, RingFits, flush_log PROVE Feed!Flush
<1>1. /\ head' = w_off
      /\ r_off' = [r \in Readers |-> IF r \in readers THEN w_off ELSE r_off[r]]
      /\ UNCHANGED <<buffer, w_off, entries, tape, readers, got>>
  BY DEF flush_log
<1>2. \A r \in readers : r \in Readers
  <2> readers \subseteq Readers
    BY DEF RInv, Typed, TypeOK
  <2> QED
    OBVIOUS
<1>3. PICK dist :
        /\ Placed(buffer, entries, w_off, dist)
        /\ \A r \in Readers : Preempt \/ pc[r] = "closed"
                              \/ \E i \in Nat : Starts(entries, w_off, dist, r_off[r], i)
  BY DEF RInv, Located
<1>4. ASSUME NEW r \in readers PROVE EntryAt(r_off[r]) # 0 /\ EntryAt(r_off[r])' = Written + 1
  <2>1. pc[r] # "closed" /\ r \in Readers
    BY <1>2 DEF RInv, Bookkeeping
  <2>2. PICK i \in Nat : Starts(entries, w_off, dist, r_off[r], i)
    BY <1>3, <2>1
  <2>3. i \in 1 .. Written + 1 /\ EntryAt(r_off[r]) = i
    BY <1>3, <2>2, Standing DEF RInv
  <2>4. EntryAt(r_off[r])' = Written + 1
    BY <1>1, <2>1 DEF EntryAt, Written
  <2> QED
    BY <2>3, <2>4
<1>5. Written' = Written /\ EntryAt(head)' = Written + 1 /\ GotOf' = GotOf /\ tape' = tape
  BY <1>1 DEF Written, EntryAt, GotOf
<1>6. NextOf' = [r \in Readers |-> IF NextOf[r] = 0 THEN 0 ELSE Written + 1]
  <2> \A r \in Readers : NextOf'[r] = IF NextOf[r] = 0 THEN 0 ELSE Written + 1
    BY <1>1, <1>4 DEF NextOf
  <2> QED
    BY DEF NextOf
<1> QED
  BY <1>5, <1>6 DEF Feed!Flush, NextOf, GotOf

LEMMA FeedReader ==
  ASSUME RInv, Preempt = FALSE, RingFits, NEW q \in Readers, Read(q) \/ User(q)
  PROVE  Feed!Next \/ UNCHANGED Feed!vars
<1> USE DEF RInv
<1>1. pc \in [Readers -> PCs] /\ DOMAIN r_off = Readers /\ DOMAIN got = Readers /\ Written \in Nat
      /\ readers \subseteq Readers /\ Typed
  BY LenProperties DEF IInv, ControlOK, Typed, TypeOK, Written
<1>2. UNCHANGED <<buffer, w_off, head, entries, tape>>
  BY DEF Read, User, read_prepare, read_test, read_wake, read_lock, read_race, read_copy, read_copy2,
     read_advance, open_list, open_head, klogger_release, read_signal, read_fault, ring
<1>3. /\ q \in readers <=> pc[q] \notin {"closed", "opening"}
      /\ pc[q] = "opening" => r_off[q] = head
      /\ q \notin readers => got[q] = <<>>
  BY DEF Bookkeeping
<1>5. CASE open_list(q)
  <2>1. pc[q] = "opening" /\ readers' = readers \cup {q} /\ UNCHANGED <<r_off, got>>
    BY <1>5 DEF open_list, Goto
  <2>2. Feed!Open(q)
    BY <1>1, <1>2, <1>3, <2>1 DEF Feed!Open, EntryAt, Written
  <2> QED
    BY <2>2 DEF Feed!Next
<1>6. CASE klogger_release(q)
  <2>1. pc[q] = "user" /\ readers' = readers \ {q} /\ got' = [got EXCEPT ![q] = <<>>] /\ UNCHANGED r_off
    BY <1>6 DEF klogger_release, Goto
  <2>2. EntryAt(r_off[q]) # 0
    <3> PICK dist :
          /\ Placed(buffer, entries, w_off, dist)
          /\ \E i \in Nat : Starts(entries, w_off, dist, r_off[q], i)
      BY <2>1 DEF Located
    <3> PICK i \in Nat : Starts(entries, w_off, dist, r_off[q], i)
      OBVIOUS
    <3> i \in 1 .. Written + 1 /\ EntryAt(r_off[q]) = i
      BY <1>1, Standing
    <3> QED
      BY <1>1
  <2>3. q \in readers
    BY <1>3, <2>1
  <2>4. Feed!Close(q)
    BY <1>1, <1>2, <2>1, <2>2, <2>3 DEF Feed!Close, EntryAt, Written
  <2> QED
    BY <2>4 DEF Feed!Next
<1>7. CASE read_advance(q)
  <2> DEFINE i == EntryAt(r_off[q])
  <2>1. /\ pc[q] = "advance" /\ UNCHANGED readers
        /\ r_off' = [r_off EXCEPT ![q] = logger_offset(r_off[q] + len[q])]
        /\ got' = [got EXCEPT ![q] = copied[q]]
    BY <1>1, <1>7 DEF read_advance, Goto, ring
  <2>2. i \in 1 .. Written /\ entries[i] \in Nat /\ len[q] = Hdr + entries[i]
    BY <2>1, InEntry
  <2>3. copied[q] = Whole(i) /\ Whole(i) # <<>> /\ Whole(i)[1][1] = i
    <3>1. copied[q] = Whole(i) /\ r_off[q] # w_off
      BY <2>1 DEF Undivided, Holding
    <3>2. 1 \in 1 .. Hdr + entries[i]
      BY <2>2, LogAssumption
    <3>3. 1 \in DOMAIN Whole(i) /\ Whole(i)[1] = <<i, 1 - 1>>
      BY <3>2 DEF Whole
    <3>4. Whole(i) # <<>>
      BY <3>3
    <3> QED
      BY <3>1, <3>3, <3>4
  <2>4. IF logger_offset(r_off[q] + len[q]) = w_off THEN Written + 1 = i + 1
        ELSE buffer[logger_offset(r_off[q] + len[q])][1] = i + 1
    <3> PICK dist :
          /\ Placed(buffer, entries, w_off, dist)
          /\ \E k \in Nat : Starts(entries, w_off, dist, r_off[q], k)
      BY <2>1 DEF Located
    <3> PICK k \in Nat : Starts(entries, w_off, dist, r_off[q], k)
      OBVIOUS
    <3>1. r_off[q] # w_off
      BY <2>1 DEF Undivided, Holding
    <3>2. k = i /\ Starts(entries, w_off, dist, logger_offset(r_off[q] + (Hdr + entries[k])), k + 1)
      BY <1>1, <3>1, Standing
    <3>3. EntryAt(logger_offset(r_off[q] + len[q])) = i + 1
      <4> HIDE DEF i
      <4> QED
        BY <1>1, <2>2, <3>2, Standing
    <3> QED
      BY <3>3 DEF EntryAt
  <2>5. q \in readers
    BY <1>3, <2>1
  <2>6. EntryAt(r_off[q])' = i + 1
    BY <1>1, <1>2, <2>1, <2>4 DEF EntryAt, Written
  <2>7. \A r \in Readers : r # q => EntryAt(r_off[r])' = EntryAt(r_off[r]) /\ got'[r] = got[r]
    BY <1>1, <1>2, <2>1 DEF EntryAt, Written
  <2>8. Written' = Written /\ EntryAt(head)' = EntryAt(head) /\ tape' = tape
    BY <1>2 DEF Written, EntryAt
  <2>9. /\ NextOf[q] = i
        /\ NextOf' = [NextOf EXCEPT ![q] = @ + 1] /\ GotOf' = [GotOf EXCEPT ![q] = i]
    <3>1. got'[q] = Whole(i)
      BY <1>1, <2>1, <2>3
    <3> HIDE DEF i
    <3>2. NextOf[q] = i /\ DOMAIN NextOf = Readers /\ DOMAIN GotOf = Readers
      BY <2>5 DEF NextOf, GotOf, i
    <3>3. \A r \in Readers : NextOf'[r] = IF r = q THEN i + 1 ELSE NextOf[r]
      BY <2>1, <2>5, <2>6, <2>7 DEF NextOf
    <3>4. \A r \in Readers : GotOf'[r] = IF r = q THEN i ELSE GotOf[r]
      BY <2>3, <2>7, <3>1 DEF GotOf
    <3>5. NextOf' = [r \in Readers |-> NextOf'[r]] /\ GotOf' = [r \in Readers |-> GotOf'[r]]
          /\ NextOf = [r \in Readers |-> NextOf[r]] /\ GotOf = [r \in Readers |-> GotOf[r]]
      BY DEF NextOf, GotOf
    <3>6. NextOf' = [NextOf EXCEPT ![q] = i + 1]
      BY <3>2, <3>3, <3>5
    <3>7. GotOf' = [GotOf EXCEPT ![q] = i]
      BY <3>2, <3>4, <3>5
    <3> QED
      BY <3>2, <3>6, <3>7
  <2>10. Feed!Take(q)
    BY <2>2, <2>8, <2>9 DEF Feed!Take, NextOf, GotOf
  <2> QED
    BY <2>10 DEF Feed!Next
<1>8. CASE ~ (open_list(q) \/ klogger_release(q) \/ read_advance(q))
  <2>1. UNCHANGED <<readers, got>> /\ \A r \in readers : r_off'[r] = r_off[r]
    BY <1>1, <1>3, <1>8 DEF Read, User, read_prepare, read_test, read_wake, read_lock, read_race,
       read_copy, read_copy2, open_head, read_signal, read_fault, Goto
  <2>2. NextOf' = NextOf /\ GotOf' = GotOf /\ Written' = Written /\ EntryAt(head)' = EntryAt(head)
        /\ tape' = tape
    BY <1>1, <1>2, <2>1 DEF NextOf, GotOf, EntryAt, Written
  <2> QED
    BY <2>2 DEF Feed!vars, NextOf, GotOf
<1> QED
  BY <1>5, <1>6, <1>7, <1>8

LEMMA FeedStep ==
  ASSUME Preempt = FALSE, MessagesFit, RingFits, RingRoomy
  PROVE  RInv /\ [Next]_vars => [Feed!Next]_(Feed!vars)
<1> SUFFICES ASSUME RInv, [Next]_vars PROVE Feed!Next \/ UNCHANGED Feed!vars
  OBVIOUS
<1>1. CASE \E count \in Counts : klogger_kernel_write(count)
  <2>1. PICK count \in Counts : klogger_kernel_write(count)
    BY <1>1
  <2>2. Feed!Write(Hdr + HeaderLen(count))
    BY <2>1, FeedConsole
  <2>3. Hdr + HeaderLen(count) \in {Hdr + HeaderLen(c) : c \in Counts}
    OBVIOUS
  <2> QED
    BY <2>2, <2>3 DEF Feed!Next
<1>2. CASE \E r \in Readers : Read(r) \/ User(r)
  BY <1>2, FeedReader
<1>3. CASE flush_log
  BY <1>3, FeedFlush DEF Feed!Next
<1>4. CASE UNCHANGED vars
  BY <1>4 DEF vars, Feed!vars, EntryAt, Written
<1> QED
  BY <1>1, <1>2, <1>3, <1>4 DEF Next

\* The byte ring implements the feed of numbered entries.
THEOREM RingIsFeed ==
  ASSUME Preempt = FALSE, MessagesFit, RingFits, RingRoomy PROVE Spec => ImplementsFeed
BY FeedInit, FeedStep, RingInvariant, PTL DEF Spec, ImplementsFeed, Feed!Spec

=============================================================================
