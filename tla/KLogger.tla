------------------------------ MODULE KLogger -------------------------------
(***************************************************************************)
(* The log_kernel device of modules/sources/klogger: a byte ring that the  *)
(* kernel console appends to (klogger_kernel_write) and that any number of *)
(* readers drain one entry at a time (klogger_read).                       *)
(*                                                                         *)
(* The device runs on a uniprocessor and console drivers are called with   *)
(* interrupts disabled, so one console write is one step.  It takes no     *)
(* lock, though: it may run between any two steps of a reader, also while  *)
(* that reader holds log->mutex.  Preempt = FALSE restricts it to moments  *)
(* when the mutex is free, which is what the comments in logger.c ask of   *)
(* the callers of do_write_log and fix_up_readers.                         *)
(*                                                                         *)
(* A cell of the ring holds <<i, k>>: byte k of the i-th entry written,    *)
(* <<0, 0>> being the zeroed initial buffer.                               *)
(***************************************************************************)
EXTENDS Naturals, Sequences

CONSTANTS
  Readers,     \* files that open the device for reading
  None,        \* the owner of a free mutex
  Size,        \* log->size
  Hdr,         \* sizeof(struct logger_entry)
  Tag,         \* bytes of the tag, which follows one byte of priority
  Counts,      \* the lengths of the messages the console prints
  MaxPayload,  \* LOGGER_ENTRY_MAX_PAYLOAD
  Junk,        \* what bytes that are no header say when read as a length
  MaxWrites,   \* bound: console writes in a behaviour
  Preempt      \* whether a console write may hit a reader's critical section

Min2(a, b) == IF a <= b THEN a ELSE b

ASSUME LogAssumption ==
  /\ None \notin Readers
  /\ Size \in Nat \ {0} /\ Hdr \in Nat \ {0} /\ Tag \in Nat
  /\ Counts \subseteq Nat /\ MaxPayload \in Nat \ {0, 1} /\ Junk \in Nat
  /\ MaxWrites \in Nat /\ Preempt \in BOOLEAN

VARIABLES
  buffer,   \* log->buffer
  w_off,    \* log->w_off
  head,     \* log->head
  readers,  \* log->readers: the readers on the log's list
  r_off,    \* reader->r_off
  mutex,    \* who holds log->mutex
  waiting,  \* readers queued on log->wq and still TASK_INTERRUPTIBLE
  pc,       \* where each reader is in open, read or release
  len,      \* the entry length klogger_read has looked up
  copied,   \* the cells copied to the user buffer by the read in progress
  got,      \* history: what the last successful read returned
  entries,  \* history: header.len of every entry, in the order written
  tape      \* history: where each entry, and the next one, begins in all that is written

ring == <<buffer, w_off, head, entries, tape>>
vars == <<buffer, w_off, head, readers, r_off, mutex, waiting, pc, len, copied,
          got, entries, tape>>

Offset == 0 .. Size - 1

logger_offset(n) == n % Size
-----------------------------------------------------------------------------
(* The ring, whose entries have the lengths lens.  get_entry_len reads the *)
(* length field at an offset, whatever is there; get_next_entry walks at   *)
(* least n bytes of entries from off.                                      *)

get_entry_len(buf, lens, off) ==
  LET i == buf[off][1]
  IN  Hdr + IF i = 0 THEN 0 ELSE IF buf[off][2] = 0 THEN lens[i] ELSE Junk

get_next_entry(buf, lens, off, n) ==
  LET walk[p \in Offset \X (0 .. n)] ==
        LET nr   == get_entry_len(buf, lens, p[1])
            next == logger_offset(p[1] + nr)
        IN  IF nr >= p[2] THEN next ELSE walk[<<next, p[2] - nr>>]
  IN  walk[<<off, n>>]

\* Does the line from a to b cross c in mod-space?
clock_interval(a, b, c) ==
  IF b < a THEN a < c \/ b >= c ELSE a < c /\ b >= c

\* Where fix_up_readers leaves a pointer when n bytes are about to follow at.
fix_up(buf, lens, at, n, off) ==
  IF clock_interval(at, logger_offset(at + n), off)
  THEN get_next_entry(buf, lens, off, n) ELSE off

\* do_write_log: count bytes, from byte k of entry i on, written at offset at.
do_write_log(buf, at, i, k, count) ==
  [o \in Offset |->
     LET d == logger_offset(o + Size - at) IN IF d < count THEN <<i, k + d>> ELSE buf[o]]
-----------------------------------------------------------------------------
Init ==
  /\ buffer = [o \in Offset |-> <<0, 0>>]
  /\ w_off = 0 /\ head = 0
  /\ readers = {}
  /\ r_off = [r \in Readers |-> 0]
  /\ mutex = None
  /\ waiting = {}
  /\ pc = [r \in Readers |-> "closed"]
  /\ len = [r \in Readers |-> 0]
  /\ copied = [r \in Readers |-> <<>>]
  /\ got = [r \in Readers |-> <<>>]
  /\ entries = <<>>
  /\ tape = <<0>>

(***************************************************************************)
(* klogger_kernel_write: the header goes in first, then the readers and    *)
(* the start head are fixed up from the new write head, then the payload   *)
(* follows.  Each piece is clipped against header.len - ret with ret left  *)
(* at 1.  Everybody on the wait queue is woken.                            *)
(***************************************************************************)
HeaderLen(count) == Min2(1 + Tag + count, MaxPayload - 1)
PayloadWritten(count) ==
  LET kept(iov_len) == Min2(iov_len, HeaderLen(count) - 1)
  IN  kept(1) + kept(Tag) + kept(count)

Body == logger_offset(w_off + Hdr)
Lengths(count) == Append(entries, HeaderLen(count))
WithHeader(count) == do_write_log(buffer, w_off, Len(Lengths(count)), 0, Hdr)

\* Mutant: the length passed on counts the header twice.
fix_up_readers_HeaderTwice(count, off) ==
  fix_up(WithHeader(count), Lengths(count), Body, Hdr + Hdr + HeaderLen(count), off)

fix_up_readers(count, off) ==
  fix_up(WithHeader(count), Lengths(count), Body, Hdr + HeaderLen(count), off)

console_write(count, start, woken) ==
  /\ Preempt \/ mutex = None
  /\ Len(entries) < MaxWrites
  /\ entries' = Lengths(count)
  /\ tape' = Append(tape, tape[Len(tape)] + Hdr + HeaderLen(count))
  /\ head' = start
  /\ r_off' = [r \in Readers |-> IF r \in readers THEN fix_up_readers(count, r_off[r])
                                 ELSE r_off[r]]
  /\ buffer' = do_write_log(WithHeader(count), Body, Len(entries'), Hdr, PayloadWritten(count))
  /\ w_off' = logger_offset(Body + PayloadWritten(count))
  /\ waiting' = waiting \ woken
  /\ UNCHANGED <<readers, mutex, pc, len, copied, got>>

\* Mutants: the start head stays behind, the readers are not woken.
klogger_kernel_write_KeepsHead(count) == console_write(count, head, Readers)
klogger_kernel_write_NoWake(count) ==
  console_write(count, fix_up_readers(count, head), {})

klogger_kernel_write(count) ==
  console_write(count, fix_up_readers(count, head), Readers)
-----------------------------------------------------------------------------
Goto(r, from, to) == pc[r] = from /\ pc' = [pc EXCEPT ![r] = to]
Lock(r)   == mutex = None /\ mutex' = r
Unlock(r) == mutex = r /\ mutex' = None

\* What klogger_read kept on its stack is gone once it returns.
ForgetLocals(r) == len' = [len EXCEPT ![r] = 0] /\ copied' = [copied EXCEPT ![r] = <<>>]

(* klogger_open, with the mutex held from the load of log->head until the  *)
(* reader is on the list; klogger_release.                                 *)
open_head(r) ==
  /\ Goto(r, "closed", "opening")
  /\ Lock(r)
  /\ r_off' = [r_off EXCEPT ![r] = head]
  /\ UNCHANGED <<ring, readers, waiting, len, copied, got>>

open_list(r) ==
  /\ Goto(r, "opening", "user")
  /\ readers' = readers \cup {r}
  /\ Unlock(r)
  /\ UNCHANGED <<ring, r_off, waiting, len, copied, got>>

klogger_release(r) ==
  /\ Goto(r, "user", "closed")
  /\ mutex = None
  /\ readers' = readers \ {r}
  /\ got' = [got EXCEPT ![r] = <<>>]
  /\ UNCHANGED <<ring, r_off, mutex, waiting, len, copied>>

(* klogger_read.  prepare_to_wait comes before the test, so that a write   *)
(* between the test and schedule() finds the reader on the wait queue.     *)
read_prepare(r, from) ==
  /\ Goto(r, from, "test")
  /\ waiting' = waiting \cup {r}
  /\ UNCHANGED <<ring, readers, r_off, mutex, len, copied, got>>

\* The test, under the mutex.  An O_NONBLOCK file gets -EAGAIN and a pending
\* signal -EINTR; both leave through finish_wait.
read_test(r) ==
  /\ mutex = None
  /\ \/ /\ w_off # r_off[r]
        /\ Goto(r, "test", "lock")
        /\ waiting' = waiting \ {r}
     \/ /\ w_off = r_off[r]
        /\ Goto(r, "test", "schedule")
        /\ UNCHANGED waiting
     \/ /\ w_off = r_off[r]
        /\ Goto(r, "test", "user")
        /\ waiting' = waiting \ {r}
  /\ UNCHANGED <<ring, readers, r_off, mutex, len, copied, got>>

\* schedule() returns once somebody has woken the task.
read_wake(r) ==
  /\ Goto(r, "schedule", "start")
  /\ r \notin waiting
  /\ UNCHANGED <<ring, readers, r_off, mutex, waiting, len, copied, got>>

\* A signal makes schedule() return too; the next test gives up with -EINTR.
read_signal(r) ==
  /\ Goto(r, "schedule", "start")
  /\ r \in waiting
  /\ waiting' = waiting \ {r}
  /\ UNCHANGED <<ring, readers, r_off, mutex, len, copied, got>>

read_lock(r) ==
  /\ Goto(r, "lock", "race")
  /\ Lock(r)
  /\ UNCHANGED <<ring, readers, r_off, waiting, len, copied, got>>

\* Is there still something to read or did we race?
read_race(r) ==
  /\ \/ /\ w_off = r_off[r]
        /\ Goto(r, "race", "start")
        /\ Unlock(r)
        /\ UNCHANGED len
     \/ /\ w_off # r_off[r]
        /\ Goto(r, "race", "copy")
        /\ len' = [len EXCEPT ![r] = get_entry_len(buffer, entries, r_off[r])]
        /\ UNCHANGED mutex
     \/ /\ w_off # r_off[r]           \* the user buffer is too small: -EINVAL
        /\ Goto(r, "race", "user")
        /\ Unlock(r)
        /\ UNCHANGED len
  /\ UNCHANGED <<ring, readers, r_off, waiting, copied, got>>

Cells(off, n) == [k \in 1 .. n |-> buffer[logger_offset(off + k - 1)]]

(* do_read_log_to_user: up to the end of the ring, then the rest from its  *)
(* start; either copy may fault, which leaves r_off where it was.          *)
read_copy(r) ==
  /\ Goto(r, "copy", "copy2")
  /\ copied' = [copied EXCEPT ![r] = Cells(r_off[r], Min2(len[r], Size - r_off[r]))]
  /\ UNCHANGED <<ring, readers, r_off, mutex, waiting, len, got>>

\* Mutant: the second copy starts where the first did.
read_copy2_SameStart(r) ==
  /\ Goto(r, "copy2", "advance")
  /\ copied' = [copied EXCEPT ![r] = @ \o Cells(r_off[r], len[r] - Len(@))]
  /\ UNCHANGED <<ring, readers, r_off, mutex, waiting, len, got>>

read_copy2(r) ==
  /\ Goto(r, "copy2", "advance")
  /\ copied' = [copied EXCEPT ![r] = @ \o Cells(0, len[r] - Len(@))]
  /\ UNCHANGED <<ring, readers, r_off, mutex, waiting, len, got>>

\* Mutant: -EFAULT is returned with the mutex held.
read_fault_KeepsMutex(r) ==
  /\ Goto(r, "copy", "user") \/ Goto(r, "copy2", "user")
  /\ mutex = r /\ ForgetLocals(r)
  /\ UNCHANGED <<ring, readers, r_off, mutex, waiting, got>>

read_fault(r) ==
  /\ Goto(r, "copy", "user") \/ Goto(r, "copy2", "user")
  /\ Unlock(r) /\ ForgetLocals(r)
  /\ UNCHANGED <<ring, readers, r_off, waiting, got>>

\* Mutant: the read offset runs past the end of the ring.
read_advance_NoModulus(r) ==
  /\ Goto(r, "advance", "user")
  /\ r_off' = [r_off EXCEPT ![r] = @ + len[r]]
  /\ got' = [got EXCEPT ![r] = copied[r]]
  /\ Unlock(r) /\ ForgetLocals(r)
  /\ UNCHANGED <<ring, readers, waiting>>

read_advance(r) ==
  /\ Goto(r, "advance", "user")
  /\ r_off' = [r_off EXCEPT ![r] = logger_offset(@ + len[r])]
  /\ got' = [got EXCEPT ![r] = copied[r]]
  /\ Unlock(r) /\ ForgetLocals(r)
  /\ UNCHANGED <<ring, readers, waiting>>

(* klogger_ioctl with LOGGER_FLUSH_LOG, from any file open for writing.    *)
flush_log ==
  /\ mutex = None
  /\ head' = w_off
  /\ r_off' = [r \in Readers |-> IF r \in readers THEN w_off ELSE r_off[r]]
  /\ UNCHANGED <<buffer, w_off, entries, tape, readers, mutex, waiting, pc, len, copied, got>>

Read(r) ==
  \/ read_prepare(r, "start")
  \/ read_test(r) \/ read_wake(r) \/ read_lock(r) \/ read_race(r)
  \/ read_copy(r) \/ read_copy2(r) \/ read_advance(r)
  \/ open_list(r)

User(r) ==
  \/ open_head(r) \/ klogger_release(r) \/ read_prepare(r, "user")
  \/ read_signal(r) \/ read_fault(r)

Next ==
  \/ \E count \in Counts : klogger_kernel_write(count)
  \/ \E r \in Readers : Read(r) \/ User(r)
  \/ flush_log

Spec == Init /\ [][Next]_vars

\* A reader inside the kernel goes on, and a mutex serves its waiters in turn;
\* the console and the user owe nothing.
FairSpec ==
  Spec /\ \A r \in Readers :
            WF_vars(Read(r)) /\ SF_vars(read_test(r)) /\ SF_vars(read_lock(r))
-----------------------------------------------------------------------------
TypeOK ==
  /\ buffer \in [Offset -> Nat \X Nat]
  /\ w_off \in Offset /\ head \in Offset /\ r_off \in [Readers -> Offset]
  /\ readers \subseteq Readers /\ waiting \subseteq Readers
  /\ mutex \in Readers \cup {None}
  /\ pc \in [Readers -> {"closed", "opening", "user", "start", "test", "schedule",
                         "lock", "race", "copy", "copy2", "advance"}]
  /\ len \in [Readers -> Nat]
  /\ copied \in [Readers -> Seq(Nat \X Nat)] /\ got \in [Readers -> Seq(Nat \X Nat)]
  /\ entries \in Seq(Nat) /\ tape \in Seq(Nat)

\* log->mutex is held by exactly the reader that is between mutex_lock and
\* mutex_unlock, on every path out of klogger_open and klogger_read.
InCritical(r) == pc[r] \in {"opening", "race", "copy", "copy2", "advance"}
CriticalSection == \A r \in Readers : InCritical(r) <=> mutex = r

(* What is in the ring, in terms of whole entries.                         *)
Written  == Len(entries)
Whole(i) == [k \in 1 .. Hdr + entries[i] |-> <<i, k - 1>>]
Behind(off) == logger_offset(w_off + Size - off)

\* The cell that follows a cell of an entry, and what stands at k cells from off
\* when the next entry is thought to follow the write head.
After(c) == IF c[2] + 1 < Hdr + entries[c[1]] THEN <<c[1], c[2] + 1>> ELSE <<c[1] + 1, 0>>
Ahead(off, k) ==
  IF k < Behind(off) THEN buffer[logger_offset(off + k)] ELSE <<Written + 1, 0>>

\* From off to the write head there are intact entries, first byte to last.
Aligned(off) ==
  /\ Ahead(off, 0)[2] = 0
  /\ \A k \in 0 .. Size - 1 : k < Behind(off) =>
       /\ Ahead(off, k)[1] \in 1 .. Written
       /\ Ahead(off, k + 1) = After(Ahead(off, k))

\* A new reader starts on an entry boundary: fix_up_readers has moved the start
\* head past everything the console overwrote, although it runs between the
\* header and the payload of the new entry.
HeadAligned == Aligned(head)

\* So does a reader that is on the list, unless the console hits its critical section:
\* neither the entries it reads, nor a write that laps it, nor a flush leaves it
\* inside of an entry or in front of one that is overwritten.
ReadersAligned == \A r \in readers : Aligned(r_off[r])

\* "Atomically reads exactly one log entry": what klogger_read returned is one
\* entry as the console wrote it, not the pieces of two.
WholeEntries ==
  \A r \in Readers : got[r] = <<>> \/ \E i \in 1 .. Written : got[r] = Whole(i)

\* The number of the entry that begins at off.
EntryAt(off) == IF off = w_off THEN Written + 1 ELSE buffer[off][1]

Feed == INSTANCE LogFeed WITH
  Sizes <- {Hdr + HeaderLen(count) : count \in Counts},
  n     <- Written,
  place <- tape,
  first <- EntryAt(head),
  next  <- [r \in Readers |-> IF r \in readers THEN EntryAt(r_off[r]) ELSE 0],
  got   <- [r \in Readers |-> IF got[r] = <<>> THEN 0 ELSE got[r][1][1]]

\* The byte ring implements the feed of entries: whatever the console and the
\* readers do, a read returns the next entry not yet read or skipped.  A write skips
\* entries of a reader only if it comes within a header of where the reader is, and
\* then no more of them than make up the length of the entry it writes.
ImplementsFeed == Feed!Spec

\* No wakeup is lost between the test and schedule(): a reader that sleeps on
\* the wait queue, or is about to, has nothing to read.
NoLostWakeup ==
  \A r \in Readers : pc[r] = "schedule" /\ r \in waiting => w_off = r_off[r]

\* Nobody moves a reader that is in the middle of an entry: fix up, flush, a new
\* reader and the reads of the others leave alone the place of a reader that has
\* the mutex.
CopiesUndisturbed ==
  [][\A r \in Readers :
       InCritical(r) /\ pc'[r] = pc[r] => r_off'[r] = r_off[r]]_vars

\* A reader blocked in klogger_read with an entry to read leaves the read.
BlockedReaderReturns ==
  \A r \in Readers : (pc[r] \notin {"closed", "user"} /\ w_off # r_off[r])
                       ~> (pc[r] = "user" \/ w_off = r_off[r])

=============================================================================
