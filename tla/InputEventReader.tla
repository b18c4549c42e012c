--------------------------- MODULE InputEventReader --------------------------
(***************************************************************************)
(* libsensors' InputEventCircularReader: a ring of Size input events in an *)
(* array of 2 * Size, so that read(2) always finds room after mHead; what  *)
(* it puts behind mBufferEnd is copied to the front.  A reader is a record *)
(* of mBuffer, mHead and mCurr (as offsets into it) and mFreeSpace.  A     *)
(* slot that is used up or copied from is shown empty.                     *)
(***************************************************************************)
EXTENDS Integers, Sequences

CONSTANT Size

NoEvent == [type |-> "none"]

NewReader ==
  [buffer |-> [k \in 0 .. 2 * Size - 1 |-> NoEvent], head |-> 0, curr |-> 0, free |-> Size]

\* Mutant: mHead is left behind the end of the ring.
fill_NoWrap(reader, events) ==
  [reader EXCEPT !.buffer = [k \in DOMAIN @ |-> LET d == k + 1 - reader.head IN
                               IF d \in 1 .. Len(events) THEN events[d] ELSE @[k]],
                 !.head = @ + Len(events),
                 !.free = @ - Len(events)]

\* The array once read(2) has put events at mHead, ...
Read(buffer, head, events) ==
  [k \in DOMAIN buffer |-> LET d == k + 1 - head
                           IN  IF d \in 1 .. Len(events) THEN events[d] ELSE buffer[k]]

\* ... and once the s events behind the end of the ring are copied to its front.
Wrapped(buffer, s) ==
  [k \in DOMAIN buffer |-> IF k < s THEN buffer[Size + k]
                           ELSE IF k >= Size THEN NoEvent ELSE buffer[k]]

\* fill, once read(2) has returned these events, free of them at most.
fill(reader, events) ==
  LET h == reader.head + Len(events)
  IN  [reader EXCEPT !.buffer = Wrapped(Read(@, reader.head, events), h - Size),
                     !.head = IF h > Size THEN h - Size ELSE h,
                     !.free = @ - Len(events)]

available(reader) == Size - reader.free
readEvent(reader) == reader.buffer[reader.curr]

next(reader) ==
  [reader EXCEPT !.buffer[reader.curr] = NoEvent,
                 !.curr = IF @ + 1 >= Size THEN 0 ELSE @ + 1, !.free = @ + 1]

\* The slot that mCurr reaches in k steps.
Slot(curr, k) == IF curr + k < Size THEN curr + k ELSE curr + k - Size

\* The events a reader holds, the oldest first.
Held(reader) ==
  [k \in 1 .. available(reader) |-> reader.buffer[Slot(reader.curr, k - 1)]]

=============================================================================
