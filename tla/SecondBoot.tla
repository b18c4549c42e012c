----------------------------- MODULE SecondBoot ------------------------------
(***************************************************************************)
(* The second boot: hbootuser copies the files of a descriptor into        *)
(* buffers of the hbootmod driver and asks it to branch to the loader;     *)
(* hboot unpacks the buffers to their places in memory and enters the      *)
(* kernel, or resets the phone.                                            *)
(*                                                                         *)
(* The unit of data is half a page: a chunk of a scattered buffer and the  *)
(* user buffer of fd2fd are Page units.  A unit is <<run, line, k>>, the   *)
(* k-th unit of the file on a line of the descriptor of the run-th start   *)
(* of hbootuser; Dirt is whatever was in the memory before.                *)
(***************************************************************************)
EXTENDS Integers, Sequences, SequencesExt, Functions

CONSTANTS
  Descriptors,  \* what the descriptor file may say: sequences of lines
  Builds,       \* HBOOT_VERIFY_CRC32 defined or not, with reads that fail or fall short
  PlainBelow,   \* hbootuser asks for scattered buffers from this size on
  MaxSize,      \* buffers_list[tag].maxsize
  MaxBuffers,   \* MAX_BUFFERS_COUNT of the driver
  MaxLines,     \* MAX_BUFFERS_COUNT of hbootuser
  MaxRuns       \* bound: how often hbootuser is started

Page == 2
Dirt == <<0, 0, 0>>
NoHandle == -1                         \* INVALID_BUFFER_HANDLE
Tags == 0 .. 4                         \* IMG_HBOOT .. IMG_LAST_TAG
IMG_HBOOT == 0
IMG_LINUX == 1

\* A line of a descriptor: the size is that of the file or of the part of the flash.
Lines == [tag : Nat, source : {"none", "unknown", "missing", "file", "nand"}, size : Nat]

ASSUME BootAssumption ==
  /\ Descriptors \subseteq Seq(Lines)
  /\ PlainBelow \in Nat /\ MaxSize \in [Tags -> Nat]
  /\ MaxBuffers \in Nat \ {0} /\ MaxLines \in Nat \ {0} /\ MaxRuns \in Nat
  /\ \A b \in Builds : {b.crc, b.readErrors, b.shortReads} \subseteq BOOLEAN

VARIABLES
  build,    \* the build that runs
  pc,       \* where hbootuser, then hboot, is
  run,      \* how often hbootuser was started
  desc,     \* its descriptor
  line,     \* the line it reads
  buffers,  \* its handles
  loader,   \* its handle of the loader
  current,  \* the handle being filled
  written,  \* fd2fd's count
  at,       \* the file's read offset
  slots,    \* hbootmod: bufs[0 .. used - 1], Free where the container is NULL
  selected, \* hbootmod: buffers.handle
  fpos,     \* hbootmod: the control file's f_pos
  list,     \* what hboot still has to process of the boot list: handles
  images    \* hboot: buffers_list

user   == <<run, desc, line, buffers, loader, current, written, at>>
driver == <<slots, selected, fpos>>
vars   == <<build, pc, user, driver, list, images>>

Min2(a, b) == IF a <= b THEN a ELSE b
Free == [tag |-> NoHandle]
Live(h) == h \in 0 .. Len(slots) - 1 /\ slots[h + 1] # Free
NoImage == [state |-> "NONE", data |-> <<>>, size |-> 0, verify |-> FALSE, checksum |-> <<>>]

FileUnit(k)  == <<run, line, k>>
WholeFile(l) == [k \in 1 .. desc[l].size |-> <<run, l, k>>]
-----------------------------------------------------------------------------
Init ==
  /\ build \in Builds
  /\ pc = "menu" /\ run = 0 /\ desc = <<>> /\ line = 1
  /\ buffers = <<>> /\ loader = NoHandle /\ current = NoHandle /\ written = 0 /\ at = 0
  /\ slots = <<>> /\ selected = 0 /\ fpos = 0
  /\ list = {} /\ images = [t \in Tags |-> NoImage]

\* The boot menu runs the 2nd-boot script, which starts hbootuser.
start ==
  /\ pc = "menu" /\ run < MaxRuns
  /\ pc' = "line"
  /\ run' = run + 1
  /\ desc' \in Descriptors
  /\ line' = 1 /\ buffers' = <<>> /\ loader' = NoHandle /\ current' = NoHandle
  /\ written' = 0 /\ at' = 0
  /\ UNCHANGED <<build, driver, list, images>>
-----------------------------------------------------------------------------
(* main's loop over the lines of the descriptor.                           *)
MoreLines == line <= Len(desc) /\ Len(buffers) < MaxLines

\* A line that does not begin with a number is skipped.
skip_line ==
  /\ pc = "line" /\ MoreLines /\ desc[line].source = "none"
  /\ line' = line + 1
  /\ UNCHANGED <<build, pc, run, desc, buffers, loader, current, written, at, driver, list, images>>

\* An unknown source or a file that cannot be opened ends the attempt.
bad_line ==
  /\ pc = "line" /\ MoreLines /\ desc[line].source \in {"unknown", "missing"}
  /\ pc' = "out"
  /\ UNCHANGED <<build, user, driver, list, images>>

\* All lines are read: boot if one of them was a loader.
end_of_lines ==
  /\ pc = "line" /\ ~ MoreLines
  /\ pc' = IF loader = NoHandle THEN "out" ELSE "boot"
  /\ UNCHANGED <<build, user, driver, list, images>>

LineDone(h) ==
  /\ buffers' = Append(buffers, h)
  /\ loader' = IF desc[line].tag = IMG_HBOOT THEN h ELSE loader
  /\ line' = line + 1

BufferType ==
  IF desc[line].source = "nand" THEN "NAND"
  ELSE IF desc[line].tag = IMG_HBOOT \/ desc[line].size < PlainBelow THEN "PLAIN" ELSE "SCATTERED"

NewBuffer ==
  [owner |-> run, tag |-> desc[line].tag, type |-> BufferType, size |-> desc[line].size,
   verify |-> desc[line].source = "file" /\ desc[line].tag # IMG_HBOOT,
   data |-> [k \in 1 .. desc[line].size |-> Dirt], checksum |-> <<>>]

\* Mutant: the last slot is given back whether or not it is free.
KeptSlots_Always == IF slots # <<>> THEN Front(slots) ELSE slots

\* get_new_buffer gives back the last slot, and only that one, if it is free.
KeptSlots == IF slots # <<>> /\ Last(slots) = Free THEN Front(slots) ELSE slots

\* Mutant: the table is taken to have one slot more.
SlotLeft_OneMore == Len(KeptSlots) <= MaxBuffers

SlotLeft == Len(KeptSlots) < MaxBuffers

\* The HBOOT_ALLOCATE_BUFFER call of handle_file and handle_nand; kmalloc, or
\* get_new_buffer, may have nothing left.
allocate_buffer ==
  /\ pc = "line" /\ MoreLines /\ desc[line].source \in {"file", "nand"}
  /\ \/ /\ SlotLeft
        /\ slots' = Append(KeptSlots, NewBuffer)
        /\ IF desc[line].source = "file"
           THEN /\ pc' = "select" /\ current' = Len(KeptSlots)
                /\ written' = 0 /\ at' = 0
                /\ UNCHANGED <<line, buffers, loader>>
           ELSE LineDone(Len(KeptSlots)) /\ UNCHANGED <<pc, current, written, at>>
     \/ pc' = "out" /\ UNCHANGED <<slots, line, buffers, loader, current, written, at>>
     \/ /\ ~ SlotLeft
        /\ slots' = KeptSlots
        /\ pc' = "out"
        /\ UNCHANGED <<line, buffers, loader, current, written, at>>
  /\ UNCHANGED <<build, run, desc, selected, fpos, list, images>>

select_buffer ==
  /\ pc = "select"
  /\ selected' = current /\ fpos' = 0
  /\ pc' = "copy"
  /\ UNCHANGED <<build, user, slots, list, images>>
-----------------------------------------------------------------------------
(* fd2fd: read at most a page, append it to the selected buffer.           *)

\* append_plain_buffer and append_scattered_buffer, for at most a page of data at
\* pos.  In a scattered buffer a piece that starts inside a chunk and does not
\* fit is followed by a second piece of full length.
Appended(buf, data, pos) ==
  LET size  == Min2(Len(data), buf.size - pos)
      first == IF buf.type = "PLAIN" THEN size ELSE Min2(size, Page - (pos % Page))
      n     == IF first < size THEN first + size ELSE first
      piece == [k \in 1 .. n |-> IF k <= Len(data) THEN data[k] ELSE Dirt]
  IN  [n        |-> n,
       data     |-> [k \in 1 .. buf.size |->
                       IF k - pos \in 1 .. n THEN piece[k - pos] ELSE buf.data[k]],
       checksum |-> buf.checksum \o piece]

CanAppend ==
  Live(selected) /\ slots[selected + 1].type # "NAND" /\ fpos < slots[selected + 1].size

\* What read may return of the rest of the file.
Reads ==
  LET most == Min2(Page, desc[line].size - at)
  IN  IF build.shortReads THEN 1 .. most ELSE {most} \ {0}

\* read and write of one turn of the loop.
copy ==
  /\ pc = "copy" /\ written < desc[line].size /\ CanAppend
  /\ \E ret \in Reads :
       LET buf == slots[selected + 1]
           app == Appended(buf, [k \in 1 .. ret |-> FileUnit(at + k)], fpos)
       IN
       /\ slots' = [slots EXCEPT ![selected + 1] =
                      [@ EXCEPT !.data = app.data, !.checksum = app.checksum]]
       /\ fpos' = fpos + app.n
       /\ at' = at + ret
       /\ IF app.n < ret THEN pc' = "undo" /\ UNCHANGED written
                         ELSE written' = written + ret /\ UNCHANGED pc
  /\ UNCHANGED <<build, run, desc, line, buffers, loader, current, selected, list, images>>

\* The write is refused, or cut short above: fd2fd gives up.
copy_refused ==
  /\ pc = "copy" /\ written < desc[line].size /\ ~ CanAppend
  /\ Reads # {}
  /\ pc' = "undo"
  /\ UNCHANGED <<build, user, driver, list, images>>

\* fd2fd also returns 0 when a read fails or meets the end of the file.
copied ==
  /\ pc = "copy"
  /\ written >= desc[line].size \/ at >= desc[line].size \/ build.readErrors
  /\ pc' = "line"
  /\ LineDone(current)
  /\ UNCHANGED <<build, run, desc, current, written, at, driver, list, images>>

FreeSlot(h) == slots' = [slots EXCEPT ![h + 1] = Free]

\* Mutant: the buffer is left to main, which does not count it.
undo_Kept ==
  /\ pc = "undo" /\ pc' = "out"
  /\ UNCHANGED <<build, user, driver, list, images>>

\* handle_file frees the buffer it could not fill.
undo ==
  /\ pc = "undo"
  /\ IF Live(current) THEN FreeSlot(current) ELSE UNCHANGED slots
  /\ pc' = "out"
  /\ UNCHANGED <<build, user, selected, fpos, list, images>>

\* Mutant: the count of buffers is not taken down.
out_NoDecrement ==
  /\ pc = "out"
  /\ IF buffers = <<>> THEN pc' = "menu" /\ UNCHANGED slots
     ELSE /\ IF Live(Last(buffers)) THEN FreeSlot(Last(buffers)) ELSE UNCHANGED slots
          /\ UNCHANGED pc
  /\ UNCHANGED <<build, user, selected, fpos, list, images>>

\* main's way out: free the buffers, the last one first.
out ==
  /\ pc = "out"
  /\ IF buffers = <<>> THEN pc' = "menu" /\ UNCHANGED <<slots, buffers>>
     ELSE /\ buffers' = Front(buffers)
          /\ IF Live(Last(buffers)) THEN FreeSlot(Last(buffers)) ELSE UNCHANGED slots
          /\ UNCHANGED pc
  /\ UNCHANGED <<build, run, desc, line, loader, current, written, at, selected, fpos, list, images>>

InHbootuser == {"line", "select", "copy", "undo", "boot", "out"}

\* hbootuser is killed: its control file is closed, its buffers stay.
killed ==
  /\ pc \in InHbootuser
  /\ pc' = "menu" /\ buffers' = <<>>
  /\ UNCHANGED <<build, run, desc, line, loader, current, written, at, driver, list, images>>
-----------------------------------------------------------------------------
(* HBOOT_BOOT.  get_bootentry wants a live plain buffer of 4 bytes at least;  *)
(* get_bootlist takes every other live buffer, in the order of the slots.     *)
BootList(h) == {i \in 0 .. Len(slots) - 1 : i # h /\ Live(i)}

Before_Backward(g, h) == g > h     \* mutant: the newest buffer first
Before(g, h) == g < h

hboot_boot ==
  /\ pc = "boot"
  /\ \/ /\ Live(loader) /\ slots[loader + 1].type = "PLAIN" /\ slots[loader + 1].size > 0
        /\ pc' = "unpack"
        /\ list' = BootList(loader)
     \/ pc' = "out" /\ UNCHANGED list     \* -EINVAL, or -ENOMEM for the page table
  /\ UNCHANGED <<build, user, driver, images>>

\* Mutant: the size of an image is not compared with its place.
Unpacked_AnySize(buf) ==
  [state    |-> IF buf.type = "NAND" THEN "NONE" ELSE "COMPLETED",
   data     |-> IF buf.type = "NAND" THEN images[buf.tag].data
                ELSE [k \in 1 .. Min2(buf.size, MaxSize[buf.tag]) |-> buf.data[k]],
   size     |-> buf.size, verify |-> buf.verify, checksum |-> buf.checksum]

\* init.S, one turn of __buffers_loop: find_tag and proccess_buffer.  unpack_nand
\* is a stub that leaves the destination in r0: its low byte, 0, is B_STAT_NONE.
Unpacked(buf) ==
  [state    |-> IF buf.size > MaxSize[buf.tag] THEN "OVERFLOW"
                ELSE IF buf.type = "NAND" THEN "NONE" ELSE "COMPLETED",
   data     |-> IF buf.size > MaxSize[buf.tag] \/ buf.type = "NAND"
                THEN images[buf.tag].data ELSE buf.data,
   size     |-> buf.size,
   verify   |-> buf.verify,
   checksum |-> buf.checksum]

proccess_buffer ==
  /\ pc = "unpack"
  /\ \E h \in list :
       LET buf == slots[h + 1]
       IN
       /\ \A g \in list \ {h} : Before(h, g)
       /\ images' = IF buf.tag \in Tags THEN [images EXCEPT ![buf.tag] = Unpacked(buf)] ELSE images
       /\ list' = list \ {h}
  /\ UNCHANGED <<build, pc, user, driver>>

\* Does crc32 over the image agree with the checksum of what was appended?
ChecksumGood(i) == i.checksum = i.data

image_complete ==
  build.crc => \A t \in Tags \ {IMG_HBOOT} :
                 images[t].state = "COMPLETED" /\ images[t].verify => ChecksumGood(images[t])

\* hboot's main.
main ==
  /\ pc = "unpack" /\ list = {}
  /\ pc' = IF image_complete /\ images[IMG_LINUX].state = "COMPLETED" THEN "kernel" ELSE "reset"
  /\ UNCHANGED <<build, user, driver, list, images>>

Next ==
  \/ start \/ skip_line \/ bad_line \/ end_of_lines \/ allocate_buffer \/ select_buffer
  \/ copy \/ copy_refused \/ copied \/ undo \/ out \/ killed
  \/ hboot_boot \/ proccess_buffer \/ main

Spec == Init /\ [][Next]_vars

\* hbootuser, once started, and hboot go on; nobody has to start it or kill it.
FairSpec ==
  Spec /\ WF_vars(\/ skip_line \/ bad_line \/ end_of_lines \/ allocate_buffer
                  \/ select_buffer \/ copy \/ copy_refused \/ copied \/ undo \/ out
                  \/ hboot_boot \/ proccess_buffer \/ main)
-----------------------------------------------------------------------------
Handles == {NoHandle} \cup 0 .. MaxBuffers - 1

TypeOK ==
  /\ build \in Builds
  /\ pc \in InHbootuser \cup {"menu", "unpack", "kernel", "reset"}
  /\ run \in 0 .. MaxRuns /\ line \in Nat /\ at \in Nat /\ written \in Nat
  /\ loader \in Handles /\ current \in Handles /\ selected \in Handles /\ fpos \in Nat
  /\ Len(slots) <= MaxBuffers /\ Len(buffers) <= MaxLines
  /\ \A h \in 0 .. Len(slots) - 1 :
       Live(h) => slots[h + 1].tag \in Nat /\ Len(slots[h + 1].data) = slots[h + 1].size
  /\ \A t \in Tags :
       images[t].state \in {"NONE", "COMPLETED", "OVERFLOW"}

\* The kernel is entered only with the whole kernel image of this attempt in its
\* place: no partial one, none of an earlier attempt that was killed, although
\* the driver keeps the buffers of the dead.
KernelIntact ==
  pc = "kernel" =>
    \E l \in 1 .. Len(desc) :
      desc[l].tag = IMG_LINUX /\ images[IMG_LINUX].data = WholeFile(l)

\* A line that was read asked for a buffer with this tag.
Asked(t) == \E l \in 1 .. line - 1 : desc[l].tag = t /\ desc[l].source \in {"file", "nand"}

\* The image of this tag is the file of a line that was read.
FromLine(t) == \E l \in 1 .. line - 1 : desc[l].tag = t /\ images[t].data = WholeFile(l)

\* So is every other image that atag.c (28, 61, 72) tells the kernel about, unless no
\* line asked for its tag at all.  Then it may be what a killed start left with that
\* tag, for the driver's release is a stub (hboot.c:317) and its boot list has every
\* buffer; but nothing of a killed start replaces, or is mixed with, what was asked for.
ImagesIntact ==
  pc = "kernel" =>
    \A t \in Tags \ {IMG_HBOOT} :
      images[t].state = "COMPLETED" =>
        \/ FromLine(t)
        \/ /\ ~ Asked(t)
           /\ \E h \in 0 .. Len(slots) - 1 :
                Live(h) /\ slots[h + 1].owner # run /\ slots[h + 1].tag = t
                  /\ images[t].data = slots[h + 1].data

\* Nothing of a killed start reaches the kernel.  This holds of descriptors that ask
\* for every tag, as hboot.cfg and hboot_recovery.cfg do, and not of others.
ImagesOwn ==
  pc = "kernel" =>
    \A t \in Tags \ {IMG_HBOOT} : images[t].state = "COMPLETED" => FromLine(t)

\* A buffer of this start of hbootuser.
Own(h) == Live(h) /\ slots[h + 1].owner = run

\* The handles hbootuser counts on are those of buffers of its own that live, all
\* different, and none is the one it is filling: though the driver reuses the last
\* slot and keeps the buffers of those that were killed, nothing is freed twice.
HandlesOwned ==
  pc \in InHbootuser =>
    /\ \A i \in DOMAIN buffers : Own(buffers[i])
    /\ IsInjective(buffers)
    /\ pc \in {"select", "copy", "undo"} => Own(current) /\ current \notin Range(buffers)

\* An attempt that ends by itself leaves no buffer of its own behind, whichever
\* of its steps failed.
NothingLeft ==
  [][pc = "out" /\ pc' = "menu" /\ buffers = <<>>
       => \A h \in 0 .. Len(slots) - 1 : Live(h) => slots[h + 1].owner # run]_vars

\* An attempt comes to an end: the kernel, a reset, or the boot menu again.
AttemptEnds == (pc \notin {"menu", "kernel", "reset"}) ~> (pc \in {"menu", "kernel", "reset"})

=============================================================================
