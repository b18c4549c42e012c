--------------------------- MODULE SecondBootProofs ---------------------------
(***************************************************************************)
(* That hbootuser's handles are its own and that it leaves nothing behind,  *)
(* for any descriptors, any number of starts and kills, and any sizes.      *)
(*                                                                          *)
(* NothingLeft needs more than HandlesOwned: that whatever lives and belongs *)
(* to this start is counted or being filled (Counted), and that nothing      *)
(* belongs to a start to come (OwnersPast), as the driver keeps the buffers  *)
(* of the dead.                                                              *)
(*                                                                          *)
(* That the kernel and the images are intact needs DInv: each buffer counted *)
(* descends from a line and holds its file (Delivered), the one being filled *)
(* holds what was read so far (BeingFilled), own buffers follow those of the *)
(* dead (Sorted) and the last of a tag is the one that is kept (Unpacking).  *)
(***************************************************************************)
EXTENDS SecondBoot, SequenceTheorems, TLAPS

Units == Nat \X Nat \X Nat

Buffers ==
  [owner : Nat, tag : Nat, type : {"NAND", "PLAIN", "SCATTERED"}, size : Nat,
   verify : BOOLEAN, data : Seq(Units), checksum : Seq(Units)]

Filling == pc \in {"select", "copy", "undo"}

\* The driver's table.
Table ==
  /\ slots \in Seq(Buffers \cup {Free}) /\ Len(slots) <= MaxBuffers
  /\ \A h \in 0 .. Len(slots) - 1 :
       Live(h) => Len(slots[h + 1].data) = slots[h + 1].size

\* The variables of hbootuser.
Program ==
  /\ pc \in InHbootuser \cup {"menu", "unpack", "kernel", "reset"}
  /\ run \in 0 .. MaxRuns /\ desc \in Seq(Lines) /\ line \in Nat \ {0}
  /\ at \in Nat /\ written \in Nat
  /\ buffers \in Seq(Nat) /\ Len(buffers) <= MaxLines
  /\ pc \in {"select", "copy"} =>
       line <= Len(desc) /\ at <= desc[line].size /\ Len(buffers) < MaxLines

\* The rest of the state.
Rest ==
  /\ build \in Builds
  /\ loader \in Handles /\ current \in Handles /\ selected \in Handles /\ fpos \in Nat
  /\ DOMAIN images = Tags
  /\ \A t \in Tags : images[t].state \in {"NONE", "COMPLETED", "OVERFLOW"}

OwnersPast == \A h \in 0 .. Len(slots) - 1 : Live(h) => slots[h + 1].owner <= run

Counted ==
  pc \in InHbootuser =>
    \A h \in 0 .. Len(slots) - 1 : Own(h) => h \in Range(buffers) \/ (Filling /\ h = current)

IInv == Table /\ Program /\ Rest /\ OwnersPast /\ HandlesOwned /\ Counted
-----------------------------------------------------------------------------
(* Sequences of handles.                                                    *)

\* The range of a sequence grows by what is appended.
LEMMA RangeOfAppend ==
  ASSUME NEW S, NEW s \in Seq(S), NEW x \in S
  PROVE  Range(Append(s, x)) = Range(s) \cup {x}
<1>1. /\ DOMAIN Append(s, x) = 1 .. Len(s) + 1 /\ DOMAIN s = 1 .. Len(s) /\ Len(s) \in Nat
      /\ \A k \in 1 .. Len(s) : Append(s, x)[k] = s[k]
      /\ Append(s, x)[Len(s) + 1] = x
  BY AppendProperties, LenProperties
<1>2. 1 .. Len(s) + 1 = 1 .. Len(s) \cup {Len(s) + 1}
  BY <1>1
<1> QED BY <1>1, <1>2 DEF Range

\* A new handle keeps a sequence injective.
LEMMA InjectiveAppend ==
  ASSUME NEW S, NEW s \in Seq(S), NEW x \in S, IsInjective(s), x \notin Range(s)
  PROVE  IsInjective(Append(s, x))
<1>1. /\ DOMAIN Append(s, x) = 1 .. Len(s) + 1 /\ DOMAIN s = 1 .. Len(s) /\ Len(s) \in Nat
      /\ \A k \in 1 .. Len(s) : Append(s, x)[k] = s[k]
      /\ Append(s, x)[Len(s) + 1] = x
  BY AppendProperties, LenProperties
<1>2. \A k \in 1 .. Len(s) : s[k] # x
  BY <1>1 DEF Range
<1> QED BY <1>1, <1>2 DEF IsInjective

\* The last handle is taken off an injective sequence.
LEMMA InjectiveFront ==
  ASSUME NEW S, NEW s \in Seq(S), s # <<>>, IsInjective(s)
  PROVE  /\ Front(s) \in Seq(S) /\ IsInjective(Front(s)) /\ Len(Front(s)) = Len(s) - 1
         /\ Range(Front(s)) = Range(s) \ {Last(s)}
         /\ Last(s) \in Range(s)
<1>1. Len(s) \in Nat \ {0} /\ DOMAIN s = 1 .. Len(s)
  BY EmptySeq, LenProperties
<1>2. /\ Front(s) \in Seq(S) /\ Len(Front(s)) = Len(s) - 1
      /\ \A k \in 1 .. Len(s) - 1 : Front(s)[k] = s[k]
  BY <1>1, SubSeqProperties DEF Front
<1>3. DOMAIN Front(s) = 1 .. Len(s) - 1
  BY <1>2, LenProperties
<1>4. IsInjective(Front(s))
  BY <1>1, <1>2, <1>3 DEF IsInjective
<1>5. Range(Front(s)) = Range(s) \ {Last(s)}
  BY <1>1, <1>2, <1>3 DEF Range, Last, IsInjective
<1>6. Last(s) \in Range(s)
  BY <1>1 DEF Range, Last
<1> QED BY <1>2, <1>4, <1>5, <1>6
-----------------------------------------------------------------------------
(* What the calls of the driver do to the table.                            *)

\* A buffer is no free slot.
LEMMA BufferIsNotFree == \A b \in Buffers : b # Free
BY DEF Buffers, Free, NoHandle

\* The last slot is given back only if it is free.
LEMMA KeptLive ==
  ASSUME slots \in Seq(Buffers \cup {Free})
  PROVE  /\ KeptSlots \in Seq(Buffers \cup {Free}) /\ Len(KeptSlots) <= Len(slots)
         /\ \A h \in 1 .. Len(KeptSlots) : KeptSlots[h] = slots[h]
         /\ \A h : Live(h) => h \in 0 .. Len(KeptSlots) - 1
<1>0. Len(slots) \in Nat
  BY LenProperties
<1>1. CASE slots # <<>> /\ Last(slots) = Free
  <2>1. Len(slots) \in Nat \ {0} /\ KeptSlots = SubSeq(slots, 1, Len(slots) - 1)
    BY <1>1, EmptySeq, LenProperties DEF KeptSlots, Front
  <2>2. /\ KeptSlots \in Seq(Buffers \cup {Free}) /\ Len(KeptSlots) = Len(slots) - 1
        /\ \A k \in 1 .. Len(slots) - 1 : KeptSlots[k] = slots[k]
    <3> DEFINE n == Len(slots) - 1
    <3>1. n \in Nat /\ \A k \in 1 .. n : slots[k] \in Buffers \cup {Free}
      BY <2>1, ElementOfSeq
    <3>2. /\ SubSeq(slots, 1, n) \in Seq(Buffers \cup {Free})
          /\ Len(SubSeq(slots, 1, n)) = IF 1 <= n THEN n - 1 + 1 ELSE 0
          /\ \A k \in 1 .. n - 1 + 1 : SubSeq(slots, 1, n)[k] = slots[1 + k - 1]
      BY <3>1, SubSeqProperties
    <3>3. n - 1 + 1 = n /\ \A k \in 1 .. n : 1 + k - 1 = k
      BY <3>1
    <3>4. \A k \in 1 .. n : SubSeq(slots, 1, n)[k] = slots[k]
      BY <3>2, <3>3
    <3>5. Len(SubSeq(slots, 1, n)) = n
      BY <3>1, <3>2, <3>3
    <3> HIDE DEF n
    <3>6. KeptSlots = SubSeq(slots, 1, n) /\ Len(slots) - 1 = n
      BY <2>1 DEF n
    <3> QED BY <3>2, <3>4, <3>5, <3>6
  <2> QED BY <1>1, <2>1, <2>2 DEF Live, Last
<1>2. CASE ~ (slots # <<>> /\ Last(slots) = Free)
  BY <1>0, <1>2 DEF KeptSlots, Live
<1> QED BY <1>1, <1>2

\* A new buffer gets a handle that no live buffer has; the others stay.
LEMMA Allocated ==
  ASSUME Table, SlotLeft, NewBuffer \in Buffers, Len(NewBuffer.data) = NewBuffer.size,
         slots' = Append(KeptSlots, NewBuffer)
  PROVE  /\ Table' /\ Len(KeptSlots) \in 0 .. MaxBuffers - 1
         /\ ~ Live(Len(KeptSlots))
         /\ \A h : Live(h)' <=> Live(h) \/ h = Len(KeptSlots)
         /\ \A h : Live(h) => slots'[h + 1] = slots[h + 1]
         /\ slots'[Len(KeptSlots) + 1] = NewBuffer
<1>1. /\ KeptSlots \in Seq(Buffers \cup {Free}) /\ Len(KeptSlots) <= Len(slots)
      /\ \A h \in 1 .. Len(KeptSlots) : KeptSlots[h] = slots[h]
      /\ \A h : Live(h) => h \in 0 .. Len(KeptSlots) - 1
      /\ Len(KeptSlots) \in Nat /\ Len(slots) \in Nat
  BY KeptLive, LenProperties DEF Table
<1>2. /\ slots' \in Seq(Buffers \cup {Free}) /\ Len(slots') = Len(KeptSlots) + 1
      /\ \A k \in 1 .. Len(KeptSlots) : slots'[k] = KeptSlots[k]
      /\ slots'[Len(KeptSlots) + 1] = NewBuffer
  BY <1>1, AppendProperties
<1>3. Len(KeptSlots) \in 0 .. MaxBuffers - 1 /\ ~ Live(Len(KeptSlots))
  BY <1>1, BootAssumption DEF SlotLeft
<1>4. \A h : Live(h) => slots'[h + 1] = slots[h + 1]
  BY <1>1, <1>2
<1>5. \A h : Live(h)' <=> Live(h) \/ h = Len(KeptSlots)
  BY <1>1, <1>2, BufferIsNotFree DEF Live
<1>6. Table'
  <2>1. Len(slots') <= MaxBuffers
    BY <1>2, <1>3, BootAssumption
  <2>2. \A h \in 0 .. Len(slots') - 1 :
          Live(h)' => Len(slots'[h + 1].data) = slots'[h + 1].size
    <3> SUFFICES ASSUME NEW h, Live(h)' PROVE Len(slots'[h + 1].data) = slots'[h + 1].size
      OBVIOUS
    <3>1. CASE Live(h)
      BY <3>1, <1>1, <1>4 DEF Table, Live
    <3>2. CASE h = Len(KeptSlots)
      BY <3>2, <1>2
    <3> QED BY <3>1, <3>2, <1>5
  <2> QED BY <1>2, <2>1, <2>2 DEF Table
<1> QED BY <1>2, <1>3, <1>4, <1>5, <1>6

\* Without a new buffer the table may only lose its last slot, if that is free.
LEMMA OnlyKept ==
  ASSUME Table, slots' = KeptSlots
  PROVE  /\ Table'
         /\ \A h : Live(h)' <=> Live(h)
         /\ \A h : Live(h) => slots'[h + 1] = slots[h + 1]
<1>1. /\ KeptSlots \in Seq(Buffers \cup {Free}) /\ Len(KeptSlots) <= Len(slots)
      /\ \A h \in 1 .. Len(KeptSlots) : KeptSlots[h] = slots[h]
      /\ \A h : Live(h) => h \in 0 .. Len(KeptSlots) - 1
      /\ Len(KeptSlots) \in Nat /\ Len(slots) \in Nat
  BY KeptLive, LenProperties DEF Table
<1>2. \A h : Live(h)' <=> Live(h)
  BY <1>1 DEF Live
<1>3. \A h : Live(h) => slots'[h + 1] = slots[h + 1]
  BY <1>1
<1>4. Table'
  BY <1>1, <1>2, <1>3, BootAssumption DEF Table
<1> QED BY <1>2, <1>3, <1>4

\* A freed buffer is gone, the others stay.
LEMMA Freed ==
  ASSUME Table, NEW g, Live(g), FreeSlot(g)
  PROVE  /\ Table'
         /\ \A h : Live(h)' <=> Live(h) /\ h # g
         /\ \A h : Live(h) /\ h # g => slots'[h + 1] = slots[h + 1]
<1>1. Len(slots) \in Nat /\ DOMAIN slots = 1 .. Len(slots) /\ g \in 0 .. Len(slots) - 1
  BY LenProperties DEF Table, Live
<1>2. /\ slots' \in Seq(Buffers \cup {Free}) /\ Len(slots') = Len(slots)
      /\ slots'[g + 1] = Free
      /\ \A k \in 1 .. Len(slots) : k # g + 1 => slots'[k] = slots[k]
  BY <1>1, ExceptSeq DEF Table, FreeSlot
<1>3. \A h : Live(h)' <=> Live(h) /\ h # g
  BY <1>1, <1>2 DEF Live
<1>4. \A h : Live(h) /\ h # g => slots'[h + 1] = slots[h + 1]
  BY <1>1, <1>2 DEF Live
<1>5. Table'
  BY <1>1, <1>2, <1>3, <1>4 DEF Table
<1> QED BY <1>3, <1>4, <1>5

\* What lives is a buffer.
LEMMA LiveIsBuffer ==
  ASSUME Table, NEW h, Live(h)
  PROVE  h \in 0 .. Len(slots) - 1 /\ slots[h + 1] \in Buffers
<1>1. Len(slots) \in Nat /\ h \in 0 .. Len(slots) - 1 /\ slots[h + 1] # Free
  BY LenProperties DEF Table, Live
<1>2. slots[h + 1] \in Buffers \cup {Free}
  BY <1>1, ElementOfSeq DEF Table
<1> QED BY <1>1, <1>2

\* handle_file and handle_nand ask for a buffer of this start.
LEMMA NewBufferOK ==
  ASSUME run \in Nat, desc[line] \in Lines
  PROVE  NewBuffer \in Buffers /\ Len(NewBuffer.data) = NewBuffer.size /\ NewBuffer.owner = run
<1> DEFINE data == [k \in 1 .. desc[line].size |-> Dirt]
<1>1. desc[line].size \in Nat /\ desc[line].tag \in Nat
  BY DEF Lines
<1>2. data \in Seq(Units) /\ Len(data) = desc[line].size
  BY <1>1, IsASeq, LenProperties DEF Dirt, Units
<1>3. <<>> \in Seq(Units)
  BY EmptySeq
<1>4. NewBuffer.data = data /\ NewBuffer.size = desc[line].size /\ NewBuffer.owner = run
  BY DEF NewBuffer
<1>5. NewBuffer \in Buffers
  BY <1>1, <1>2, <1>3 DEF NewBuffer, BufferType, Buffers
<1> QED BY <1>2, <1>4, <1>5

\* What a write appends keeps the size of the buffer.
LEMMA AppendedOK ==
  ASSUME NEW buf \in Buffers, NEW units \in Seq(Units), NEW pos \in Nat,
         Len(buf.data) = buf.size, pos < buf.size
  PROVE  /\ Appended(buf, units, pos).n \in Nat
         /\ Appended(buf, units, pos).data \in Seq(Units)
         /\ Len(Appended(buf, units, pos).data) = buf.size
         /\ Appended(buf, units, pos).checksum \in Seq(Units)
<1> DEFINE size  == Min2(Len(units), buf.size - pos)
           first == IF buf.type = "PLAIN" THEN size ELSE Min2(size, Page - (pos % Page))
           n     == IF first < size THEN first + size ELSE first
           piece == [k \in 1 .. n |-> IF k <= Len(units) THEN units[k] ELSE Dirt]
           data  == [k \in 1 .. buf.size |->
                       IF k - pos \in 1 .. n THEN piece[k - pos] ELSE buf.data[k]]
<1>1. buf.size \in Nat /\ buf.data \in Seq(Units) /\ buf.checksum \in Seq(Units)
  BY DEF Buffers
<1>2. Len(units) \in Nat /\ \A k \in 1 .. Len(units) : units[k] \in Units
  BY LenProperties, ElementOfSeq
<1>3. size \in Nat
  BY <1>1, <1>2 DEF Min2
<1>4. pos % Page \in 0 .. 1
  BY DEF Page
<1>5. first \in Nat
  <2> HIDE DEF size
  <2> QED BY <1>3, <1>4 DEF Min2, Page
<1>6. n \in Nat
  <2> HIDE DEF size, first
  <2> QED BY <1>3, <1>5
<1>7. piece \in Seq(Units)
  <2> HIDE DEF n
  <2>1. Dirt \in Units
    BY DEF Dirt, Units
  <2> QED BY <1>2, <1>6, <2>1, IsASeq
<1>8. data \in Seq(Units) /\ Len(data) = buf.size
  <2> HIDE DEF n, piece
  <2>1. \A k \in 1 .. n : piece[k] \in Units
    BY <1>2, <1>6 DEF piece, Dirt, Units
  <2>2. \A k \in 1 .. buf.size : buf.data[k] \in Units
    BY <1>1, ElementOfSeq
  <2>3. \A k \in 1 .. buf.size : data[k] \in Units
    BY <2>1, <2>2
  <2>4. data \in [1 .. buf.size -> Units]
    BY <2>3
  <2>5. data \in Seq(Units)
    <3> HIDE DEF data
    <3> QED BY <1>1, <2>4, SeqDef
  <2>6. 1 .. buf.size = 1 .. Len(data) /\ Len(data) \in Nat
    BY <2>5, LenProperties
  <2>7. Len(data) = buf.size
    <3> HIDE DEF data
    <3> QED BY <1>1, <2>6
  <2> QED BY <2>5, <2>7
<1>9. buf.checksum \o piece \in Seq(Units)
  <2> HIDE DEF piece
  <2> QED BY <1>1, <1>7, ConcatProperties
<1>10. Appended(buf, units, pos) = [n |-> n, data |-> data, checksum |-> buf.checksum \o piece]
  BY DEF Appended
<1> HIDE DEF n, data, piece
<1> QED BY <1>6, <1>8, <1>9, <1>10

\* Who owns what, when no buffer comes or goes.
LEMMA SameOwners ==
  ASSUME IInv, Table', run' = run,
         \A h : Live(h)' <=> Live(h),
         \A h : Live(h) => slots'[h + 1].owner = slots[h + 1].owner
  PROVE  /\ OwnersPast' /\ \A h : Own(h)' <=> Own(h)
         /\ \A h \in 0 .. Len(slots') - 1 : Own(h)' => h \in 0 .. Len(slots) - 1
<1>1. \A h : Own(h)' <=> Own(h)
  BY DEF Own
<1>2. \A h : Live(h) => h \in 0 .. Len(slots) - 1
  BY DEF Live
<1>3. OwnersPast'
  BY <1>2 DEF IInv, OwnersPast
<1> QED BY <1>1, <1>2, <1>3 DEF Own

-----------------------------------------------------------------------------
(* The steps.                                                               *)

\* hbootuser starts: nothing belongs to it yet.
LEMMA StartKeeps == ASSUME IInv, start PROVE IInv'
<1>1. Table'
  BY DEF IInv, Table, Live, start, driver
<1>2. Program'
  BY BootAssumption, EmptySeq DEF IInv, Program, InHbootuser, start
<1>3. Rest'
  BY DEF IInv, Rest, Handles, start, driver
<1>4. run' = run + 1 /\ run \in Nat /\ slots' = slots /\ buffers' = <<>> /\ pc' = "line"
  BY BootAssumption DEF IInv, Program, start, driver
<1>5. \A h : Live(h) => slots[h + 1].owner \in Nat /\ slots[h + 1].owner <= run
  BY LiveIsBuffer DEF IInv, OwnersPast, Live, Buffers
<1>6. OwnersPast'
  <2> SUFFICES ASSUME NEW h, Live(h)' PROVE slots'[h + 1].owner <= run'
    BY DEF OwnersPast
  <2>1. slots[h + 1].owner \in Nat /\ slots[h + 1].owner <= run
    BY <1>4, <1>5 DEF Live
  <2> QED BY <1>4, <2>1
<1>7. HandlesOwned'
  BY <1>4 DEF HandlesOwned, IsInjective
<1>8. Counted'
  <2> SUFFICES ASSUME NEW h, Own(h)' PROVE FALSE
    BY DEF Counted
  <2>1. Live(h) /\ slots[h + 1].owner = run + 1
    BY <1>4 DEF Own, Live
  <2> QED BY <1>4, <1>5, <2>1
<1> QED BY <1>1, <1>2, <1>3, <1>6, <1>7, <1>8 DEF IInv

\* A new handle is one that hbootuser does not hold.
LEMMA AllocateBufferKeeps == ASSUME IInv, allocate_buffer PROVE IInv'
<1>1. /\ Program /\ pc = "line" /\ line <= Len(desc) /\ Len(buffers) < MaxLines
      /\ run' = run /\ run \in Nat
  BY BootAssumption DEF IInv, Program, allocate_buffer, MoreLines
<1>2. desc[line] \in Lines
  BY <1>1, ElementOfSeq DEF Program
<1>3. NewBuffer \in Buffers /\ Len(NewBuffer.data) = NewBuffer.size /\ NewBuffer.owner = run
  BY <1>1, <1>2, NewBufferOK
<1>4. /\ \A k \in DOMAIN buffers : Own(buffers[k])
      /\ IsInjective(buffers) /\ \A h : Own(h) => h \in Range(buffers)
  BY <1>1 DEF IInv, HandlesOwned, Counted, InHbootuser, Filling, Own, Live
<1>5. CASE SlotLeft /\ slots' = Append(KeptSlots, NewBuffer)
           /\ IF desc[line].source = "file"
              THEN /\ pc' = "select" /\ current' = Len(KeptSlots)
                   /\ written' = 0 /\ at' = 0
                   /\ UNCHANGED <<line, buffers, loader>>
              ELSE LineDone(Len(KeptSlots)) /\ UNCHANGED <<pc, current, written, at>>
  <2> DEFINE new == Len(KeptSlots)
  <2>1. /\ Table' /\ new \in 0 .. MaxBuffers - 1 /\ ~ Live(new)
        /\ \A h : Live(h)' <=> Live(h) \/ h = new
        /\ \A h : Live(h) => slots'[h + 1] = slots[h + 1]
        /\ slots'[new + 1] = NewBuffer
    BY <1>3, <1>5, Allocated DEF IInv
  <2>2. \A h : Own(h)' <=> Own(h) \/ h = new
    BY <1>1, <1>3, <2>1 DEF Own
  <2>3. OwnersPast'
    <3> SUFFICES ASSUME NEW h, Live(h)' PROVE slots'[h + 1].owner <= run'
      BY DEF OwnersPast
    <3>1. CASE Live(h)
      BY <1>1, <2>1, <3>1 DEF IInv, OwnersPast, Live
    <3>2. CASE h = new
      BY <1>1, <1>3, <2>1, <3>2
    <3> QED BY <2>1, <3>1, <3>2
  <2>4. new \notin Range(buffers)
    BY <1>4, <2>1 DEF Range, Own
  <2>5. CASE desc[line].source = "file"
    <3>0. /\ pc' = "select" /\ current' = new /\ written' = 0 /\ at' = 0
          /\ UNCHANGED <<line, buffers, loader, run, desc, build, selected, fpos, images>>
      BY <1>5, <2>5 DEF allocate_buffer
    <3> HIDE DEF new
    <3>1. Program' /\ Rest'
      BY <1>1, <1>2, <2>1, <3>0 DEF IInv, Program, Rest, InHbootuser, Handles, Lines
    <3>2. HandlesOwned'
      BY <1>4, <2>2, <2>4, <3>0 DEF HandlesOwned, Range
    <3>3. Counted'
      BY <1>4, <2>2, <3>0, Zenon DEF Counted, Filling
    <3> QED BY <2>1, <2>3, <3>1, <3>2, <3>3 DEF IInv
  <2>6. CASE desc[line].source # "file"
    <3>0. /\ buffers' = Append(buffers, new) /\ line' = line + 1 /\ pc' = "line"
          /\ loader' \in {loader, new}
          /\ UNCHANGED <<current, written, at, run, desc, build, selected, fpos, images>>
      BY <1>1, <1>5, <2>6 DEF LineDone, allocate_buffer
    <3> HIDE DEF new
    <3>1. /\ buffers' \in Seq(Nat) /\ Len(buffers') = Len(buffers) + 1
          /\ Range(buffers') = Range(buffers) \cup {new} /\ IsInjective(buffers')
      <4>1. buffers \in Seq(Nat) /\ new \in Nat
        BY <1>1, <2>1, BootAssumption DEF Program
      <4> QED BY <1>4, <2>4, <3>0, <4>1, AppendProperties, RangeOfAppend, InjectiveAppend
    <3>2. Program'
      BY <1>1, <3>0, <3>1, LenProperties, BootAssumption DEF Program, InHbootuser
    <3>3. Rest'
      BY <2>1, <3>0 DEF IInv, Rest, Handles
    <3>4. HandlesOwned'
      BY <1>4, <2>2, <3>0, <3>1 DEF HandlesOwned, Range
    <3>5. Counted'
      BY <1>4, <2>2, <3>0, <3>1, Zenon DEF Counted
    <3> QED BY <2>1, <2>3, <3>2, <3>3, <3>4, <3>5 DEF IInv
  <2> QED BY <2>5, <2>6
<1>6. CASE /\ pc' = "out" /\ slots' \in {slots, KeptSlots}
           /\ UNCHANGED <<line, buffers, loader, current, written, at>>
  <2>1. /\ Table' /\ \A h : Live(h)' <=> Live(h)
        /\ \A h : Live(h) => slots'[h + 1] = slots[h + 1]
    BY <1>6, OnlyKept DEF IInv, Table, Live
  <2>2. OwnersPast' /\ \A h : Own(h)' <=> Own(h)
    BY <1>1, <2>1, SameOwners
  <2>3. Program' /\ Rest'
    BY <1>1, <1>6 DEF IInv, Program, Rest, InHbootuser, Handles, allocate_buffer
  <2>4. HandlesOwned'
    BY <1>4, <1>6, <2>2 DEF HandlesOwned
  <2>5. Counted'
    BY <1>4, <1>6, <2>2, Zenon DEF Counted
  <2> QED BY <2>1, <2>2, <2>3, <2>4, <2>5 DEF IInv
<1> QED BY <1>5, <1>6 DEF allocate_buffer

\* A write fills a buffer that is hbootuser's own, whose size it keeps.
LEMMA CopyKeeps == ASSUME IInv, copy PROVE IInv'
<1>1. Live(selected) /\ fpos < slots[selected + 1].size /\ pc = "copy"
  BY DEF copy, CanAppend
<1>2. slots[selected + 1] \in Buffers /\ selected \in 0 .. Len(slots) - 1 /\ fpos \in Nat
      /\ Len(slots[selected + 1].data) = slots[selected + 1].size
  BY <1>1, LiveIsBuffer DEF IInv, Table, Rest
<1>3. desc[line] \in Lines /\ run \in Nat /\ line \in Nat /\ at \in Nat /\ written \in Nat
  BY <1>1, ElementOfSeq, BootAssumption DEF IInv, Program
<1>4. PICK ret \in Reads :
        LET buf == slots[selected + 1]
            app == Appended(buf, [k \in 1 .. ret |-> FileUnit(at + k)], fpos)
        IN  /\ slots' = [slots EXCEPT ![selected + 1] =
                            [@ EXCEPT !.data = app.data, !.checksum = app.checksum]]
            /\ fpos' = fpos + app.n
            /\ at' = at + ret
            /\ IF app.n < ret THEN pc' = "undo" /\ UNCHANGED written
                              ELSE written' = written + ret /\ UNCHANGED pc
  BY DEF copy
<1>5. ret \in Nat /\ at + ret <= desc[line].size
  <2>1. Page \in Nat /\ desc[line].size \in Nat /\ at <= desc[line].size
    BY <1>1, <1>3 DEF Page, Lines, IInv, Program
  <2> DEFINE most == Min2(Page, desc[line].size - at)
  <2>2. most \in 0 .. desc[line].size - at
    BY <1>3, <2>1 DEF Min2
  <2>3. ret \in 0 .. desc[line].size - at
    <3>1. ret \in 1 .. most \/ ret = most
      BY <1>4, Zenon DEF Reads
    <3> HIDE DEF most
    <3> QED BY <1>3, <2>1, <2>2, <3>1
  <2> QED BY <1>3, <2>1, <2>3
<1> DEFINE buf   == slots[selected + 1]
           units == [k \in 1 .. ret |-> FileUnit(at + k)]
           app   == Appended(buf, units, fpos)
           full  == [buf EXCEPT !.data = app.data, !.checksum = app.checksum]
<1>6. units \in Seq(Units)
  BY <1>3, <1>5, IsASeq DEF FileUnit, Units
<1>7. /\ app.n \in Nat /\ app.data \in Seq(Units) /\ Len(app.data) = buf.size
      /\ app.checksum \in Seq(Units)
  <2> HIDE DEF units
  <2> QED BY <1>1, <1>2, <1>6, AppendedOK
<1>8. /\ slots' = [slots EXCEPT ![selected + 1] = full]
      /\ fpos' = fpos + app.n /\ at' = at + ret /\ pc' \in {"copy", "undo"}
      /\ written' \in {written, written + ret}
  BY <1>1, <1>4
<1> HIDE DEF app
<1>9. full \in Buffers /\ full.owner = buf.owner /\ Len(full.data) = full.size
  BY <1>2, <1>7 DEF Buffers
<1> HIDE DEF full
<1>10. /\ slots' \in Seq(Buffers \cup {Free}) /\ Len(slots') = Len(slots) /\ Len(slots) \in Nat
       /\ slots'[selected + 1] = full
       /\ \A k \in 1 .. Len(slots) : k # selected + 1 => slots'[k] = slots[k]
  BY <1>2, <1>8, <1>9, ExceptSeq, LenProperties DEF IInv, Table
<1>11. \A h : Live(h)' <=> Live(h)
  BY <1>1, <1>2, <1>9, <1>10, BufferIsNotFree DEF Live
<1>12. \A h : Live(h) => slots'[h + 1].owner = slots[h + 1].owner
  BY <1>2, <1>9, <1>10 DEF Live
<1>13. Table'
  BY <1>2, <1>9, <1>10, <1>11 DEF IInv, Table, Live
<1>14. UNCHANGED <<build, run, desc, line, buffers, loader, current, selected, images>>
  BY DEF copy
<1>15. OwnersPast' /\ \A h : Own(h)' <=> Own(h)
  BY <1>11, <1>12, <1>13, <1>14, SameOwners
<1>16. Program'
  BY <1>3, <1>5, <1>8, <1>14, <1>1 DEF IInv, Program, InHbootuser
<1>17. Rest'
  BY <1>2, <1>7, <1>8, <1>14 DEF IInv, Rest, Handles
<1>18. HandlesOwned'
  BY <1>1, <1>8, <1>14, <1>15 DEF IInv, HandlesOwned, InHbootuser
<1>19. Counted'
  BY <1>1, <1>8, <1>10, <1>14, <1>15 DEF IInv, Counted, InHbootuser, Filling
<1> QED BY <1>13, <1>15, <1>16, <1>17, <1>18, <1>19 DEF IInv

\* The buffer that was filled is counted.
LEMMA CopiedKeeps == ASSUME IInv, copied PROVE IInv'
<1>1. /\ pc = "copy" /\ pc' = "line" /\ buffers' = Append(buffers, current)
      /\ line' = line + 1 /\ loader' \in {loader, current}
      /\ UNCHANGED <<build, run, desc, current, written, at, slots, selected, fpos, images>>
  BY DEF copied, LineDone, driver
<1>2. /\ Own(current) /\ current \notin Range(buffers) /\ IsInjective(buffers)
      /\ \A k \in DOMAIN buffers : Own(buffers[k])
  BY <1>1 DEF IInv, HandlesOwned, InHbootuser
<1>3. current \in Nat /\ buffers \in Seq(Nat) /\ Len(buffers) < MaxLines
  BY <1>1, <1>2, LiveIsBuffer DEF IInv, Program, Own
<1>4. /\ buffers' \in Seq(Nat) /\ Len(buffers') = Len(buffers) + 1
      /\ Range(buffers') = Range(buffers) \cup {current} /\ IsInjective(buffers')
  BY <1>1, <1>2, <1>3, AppendProperties, RangeOfAppend, InjectiveAppend
<1>5. Table' /\ OwnersPast'
  BY <1>1 DEF IInv, Table, OwnersPast, Live
<1>6. Program'
  BY <1>1, <1>3, <1>4, LenProperties, BootAssumption DEF IInv, Program, InHbootuser
<1>7. Rest'
  BY <1>1 DEF IInv, Rest, Handles
<1>8. \A h : Own(h)' <=> Own(h)
  BY <1>1 DEF Own, Live
<1>9. HandlesOwned'
  BY <1>1, <1>2, <1>4, <1>8 DEF HandlesOwned, Range
<1>10. Counted'
  BY <1>1, <1>4, <1>8 DEF IInv, Counted, InHbootuser
<1> QED BY <1>5, <1>6, <1>7, <1>9, <1>10 DEF IInv

\* handle_file frees the buffer it could not fill, and only that.
LEMMA UndoKeeps == ASSUME IInv, undo PROVE IInv'
<1>1. /\ pc = "undo" /\ pc' = "out"
      /\ UNCHANGED <<build, run, desc, line, buffers, loader, current, written, at,
                     selected, fpos, images>>
  BY DEF undo, user
<1>2. /\ Own(current) /\ current \notin Range(buffers) /\ IsInjective(buffers)
      /\ \A k \in DOMAIN buffers : Own(buffers[k])
  BY <1>1 DEF IInv, HandlesOwned, InHbootuser
<1>3. FreeSlot(current)
  BY <1>2 DEF undo, Own
<1>4. /\ Table' /\ \A h : Live(h)' <=> Live(h) /\ h # current
      /\ \A h : Live(h) /\ h # current => slots'[h + 1] = slots[h + 1]
  BY <1>2, <1>3, Freed DEF IInv, Own
<1>5. \A h : Own(h)' <=> Own(h) /\ h # current
  BY <1>1, <1>4 DEF Own
<1>6. OwnersPast'
  BY <1>1, <1>4 DEF IInv, OwnersPast, Live
<1>7. Program' /\ Rest'
  BY <1>1 DEF IInv, Program, Rest, InHbootuser, Handles
<1>8. HandlesOwned'
  BY <1>1, <1>2, <1>5 DEF HandlesOwned, Range
<1>9. Counted'
  BY <1>1, <1>5 DEF IInv, Counted, InHbootuser, Own, Live
<1> QED BY <1>4, <1>6, <1>7, <1>8, <1>9 DEF IInv

\* The last buffer is freed and no longer counted.
LEMMA OutKeeps == ASSUME IInv, out PROVE IInv'
<1>0. UNCHANGED <<build, run, desc, line, loader, current, written, at, selected, fpos, images>>
      /\ pc = "out"
  BY DEF out
<1>1. CASE buffers = <<>>
  <2>1. pc' = "menu" /\ UNCHANGED <<slots, buffers>>
    BY <1>1 DEF out
  <2>2. Table' /\ OwnersPast'
    BY <1>0, <2>1 DEF IInv, Table, OwnersPast, Live
  <2>3. Program' /\ Rest' /\ HandlesOwned' /\ Counted'
    BY <1>0, <2>1 DEF IInv, Program, Rest, HandlesOwned, Counted, InHbootuser, Handles
  <2> QED BY <2>2, <2>3 DEF IInv
<1>2. CASE buffers # <<>>
  <2> DEFINE last == Last(buffers)
  <2>1. IsInjective(buffers) /\ \A k \in DOMAIN buffers : Own(buffers[k])
    BY <1>0 DEF IInv, HandlesOwned, InHbootuser
  <2>2. buffers' = Front(buffers) /\ pc' = "out"
    BY <1>0, <1>2 DEF out
  <2>3. /\ buffers' \in Seq(Nat) /\ IsInjective(buffers') /\ Len(buffers') = Len(buffers) - 1
        /\ Range(buffers') = Range(buffers) \ {last} /\ last \in Range(buffers)
    BY <1>2, <2>1, <2>2, InjectiveFront DEF IInv, Program
  <2> HIDE DEF last
  <2>4. Own(last)
    BY <2>1, <2>3 DEF Range
  <2>5. FreeSlot(last)
    BY <1>2, <2>4 DEF out, Own, last
  <2>6. /\ Table' /\ \A h : Live(h)' <=> Live(h) /\ h # last
        /\ \A h : Live(h) /\ h # last => slots'[h + 1] = slots[h + 1]
    BY <2>4, <2>5, Freed DEF IInv, Own
  <2>7. \A h : Own(h)' <=> Own(h) /\ h # last
    BY <1>0, <2>6 DEF Own
  <2>8. OwnersPast'
    BY <1>0, <2>6 DEF IInv, OwnersPast, Live
  <2>9. Program' /\ Rest'
    BY <1>0, <2>2, <2>3, LenProperties, BootAssumption
       DEF IInv, Program, Rest, InHbootuser, Handles
  <2>10. HandlesOwned'
    BY <2>1, <2>2, <2>3, <2>7 DEF HandlesOwned, Range
  <2>11. Counted'
    BY <1>0, <2>2, <2>3, <2>7 DEF IInv, Counted, InHbootuser, Filling, Own, Live
  <2> QED BY <2>6, <2>8, <2>9, <2>10, <2>11 DEF IInv
<1> QED BY <1>1, <1>2

\* A line is skipped.
LEMMA SkipLineKeeps == ASSUME IInv, skip_line PROVE IInv'
<1>1. Table' /\ OwnersPast'
  BY DEF IInv, Table, OwnersPast, Live, skip_line, user, driver
<1>2. Program'
  BY LenProperties DEF IInv, Program, InHbootuser, skip_line, user, MoreLines
<1>3. Rest'
  BY DEF IInv, Rest, Handles, skip_line, user, driver
<1>4. HandlesOwned'
  BY DEF IInv, HandlesOwned, Own, Live, InHbootuser, skip_line, user, driver
<1>5. Counted'
  BY DEF IInv, Counted, Own, Live, Filling, InHbootuser, skip_line, user, driver
<1> QED BY <1>1, <1>2, <1>3, <1>4, <1>5 DEF IInv

\* The attempt ends at a bad line.
LEMMA BadLineKeeps == ASSUME IInv, bad_line PROVE IInv'
<1>1. Table' /\ OwnersPast'
  BY DEF IInv, Table, OwnersPast, Live, bad_line, user, driver
<1>2. Program'
  BY LenProperties DEF IInv, Program, InHbootuser, bad_line, user, MoreLines
<1>3. Rest'
  BY DEF IInv, Rest, Handles, bad_line, user, driver
<1>4. HandlesOwned'
  BY DEF IInv, HandlesOwned, Own, Live, InHbootuser, bad_line, user, driver
<1>5. Counted'
  BY DEF IInv, Counted, Own, Live, Filling, InHbootuser, bad_line, user, driver
<1> QED BY <1>1, <1>2, <1>3, <1>4, <1>5 DEF IInv

\* The lines are read.
LEMMA EndOfLinesKeeps == ASSUME IInv, end_of_lines PROVE IInv'
<1>1. Table' /\ OwnersPast'
  BY DEF IInv, Table, OwnersPast, Live, end_of_lines, user, driver
<1>2. Program'
  BY LenProperties DEF IInv, Program, InHbootuser, end_of_lines, user, MoreLines
<1>3. Rest'
  BY DEF IInv, Rest, Handles, end_of_lines, user, driver
<1>4. HandlesOwned'
  BY DEF IInv, HandlesOwned, Own, Live, InHbootuser, end_of_lines, user, driver
<1>5. Counted'
  BY DEF IInv, Counted, Own, Live, Filling, InHbootuser, end_of_lines, user, driver
<1> QED BY <1>1, <1>2, <1>3, <1>4, <1>5 DEF IInv

\* The buffer to fill is selected.
LEMMA SelectBufferKeeps == ASSUME IInv, select_buffer PROVE IInv'
<1>1. Table' /\ OwnersPast'
  BY DEF IInv, Table, OwnersPast, Live, select_buffer, user, driver
<1>2. Program'
  BY LenProperties DEF IInv, Program, InHbootuser, select_buffer, user, MoreLines
<1>3. Rest'
  BY DEF IInv, Rest, Handles, select_buffer, user, driver
<1>4. HandlesOwned'
  BY DEF IInv, HandlesOwned, Own, Live, InHbootuser, select_buffer, user, driver
<1>5. Counted'
  BY DEF IInv, Counted, Own, Live, Filling, InHbootuser, select_buffer, user, driver
<1> QED BY <1>1, <1>2, <1>3, <1>4, <1>5 DEF IInv

\* A write is refused.
LEMMA CopyRefusedKeeps == ASSUME IInv, copy_refused PROVE IInv'
<1>1. Table' /\ OwnersPast'
  BY DEF IInv, Table, OwnersPast, Live, copy_refused, user, driver
<1>2. Program'
  BY LenProperties DEF IInv, Program, InHbootuser, copy_refused, user, MoreLines
<1>3. Rest'
  BY DEF IInv, Rest, Handles, copy_refused, user, driver
<1>4. HandlesOwned'
  BY DEF IInv, HandlesOwned, Own, Live, InHbootuser, copy_refused, user, driver
<1>5. Counted'
  BY DEF IInv, Counted, Own, Live, Filling, InHbootuser, copy_refused, user, driver
<1> QED BY <1>1, <1>2, <1>3, <1>4, <1>5 DEF IInv

\* What a killed start had becomes nobody's, and stays in the table.
LEMMA KilledKeeps == ASSUME IInv, killed PROVE IInv'
<1>1. Table' /\ OwnersPast'
  BY DEF IInv, Table, OwnersPast, Live, killed, user, driver
<1>2. Program'
  BY EmptySeq, BootAssumption DEF IInv, Program, InHbootuser, killed
<1>3. Rest'
  BY DEF IInv, Rest, Handles, killed, user, driver
<1>4. HandlesOwned'
  BY DEF IInv, HandlesOwned, Own, Live, InHbootuser, killed, user, driver
<1>5. Counted'
  BY DEF IInv, Counted, Own, Live, Filling, InHbootuser, killed, user, driver
<1> QED BY <1>1, <1>2, <1>3, <1>4, <1>5 DEF IInv

\* The driver branches to the loader, or refuses to.
LEMMA HbootBootKeeps == ASSUME IInv, hboot_boot PROVE IInv'
<1>1. Table' /\ OwnersPast'
  BY DEF IInv, Table, OwnersPast, Live, hboot_boot, user, driver
<1>2. Program'
  BY LenProperties DEF IInv, Program, InHbootuser, hboot_boot, user, MoreLines
<1>3. Rest'
  BY DEF IInv, Rest, Handles, hboot_boot, user, driver, BootList
<1>4. HandlesOwned'
  BY DEF IInv, HandlesOwned, Own, Live, InHbootuser, hboot_boot, user, driver
<1>5. Counted'
  BY DEF IInv, Counted, Own, Live, Filling, InHbootuser, hboot_boot, user, driver
<1> QED BY <1>1, <1>2, <1>3, <1>4, <1>5 DEF IInv

\* A buffer is unpacked.
LEMMA ProccessBufferKeeps == ASSUME IInv, proccess_buffer PROVE IInv'
<1>1. Table' /\ OwnersPast'
  BY DEF IInv, Table, OwnersPast, Live, proccess_buffer, user, driver
<1>2. Program'
  BY LenProperties DEF IInv, Program, InHbootuser, proccess_buffer, user, MoreLines
<1>3. Rest'
  BY DEF IInv, Rest, Handles, proccess_buffer, user, driver, Unpacked
<1>4. HandlesOwned'
  BY DEF IInv, HandlesOwned, Own, Live, InHbootuser, proccess_buffer, user, driver
<1>5. Counted'
  BY DEF IInv, Counted, Own, Live, Filling, InHbootuser, proccess_buffer, user, driver
<1> QED BY <1>1, <1>2, <1>3, <1>4, <1>5 DEF IInv

\* The loader enters the kernel or resets.
LEMMA MainKeeps == ASSUME IInv, main PROVE IInv'
<1>1. Table' /\ OwnersPast'
  BY DEF IInv, Table, OwnersPast, Live, main, user, driver
<1>2. Program'
  BY LenProperties DEF IInv, Program, InHbootuser, main, user, MoreLines
<1>3. Rest'
  BY DEF IInv, Rest, Handles, main, user, driver
<1>4. HandlesOwned'
  BY DEF IInv, HandlesOwned, Own, Live, InHbootuser, main, user, driver
<1>5. Counted'
  BY DEF IInv, Counted, Own, Live, Filling, InHbootuser, main, user, driver
<1> QED BY <1>1, <1>2, <1>3, <1>4, <1>5 DEF IInv

-----------------------------------------------------------------------------
\* The invariant holds at the start.
LEMMA InitIInv == Init => IInv
<1> SUFFICES ASSUME Init PROVE IInv
  OBVIOUS
<1>1. Table
  BY EmptySeq, BootAssumption DEF Init, Table
<1>2. Program
  BY EmptySeq, BootAssumption DEF Init, Program
<1>3. Rest
  BY BootAssumption DEF Init, Rest, Handles, NoImage
<1>4. OwnersPast /\ HandlesOwned /\ Counted
  BY DEF Init, OwnersPast, HandlesOwned, Counted, InHbootuser
<1> QED BY <1>1, <1>2, <1>3, <1>4 DEF IInv

\* A stutter keeps it.
LEMMA StutterKeeps == ASSUME IInv, UNCHANGED vars PROVE IInv'
<1>1. Table' /\ OwnersPast'
  BY DEF IInv, Table, OwnersPast, Live, vars, user, driver
<1>2. Program' /\ Rest'
  BY DEF IInv, Program, Rest, InHbootuser, Handles, vars, user, driver
<1>3. HandlesOwned' /\ Counted'
  BY DEF IInv, HandlesOwned, Counted, Own, Live, Filling, InHbootuser, vars, user, driver
<1> QED BY <1>1, <1>2, <1>3 DEF IInv

\* Every step keeps it.
LEMMA StepKeeps == ASSUME IInv, [Next]_vars PROVE IInv'
<1>1. CASE Next
  BY <1>1, StartKeeps, SkipLineKeeps, BadLineKeeps, EndOfLinesKeeps, AllocateBufferKeeps,
     SelectBufferKeeps, CopyKeeps, CopyRefusedKeeps, CopiedKeeps, UndoKeeps, OutKeeps,
     KilledKeeps, HbootBootKeeps, ProccessBufferKeeps, MainKeeps
     DEF Next
<1>2. CASE UNCHANGED vars
  BY <1>2, StutterKeeps
<1> QED BY <1>1, <1>2

\* The driver's table and hbootuser's list of handles agree in every reachable state.
THEOREM Invariant == Spec => []IInv
<1>1. Init => IInv
  BY InitIInv
<1>2. IInv /\ [Next]_vars => IInv'
  BY StepKeeps
<1> QED BY <1>1, <1>2, PTL DEF Spec

\* Whatever the descriptors say: the driver's table and hbootuser's list stay within
\* their arrays, and a buffer's data is as long as its size.
THEOREM TypesHold == Spec => []TypeOK
<1>1. ASSUME IInv PROVE TypeOK
  <2>1. \A h \in 0 .. Len(slots) - 1 : Live(h) => slots[h + 1].tag \in Nat
    BY <1>1, LiveIsBuffer DEF IInv, Buffers
  <2> QED BY <1>1, <2>1 DEF IInv, Table, Program, Rest, TypeOK
<1> QED BY <1>1, Invariant, PTL

\* Whatever starts were killed before: hbootuser counts on its own live buffers, and
\* frees each once.
THEOREM HandlesAreOwned == Spec => []HandlesOwned
<1>1. IInv => HandlesOwned
  BY DEF IInv
<1> QED BY <1>1, Invariant, PTL

\* Whichever step of an attempt fails, its buffers are gone when it is back in the menu.
THEOREM NothingIsLeft == Spec => NothingLeft
<1>1. ASSUME IInv, [Next]_vars, pc = "out", pc' = "menu", buffers = <<>>
      PROVE  \A h \in 0 .. Len(slots) - 1 : Live(h) => slots[h + 1].owner # run
  <2>1. Range(buffers) = {}
    BY <1>1 DEF Range
  <2>2. \A h \in 0 .. Len(slots) - 1 : ~ Own(h)
    BY <1>1, <2>1 DEF IInv, Counted, InHbootuser, Filling
  <2> QED BY <2>2 DEF Own
<1>2. IInv /\ [Next]_vars =>
        [pc = "out" /\ pc' = "menu" /\ buffers = <<>>
           => \A h \in 0 .. Len(slots) - 1 : Live(h) => slots[h + 1].owner # run]_vars
  BY <1>1
<1> QED BY <1>2, Invariant, PTL DEF Spec, NothingLeft

-----------------------------------------------------------------------------
(* Where the images come from.                                              *)

\* Reads that fail go unnoticed unless checksums are compared, of reads that fill
\* their buffer.  (handle_file takes a failed read for the end of the file.)
FailuresShow == \A b \in Builds : b.readErrors => b.crc /\ ~ b.shortReads

InHboot == {"unpack", "kernel", "reset"}
Going == {"line", "select", "copy", "boot"} \cup InHboot
Shipped == {"file", "nand"}

\* The driver hands out the slots upwards: older starts have the lower handles.
Sorted ==
  \A g, h \in 0 .. Len(slots) - 1 :
    Live(g) /\ Live(h) /\ g < h => slots[g + 1].owner <= slots[h + 1].owner

\* The buffer holds the file of line l, or what its checksum gives away.
Sound(b, l) == b.data = WholeFile(l) \/ (build.crc /\ b.checksum # b.data)

\* The buffer was filled from a line already read.
Descends(h) ==
  LET b == slots[h + 1] IN
  \E l \in 1 .. line - 1 :
    /\ desc[l].source \in Shipped /\ desc[l].tag = b.tag
    /\ b.type = "NAND" \/ ((b.tag # IMG_HBOOT => b.verify) /\ Sound(b, l))

Delivered ==
  pc \in Going =>
    /\ Len(buffers) <= line - 1
    /\ \A h \in Range(buffers) : Own(h) /\ Descends(h)
    /\ \A h : Own(h) => h \in Range(buffers) \/ (Filling /\ h = current)
    /\ \A l \in 1 .. line - 1 :
         l <= Len(desc) /\ (desc[l].source \in Shipped =>
                              \E h \in Range(buffers) : slots[h + 1].tag = desc[l].tag)
    /\ loader # NoHandle => loader \in Range(buffers) /\ slots[loader + 1].tag = IMG_HBOOT
    /\ pc \in {"boot"} \cup InHboot => loader # NoHandle /\ ~ MoreLines

\* What fd2fd has put into the buffer so far.  After a piece that the driver
\* lengthened the buffer is full before the file ends, unless it was the last one.
Copied(b) ==
  \/ fpos = written /\ \A k \in 1 .. written : b.data[k] = FileUnit(k)
  \/ fpos > written /\ (written < b.size \/ b.data = WholeFile(line))

BeingFilled ==
  pc \in {"select", "copy"} =>
    LET b == slots[current + 1] IN
    /\ desc[line].source = "file" /\ b.tag = desc[line].tag /\ b.size = desc[line].size
    /\ b.tag # IMG_HBOOT => b.verify
    /\ at = written /\ written <= b.size
    /\ pc = "select" => written = 0 /\ b.checksum = <<>>
    /\ pc = "copy" =>
         /\ selected = current /\ Copied(b)
         /\ ~ build.shortReads =>
              /\ fpos = written /\ (written % Page = 0 \/ written = b.size)
              /\ b.checksum = [k \in 1 .. written |-> FileUnit(k)]

\* hboot has processed some of the boot list, in order, and the last of a tag stays.
Done == BootList(loader) \ list

Unpacking ==
  /\ pc \notin InHboot => \A t \in Tags : images[t].state = "NONE"
  /\ pc \in InHboot =>
       /\ list \subseteq BootList(loader)
       /\ \A h \in Done, g \in list : h < g
       /\ \A t \in Tags :
            images[t].state = "COMPLETED" =>
              \E h \in Done :
                /\ slots[h + 1].tag = t /\ slots[h + 1].type # "NAND"
                /\ images[t].data = slots[h + 1].data
                /\ images[t].checksum = slots[h + 1].checksum
                /\ images[t].verify = slots[h + 1].verify
                /\ \A g \in Done : slots[g + 1].tag = t => g <= h
  /\ pc = "kernel" => list = {} /\ image_complete /\ images[IMG_LINUX].state = "COMPLETED"

\* What the images rest on: where the buffers come from and what is in them.
DInv == Sorted /\ Delivered /\ BeingFilled /\ Unpacking

\* A buffer that stays as it is still descends from its line.
LEMMA DescendsKept ==
  ASSUME NEW h, Descends(h), slots'[h + 1] = slots[h + 1], UNCHANGED <<build, run, desc>>,
         line \in Nat, line' \in Nat, line <= line'
  PROVE  Descends(h)'
<1>1. PICK l \in 1 .. line - 1 :
        LET b == slots[h + 1] IN
        /\ desc[l].source \in Shipped /\ desc[l].tag = b.tag
        /\ b.type = "NAND" \/ ((b.tag # IMG_HBOOT => b.verify) /\ Sound(b, l))
  BY DEF Descends
<1>2. l \in 1 .. line' - 1
  BY <1>1
<1>3. slots'[h + 1] = slots[h + 1] /\ WholeFile(l)' = WholeFile(l)
  BY DEF WholeFile
<1>4. Sound(slots[h + 1], l)' <=> Sound(slots[h + 1], l)
  BY <1>3 DEF Sound
<1> QED
  BY <1>1, <1>2, <1>3, <1>4 DEF Descends

\* Buffers may disappear without disturbing the order.
LEMMA SortedKept ==
  ASSUME Sorted, \A h : Live(h)' => Live(h) /\ slots'[h + 1].owner = slots[h + 1].owner
  PROVE  Sorted'
<1>1. \A h : Live(h) => h \in 0 .. Len(slots) - 1
  BY DEF Live
<1> QED
  BY <1>1 DEF Sorted

-----------------------------------------------------------------------------
\* Both parts of a step that only leaves the path to the kernel.
LEMMA Leaving ==
  ASSUME IInv, DInv, pc' \notin Going, pc \notin InHboot, UNCHANGED images,
         \A h : Live(h)' => Live(h) /\ slots'[h + 1].owner = slots[h + 1].owner
  PROVE  DInv'
<1>1. Sorted'
  BY SortedKept DEF DInv
<1>2. Delivered' /\ BeingFilled'
  BY DEF Delivered, BeingFilled, Going
<1>3. Unpacking'
  BY DEF DInv, Unpacking, Going, InHboot
<1> QED
  BY <1>1, <1>2, <1>3 DEF DInv

\* A start begins with nothing.
LEMMA StartDelivers == ASSUME IInv, DInv, start PROVE DInv'
<1>1. /\ pc = "menu" /\ pc' = "line" /\ buffers' = <<>> /\ line' = 1 /\ loader' = NoHandle
      /\ run' = run + 1 /\ run \in Nat /\ UNCHANGED <<slots, images>>
  BY BootAssumption DEF start, driver, IInv, Program
<1>2. Sorted'
  BY <1>1, SortedKept DEF DInv, Live
<1>3. \A h : ~ Own(h)'
  <2> SUFFICES ASSUME NEW h, Own(h)' PROVE FALSE
    OBVIOUS
  <2>1. Live(h) /\ slots[h + 1].owner = run + 1
    BY <1>1 DEF Own, Live
  <2>2. slots[h + 1].owner \in Nat /\ slots[h + 1].owner <= run
    BY <2>1, LiveIsBuffer DEF IInv, OwnersPast, Buffers
  <2> QED
    BY <1>1, <2>1, <2>2
<1>4. Delivered'
  BY <1>1, <1>3 DEF Delivered, Range, InHboot
<1>5. BeingFilled' /\ Unpacking'
  BY <1>1 DEF DInv, BeingFilled, Unpacking, InHboot
<1> QED
  BY <1>2, <1>4, <1>5 DEF DInv

\* A line that asks for nothing.
LEMMA SkipLineDelivers == ASSUME IInv, DInv, skip_line PROVE DInv'
<1>1. /\ pc = "line" /\ pc' = "line" /\ line' = line + 1 /\ line \in Nat /\ line <= Len(desc)
      /\ desc[line].source = "none"
      /\ UNCHANGED <<build, run, desc, buffers, loader, slots, images>>
  BY DEF skip_line, driver, IInv, Program, MoreLines
<1>2. Sorted'
  BY <1>1, SortedKept DEF DInv, Live
<1>3. /\ \A h : Own(h)' <=> Own(h)
      /\ \A h : Descends(h) => Descends(h)'
  BY <1>1, DescendsKept DEF Own, Live
<1>4. Delivered'
  <2>1. Len(buffers) <= line' - 1
    BY <1>1, LenProperties DEF IInv, Program, DInv, Delivered, Going
  <2>2. \A l \in 1 .. line' - 1 : l \in 1 .. line - 1 \/ l = line
    BY <1>1
  <2> QED
    BY <1>1, <1>3, <2>1, <2>2 DEF DInv, Delivered, Going, InHboot, Shipped, Filling
<1>5. BeingFilled' /\ Unpacking'
  BY <1>1 DEF DInv, BeingFilled, Unpacking, InHboot
<1> QED
  BY <1>2, <1>4, <1>5 DEF DInv

\* The loader is booted only if a line asked for one.
LEMMA EndOfLinesDelivers == ASSUME IInv, DInv, end_of_lines PROVE DInv'
<1>1. /\ pc = "line" /\ pc' = (IF loader = NoHandle THEN "out" ELSE "boot") /\ ~ MoreLines
      /\ UNCHANGED <<build, user, slots, images>> /\ line \in Nat
  BY DEF end_of_lines, driver, IInv, Program
<1>2. Sorted'
  BY <1>1, SortedKept DEF DInv, Live
<1>3. CASE pc' = "out"
  BY <1>1, <1>2, <1>3, Leaving DEF Going, InHboot, Live
<1>4. CASE pc' = "boot"
  <2>1. loader # NoHandle
    BY <1>1, <1>4
  <2>2. /\ \A h : Own(h)' <=> Own(h)
        /\ \A h : Descends(h) => Descends(h)'
    BY <1>1, DescendsKept DEF Own, Live, user
  <2>3. MoreLines' = MoreLines
    BY <1>1 DEF MoreLines, user
  <2>4. Delivered'
    BY <1>1, <1>4, <2>1, <2>2, <2>3 DEF user, DInv, Delivered, Going, InHboot, Filling
  <2>5. BeingFilled' /\ Unpacking'
    BY <1>1, <1>4 DEF DInv, BeingFilled, Unpacking, InHboot
  <2> QED
    BY <1>2, <2>4, <2>5 DEF DInv
<1> QED
  BY <1>1, <1>3, <1>4

\* fd2fd begins with an empty buffer at its start.
LEMMA SelectBufferDelivers == ASSUME IInv, DInv, select_buffer PROVE DInv'
<1>1. /\ pc = "select" /\ pc' = "copy" /\ selected' = current /\ fpos' = 0
      /\ UNCHANGED <<build, user, slots, images>> /\ line \in Nat
  BY DEF select_buffer, IInv, Program
<1>2. Sorted'
  BY <1>1, SortedKept DEF DInv, Live
<1>3. /\ \A h : Own(h)' <=> Own(h)
      /\ \A h : Descends(h) => Descends(h)'
  BY <1>1, DescendsKept DEF Own, Live, user
<1>4. Delivered'
  BY <1>1, <1>3 DEF user, DInv, Delivered, Going, InHboot, Filling
<1>5. BeingFilled'
  <2>1. written = 0 /\ at = 0 /\ slots[current + 1].checksum = <<>> /\ 0 % Page = 0
    BY <1>1 DEF DInv, BeingFilled, Page
  <2>2. <<>> = [k \in 1 .. 0 |-> FileUnit(k)]
    OBVIOUS
  <2>3. Copied(slots[current + 1])'
    BY <1>1, <2>1 DEF Copied, user
  <2>4. slots'[current' + 1].checksum = [k \in 1 .. written' |-> FileUnit(k)']
    BY <1>1, <2>1, <2>2 DEF user
  <2> QED
    BY <1>1, <2>1, <2>3, <2>4 DEF DInv, BeingFilled, user
<1>6. Unpacking'
  BY <1>1 DEF DInv, Unpacking, InHboot
<1> QED
  BY <1>2, <1>4, <1>5, <1>6 DEF DInv

\* hboot begins with the whole boot list.
LEMMA HbootBootDelivers == ASSUME IInv, DInv, hboot_boot PROVE DInv'
<1>1. /\ pc = "boot" /\ pc' \in {"unpack", "out"} /\ (pc' = "unpack" => list' = BootList(loader))
      /\ UNCHANGED <<build, user, slots, images>> /\ line \in Nat
  BY DEF hboot_boot, driver, IInv, Program
<1>2. Sorted'
  BY <1>1, SortedKept DEF DInv, Live
<1>3. CASE pc' = "out"
  BY <1>1, <1>2, <1>3, Leaving DEF Going, InHboot, Live
<1>4. CASE pc' = "unpack"
  <2>2. /\ \A h : Own(h)' <=> Own(h)
        /\ \A h : Descends(h) => Descends(h)'
    BY <1>1, DescendsKept DEF Own, Live, user
  <2>3. MoreLines' = MoreLines
    BY <1>1 DEF MoreLines, user
  <2>4. Delivered'
    BY <1>1, <1>4, <2>2, <2>3 DEF user, DInv, Delivered, Going, InHboot, Filling
  <2>5. BeingFilled'
    BY <1>1, <1>4 DEF DInv, BeingFilled
  <2>6. list' = BootList(loader)'
    BY <1>1, <1>4 DEF BootList, Live, user
  <2>7. \A t \in Tags : images'[t].state # "COMPLETED"
    BY <1>1 DEF DInv, Unpacking, InHboot
  <2>8. Unpacking'
    BY <1>4, <2>6, <2>7 DEF Unpacking, InHboot, Done
  <2> QED
    BY <1>2, <2>4, <2>5, <2>8 DEF DInv
<1> QED
  BY <1>1, <1>3, <1>4

\* The kernel is entered when the list is empty and the checksums agree.
LEMMA MainDelivers == ASSUME IInv, DInv, main PROVE DInv'
<1>1. /\ pc = "unpack" /\ list = {} /\ UNCHANGED <<build, user, slots, list, images>> /\ line \in Nat
      /\ pc' = IF image_complete /\ images[IMG_LINUX].state = "COMPLETED" THEN "kernel" ELSE "reset"
  BY DEF main, driver, IInv, Program
<1>2. Sorted'
  BY <1>1, SortedKept DEF DInv, Live
<1>3. /\ \A h : Own(h)' <=> Own(h)
      /\ \A h : Descends(h) => Descends(h)'
  BY <1>1, DescendsKept DEF Own, Live, user
<1>4. MoreLines' = MoreLines /\ Done' = Done /\ BootList(loader)' = BootList(loader)
      /\ image_complete' = image_complete
  BY <1>1 DEF MoreLines, Done, BootList, Live, image_complete, ChecksumGood, user
<1>5. Delivered'
  BY <1>1, <1>3, <1>4 DEF user, DInv, Delivered, Going, InHboot, Filling
<1>6. BeingFilled'
  BY <1>1 DEF BeingFilled
<1>7. Unpacking'
  BY <1>1, <1>4 DEF DInv, Unpacking, InHboot
<1> QED
  BY <1>2, <1>5, <1>6, <1>7 DEF DInv

\* The next image of the list takes its place.
LEMMA ProccessBufferDelivers == ASSUME IInv, DInv, proccess_buffer PROVE DInv'
<1>1. PICK h \in list :
        LET buf == slots[h + 1]
        IN  /\ \A g \in list \ {h} : Before(h, g)
            /\ images' = IF buf.tag \in Tags THEN [images EXCEPT ![buf.tag] = Unpacked(buf)] ELSE images
            /\ list' = list \ {h}
  BY DEF proccess_buffer
<1> DEFINE buf == slots[h + 1]
<1>2. /\ pc = "unpack" /\ UNCHANGED <<build, pc, user, slots>> /\ line \in Nat
  BY DEF proccess_buffer, driver, IInv, Program
<1>3. Sorted'
  BY <1>2, SortedKept DEF DInv, Live
<1>4. /\ \A g : Own(g)' <=> Own(g)
      /\ \A g : Descends(g) => Descends(g)'
  BY <1>2, DescendsKept DEF Own, Live, user
<1>5. MoreLines' = MoreLines /\ BootList(loader)' = BootList(loader)
  BY <1>2 DEF MoreLines, BootList, Live, user
<1>6. Delivered'
  BY <1>2, <1>4, <1>5 DEF user, DInv, Delivered, Going, InHboot, Filling
<1>7. BeingFilled'
  BY <1>2 DEF BeingFilled
<1>8. h \in BootList(loader) /\ list \subseteq BootList(loader) /\ Done' = Done \cup {h}
      /\ BootList(loader) \subseteq Int
  <2>1. h \in BootList(loader) /\ list \subseteq BootList(loader)
    BY <1>1, <1>2 DEF DInv, Unpacking, InHboot
  <2>2. Done' = BootList(loader) \ (list \ {h})
    BY <1>1, <1>5 DEF Done
  <2>3. BootList(loader) \subseteq Int
    BY LenProperties DEF BootList, IInv, Table
  <2> QED
    BY <1>1, <2>1, <2>2, <2>3 DEF Done
<1>9. \A g \in Done' : g <= h /\ \A f \in list' : g < f
  <2>1. \A g \in Done, f \in list : g < f
    BY <1>2 DEF DInv, Unpacking, InHboot
  <2>2. Done \subseteq Int /\ list' \subseteq list
    BY <1>1, <1>8 DEF Done
  <2>3. \A f \in list' : h < f
    BY <1>1 DEF Before
  <2> QED
    BY <1>1, <1>8, <2>1, <2>2, <2>3
<1>10. ASSUME NEW t \in Tags, images'[t].state = "COMPLETED"
       PROVE  \E d \in Done' :
                /\ slots'[d + 1].tag = t /\ slots'[d + 1].type # "NAND"
                /\ images'[t].data = slots'[d + 1].data
                /\ images'[t].checksum = slots'[d + 1].checksum
                /\ images'[t].verify = slots'[d + 1].verify
                /\ \A g \in Done' : slots'[g + 1].tag = t => g <= d
  <2>1. CASE buf.tag = t
    <3>1. images'[t] = Unpacked(buf)
      BY <1>1, <1>10, <2>1 DEF IInv, Rest
    <3>2. /\ buf.type # "NAND" /\ images'[t].data = buf.data
          /\ images'[t].checksum = buf.checksum /\ images'[t].verify = buf.verify
      BY <1>10, <3>1 DEF Unpacked
    <3> QED
      BY <1>2, <1>8, <1>9, <2>1, <3>2
  <2>2. CASE buf.tag # t
    <3>1. images'[t] = images[t]
      BY <1>1, <2>2 DEF IInv, Rest
    <3>2. PICK d \in Done :
            /\ slots[d + 1].tag = t /\ slots[d + 1].type # "NAND"
            /\ images[t].data = slots[d + 1].data
            /\ images[t].checksum = slots[d + 1].checksum
            /\ images[t].verify = slots[d + 1].verify
            /\ \A g \in Done : slots[g + 1].tag = t => g <= d
      BY <1>2, <1>10, <3>1 DEF DInv, Unpacking, InHboot
    <3> QED
      BY <1>2, <1>8, <2>2, <3>1, <3>2
  <2> QED
    BY <2>1, <2>2
<1>11. Unpacking'
  <2>1. list' \subseteq BootList(loader)'
    BY <1>1, <1>5, <1>8
  <2> QED
    BY <1>2, <1>9, <1>10, <2>1 DEF Unpacking, InHboot
<1> QED
  BY <1>3, <1>6, <1>7, <1>11 DEF DInv

\* What a buffer contributes when its line is done.
LEMMA LineDelivers ==
  ASSUME IInv, DInv, pc \in {"line", "copy"}, pc' = "line", NEW h \in Nat, LineDone(h),
         UNCHANGED <<build, run, desc, images>>, line <= Len(desc),
         desc[line].source \in Shipped, slots'[h + 1].tag = desc[line].tag, Own(h)', Descends(h)',
         \A g : Live(g) => Live(g)' /\ slots'[g + 1] = slots[g + 1],
         \A g : Own(g)' => g \in Range(buffers) \/ g = h, Sorted'
  PROVE  DInv'
<1>1. /\ line \in Nat /\ line' = line + 1 /\ buffers' = Append(buffers, h) /\ buffers \in Seq(Nat)
      /\ Len(buffers) \in Nat /\ loader' = IF desc[line].tag = IMG_HBOOT THEN h ELSE loader
  BY LenProperties DEF LineDone, IInv, Program
<1>2. Len(buffers') = Len(buffers) + 1 /\ Range(buffers') = Range(buffers) \cup {h}
  BY <1>1, AppendProperties, RangeOfAppend
<1>3. /\ Len(buffers) <= line - 1
      /\ \A g \in Range(buffers) : Own(g) /\ Descends(g)
      /\ \A l \in 1 .. line - 1 :
           l <= Len(desc) /\ (desc[l].source \in Shipped =>
                                \E g \in Range(buffers) : slots[g + 1].tag = desc[l].tag)
      /\ loader # NoHandle => loader \in Range(buffers) /\ slots[loader + 1].tag = IMG_HBOOT
  BY DEF DInv, Delivered, Going
<1>4. \A g \in Range(buffers) : slots'[g + 1] = slots[g + 1] /\ Own(g)'
  BY <1>3 DEF Own
<1>5. \A g \in Range(buffers) : Descends(g)'
  BY <1>1, <1>3, <1>4, DescendsKept
<1>6. \A l \in 1 .. line' - 1 : l \in 1 .. line - 1 \/ l = line
  BY <1>1
<1>7. \A l \in 1 .. line' - 1 :
        l <= Len(desc') /\ (desc'[l].source \in Shipped =>
                             \E g \in Range(buffers') : slots'[g + 1].tag = desc'[l].tag)
  BY <1>2, <1>3, <1>4, <1>6
<1>8. loader' # NoHandle => loader' \in Range(buffers') /\ slots'[loader' + 1].tag = IMG_HBOOT
  BY <1>1, <1>2, <1>3, <1>4
<1>9. Delivered'
  BY <1>1, <1>2, <1>3, <1>4, <1>5, <1>7, <1>8 DEF Delivered, InHboot
<1>10. BeingFilled' /\ Unpacking'
  BY DEF DInv, BeingFilled, Unpacking, InHboot
<1> QED
  BY <1>9, <1>10 DEF DInv

\* A new buffer follows all that live.
LEMMA AllocateBufferDelivers == ASSUME IInv, DInv, allocate_buffer PROVE DInv'
<1>1. /\ Program /\ pc = "line" /\ line <= Len(desc) /\ Len(buffers) < MaxLines
      /\ run \in Nat /\ line \in Nat /\ UNCHANGED <<build, run, desc, images>>
      /\ desc[line].source \in Shipped
  BY BootAssumption DEF IInv, Program, allocate_buffer, MoreLines, Shipped
<1>2. desc[line] \in Lines
  BY <1>1, ElementOfSeq DEF Program
<1>3. NewBuffer \in Buffers /\ Len(NewBuffer.data) = NewBuffer.size /\ NewBuffer.owner = run
  BY <1>1, <1>2, NewBufferOK
<1>4. CASE SlotLeft /\ slots' = Append(KeptSlots, NewBuffer)
           /\ IF desc[line].source = "file"
              THEN /\ pc' = "select" /\ current' = Len(KeptSlots)
                   /\ written' = 0 /\ at' = 0
                   /\ UNCHANGED <<line, buffers, loader>>
              ELSE LineDone(Len(KeptSlots)) /\ UNCHANGED <<pc, current, written, at>>
  <2>0. PICK new : new = Len(KeptSlots)
    OBVIOUS
  <2>1. /\ Table' /\ new \in 0 .. MaxBuffers - 1 /\ ~ Live(new)
        /\ \A h : Live(h)' <=> Live(h) \/ h = new
        /\ \A h : Live(h) => slots'[h + 1] = slots[h + 1]
        /\ slots'[new + 1] = NewBuffer
    BY <1>3, <1>4, <2>0, Allocated DEF IInv
  <2>2. \A h : Live(h) => h \in Nat /\ h < new
    BY <2>0, KeptLive, LenProperties DEF IInv, Table
  <2>3. \A h : Own(h)' <=> Own(h) \/ h = new
    BY <1>1, <1>3, <2>1 DEF Own
  <2>n. new \in Nat
    BY <2>1, BootAssumption
  <2>4. Sorted'
    <3> SUFFICES ASSUME NEW g, NEW h, Live(g)', Live(h)', g < h
                 PROVE  slots'[g + 1].owner <= slots'[h + 1].owner
      BY DEF Sorted
    <3>1. CASE h = new
      <4>1. (g # new /\ Live(g)) \/ g = new
        BY <2>1
      <4>2. CASE g = new
        BY <2>n, <3>1, <4>2
      <4>3. CASE Live(g)
        BY <1>1, <1>3, <2>1, <3>1, <4>3 DEF IInv, OwnersPast, Live
      <4> QED
        BY <4>1, <4>2, <4>3
    <3>2. CASE Live(h) /\ Live(g)
      BY <2>1, <3>2 DEF DInv, Sorted, Live
    <3>3. CASE Live(h) /\ g = new
      BY <2>2, <2>n, <3>3
    <3> QED
      BY <2>1, <3>1, <3>2, <3>3
  <2>5. NewBuffer.tag = desc[line].tag /\ NewBuffer.size = desc[line].size
        /\ NewBuffer.checksum = <<>>
    BY DEF NewBuffer
  <2>6. \A h : Own(h) => h \in Range(buffers)
    BY <1>1 DEF DInv, Delivered, Going, Filling
  <2>7. CASE desc[line].source = "file"
    <3>1. /\ pc' = "select" /\ current' = new /\ written' = 0 /\ at' = 0
          /\ UNCHANGED <<line, buffers, loader, run, desc, build, images>>
      BY <1>1, <1>4, <2>0, <2>7
    <3>2. \A h \in Range(buffers) : Own(h) /\ Descends(h) /\ slots'[h + 1] = slots[h + 1]
      BY <1>1, <2>1 DEF DInv, Delivered, Going, Own
    <3>3. \A h \in Range(buffers) : Own(h)' /\ Descends(h)'
      BY <1>1, <2>3, <3>1, <3>2, DescendsKept
    <3>4. Delivered'
      BY <1>1, <2>3, <2>6, <3>1, <3>2, <3>3 DEF DInv, Delivered, Going, InHboot, Filling
    <3>5. NewBuffer.tag # IMG_HBOOT => NewBuffer.verify
      BY <2>7 DEF NewBuffer
    <3>6. slots'[current' + 1] = NewBuffer
      BY <2>1, <3>1
    <3>7. desc[line].size \in Nat
      BY <1>2 DEF Lines
    <3>8. BeingFilled'
      BY <2>5, <2>7, <3>1, <3>5, <3>6, <3>7 DEF BeingFilled
    <3>9. Unpacking'
      BY <1>1, <3>1 DEF DInv, Unpacking, InHboot
    <3> QED
      BY <2>4, <3>4, <3>8, <3>9 DEF DInv
  <2>8. CASE desc[line].source = "nand"
    <3>1. LineDone(new) /\ pc' = "line"
      BY <1>1, <1>4, <2>0, <2>8
    <3>2. line' = line + 1
      BY <3>1 DEF LineDone
    <3>3. slots'[new + 1] = NewBuffer /\ NewBuffer.type = "NAND" /\ Own(new)'
      BY <2>1, <2>3, <2>8 DEF NewBuffer, BufferType
    <3>4. Descends(new)'
      <4>1. line \in 1 .. line' - 1 /\ desc'[line].source \in Shipped
        BY <1>1, <3>2, <2>8 DEF IInv, Program
      <4>2. desc'[line].tag = slots'[new + 1].tag /\ slots'[new + 1].type = "NAND"
        BY <1>1, <2>5, <3>3
      <4> QED
        BY <4>1, <4>2 DEF Descends
    <3> QED
      BY <1>1, <2>1, <2>3, <2>4, <2>5, <2>6, <2>n, <3>1, <3>3, <3>4, LineDelivers
  <2> QED
    BY <1>1, <2>7, <2>8 DEF Shipped
<1>5. CASE pc' = "out" /\ slots' \in {slots, KeptSlots}
  <2>1. /\ \A h : Live(h)' <=> Live(h)
        /\ \A h : Live(h) => slots'[h + 1] = slots[h + 1]
    BY <1>5, OnlyKept DEF IInv, Table, Live
  <2> QED
    BY <1>1, <1>5, <2>1, Leaving DEF Going, InHboot
<1> QED
  BY <1>4, <1>5 DEF allocate_buffer

\* What a write of one or two units does to the data.  It comes back complete only
\* if it fits, and only a piece that starts inside a chunk is lengthened.
Wrote(app, buf, ret, units, pos) ==
  /\ pos + ret <= buf.size /\ (app.n = ret \/ app.n = ret + 1)
  /\ \A k \in 1 .. pos : app.data[k] = buf.data[k]
  /\ \A k \in 1 .. ret : app.data[pos + k] = units[k]
  /\ pos % Page = 0 => app.n = ret /\ app.checksum = buf.checksum \o units

LEMMA AppendedData ==
  ASSUME NEW buf \in Buffers, NEW ret \in 1 .. Page, NEW units \in Seq(Units), Len(units) = ret,
         NEW pos \in Nat, Len(buf.data) = buf.size, pos < buf.size,
         ret <= Appended(buf, units, pos).n
  PROVE  Wrote(Appended(buf, units, pos), buf, ret, units, pos)
<1> DEFINE size  == Min2(Len(units), buf.size - pos)
           first == IF buf.type = "PLAIN" THEN size ELSE Min2(size, Page - (pos % Page))
           n     == IF first < size THEN first + size ELSE first
           piece == [k \in 1 .. n |-> IF k <= Len(units) THEN units[k] ELSE Dirt]
           data  == [k \in 1 .. buf.size |->
                       IF k - pos \in 1 .. n THEN piece[k - pos] ELSE buf.data[k]]
<1>1. Appended(buf, units, pos) = [n |-> n, data |-> data, checksum |-> buf.checksum \o piece]
  BY DEF Appended
<1>2. buf.size \in Nat /\ Page = 2 /\ ret \in {1, 2}
  BY DEF Buffers, Page
<1>3. size = (IF ret <= buf.size - pos THEN ret ELSE buf.size - pos) /\ size \in 1 .. ret
  BY <1>2 DEF Min2
<1>4. pos % Page \in {0, 1}
  BY <1>2
<1>5. first \in 1 .. size /\ (pos % Page = 0 => first = size)
  <2> HIDE DEF size
  <2> QED
    BY <1>2, <1>3, <1>4 DEF Min2
<1>6. n \in Nat /\ ret <= n /\ size = ret /\ pos + ret <= buf.size /\ (n = ret \/ n = ret + 1)
      /\ (pos % Page = 0 => n = ret)
  <2>1. ret <= n
    BY <1>1
  <2> HIDE DEF size, first
  <2> QED
    BY <1>2, <1>3, <1>5, <2>1
<1> HIDE DEF n
<1>7. \A k \in 1 .. pos : data[k] = buf.data[k]
  BY <1>2, <1>6
<1>8. \A k \in 1 .. ret : data[pos + k] = units[k]
  <2> SUFFICES ASSUME NEW k \in 1 .. ret PROVE data[pos + k] = units[k]
    OBVIOUS
  <2>1. pos + k \in 1 .. buf.size /\ (pos + k) - pos = k /\ k \in 1 .. n /\ k <= Len(units)
    BY <1>2, <1>6
  <2> QED
    BY <2>1
<1>9. ASSUME pos % Page = 0 PROVE buf.checksum \o piece = buf.checksum \o units
  <2>1. n = ret /\ \A k \in 1 .. n : k <= Len(units)
    BY <1>6, <1>9
  <2>2. piece = [k \in 1 .. ret |-> units[k]]
    BY <2>1
  <2>3. units = [k \in 1 .. ret |-> units[k]]
    BY SeqDef, LenProperties
  <2> QED
    BY <2>2, <2>3
<1> HIDE DEF data, piece
<1> QED
  BY <1>1, <1>6, <1>7, <1>8, <1>9 DEF Wrote

\* A write into the buffer being filled, of what was read of the file.
LEMMA CopyDelivers == ASSUME IInv, DInv, copy PROVE DInv'
<1>1. /\ pc = "copy" /\ selected = current /\ Live(current) /\ fpos < slots[current + 1].size
      /\ UNCHANGED <<build, run, desc, line, buffers, loader, current, selected, images>>
      /\ Own(current) /\ current \notin Range(buffers)
  BY DEF copy, CanAppend, DInv, BeingFilled, IInv, HandlesOwned, InHbootuser
<1>b. PICK b : b = slots[current + 1]
  OBVIOUS
<1>2. PICK ret \in Reads :
        LET app == Appended(b, [k \in 1 .. ret |-> FileUnit(at + k)], fpos)
        IN  /\ slots' = [slots EXCEPT ![current + 1] =
                            [@ EXCEPT !.data = app.data, !.checksum = app.checksum]]
            /\ fpos' = fpos + app.n
            /\ at' = at + ret
            /\ IF app.n < ret THEN pc' = "undo" /\ UNCHANGED written
                              ELSE written' = written + ret /\ UNCHANGED pc
  BY <1>1, <1>b DEF copy
<1> DEFINE units == [k \in 1 .. ret |-> FileUnit(at + k)]
           app   == Appended(b, units, fpos)
<1>3. b \in Buffers /\ current \in 0 .. Len(slots) - 1 /\ fpos \in Nat /\ Len(b.data) = b.size
      /\ b.size \in Nat /\ run \in Nat /\ line \in Nat /\ at \in Nat /\ written \in Nat
      /\ Len(slots) \in Nat
  <2>1. b \in Buffers /\ current \in 0 .. Len(slots) - 1
    BY <1>1, <1>b, LiveIsBuffer DEF IInv
  <2>2. b.size \in Nat
    BY <2>1 DEF Buffers
  <2>3. Len(b.data) = b.size /\ Len(slots) \in Nat
    BY <1>1, <1>b, <2>1, LenProperties DEF IInv, Table
  <2>4. fpos \in Nat /\ run \in Nat /\ line \in Nat /\ at \in Nat /\ written \in Nat
    BY BootAssumption DEF IInv, Rest, Program
  <2> QED
    BY <2>1, <2>2, <2>3, <2>4
<1>4. desc[line].source = "file" /\ b.tag = desc[line].tag /\ b.size = desc[line].size
      /\ (b.tag # IMG_HBOOT => b.verify) /\ at = written /\ written <= b.size /\ Copied(b)
      /\ (~ build.shortReads =>
            /\ fpos = written /\ (written % Page = 0 \/ written = b.size)
            /\ b.checksum = [k \in 1 .. written |-> FileUnit(k)])
  BY <1>1, <1>b DEF DInv, BeingFilled
<1>5. /\ ret \in 1 .. Page /\ written + ret <= b.size
      /\ ~ build.shortReads => (ret = Page \/ written + ret = b.size)
  <2> DEFINE most == Min2(Page, desc[line].size - at)
  <2>1. most <= Page /\ most \in Nat /\ written + most <= b.size
        /\ (most = Page \/ written + most = b.size)
    <3>1. PICK rest \in Nat : rest = b.size - written
      BY <1>3, <1>4
    <3>2. desc[line].size - at = rest /\ written + rest = b.size
      BY <1>3, <1>4, <3>1
    <3>3. most = IF 2 <= rest THEN 2 ELSE rest
      BY <3>2 DEF Min2, Page
    <3> HIDE DEF most
    <3> QED
      BY <1>3, <3>2, <3>3 DEF Page
  <2>2. ret \in 1 .. most \/ (ret = most /\ ret # 0)
    BY <1>2, Zenon DEF Reads
  <2>3. ~ build.shortReads => ret = most
    BY <1>2 DEF Reads
  <2> HIDE DEF most
  <2> QED
    BY <1>3, <2>1, <2>2, <2>3 DEF Page
<1>6. units \in Seq(Units) /\ Len(units) = ret
  <2>1. ret \in Nat /\ \A k \in 1 .. ret : FileUnit(at + k) \in Units
    BY <1>3, <1>5 DEF FileUnit, Units, Page
  <2> QED
    BY <2>1, IsASeq, LenProperties
<1>7. /\ app.n \in Nat /\ app.data \in Seq(Units) /\ Len(app.data) = b.size
      /\ app.checksum \in Seq(Units)
  <2> HIDE DEF units
  <2> QED
    BY <1>1, <1>b, <1>3, <1>6, AppendedOK
<1>f. PICK full : full = [b EXCEPT !.data = app.data, !.checksum = app.checksum]
  OBVIOUS
<1>8. /\ slots' = [slots EXCEPT ![current + 1] = full]
      /\ fpos' = fpos + app.n /\ at' = at + ret
      /\ IF app.n < ret THEN pc' = "undo" /\ UNCHANGED written
                        ELSE written' = written + ret /\ pc' = "copy"
  BY <1>1, <1>2, <1>b, <1>f
<1>9. /\ full.data = app.data /\ full.checksum = app.checksum /\ full.size = b.size
      /\ full.tag = b.tag /\ full.verify = b.verify /\ full.owner = b.owner /\ full # Free
  BY <1>3, <1>f, <1>7 DEF Buffers, Free
<1> DEFINE length == app.n
<1>10. \A k \in 1 .. ret : units[k] = FileUnit(written + k)
  BY <1>4
<1>11. ret <= length =>
         /\ fpos + ret <= b.size /\ (length = ret \/ length = ret + 1)
         /\ \A k \in 1 .. fpos : full.data[k] = b.data[k]
         /\ \A k \in 1 .. ret : full.data[fpos + k] = FileUnit(written + k)
         /\ fpos % Page = 0 => length = ret /\ full.checksum = b.checksum \o units
  <2> SUFFICES ASSUME ret <= app.n PROVE
         /\ fpos + ret <= b.size /\ (app.n = ret \/ app.n = ret + 1)
         /\ \A k \in 1 .. fpos : full.data[k] = b.data[k]
         /\ \A k \in 1 .. ret : full.data[fpos + k] = FileUnit(written + k)
         /\ fpos % Page = 0 => app.n = ret /\ full.checksum = b.checksum \o units
    OBVIOUS
  <2>1. fpos < b.size
    BY <1>1, <1>b
  <2> HIDE DEF units
  <2>3. Wrote(app, b, ret, units, fpos)
    BY <1>3, <1>5, <1>6, <2>1, AppendedData
  <2> HIDE DEF app
  <2> QED
    BY <1>9, <1>10, <2>3 DEF Wrote
<1> HIDE DEF app, units, length
<1>12. /\ slots'[current + 1] = full /\ Len(slots') = Len(slots)
       /\ \A k \in 1 .. Len(slots) : k # current + 1 => slots'[k] = slots[k]
  BY <1>3, <1>8, ExceptSeq DEF IInv, Table
<1>13. /\ \A h : Live(h)' <=> Live(h)
       /\ \A h : Live(h) => slots'[h + 1].owner = slots[h + 1].owner
       /\ \A h : Live(h) /\ h # current => slots'[h + 1] = slots[h + 1]
  BY <1>1, <1>b, <1>3, <1>9, <1>12 DEF Live
<1>14. CASE length < ret
  BY <1>1, <1>8, <1>13, <1>14, Leaving DEF Going, InHboot, length
<1>15. CASE ret <= length
  <2>1. Sorted'
    BY <1>13, SortedKept DEF DInv
  <2>2. written' = written + ret /\ pc' = "copy" /\ at' = written + ret /\ fpos' = fpos + length
        /\ length \in Nat
    <3>1. length \in Nat
      BY <1>7 DEF length
    <3>2. ret \in Nat /\ ~ (length < ret)
      BY <1>5, <1>15, <3>1 DEF Page
    <3> QED
      BY <1>4, <1>8, <3>1, <3>2 DEF length
  <2>3. \A h : Own(h)' <=> Own(h)
    BY <1>1, <1>13 DEF Own
  <2>4. \A h \in Range(buffers) : h # current /\ Own(h) /\ Descends(h) /\ slots'[h + 1] = slots[h + 1]
    BY <1>1, <1>13 DEF DInv, Delivered, Going, Own
  <2>5. \A h \in Range(buffers) : Descends(h)'
    BY <1>1, <1>3, <2>4, DescendsKept
  <2>6. Delivered'
    BY <1>1, <2>2, <2>3, <2>4, <2>5 DEF DInv, Delivered, Going, InHboot, Filling
  <2>7. Unpacking'
    BY <1>1, <2>2 DEF DInv, Unpacking, InHboot
  <2>8. /\ fpos + ret <= b.size /\ (length = ret \/ length = ret + 1)
        /\ \A k \in 1 .. fpos : full.data[k] = b.data[k]
        /\ \A k \in 1 .. ret : full.data[fpos + k] = FileUnit(written + k)
        /\ fpos % Page = 0 => length = ret /\ full.checksum = b.checksum \o units
    BY <1>11, <1>15
  <2>9. ret \in {1, 2} /\ Page = 2
    BY <1>5 DEF Page
  <2>10. fpos = written =>
           \A k \in 1 .. written + ret : full.data[k] = FileUnit(k)
    <3> SUFFICES ASSUME fpos = written, NEW k \in 1 .. written + ret,
                        \A j \in 1 .. written : b.data[j] = FileUnit(j)
                 PROVE  full.data[k] = FileUnit(k)
      BY <1>3, <1>4 DEF Copied
    <3>1. CASE k \in 1 .. written
      BY <2>8, <3>1
    <3>2. CASE k \notin 1 .. written
      <4>1. k - written \in 1 .. ret /\ written + (k - written) = k
        BY <1>3, <2>9, <3>2
      <4> QED
        BY <2>8, <4>1
    <3> QED
      BY <3>1, <3>2
  <2>11. written + ret = b.size /\ (\A k \in 1 .. written + ret : full.data[k] = FileUnit(k))
           => full.data = WholeFile(line)
    <3> SUFFICES ASSUME \A k \in 1 .. b.size : full.data[k] = FileUnit(k)
                 PROVE  full.data = [k \in 1 .. b.size |-> FileUnit(k)]
      BY <1>4 DEF WholeFile, FileUnit
    <3>1. full.data \in Seq(Units) /\ Len(full.data) = b.size
      BY <1>7, <1>9
    <3>2. full.data = [k \in 1 .. b.size |-> full.data[k]]
      BY <3>1, SeqDef, LenProperties
    <3> QED
      BY <3>2
  <2>12. fpos > written => written + ret < b.size
    BY <1>3, <2>8, <2>9
  <2>13. Copied(full)'
    <3>1. \/ fpos' = written' /\ \A k \in 1 .. written' : full.data[k] = FileUnit(k)
          \/ fpos' > written' /\ (written' < full.size \/ full.data = WholeFile(line))
      BY <1>3, <1>4, <1>5, <1>9, <2>2, <2>8, <2>9, <2>10, <2>11, <2>12 DEF Copied
    <3>2. \A k : FileUnit(k)' = FileUnit(k)
      BY <1>1 DEF FileUnit
    <3>3. WholeFile(line)' = WholeFile(line)
      BY <1>1 DEF WholeFile
    <3> QED
      BY <3>1, <3>2, <3>3 DEF Copied
  <2>14. ASSUME ~ build.shortReads
         PROVE  /\ fpos' = written' /\ (written' % Page = 0 \/ written' = full.size)
                /\ full.checksum = [k \in 1 .. written' |-> FileUnit(k)]
    <3>1. fpos = written /\ written % Page = 0 /\ b.checksum = [k \in 1 .. written |-> FileUnit(k)]
      BY <1>1, <1>b, <1>3, <1>4, <2>14
    <3>2. length = ret /\ full.checksum = b.checksum \o units
      BY <2>8, <3>1
    <3>3. (written + ret) % Page = 0 \/ written + ret = b.size
      BY <1>3, <1>5, <2>9, <2>14, <3>1
    <3>4. b.checksum \o units = [k \in 1 .. written + ret |-> FileUnit(k)]
      <4>1. b.checksum \in Seq(Units) /\ Len(b.checksum) = written
        <5>1. b.checksum \in Seq(Units)
          BY <1>3 DEF Buffers
        <5> QED
          BY <1>3, <3>1, <5>1, LenProperties
      <4>2. /\ b.checksum \o units \in Seq(Units) /\ Len(b.checksum \o units) = written + ret
            /\ \A k \in 1 .. written + ret :
                 (b.checksum \o units)[k] =
                    IF k <= written THEN b.checksum[k] ELSE units[k - written]
        BY <1>6, <4>1, ConcatProperties
      <4>3. \A k \in 1 .. written + ret : (b.checksum \o units)[k] = FileUnit(k)
        <5> SUFFICES ASSUME NEW k \in 1 .. written + ret
                     PROVE  (b.checksum \o units)[k] = FileUnit(k)
          OBVIOUS
        <5>1. CASE k <= written
          BY <1>3, <3>1, <4>2, <5>1
        <5>2. CASE ~ (k <= written)
          <6>1. k - written \in 1 .. ret /\ written + (k - written) = k
            BY <1>3, <2>9, <5>2
          <6> QED
            BY <1>10, <4>2, <5>2, <6>1
        <5> QED
          BY <5>1, <5>2
      <4> QED
        BY <1>3, <2>9, <4>2, <4>3, SeqDef, LenProperties
    <3> QED
      BY <1>9, <2>2, <3>1, <3>2, <3>3, <3>4
  <2>15. BeingFilled'
    <3>1. /\ desc[line].source = "file" /\ full.tag = desc[line].tag /\ full.size = desc[line].size
          /\ full.tag # IMG_HBOOT => full.verify
          /\ at' = written' /\ written' <= full.size
      BY <1>4, <1>5, <1>9, <2>2
    <3>2. \A k : FileUnit(k)' = FileUnit(k)
      BY <1>1 DEF FileUnit
    <3> QED
      BY <1>1, <1>12, <2>2, <2>13, <2>14, <3>1, <3>2 DEF BeingFilled
  <2> QED
    BY <2>1, <2>6, <2>7, <2>15 DEF DInv
<1> QED
  BY <1>7, <1>5, <1>14, <1>15 DEF Page, length

\* fd2fd has returned 0: the file is there, or the checksum tells.
LEMMA CopiedDelivers == ASSUME FailuresShow, IInv, DInv, copied PROVE DInv'
<1>1. /\ pc = "copy" /\ pc' = "line" /\ LineDone(current) /\ Own(current) /\ current \in Nat
      /\ UNCHANGED <<build, run, desc, slots, images>>
      /\ written >= desc[line].size \/ at >= desc[line].size \/ build.readErrors
  <2>1. pc = "copy" /\ pc' = "line" /\ LineDone(current) /\ Own(current)
        /\ UNCHANGED <<build, run, desc, slots, images>>
    BY DEF copied, driver, IInv, HandlesOwned, InHbootuser
  <2>2. current \in Nat
    BY <2>1, LiveIsBuffer, LenProperties DEF Own, IInv, Table
  <2> QED
    BY <2>1, <2>2 DEF copied
<1>c. PICK h : h = current
  OBVIOUS
<1>b. PICK b : b = slots[h + 1]
  OBVIOUS
<1>2. b \in Buffers /\ Len(b.data) = b.size /\ b.size \in Nat /\ fpos \in Nat /\ written \in Nat
      /\ line \in Nat \ {0} /\ line <= Len(desc) /\ Len(desc) \in Nat /\ build \in Builds
  <2>1. b \in Buffers /\ Len(b.data) = b.size
    BY <1>1, <1>b, <1>c, LiveIsBuffer DEF IInv, Own, Table
  <2>2. b.size \in Nat
    BY <2>1 DEF Buffers
  <2> QED
    BY <1>1, <2>1, <2>2, LenProperties DEF IInv, Rest, Program
<1>3. desc[line].source = "file" /\ b.tag = desc[line].tag /\ b.size = desc[line].size
      /\ (b.tag # IMG_HBOOT => b.verify) /\ at = written /\ written <= b.size /\ Copied(b)
      /\ (~ build.shortReads =>
            /\ fpos = written
            /\ b.checksum = [k \in 1 .. written |-> FileUnit(k)])
  BY <1>1, <1>b, <1>c DEF DInv, BeingFilled
<1>4. written = b.size => b.data = WholeFile(line)
  <2> SUFFICES ASSUME written = b.size, \A k \in 1 .. b.size : b.data[k] = FileUnit(k)
               PROVE  b.data = [k \in 1 .. b.size |-> FileUnit(k)]
    BY <1>2, <1>3 DEF Copied, WholeFile, FileUnit
  <2>1. b.data \in Seq(Units)
    BY <1>2 DEF Buffers
  <2>2. b.data = [k \in 1 .. b.size |-> b.data[k]]
    BY <1>2, <2>1, SeqDef, LenProperties
  <2> QED
    BY <2>2
<1>5. Sound(b, line)
  <2>1. CASE written = b.size
    BY <1>4, <2>1 DEF Sound
  <2>2. CASE written # b.size
    <3>1. build.crc /\ ~ build.shortReads
      BY <1>1, <1>2, <1>3, <2>2 DEF FailuresShow
    <3>2. ASSUME b.checksum = b.data PROVE FALSE
      <4>1. b.checksum \in Seq(Units) /\ b.checksum = [k \in 1 .. written |-> FileUnit(k)]
        BY <1>2, <1>3, <3>1 DEF Buffers
      <4>2. Len(b.checksum) = written
        BY <1>2, <4>1, LenProperties
      <4> QED
        BY <1>2, <2>2, <3>2, <4>2
    <3> QED
      BY <3>1, <3>2 DEF Sound
  <2> QED
    BY <2>1, <2>2
<1>6. Descends(h)'
  <2>1. line' = line + 1
    BY <1>1 DEF LineDone
  <2>2. PICK l : l = line
    OBVIOUS
  <2>3. WholeFile(l)' = WholeFile(l)
    BY <1>1 DEF WholeFile
  <2>4. Sound(b, l)'
    BY <1>1, <1>5, <2>2, <2>3 DEF Sound
  <2>5. l \in 1 .. line' - 1 /\ desc'[l].source \in Shipped /\ desc'[l].tag = b.tag
    BY <1>1, <1>2, <1>3, <2>1, <2>2 DEF Shipped
  <2>6. slots'[h + 1] = b
    BY <1>1, <1>b
  <2> QED
    BY <1>3, <2>4, <2>5, <2>6 DEF Descends
<1>7. Sorted'
  BY <1>1, SortedKept DEF DInv, Live
<1>8. /\ \A g : Live(g)' <=> Live(g)
      /\ \A g : Own(g)' <=> Own(g)
  BY <1>1 DEF Own, Live
<1>9. \A g : Own(g) => g \in Range(buffers) \/ g = h
  BY <1>1, <1>c DEF DInv, Delivered, Going
<1> QED
  BY <1>1, <1>2, <1>3, <1>6, <1>7, <1>8, <1>9, <1>b, <1>c, LineDelivers DEF Shipped

\* The attempt is given up.
LEMMA EndDelivers ==
  ASSUME IInv, DInv, bad_line \/ copy_refused \/ undo \/ out \/ killed PROVE DInv'
<1>1. pc \in InHbootuser /\ UNCHANGED images /\ pc' \notin Going
  BY DEF bad_line, copy_refused, undo, out, killed, InHbootuser, Going, InHboot
<1>2. pc \notin InHboot
  BY <1>1 DEF InHbootuser, InHboot
<1>3. CASE UNCHANGED slots
  BY <1>1, <1>2, <1>3, Leaving DEF Live
<1>4. CASE ~ UNCHANGED slots
  <2>1. PICK g : Live(g) /\ FreeSlot(g)
    BY <1>4 DEF bad_line, copy_refused, undo, out, killed, driver
  <2> QED
    BY <1>1, <1>2, <2>1, Freed, Leaving DEF IInv
<1> QED
  BY <1>3, <1>4

\* A stutter.
LEMMA StutterDelivers == ASSUME IInv, DInv, UNCHANGED vars PROVE DInv'
<1>1. /\ UNCHANGED <<build, pc, run, desc, line, buffers, loader, current, written, at,
                     slots, selected, fpos, list, images>>
      /\ line \in Nat
  BY DEF vars, user, driver, IInv, Program
<1>2. Sorted'
  BY <1>1, SortedKept DEF DInv, Live
<1>3. /\ \A h : Own(h)' <=> Own(h)
      /\ \A h : Descends(h) => Descends(h)'
  BY <1>1, DescendsKept DEF Own, Live
<1>4. MoreLines' = MoreLines /\ Done' = Done /\ BootList(loader)' = BootList(loader)
      /\ image_complete' = image_complete
  BY <1>1 DEF MoreLines, Done, BootList, Live, image_complete, ChecksumGood
<1>5. Delivered'
  BY <1>1, <1>3, <1>4 DEF DInv, Delivered, Filling
<1>6. BeingFilled'
  <2>1. \A b : Copied(b)' <=> Copied(b)
    BY <1>1 DEF Copied, FileUnit, WholeFile
  <2>2. [k \in 1 .. written |-> FileUnit(k)]' = [k \in 1 .. written |-> FileUnit(k)]
    BY <1>1 DEF FileUnit
  <2>3. slots'[current' + 1] = slots[current + 1]
    BY <1>1
  <2> QED
    BY <1>1, <2>1, <2>2, <2>3 DEF DInv, BeingFilled, Copied, FileUnit, WholeFile
<1>7. Unpacking'
  BY <1>1, <1>4 DEF DInv, Unpacking
<1> QED
  BY <1>2, <1>5, <1>6, <1>7 DEF DInv

\* At the start there is nothing.
LEMMA InitDInv == Init => DInv
<1> SUFFICES ASSUME Init PROVE DInv
  OBVIOUS
<1> QED
  BY DEF Init, DInv, Sorted, Delivered, BeingFilled, Unpacking, Live, Going, InHboot, NoImage

\* Every step keeps what the images rest on.
LEMMA NextDInv == ASSUME FailuresShow PROVE IInv /\ DInv /\ [Next]_vars => DInv'
<1> SUFFICES ASSUME IInv, DInv, [Next]_vars PROVE DInv'
  OBVIOUS
<1>1. CASE Next
  BY <1>1, StartDelivers, SkipLineDelivers, EndOfLinesDelivers, AllocateBufferDelivers,
     SelectBufferDelivers, CopyDelivers, CopiedDelivers, HbootBootDelivers,
     ProccessBufferDelivers, MainDelivers, EndDelivers
     DEF Next
<1>2. CASE UNCHANGED vars
  BY <1>2, StutterDelivers
<1> QED
  BY <1>1, <1>2

\* The two invariants together.
LEMMA DeliveryInvariant == ASSUME FailuresShow PROVE Spec => [](IInv /\ DInv)
<1>1. Init => IInv /\ DInv
  BY InitIInv, InitDInv
<1>2. IInv /\ DInv /\ [Next]_vars => (IInv /\ DInv)'
  BY StepKeeps, NextDInv
<1> QED
  BY <1>1, <1>2, PTL DEF Spec

\* The image of a tag that a line of this start asked for is the file of such a line.
LEMMA ImageOfLine ==
  ASSUME IInv, DInv, pc = "kernel", NEW t \in Tags \ {IMG_HBOOT}, images[t].state = "COMPLETED",
         NEW l \in 1 .. line - 1, desc[l].source \in Shipped, desc[l].tag = t
  PROVE  \E m \in 1 .. line - 1 :
           m <= Len(desc) /\ desc[m].tag = t /\ images[t].data = WholeFile(m)
<1>1. PICK h \in Done :
        /\ slots[h + 1].tag = t /\ slots[h + 1].type # "NAND"
        /\ images[t].data = slots[h + 1].data
        /\ images[t].checksum = slots[h + 1].checksum
        /\ images[t].verify = slots[h + 1].verify
        /\ \A g \in Done : slots[g + 1].tag = t => g <= h
  BY DEF DInv, Unpacking, InHboot
<1>2. /\ list = {} /\ image_complete
      /\ \A g \in Range(buffers) : Own(g) /\ Descends(g)
      /\ \A g : Own(g) => g \in Range(buffers)
      /\ loader \in Range(buffers) /\ slots[loader + 1].tag = IMG_HBOOT
      /\ \A m \in 1 .. line - 1 : m <= Len(desc)
  BY DEF DInv, Delivered, Unpacking, Going, InHboot, Filling
<1>3. PICK g \in Range(buffers) : slots[g + 1].tag = t
  BY DEF DInv, Delivered, Going, InHboot
<1>4. Own(g) /\ g \in Done /\ Live(h)
  <2>1. g # loader
    BY <1>2, <1>3
  <2> QED
    BY <1>1, <1>2, <2>1 DEF Done, BootList, Own, Live
<1>5. Own(h)
  <2>1. /\ g <= h /\ slots[g + 1].owner = run /\ slots[h + 1].owner <= run
        /\ g \in 0 .. Len(slots) - 1 /\ h \in 0 .. Len(slots) - 1 /\ Live(g)
    BY <1>1, <1>3, <1>4 DEF IInv, OwnersPast, Own, Live
  <2>2. slots[h + 1].owner \in Nat /\ run \in Nat
    BY <1>4, LiveIsBuffer, BootAssumption DEF IInv, Program, Buffers
  <2>3. g # h => slots[g + 1].owner <= slots[h + 1].owner
    BY <1>4, <2>1 DEF DInv, Sorted
  <2> QED
    BY <1>4, <2>1, <2>2, <2>3 DEF Own
<1>6. PICK m \in 1 .. line - 1 :
        /\ desc[m].tag = slots[h + 1].tag
        /\ \/ slots[h + 1].type = "NAND"
           \/ (slots[h + 1].tag # IMG_HBOOT => slots[h + 1].verify) /\ Sound(slots[h + 1], m)
  BY <1>2, <1>5 DEF Descends
<1>7. build.crc => slots[h + 1].checksum = slots[h + 1].data
  BY <1>1, <1>2, <1>6 DEF image_complete, ChecksumGood
<1> QED
  BY <1>1, <1>2, <1>6, <1>7 DEF Sound

\* The image of any other tag is in a buffer of a start that was killed.
LEMMA ImageLeft ==
  ASSUME IInv, DInv, pc = "kernel", NEW t \in Tags \ {IMG_HBOOT}, images[t].state = "COMPLETED",
         ~ Asked(t)
  PROVE  \E h \in 0 .. Len(slots) - 1 :
           Live(h) /\ slots[h + 1].owner # run /\ slots[h + 1].tag = t
             /\ images[t].data = slots[h + 1].data
<1>1. PICK h \in Done : slots[h + 1].tag = t /\ images[t].data = slots[h + 1].data
  BY DEF DInv, Unpacking, InHboot
<1>2. Live(h) /\ h \in 0 .. Len(slots) - 1
  BY <1>1 DEF Done, BootList
<1>3. ASSUME slots[h + 1].owner = run PROVE FALSE
  <2>1. Descends(h)
    BY <1>2, <1>3 DEF DInv, Delivered, Going, InHboot, Filling, Own
  <2>2. Asked(t)
    BY <1>1, <2>1 DEF Descends, Asked, Shipped
  <2> QED
    BY <2>2
<1> QED
  BY <1>1, <1>2, <1>3

\* The kernel finds the whole file of a line of this attempt for every tag that a
\* line asked for, whatever was killed before, whatever the sizes, the buffer types and
\* the short reads: if failing reads show.  For a tag that no line asked for it finds
\* nothing, or a buffer that a killed start left.
THEOREM ImagesAreIntact == ASSUME FailuresShow PROVE Spec => []ImagesIntact
<1>1. ASSUME IInv, DInv PROVE ImagesIntact
  <2> SUFFICES ASSUME pc = "kernel", NEW t \in Tags \ {IMG_HBOOT}, images[t].state = "COMPLETED"
               PROVE  \/ FromLine(t)
                      \/ /\ ~ Asked(t)
                         /\ \E h \in 0 .. Len(slots) - 1 :
                              Live(h) /\ slots[h + 1].owner # run /\ slots[h + 1].tag = t
                                /\ images[t].data = slots[h + 1].data
    BY DEF ImagesIntact
  <2>1. CASE Asked(t)
    BY <1>1, <2>1, ImageOfLine DEF Asked, Shipped, FromLine
  <2>2. CASE ~ Asked(t)
    BY <1>1, <2>2, ImageLeft
  <2> QED
    BY <2>1, <2>2
<1>2. IInv /\ DInv => ImagesIntact
  BY <1>1
<1> QED
  BY <1>2, DeliveryInvariant, PTL

\* A line of the descriptor asks for a buffer with the tag.
Asks(d, t) == \E i \in 1 .. Len(d) : d[i].tag = t /\ d[i].source \in Shipped

\* A descriptor with a loader also has a kernel, and no more lines than are read.
\* (So have hboot.cfg and hboot_recovery.cfg.)
KernelsShipped ==
  \A d \in Descriptors : Asks(d, IMG_HBOOT) => Len(d) <= MaxLines /\ Asks(d, IMG_LINUX)

\* A descriptor with a loader has every image.  (So have these two.)
AllShipped ==
  \A d \in Descriptors :
    Asks(d, IMG_HBOOT) => Len(d) <= MaxLines /\ \A t \in Tags \ {IMG_HBOOT} : Asks(d, t)

\* At the kernel a descriptor that is not too long has been read to its end.
LEMMA AllRead ==
  ASSUME IInv, DInv, pc = "kernel", Asks(desc, IMG_HBOOT) => Len(desc) <= MaxLines
  PROVE  Asks(desc, IMG_HBOOT) /\ \A t : Asks(desc, t) => Asked(t)
<1>1. /\ Len(buffers) <= line - 1 /\ ~ MoreLines
      /\ \A g \in Range(buffers) : Own(g) /\ Descends(g)
      /\ loader \in Range(buffers) /\ slots[loader + 1].tag = IMG_HBOOT
      /\ \A m \in 1 .. line - 1 : m <= Len(desc)
  BY DEF DInv, Delivered, Going, InHboot
<1>2. line \in Nat /\ Len(desc) \in Nat /\ Len(buffers) \in Nat
  BY LenProperties DEF IInv, Program
<1>3. PICK l \in 1 .. line - 1 : desc[l].tag = IMG_HBOOT /\ desc[l].source \in Shipped
  BY <1>1 DEF Descends
<1>4. l \in 1 .. Len(desc)
  BY <1>1, <1>2, <1>3
<1>5. Asks(desc, IMG_HBOOT)
  BY <1>3, <1>4 DEF Asks
<1>6. line > Len(desc)
  BY <1>1, <1>2, <1>5, BootAssumption DEF MoreLines
<1>7. 1 .. Len(desc) \subseteq 1 .. line - 1
  BY <1>2, <1>6
<1> QED
  BY <1>5, <1>7 DEF Asks, Asked, Shipped

\* The descriptor is one of those there are.
LEMMA DescriptorKnown == Spec => [](pc # "menu" => desc \in Descriptors)
<1>1. Init => (pc # "menu" => desc \in Descriptors)
  BY DEF Init
<1>2. (pc # "menu" => desc \in Descriptors) /\ [Next]_vars => (pc # "menu" => desc \in Descriptors)'
  BY DEF Next, vars, user, start, skip_line, bad_line, end_of_lines, allocate_buffer, select_buffer,
         copy, copy_refused, copied, undo, out, killed, hboot_boot, proccess_buffer, main
<1> QED
  BY <1>1, <1>2, PTL DEF Spec

\* The kernel is entered only with the whole kernel image of this attempt, if
\* failing reads show and every descriptor with a loader has a kernel.
THEOREM KernelIsIntact == ASSUME FailuresShow, KernelsShipped PROVE Spec => []KernelIntact
<1>1. ASSUME IInv, DInv, desc \in Descriptors, pc = "kernel" PROVE KernelIntact
  <2>1. Asked(IMG_LINUX) /\ images[IMG_LINUX].state = "COMPLETED"
    BY <1>1, AllRead DEF KernelsShipped, DInv, Unpacking
  <2>2. IMG_LINUX \in Tags \ {IMG_HBOOT}
    BY DEF IMG_LINUX, IMG_HBOOT, Tags
  <2>3. PICK l \in 1 .. line - 1 :
          l <= Len(desc) /\ desc[l].tag = IMG_LINUX /\ images[IMG_LINUX].data = WholeFile(l)
    BY <1>1, <2>1, <2>2, ImageOfLine DEF Asked, Shipped
  <2>4. Len(desc) \in Nat /\ line \in Nat
    BY <1>1, LenProperties DEF IInv, Program
  <2> QED
    BY <2>3, <2>4 DEF KernelIntact
<1>2. IInv /\ DInv /\ (pc # "menu" => desc \in Descriptors) => KernelIntact
  BY <1>1 DEF KernelIntact
<1> QED
  BY <1>2, DescriptorKnown, DeliveryInvariant, PTL

\* Nothing of a killed start reaches the kernel, if failing reads show and every
\* descriptor with a loader has every image, as the two that are shipped.
THEOREM ShippedImagesAreOwn == ASSUME FailuresShow, AllShipped PROVE Spec => []ImagesOwn
<1>1. ASSUME IInv, DInv, desc \in Descriptors, pc = "kernel",
             NEW t \in Tags \ {IMG_HBOOT}, images[t].state = "COMPLETED"
      PROVE  FromLine(t)
  <2>1. Asked(t)
    BY <1>1, AllRead DEF AllShipped
  <2> QED
    BY <1>1, <2>1, ImageOfLine DEF Asked, Shipped, FromLine
<1>2. IInv /\ DInv /\ (pc # "menu" => desc \in Descriptors) => ImagesOwn
  BY <1>1 DEF ImagesOwn
<1> QED
  BY <1>2, DescriptorKnown, DeliveryInvariant, PTL

=============================================================================
