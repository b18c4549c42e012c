--------------------------- MODULE SensorsPollProofs ---------------------------
(***************************************************************************)
(* That readEvents never stores behind the buffer of the service, and that *)
(* a sensor that stays on has every sample delivered once and in order, for *)
(* any drivers with any number of sensors, any ring and any room.           *)
(*                                                                          *)
(* The loop over the bits of mPendingMask takes sensors while there is room.*)
(* That what it takes fits is a fact about counting: the last sensor that  *)
(* is delivered has all the others before it, and before it there was room.  *)
(*                                                                          *)
(* The ring and the data file of a driver are one queue: fill leaves it as *)
(* it is, next takes its first event, the driver appends to it.  A sample   *)
(* that has left it and is not delivered is put at place 0 of it.  Then the *)
(* samples of a sensor are in order because between two of its events there *)
(* is a SYN, at which the first is delivered; and KXTF9, which delivers at  *)
(* every SYN, delivers one twice only for an event that it dropped, because *)
(* there is an event before every SYN.                                      *)
(***************************************************************************)
EXTENDS SensorsPoll, SequenceTheorems, FiniteSetTheorems, WellFoundedInduction,
        NaturalsInduction, TLAPS

-----------------------------------------------------------------------------
(* Numbers and sensors.                                                    *)

\* A set of numbers has a least one.
LEMMA Least ==
  ASSUME NEW S, S \subseteq Nat, S # {}
  PROVE  \E m \in S : \A k \in S : m <= k
<1>1. PICK m \in S : \A k \in S : ~ (<<k, m>> \in OpToRel(<, Nat))
  BY NatLessThanWellFounded, WFMin
<1>2. \A k \in S : ~ (k < m)
  BY <1>1 DEF OpToRel
<1>3. \A k \in S : m <= k
  BY <1>2
<1> QED BY <1>3

\* A set of numbers up to n has a greatest element.
LEMMA Greatest ==
  ASSUME NEW n \in Nat, NEW T, T \subseteq 1 .. n, T # {}
  PROVE  \E m \in T : \A k \in T : k <= m
<1> DEFINE U == {n - k : k \in T}
<1>1. U \subseteq Nat /\ U # {}
  <2>1. \A k \in T : n - k \in Nat
    OBVIOUS
  <2> QED BY <2>1
<1>2. PICK u \in U : \A v \in U : ~ (<<v, u>> \in OpToRel(<, Nat))
  BY <1>1, NatLessThanWellFounded, WFMin
<1>3. \A v \in U : ~ (v < u)
  BY <1>1, <1>2 DEF OpToRel
<1>4. PICK m \in T : u = n - m
  OBVIOUS
<1>5. \A k \in T : k <= m
  BY <1>3, <1>4
<1> QED BY <1>5

\* Every sensor of a driver has its own bit.
LEMMA Positions ==
  ASSUME NEW d \in Drivers
  PROVE  /\ Len(Sensors[d]) \in Nat /\ IsFiniteSet(ToSet(Sensors[d]))
         /\ \A s \in ToSet(Sensors[d]) : PositionOf(d, s) \in 1 .. Len(Sensors[d])
         /\ \A s, t \in ToSet(Sensors[d]) : PositionOf(d, s) = PositionOf(d, t) => s = t
<1> DEFINE n == Len(Sensors[d])  S == ToSet(Sensors[d])  pos(s) == PositionOf(d, s)
<1>1. Sensors[d] \in Seq(All) /\ n \in Nat /\ DOMAIN Sensors[d] = 1 .. n
  BY SensorsAssumption DEF Drivers
<1>2. \A s \in S : pos(s) \in 1 .. n /\ Sensors[d][pos(s)] = s
  BY <1>1 DEF ToSet, PositionOf
<1>3. \A s, t \in S : pos(s) = pos(t) => s = t
  BY <1>2
<1>4. IsFiniteSet(S)
  <2> DEFINE f == [s \in S |-> pos(s)]
  <2>1. f \in Injection(S, 1 .. n)
    BY <1>2, <1>3 DEF Injection, IsInjective
  <2>2. IsFiniteSet(1 .. n)
    <3> HIDE DEF n
    <3> QED BY <1>1, FS_Interval
  <2> QED BY <2>1, <2>2, FS_Injection
<1> QED BY <1>1, <1>2, <1>3, <1>4

\* What the loop delivers fits in the room that is left.
LEMMA TakenFits ==
  ASSUME i \in Drivers, NEW left \in Nat \ {0}
  PROVE  Cardinality(Taken(left) \cap enabled) \in 0 .. left
<1> DEFINE E == Pending \cap enabled
           n == Len(Sensors[i])
           pos(s) == PositionOf(i, s)
           Before(s) == {t \in E : pos(t) < pos(s)}
           T == {s \in E : Cardinality(Before(s)) < left}
<1>1. Taken(left) \cap enabled = T
  BY DEF Taken, Pending
<1>2. /\ n \in Nat /\ IsFiniteSet(E) /\ \A s \in E : pos(s) \in 1 .. n
      /\ \A s, t \in E : pos(s) = pos(t) => s = t
  <2>1. E \in SUBSET ToSet(Sensors[i])
    BY DEF Pending
  <2> QED BY <2>1, Positions, FS_Subset
<1> HIDE DEF E, n, pos
<1>3. IsFiniteSet(T) /\ Cardinality(T) \in Nat
  BY <1>2, FS_Subset, FS_CardinalityType
<1>4. CASE T = {}
  <2> HIDE DEF T
  <2>1. Cardinality(Taken(left) \cap enabled) = 0
    BY <1>1, <1>4, FS_EmptySet
  <2> QED BY <2>1
<1>5. CASE T # {}
  <2> DEFINE P == {pos(s) : s \in T}
  <2>1. PICK m \in T : \A s \in T : pos(s) <= pos(m)
    <3>1. P \subseteq 1 .. n /\ P # {}
      BY <1>2, <1>5
    <3>2. PICK k \in P : \A l \in P : l <= k
      <4> HIDE DEF P
      <4> QED BY <1>2, <3>1, Greatest
    <3> QED BY <3>2
  <2>2. T \ {m} \subseteq Before(m)
    <3>1. \A s \in T \ {m} : pos(s) \in Nat /\ pos(m) \in Nat /\ pos(s) <= pos(m) /\ pos(s) # pos(m)
      BY <1>2, <2>1
    <3> QED BY <3>1
  <2>3. Cardinality(Before(m)) < left
    BY <2>1
  <2>4. IsFiniteSet(Before(m)) /\ Cardinality(Before(m)) \in Nat
    BY <1>2, FS_Subset, FS_CardinalityType
  <2> HIDE DEF T, Before
  <2>5. Cardinality(T \ {m}) = Cardinality(T) - 1
    BY <1>3, <2>1, FS_RemoveElement
  <2>6. Cardinality(T \ {m}) <= Cardinality(Before(m))
    BY <2>2, <2>4, FS_Subset
  <2> QED BY <1>1, <1>3, <2>3, <2>4, <2>5, <2>6
<1> QED BY <1>4, <1>5
-----------------------------------------------------------------------------
(* The ring.                                                               *)

\* Where mHead is when mCurr is at c and a events are held: it stays at the end of the
\* ring, rather than to go to its start, until something is read there.
HeadAt(h, c, a) == \/ c + a <= Size /\ h = c + a
                   \/ c + a >= Size /\ h = c + a - Size
                   \/ c + a = 0 /\ h = Size

Ring(r) ==
  /\ r \in [buffer : [0 .. 2 * Size - 1 -> Events], head : 0 .. Size, curr : 0 .. Size - 1,
            free : 0 .. Size]
  /\ HeadAt(r.head, r.curr, Size - r.free)

\* A ring with these contents.
RingOf(r, b, h, c, a) ==
  /\ b \in [0 .. 2 * Size - 1 -> Events] /\ h \in 0 .. Size /\ c \in 0 .. Size - 1 /\ a \in 0 .. Size
  /\ HeadAt(h, c, a)
  /\ r = [buffer |-> b, head |-> h, curr |-> c, free |-> Size - a]

\* The ring holds something.
LEMMA SizeIs == Size \in Nat /\ Size > 0
BY SensorsAssumption

\* Positions in the ring when an event is taken off, ...
LEMMA NextPlaces ==
  ASSUME NEW c \in 0 .. Size - 1, NEW a \in 1 .. Size, NEW h \in 0 .. Size, HeadAt(h, c, a)
  PROVE  LET d == IF c + 1 >= Size THEN 0 ELSE c + 1
         IN  /\ d \in 0 .. Size - 1 /\ HeadAt(h, d, a - 1) /\ Slot(c, 0) = c
             /\ \A k \in 1 .. a - 1 : Slot(d, k - 1) = Slot(c, k) /\ Slot(d, k - 1) # c
                                      /\ Slot(d, k - 1) \in 0 .. 2 * Size - 1
<1>0. Size \in Nat /\ Size > 0
  BY SizeIs
<1>1. CASE c + 1 >= Size
  <2>1. c = Size - 1
    BY <1>0, <1>1
  <2>2. HeadAt(h, 0, a - 1)
    BY <1>0, <2>1 DEF HeadAt
  <2>3. ASSUME NEW k \in 1 .. a - 1
        PROVE  Slot(0, k - 1) = Slot(c, k) /\ Slot(0, k - 1) # c /\ Slot(0, k - 1) \in 0 .. 2 * Size - 1
    BY <1>0, <2>1 DEF Slot
  <2>4. Slot(c, 0) = c
    BY <1>0, <2>1 DEF Slot
  <2> QED BY <1>0, <1>1, <2>2, <2>3, <2>4
<1>2. CASE ~ (c + 1 >= Size)
  <2>2. HeadAt(h, c + 1, a - 1)
    BY <1>0, <1>2 DEF HeadAt
  <2>3. ASSUME NEW k \in 1 .. a - 1
        PROVE  Slot(c + 1, k - 1) = Slot(c, k) /\ Slot(c + 1, k - 1) # c /\ Slot(c + 1, k - 1) \in 0 .. 2 * Size - 1
    BY <1>0, <1>2 DEF Slot
  <2>4. Slot(c, 0) = c /\ c + 1 \in 0 .. Size - 1
    BY <1>0, <1>2 DEF Slot
  <2> QED BY <1>0, <1>2, <2>2, <2>3, <2>4
<1> QED BY <1>1, <1>2

\* ... and when n are put in behind mHead, which is then at g: where they are, and that
\* they are not put where the others are.
PutAt(c, a, h, n, g) ==
  /\ g \in 0 .. Size /\ HeadAt(g, c, a + n)
  /\ \A k \in 1 .. a : /\ Slot(c, k - 1) \in 0 .. Size - 1 /\ ~ (Slot(c, k - 1) < h + n - Size)
                       /\ Slot(c, k - 1) + 1 - h \notin 1 .. n
  /\ \A k \in 1 .. n : /\ Slot(c, a + k - 1) \in 0 .. Size - 1
                       /\ IF Slot(c, a + k - 1) < h + n - Size
                          THEN Size + Slot(c, a + k - 1) + 1 - h = k
                          ELSE Slot(c, a + k - 1) + 1 - h = k

LEMMA FillPlaces ==
  ASSUME NEW c \in 0 .. Size - 1, NEW a \in 0 .. Size, NEW h \in 0 .. Size, HeadAt(h, c, a),
         NEW n \in 0 .. Size - a
  PROVE  PutAt(c, a, h, n, IF h + n > Size THEN h + n - Size ELSE h + n)
<1>0. Size \in Nat /\ Size > 0
  BY SizeIs
<1>1. ASSUME NEW k \in 1 .. a
      PROVE  /\ Slot(c, k - 1) \in 0 .. Size - 1 /\ ~ (Slot(c, k - 1) < h + n - Size)
             /\ Slot(c, k - 1) + 1 - h \notin 1 .. n
  <2>1. CASE c + a <= Size /\ h = c + a
    BY <1>0, <2>1 DEF Slot
  <2>2. CASE c + a >= Size /\ h = c + a - Size
    BY <1>0, <2>2 DEF Slot
  <2>3. CASE c + a = 0 /\ h = Size
    BY <1>0, <2>3 DEF Slot
  <2> QED BY <2>1, <2>2, <2>3 DEF HeadAt
<1>2. ASSUME NEW k \in 1 .. n
      PROVE  /\ Slot(c, a + k - 1) \in 0 .. Size - 1
             /\ IF Slot(c, a + k - 1) < h + n - Size THEN Size + Slot(c, a + k - 1) + 1 - h = k
                ELSE Slot(c, a + k - 1) + 1 - h = k
  <2>1. CASE c + a <= Size /\ h = c + a
    BY <1>0, <2>1 DEF Slot
  <2>2. CASE c + a >= Size /\ h = c + a - Size
    BY <1>0, <2>2 DEF Slot
  <2>3. CASE c + a = 0 /\ h = Size
    BY <1>0, <2>3 DEF Slot
  <2> QED BY <2>1, <2>2, <2>3 DEF HeadAt
<1>3. h + n > Size => h + n - Size \in 0 .. Size /\ HeadAt(h + n - Size, c, a + n)
  <2> SUFFICES ASSUME h + n > Size PROVE h + n - Size \in 0 .. Size /\ HeadAt(h + n - Size, c, a + n)
    OBVIOUS
  <2> QED BY <1>0 DEF HeadAt
<1>4. ~ (h + n > Size) => h + n \in 0 .. Size /\ HeadAt(h + n, c, a + n)
  <2> SUFFICES ASSUME ~ (h + n > Size) PROVE h + n \in 0 .. Size /\ HeadAt(h + n, c, a + n)
    OBVIOUS
  <2> QED BY <1>0 DEF HeadAt
<1> DEFINE g == IF h + n > Size THEN h + n - Size ELSE h + n
<1>5. g \in 0 .. Size /\ HeadAt(g, c, a + n)
  BY <1>3, <1>4
<1> HIDE DEF g
<1>6. PutAt(c, a, h, n, g)
  BY <1>1, <1>2, <1>5, Zenon DEF PutAt
<1> QED BY <1>6 DEF g

\* The fields of a ring.
LEMMA RingFields ==
  ASSUME NEW r, Ring(r)
  PROVE  \E b, h, c, a : RingOf(r, b, h, c, a)
<1>0. Size \in Nat /\ Size > 0
  BY SizeIs
<1>1. r \in [buffer : [0 .. 2 * Size - 1 -> Events], head : 0 .. Size, curr : 0 .. Size - 1,
             free : 0 .. Size]
  BY DEF Ring
<1>2. PICK b \in [0 .. 2 * Size - 1 -> Events], h \in 0 .. Size, c \in 0 .. Size - 1, f \in 0 .. Size :
        r = [buffer |-> b, head |-> h, curr |-> c, free |-> f]
  BY <1>1
<1>3. r.free = f /\ r.head = h /\ r.curr = c
  BY <1>2
<1>4. Size - f \in 0 .. Size /\ Size - (Size - f) = f
  BY <1>0
<1>5. HeadAt(h, c, Size - f)
  BY <1>3 DEF Ring
<1>6. RingOf(r, b, h, c, Size - f)
  BY <1>2, <1>4, <1>5 DEF RingOf
<1> QED BY <1>6

\* A record with these fields is a ring.
LEMMA RingMade ==
  ASSUME NEW b, NEW h, NEW c, NEW a, NEW r, RingOf(r, b, h, c, a)
  PROVE  /\ Ring(r) /\ available(r) = a
         /\ Held(r) \in Seq(Events) /\ Len(Held(r)) = a
         /\ \A k \in 1 .. a : Held(r)[k] = b[Slot(c, k - 1)]
<1>a. /\ b \in [0 .. 2 * Size - 1 -> Events] /\ h \in 0 .. Size /\ c \in 0 .. Size - 1 /\ a \in 0 .. Size
      /\ HeadAt(h, c, a)
      /\ r = [buffer |-> b, head |-> h, curr |-> c, free |-> Size - a]
  BY DEF RingOf
<1>0. Size \in Nat /\ Size > 0
  BY SizeIs
<1>1. Size - a \in 0 .. Size /\ Size - (Size - a) = a
  BY <1>0, <1>a
<1>2. r.buffer = b /\ r.head = h /\ r.curr = c /\ r.free = Size - a
  BY <1>a
<1>3. available(r) = a
  BY <1>1, <1>2 DEF available
<1>4. Ring(r)
  <2>1. HeadAt(r.head, r.curr, Size - r.free)
    BY <1>a, <1>1, <1>2
  <2> QED BY <1>a, <1>1, <2>1 DEF Ring
<1>5. Held(r) = [k \in 1 .. a |-> b[Slot(c, k - 1)]]
  BY <1>2, <1>3 DEF Held
<1>6. \A k \in 1 .. a : Slot(c, k - 1) \in 0 .. 2 * Size - 1
  BY <1>0, <1>a DEF Slot
<1>7. Held(r) \in [1 .. a -> Events]
  BY <1>a, <1>5, <1>6
<1>8. Held(r) \in Seq(Events) /\ Len(Held(r)) = a
  <2>1. a \in Nat /\ DOMAIN Held(r) = 1 .. a
    BY <1>0, <1>a, <1>7
  <2>2. Held(r) \in Seq(Events)
    BY <1>7, <2>1
  <2> QED BY <2>1, <2>2, LenProperties
<1> QED BY <1>3, <1>4, <1>5, <1>8

\* next takes off the oldest event, which is the one that readEvent returns.
LEMMA NextTakes ==
  ASSUME NEW r, Ring(r), available(r) > 0
  PROVE  /\ Ring(next(r)) /\ available(next(r)) = available(r) - 1
         /\ readEvent(r) = Held(r)[1] /\ readEvent(r) \in Events
         /\ \A k \in 1 .. available(r) - 1 : Held(next(r))[k] = Held(r)[k + 1]
<1>0. Size \in Nat /\ Size > 0
  BY SizeIs
<1>r. PICK b, h, c, a : RingOf(r, b, h, c, a)
  BY RingFields
<1>1. /\ b \in [0 .. 2 * Size - 1 -> Events] /\ h \in 0 .. Size /\ c \in 0 .. Size - 1 /\ a \in 0 .. Size
      /\ r = [buffer |-> b, head |-> h, curr |-> c, free |-> Size - a]
      /\ HeadAt(h, c, a) /\ available(r) = a
  BY <1>r, RingMade DEF RingOf
<1>2. a \in 1 .. Size /\ Size - a \in 0 .. Size /\ Size - (Size - a) = a
  BY <1>0, <1>1
<1> DEFINE d == IF c + 1 >= Size THEN 0 ELSE c + 1
           e == [b EXCEPT ![c] = NoEvent]
<1>3. /\ d \in 0 .. Size - 1 /\ HeadAt(h, d, a - 1) /\ Slot(c, 0) = c
      /\ \A k \in 1 .. a - 1 : Slot(d, k - 1) = Slot(c, k) /\ Slot(d, k - 1) # c
                               /\ Slot(d, k - 1) \in 0 .. 2 * Size - 1
  BY <1>1, <1>2, NextPlaces
<1>4. next(r) = [buffer |-> e, head |-> h, curr |-> d, free |-> Size - (a - 1)]
  <2>1. r.buffer = b /\ r.head = h /\ r.curr = c /\ r.free = Size - a
    BY <1>1
  <2>2. next(r) = [r EXCEPT !.buffer = [@ EXCEPT ![c] = NoEvent],
                            !.curr = IF @ + 1 >= Size THEN 0 ELSE @ + 1, !.free = @ + 1]
    BY <2>1 DEF next
  <2>3. Size - a + 1 = Size - (a - 1)
    BY <1>0, <1>1
  <2> QED BY <1>1, <2>2, <2>3
<1>5. e \in [0 .. 2 * Size - 1 -> Events]
  BY <1>1 DEF Events
<1>6. a - 1 \in 0 .. Size
  BY <1>0, <1>2
<1>7. \A k \in 1 .. a : Held(r)[k] = b[Slot(c, k - 1)]
  BY <1>r, RingMade
<1>8. \A k \in 1 .. a - 1 : e[Slot(d, k - 1)] = b[Slot(c, k)] /\ k + 1 \in 1 .. a
  <2>1. ASSUME NEW k \in 1 .. a - 1 PROVE k + 1 \in 1 .. a
    BY <1>2
  <2> HIDE DEF d
  <2> QED BY <1>3, <2>1
<1> HIDE DEF d, e
<1>9. /\ Ring(next(r)) /\ available(next(r)) = a - 1
      /\ \A k \in 1 .. a - 1 : Held(next(r))[k] = e[Slot(d, k - 1)]
  <2>1. RingOf(next(r), e, h, d, a - 1)
    BY <1>1, <1>3, <1>4, <1>5, <1>6 DEF RingOf
  <2> QED BY <2>1, RingMade
<1>10. readEvent(r) = b[c] /\ b[c] \in Events
  <2>1. r.buffer = b /\ r.curr = c /\ c \in 0 .. 2 * Size - 1
    BY <1>0, <1>1
  <2> QED BY <1>1, <2>1 DEF readEvent
<1>11. Held(r)[1] = b[c]
  <2>1. 1 \in 1 .. a
    BY <1>2
  <2> QED BY <1>3, <1>7, <2>1
<1>12. \A k \in 1 .. a - 1 : Held(next(r))[k] = Held(r)[k + 1]
  BY <1>7, <1>8, <1>9
<1> QED BY <1>1, <1>9, <1>10, <1>11, <1>12

\* fill puts what was read behind the events that are held, also over the end of the
\* ring.
LEMMA FillAdds ==
  ASSUME NEW r, Ring(r), NEW e \in Seq(Events), Len(e) <= r.free
  PROVE  /\ Ring(fill(r, e)) /\ available(fill(r, e)) = available(r) + Len(e)
         /\ \A k \in 1 .. available(r) : Held(fill(r, e))[k] = Held(r)[k]
         /\ \A k \in 1 .. Len(e) : Held(fill(r, e))[available(r) + k] = e[k]
<1>0. Size \in Nat /\ Size > 0
  BY SizeIs
<1>r. PICK b, h, c, a : RingOf(r, b, h, c, a)
  BY RingFields
<1>1. /\ b \in [0 .. 2 * Size - 1 -> Events] /\ h \in 0 .. Size /\ c \in 0 .. Size - 1 /\ a \in 0 .. Size
      /\ r = [buffer |-> b, head |-> h, curr |-> c, free |-> Size - a]
      /\ HeadAt(h, c, a) /\ available(r) = a
  BY <1>r, RingMade DEF RingOf
<1>2. PICK n \in 0 .. Size - a : n = Len(e)
  <2>1. Len(e) \in Nat /\ Len(e) <= Size - a
    BY <1>1
  <2> QED BY <1>0, <1>1, <2>1
<1> DEFINE g == IF h + n > Size THEN h + n - Size ELSE h + n
           read == Read(b, h, e)
           w == Wrapped(read, h + n - Size)
<1>3. /\ g \in 0 .. Size /\ HeadAt(g, c, a + n)
      /\ \A k \in 1 .. a : /\ Slot(c, k - 1) \in 0 .. Size - 1 /\ ~ (Slot(c, k - 1) < h + n - Size)
                           /\ Slot(c, k - 1) + 1 - h \notin 1 .. n
      /\ \A k \in 1 .. n : /\ Slot(c, a + k - 1) \in 0 .. Size - 1
                           /\ IF Slot(c, a + k - 1) < h + n - Size
                              THEN Size + Slot(c, a + k - 1) + 1 - h = k
                              ELSE Slot(c, a + k - 1) + 1 - h = k
  <2>1. n \in 0 .. Size - a
    BY <1>2
  <2>2. PutAt(c, a, h, n, g)
    BY <1>1, <2>1, FillPlaces, Zenon
  <2> HIDE DEF g
  <2> QED BY <2>2 DEF PutAt
<1>4. fill(r, e) = [buffer |-> w, head |-> g, curr |-> c, free |-> Size - (a + n)]
  <2>1. r.buffer = b /\ r.head = h /\ r.curr = c /\ r.free = Size - a /\ DOMAIN b = 0 .. 2 * Size - 1
    BY <1>1
  <2>2. fill(r, e) = [r EXCEPT !.buffer = Wrapped(Read(r.buffer, r.head, e), (r.head + Len(e)) - Size),
                               !.head = IF r.head + Len(e) > Size THEN (r.head + Len(e)) - Size
                                        ELSE r.head + Len(e),
                               !.free = r.free - Len(e)]
    BY DEF fill
  <2>3. fill(r, e) = [r EXCEPT !.buffer = w, !.head = g, !.free = r.free - n]
    <3>1. (h + n) - Size = h + n - Size /\ Len(e) = n
      BY <1>0, <1>1, <1>2
    <3>2. fill(r, e) = [r EXCEPT !.buffer = Wrapped(Read(b, h, e), (h + n) - Size),
                                 !.head = IF h + n > Size THEN (h + n) - Size ELSE h + n,
                                 !.free = r.free - n]
      BY <2>1, <2>2, <3>1, Zenon
    <3> QED BY <3>1, <3>2, Zenon
  <2>4. Size - a - n = Size - (a + n)
    BY <1>0, <1>1
  <2> HIDE DEF w, g
  <2> QED BY <1>1, <2>1, <2>3, <2>4
<1>4a. /\ read = [k \in 0 .. 2 * Size - 1 |-> IF k + 1 - h \in 1 .. n THEN e[k + 1 - h] ELSE b[k]]
       /\ w = [k \in 0 .. 2 * Size - 1 |-> IF k < h + n - Size THEN read[Size + k]
                                            ELSE IF k >= Size THEN NoEvent ELSE read[k]]
  <2>1. DOMAIN b = 0 .. 2 * Size - 1
    BY <1>1
  <2>2. read = [k \in 0 .. 2 * Size - 1 |-> IF k + 1 - h \in 1 .. n THEN e[k + 1 - h] ELSE b[k]]
    BY <1>2, <2>1 DEF Read
  <2>3. DOMAIN read = 0 .. 2 * Size - 1
    BY <2>2
  <2> HIDE DEF read
  <2>4. w = [k \in 0 .. 2 * Size - 1 |-> IF k < h + n - Size THEN read[Size + k]
                                        ELSE IF k >= Size THEN NoEvent ELSE read[k]]
    BY <2>3 DEF Wrapped
  <2> QED BY <2>2, <2>4
<1> HIDE DEF read, w
<1>5. read \in [0 .. 2 * Size - 1 -> Events]
  <2>1. \A m \in 1 .. n : e[m] \in Events
    BY <1>2
  <2> QED BY <1>1, <1>4a, <2>1
<1>6. w \in [0 .. 2 * Size - 1 -> Events]
  <2>1. NoEvent \in Events
    BY DEF Events
  <2>2. ASSUME NEW k \in 0 .. 2 * Size - 1, k < h + n - Size PROVE Size + k \in 0 .. 2 * Size - 1
    BY <1>0, <1>1, <2>2
  <2>3. ASSUME NEW k \in 0 .. 2 * Size - 1
        PROVE  (IF k < h + n - Size THEN read[Size + k] ELSE IF k >= Size THEN NoEvent ELSE read[k]) \in Events
    BY <1>5, <2>1, <2>2
  <2> QED BY <1>4a, <2>3
\* A slot of the ring after fill: what was read, behind the end or before it, or the old.
<1>7. ASSUME NEW j \in 0 .. Size - 1
      PROVE  w[j] = IF j < h + n - Size THEN e[Size + j + 1 - h]
                    ELSE IF j + 1 - h \in 1 .. n THEN e[j + 1 - h] ELSE b[j]
  <2>1. j \in 0 .. 2 * Size - 1 /\ ~ (j >= Size)
    BY <1>0
  <2>2. \A k \in 0 .. 2 * Size - 1 :
          read[k] = IF k + 1 - h \in 1 .. n THEN e[k + 1 - h] ELSE b[k]
    BY <1>4a
  <2>3. CASE j < h + n - Size
    <3>1. Size + j \in 0 .. 2 * Size - 1 /\ Size + j + 1 - h \in 1 .. n
      BY <1>0, <1>1, <2>3
    <3>2. w[j] = read[Size + j]
      BY <1>4a, <2>1, <2>3
    <3> QED BY <2>2, <2>3, <3>1, <3>2
  <2>4. CASE ~ (j < h + n - Size)
    <3>1. w[j] = read[j]
      BY <1>4a, <2>1, <2>4
    <3> QED BY <2>1, <2>2, <2>4, <3>1
  <2> QED BY <2>3, <2>4
<1> HIDE DEF g
<1>8. \A k \in 1 .. a : Held(r)[k] = b[Slot(c, k - 1)]
  BY <1>r, RingMade
<1>9. a + n \in 0 .. Size
  BY <1>0, <1>1
<1>10. /\ Ring(fill(r, e)) /\ available(fill(r, e)) = a + n
       /\ \A k \in 1 .. a + n : Held(fill(r, e))[k] = w[Slot(c, k - 1)]
  <2>1. RingOf(fill(r, e), w, g, c, a + n)
    BY <1>1, <1>3, <1>4, <1>6, <1>9 DEF RingOf
  <2> QED BY <2>1, RingMade
<1>11. ASSUME NEW k \in 1 .. a PROVE Held(fill(r, e))[k] = Held(r)[k]
  <2>1. k \in 1 .. a + n
    BY <1>0, <1>1
  <2>2. w[Slot(c, k - 1)] = b[Slot(c, k - 1)]
    BY <1>3, <1>7
  <2> QED BY <1>8, <1>10, <2>1, <2>2
<1>12. ASSUME NEW k \in 1 .. n PROVE Held(fill(r, e))[a + k] = e[k]
  <2>1. a + k \in 1 .. a + n
    BY <1>0, <1>1
  <2>2. w[Slot(c, a + k - 1)] = e[k]
    BY <1>3, <1>7
  <2>3. Held(fill(r, e))[a + k] = w[Slot(c, (a + k) - 1)] /\ (a + k) - 1 = a + k - 1
    BY <1>0, <1>1, <1>10, <2>1
  <2> QED BY <2>2, <2>3
<1> QED BY <1>1, <1>2, <1>10, <1>11, <1>12

-----------------------------------------------------------------------------
(* The queue of a driver.                                                  *)

\* What a ring holds.
LEMMA HeldIs ==
  ASSUME NEW r, Ring(r)
  PROVE  /\ Held(r) \in Seq(Events) /\ Len(Held(r)) = available(r)
         /\ available(r) \in Nat /\ r.free \in 0 .. Size /\ r.free \in Nat
<1>1. PICK b, h, c, a : RingOf(r, b, h, c, a)
  BY RingFields
<1>2. a \in 0 .. Size /\ Held(r) \in Seq(Events) /\ Len(Held(r)) = a /\ available(r) = a
  BY <1>1, RingMade DEF RingOf
<1>3. r.free \in 0 .. Size
  BY DEF Ring
<1> QED BY <1>2, <1>3, SizeIs

\* The ring and the data file together are a queue: fill leaves it as it is, ...
LEMMA QueueFill ==
  ASSUME NEW r, Ring(r), NEW f \in Seq(Events), NEW n \in 0 .. Len(f), n <= r.free
  PROVE  /\ Ring(fill(r, SubSeq(f, 1, n))) /\ SubSeq(f, n + 1, Len(f)) \in Seq(Events)
         /\ Held(fill(r, SubSeq(f, 1, n))) \o SubSeq(f, n + 1, Len(f)) = Held(r) \o f
<1> DEFINE e == SubSeq(f, 1, n)  g == SubSeq(f, n + 1, Len(f))  t == fill(r, e)  a == available(r)
<1>0. n \in Nat /\ Len(f) \in Nat /\ n <= Len(f)
  OBVIOUS
<1>1. e \in Seq(Events) /\ Len(e) = n /\ \A k \in 1 .. n : e[k] = f[k]
  <2>1. \A k \in 1 .. n : f[k] \in Events
    BY <1>0
  <2> QED BY <1>0, <2>1, SubSeqProperties
<1>2. g \in Seq(Events) /\ Len(g) = Len(f) - n /\ \A k \in 1 .. Len(f) - n : g[k] = f[n + k]
  <2>1. \A k \in n + 1 .. Len(f) : f[k] \in Events
    BY <1>0
  <2> QED BY <1>0, <2>1, SubSeqProperties
<1> HIDE DEF e, g
<1>3. /\ Ring(t) /\ available(t) = a + n
      /\ \A k \in 1 .. a : Held(t)[k] = Held(r)[k]
      /\ \A k \in 1 .. n : Held(t)[a + k] = e[k]
  BY <1>1, FillAdds
<1>4. Held(r) \in Seq(Events) /\ Len(Held(r)) = a /\ a \in Nat
  BY HeldIs
<1>5. Held(t) \in Seq(Events) /\ Len(Held(t)) = a + n
  BY <1>3, HeldIs
<1> HIDE DEF t, a
<1> DEFINE p == Held(t) \o g  q == Held(r) \o f
<1>6. /\ p \in Seq(Events) /\ Len(p) = (a + n) + (Len(f) - n)
      /\ \A k \in 1 .. (a + n) + (Len(f) - n) : p[k] = IF k <= a + n THEN Held(t)[k] ELSE g[k - (a + n)]
  <2>1. /\ p \in Seq(Events) /\ Len(p) = Len(Held(t)) + Len(g)
        /\ \A k \in 1 .. Len(Held(t)) + Len(g) :
             p[k] = IF k <= Len(Held(t)) THEN Held(t)[k] ELSE g[k - Len(Held(t))]
    BY <1>2, <1>5, ConcatProperties
  <2> HIDE DEF p
  <2>2. Len(Held(t)) = a + n /\ Len(g) = Len(f) - n
    BY <1>2, <1>5
  <2> QED BY <2>1, <2>2, Zenon
<1>7. /\ q \in Seq(Events) /\ Len(q) = a + Len(f)
      /\ \A k \in 1 .. a + Len(f) : q[k] = IF k <= a THEN Held(r)[k] ELSE f[k - a]
  BY <1>4, ConcatProperties
<1> HIDE DEF p, q
<1>8. (a + n) + (Len(f) - n) = a + Len(f)
  BY <1>0, <1>4
<1>9. ASSUME NEW k \in 1 .. a + Len(f) PROVE p[k] = q[k]
  <2>0. k \in Nat /\ k >= 1 /\ k <= a + Len(f)
    BY <1>0, <1>4
  <2>1. CASE k <= a
    <3>1. k <= a + n /\ k \in 1 .. a
      BY <1>0, <1>4, <2>0, <2>1
    <3>2. p[k] = Held(t)[k] /\ q[k] = Held(r)[k]
      BY <1>6, <1>7, <1>8, <2>1, <3>1
    <3> QED BY <1>3, <3>1, <3>2
  <2>2. CASE ~ (k <= a) /\ k <= a + n
    <3>1. k - a \in 1 .. n /\ a + (k - a) = k
      BY <1>0, <1>4, <2>0, <2>2
    <3>2. p[k] = Held(t)[k] /\ q[k] = f[k - a]
      BY <1>6, <1>7, <1>8, <2>2
    <3>3. Held(t)[a + (k - a)] = e[k - a] /\ e[k - a] = f[k - a]
      BY <1>1, <1>3, <3>1
    <3> QED BY <3>1, <3>2, <3>3
  <2>3. CASE ~ (k <= a) /\ ~ (k <= a + n)
    <3>1. k - (a + n) \in 1 .. Len(f) - n /\ n + (k - (a + n)) = k - a
      BY <1>0, <1>4, <2>0, <2>3
    <3>2. p[k] = g[k - (a + n)] /\ q[k] = f[k - a]
      BY <1>6, <1>7, <1>8, <2>3
    <3>3. g[k - (a + n)] = f[n + (k - (a + n))]
      BY <1>2, <3>1
    <3> QED BY <3>1, <3>2, <3>3
  <2> QED BY <2>1, <2>2, <2>3
<1>10. p = q
  BY <1>6, <1>7, <1>8, <1>9, SeqEqual
<1> QED BY <1>2, <1>3, <1>10 DEF p, q, t, e, g

\* ... next takes its first event, ...
LEMMA QueueNext ==
  ASSUME NEW r, Ring(r), NEW f \in Seq(Events), available(r) > 0
  PROVE  /\ Ring(next(r)) /\ Held(r) \o f \in Seq(Events) /\ Held(r) \o f # <<>>
         /\ Held(next(r)) \o f = Tail(Held(r) \o f)
         /\ readEvent(r) = (Held(r) \o f)[1] /\ readEvent(r) \in Events
<1> DEFINE a == available(r)  t == next(r)  m == Len(f)
           p == Held(t) \o f  q == Held(r) \o f  u == Tail(q)
<1>1. /\ Ring(t) /\ available(t) = a - 1 /\ readEvent(r) = Held(r)[1] /\ readEvent(r) \in Events
      /\ \A k \in 1 .. a - 1 : Held(t)[k] = Held(r)[k + 1]
  BY NextTakes
<1>2. Held(r) \in Seq(Events) /\ Len(Held(r)) = a /\ a \in Nat /\ a > 0 /\ m \in Nat
  BY HeldIs
<1>3. Held(t) \in Seq(Events) /\ Len(Held(t)) = a - 1
  BY <1>1, HeldIs
<1> HIDE DEF t, a
<1>6. /\ p \in Seq(Events) /\ Len(p) = (a - 1) + m
      /\ \A k \in 1 .. (a - 1) + m : p[k] = IF k <= a - 1 THEN Held(t)[k] ELSE f[k - (a - 1)]
  <2>1. /\ p \in Seq(Events) /\ Len(p) = Len(Held(t)) + m
        /\ \A k \in 1 .. Len(Held(t)) + m :
             p[k] = IF k <= Len(Held(t)) THEN Held(t)[k] ELSE f[k - Len(Held(t))]
    BY <1>3, ConcatProperties
  <2> HIDE DEF p
  <2> QED BY <1>3, <2>1, Zenon
<1>7. /\ q \in Seq(Events) /\ Len(q) = a + m
      /\ \A k \in 1 .. a + m : q[k] = IF k <= a THEN Held(r)[k] ELSE f[k - a]
  BY <1>2, ConcatProperties
<1> HIDE DEF p, q
<1>8. q # <<>>
  <2>1. Len(q) # 0
    BY <1>2, <1>7
  <2> QED BY <2>1
<1>9. u \in Seq(Events) /\ Len(u) = (a + m) - 1 /\ \A k \in 1 .. (a + m) - 1 : u[k] = q[k + 1]
  <2>1. u \in Seq(Events) /\ Len(u) = Len(q) - 1 /\ \A k \in 1 .. Len(u) : u[k] = q[k + 1]
    BY <1>7, <1>8, HeadTailProperties
  <2> HIDE DEF u
  <2> QED BY <1>7, <2>1, Zenon
<1> HIDE DEF u, m
<1>10. ASSUME NEW k \in 1 .. (a - 1) + m PROVE p[k] = u[k]
  <2>0. k \in Nat /\ k >= 1 /\ k \in 1 .. (a + m) - 1 /\ k + 1 \in 1 .. a + m
    BY <1>2
  <2>1. CASE k <= a - 1
    <3>1. k \in 1 .. a - 1 /\ k + 1 <= a
      BY <1>2, <2>0, <2>1
    <3>2. p[k] = Held(t)[k] /\ u[k] = q[k + 1] /\ q[k + 1] = Held(r)[k + 1]
      BY <1>6, <1>7, <1>9, <2>0, <2>1, <3>1
    <3> QED BY <1>1, <3>1, <3>2 DEF t, a
  <2>2. CASE ~ (k <= a - 1)
    <3>1. ~ (k + 1 <= a) /\ k - (a - 1) = (k + 1) - a
      BY <1>2, <2>0, <2>2
    <3>2. p[k] = f[k - (a - 1)] /\ u[k] = q[k + 1] /\ q[k + 1] = f[(k + 1) - a]
      BY <1>6, <1>7, <1>9, <2>0, <2>2, <3>1
    <3> QED BY <3>1, <3>2
  <2> QED BY <2>1, <2>2
<1>11. p = u
  <2>1. (a + m) - 1 = (a - 1) + m
    BY <1>2 DEF m
  <2> QED BY <1>6, <1>9, <1>10, <2>1, SeqEqual
<1>12. q[1] = Held(r)[1]
  <2>1. 1 \in 1 .. a + m /\ 1 <= a
    BY <1>2 DEF m
  <2> QED BY <1>7, <2>1
<1> QED BY <1>1, <1>7, <1>8, <1>11, <1>12 DEF p, q, u, t

\* ... and the driver puts events at its end.
LEMMA QueueAppend ==
  ASSUME NEW r, Ring(r), NEW f \in Seq(Events), NEW e \in Events
  PROVE  /\ Held(r) \o Append(f, e) = Append(Held(r) \o f, e) /\ Append(f, e) \in Seq(Events)
         /\ Held(r) \o f \in Seq(Events)
<1> DEFINE h == Held(r)
<1>1. h \in Seq(Events) /\ h \o f \in Seq(Events)
  BY HeldIs
<1>2. /\ <<e>> \in Seq(Events)
      /\ Append(f, e) = f \o <<e>> /\ Append(h \o f, e) = (h \o f) \o <<e>>
  BY <1>1, AppendIsConcat
<1>3. (h \o f) \o <<e>> = h \o (f \o <<e>>)
  BY <1>1, <1>2, ConcatAssociative
<1> QED BY <1>1, <1>2, <1>3

-----------------------------------------------------------------------------
(* The events of a sensor in it.                                           *)

\* Where the SYN are in these events.
Syns(q) == {k \in DOMAIN q : q[k].type = "syn"}

\* Where the events of a sensor are, with the one that has been taken out and not been
\* delivered before all of them.
Marks(s, q, u) == Abs(s, q) \cup (IF u THEN {0} ELSE {})

\* The events of a sensor are in different samples: each is ended before the next, and
\* only the last one may not have been.
Apart(s, q, u, p) ==
  /\ \A j, k \in Marks(s, q, u) : j < k => \E l \in Syns(q) : j < l /\ l < k
  /\ \A k \in Marks(s, q, u) : p \/ \E l \in Syns(q) : k < l

\* Without a mask a SYN follows an event of the sensor or one to drop: w, one has been
\* dropped and no sample has been delivered again for it; c, the sample has not been ended.
Alone(s, q, u, w, c) ==
  /\ \A k \in Syns(q) : k - 1 \in Marks(s, q, u) \cup Marks(Orientation, q, w)
  /\ c => Len(q) \in Marks(s, q, u) \cup Marks(Orientation, q, w)

\* What is so of a sensor's events q in the ring and the file: u, one is undelivered; p, the
\* last one's sample has not been ended; n have left the ring of the m there were.
Chain(s, q, u, p, n, m) ==
  /\ q \in Seq(Events) /\ u \in BOOLEAN /\ p \in BOOLEAN /\ n \in Nat /\ m \in Nat
  /\ Numbered(s, q, n + 1, m)
  /\ Apart(s, q, u, p)

\* An event of the sensor.
Mine(s, e) == e.type = "abs" /\ e.s = s

\* Places in the events.
LEMMA Placed ==
  ASSUME NEW s, NEW q \in Seq(Events)
  PROVE  /\ Len(q) \in Nat
         /\ \A k : k \in Abs(s, q) <=> k \in 1 .. Len(q) /\ Mine(s, q[k])
         /\ \A k : k \in Syns(q) <=> k \in 1 .. Len(q) /\ q[k].type = "syn"
BY DEF Abs, Syns, Mine

\* An event is added.
LEMMA Added ==
  ASSUME NEW s, NEW q \in Seq(Events), NEW e \in Events
  PROVE  LET r == Append(q, e) IN
         /\ r \in Seq(Events) /\ Len(r) = Len(q) + 1 /\ Len(q) \in Nat /\ r[Len(q) + 1] = e
         /\ \A k \in 1 .. Len(q) : r[k] = q[k]
         /\ \A k : k \in Abs(s, r) <=> k \in Abs(s, q) \/ (k = Len(q) + 1 /\ Mine(s, e))
         /\ \A k : k \in Syns(r) <=> k \in Syns(q) \/ (k = Len(q) + 1 /\ e.type = "syn")
         /\ \A k \in Abs(s, q) \cup Syns(q) : k \in 1 .. Len(q)
<1> DEFINE r == Append(q, e)
<1>1. /\ r \in Seq(Events) /\ Len(r) = Len(q) + 1 /\ Len(q) \in Nat /\ r[Len(q) + 1] = e
      /\ \A k \in 1 .. Len(q) : r[k] = q[k]
  BY AppendProperties
<1> HIDE DEF r
<1>2. \A k : k \in 1 .. Len(q) + 1 <=> k \in 1 .. Len(q) \/ k = Len(q) + 1
  BY <1>1
<1>4. \A k : k \in Abs(s, q) <=> k \in 1 .. Len(q) /\ Mine(s, q[k])
  BY Placed
<1>5. \A k : k \in Syns(q) <=> k \in 1 .. Len(q) /\ q[k].type = "syn"
  BY Placed
<1>6. \A k : k \in Abs(s, r) <=> k \in 1 .. Len(q) + 1 /\ Mine(s, r[k])
  BY <1>1, Placed
<1>7. \A k : k \in Syns(r) <=> k \in 1 .. Len(q) + 1 /\ r[k].type = "syn"
  BY <1>1, Placed
<1>8. \A k : k \in Abs(s, r) <=> k \in Abs(s, q) \/ (k = Len(q) + 1 /\ Mine(s, e))
  BY <1>1, <1>2, <1>4, <1>6, Zenon
<1>9. \A k : k \in Syns(r) <=> k \in Syns(q) \/ (k = Len(q) + 1 /\ e.type = "syn")
  BY <1>1, <1>2, <1>5, <1>7, Zenon
<1> QED BY <1>1, <1>4, <1>5, <1>8, <1>9 DEF r

\* The first event is taken.
LEMMA Taken1 ==
  ASSUME NEW s, NEW q \in Seq(Events), q # <<>>
  PROVE  LET r == Tail(q) IN
         /\ r \in Seq(Events) /\ Len(r) = Len(q) - 1 /\ Len(q) \in Nat /\ Len(q) > 0
         /\ \A k \in 1 .. Len(q) - 1 : r[k] = q[k + 1]
         /\ \A k : k \in Abs(s, r) <=> k \in 1 .. Len(q) - 1 /\ k + 1 \in Abs(s, q)
         /\ \A k : k \in Syns(r) <=> k \in 1 .. Len(q) - 1 /\ k + 1 \in Syns(q)
         /\ \A k \in Abs(s, q) \cup Syns(q) : k \in 1 .. Len(q)
         /\ 1 \in Abs(s, q) <=> Mine(s, q[1])
         /\ 1 \in Syns(q) <=> q[1].type = "syn"
<1> DEFINE r == Tail(q)
<1>1. r \in Seq(Events) /\ Len(r) = Len(q) - 1 /\ \A k \in 1 .. Len(r) : r[k] = q[k + 1]
  BY HeadTailProperties
<1> HIDE DEF r
<1>2. Len(q) \in Nat /\ Len(q) > 0
  BY EmptySeq, LenProperties
<1>3. 1 \in 1 .. Len(q) /\ \A k \in 1 .. Len(q) - 1 : k + 1 \in 1 .. Len(q)
  BY <1>2
<1>4. \A k : k \in Abs(s, q) <=> k \in 1 .. Len(q) /\ Mine(s, q[k])
  BY Placed
<1>5. \A k : k \in Syns(q) <=> k \in 1 .. Len(q) /\ q[k].type = "syn"
  BY Placed
<1>6. \A k : k \in Abs(s, r) <=> k \in 1 .. Len(q) - 1 /\ Mine(s, r[k])
  BY <1>1, Placed
<1>7. \A k : k \in Syns(r) <=> k \in 1 .. Len(q) - 1 /\ r[k].type = "syn"
  BY <1>1, Placed
<1>8. \A k \in 1 .. Len(q) - 1 : r[k] = q[k + 1]
  BY <1>1
<1>9. \A k : k \in Abs(s, r) <=> k \in 1 .. Len(q) - 1 /\ k + 1 \in Abs(s, q)
  BY <1>3, <1>4, <1>6, <1>8, Zenon
<1>10. \A k : k \in Syns(r) <=> k \in 1 .. Len(q) - 1 /\ k + 1 \in Syns(q)
  BY <1>3, <1>5, <1>7, <1>8, Zenon
<1> QED BY <1>1, <1>2, <1>3, <1>4, <1>5, <1>8, <1>9, <1>10, Zenon DEF r

\* Numbered, element by element.
LEMMA NumberedIs ==
  ASSUME NEW s, NEW q, NEW a, NEW b
  PROVE  Numbered(s, q, a, b) <=>
           /\ a <= b + 1
           /\ \A k \in Abs(s, q) : q[k].v \in a .. b
           /\ \A x \in a .. b : \E k \in Abs(s, q) : q[k].v = x
           /\ \A j, k \in Abs(s, q) : j < k => q[j].v < q[k].v
BY DEF Numbered

\* The numbers of the samples when the next one is queued, ...
LEMMA NumbersAdded ==
  ASSUME NEW s, NEW q \in Seq(Events), NEW e \in Events, NEW n \in Nat, NEW m \in Nat,
         Numbered(s, q, n + 1, m), Mine(s, e), e.v = m + 1
  PROVE  Numbered(s, Append(q, e), n + 1, m + 1)
<1> DEFINE r == Append(q, e)  z == Len(q) + 1
<1>1. /\ r[z] = e /\ Len(q) \in Nat
      /\ \A k \in 1 .. Len(q) : r[k] = q[k]
      /\ \A k : k \in Abs(s, r) <=> k \in Abs(s, q) \/ k = z
      /\ \A k \in Abs(s, q) : k \in 1 .. Len(q)
  BY Added
<1>2. /\ n + 1 <= m + 1
      /\ \A k \in Abs(s, q) : q[k].v \in n + 1 .. m
      /\ \A x \in n + 1 .. m : \E k \in Abs(s, q) : q[k].v = x
      /\ \A j, k \in Abs(s, q) : j < k => q[j].v < q[k].v
  BY NumberedIs
<1> HIDE DEF r
<1>3. \A k \in Abs(s, q) : r[k] = q[k] /\ k < z /\ k \in 1 .. Len(q)
  BY <1>1
<1>4. \A k \in Abs(s, r) : r[k].v \in n + 1 .. m + 1
  BY <1>1, <1>2, <1>3
<1>5. ASSUME NEW x \in n + 1 .. m + 1 PROVE \E k \in Abs(s, r) : r[k].v = x
  <2>1. CASE x = m + 1
    BY <1>1, <2>1
  <2>2. CASE x \in n + 1 .. m
    BY <1>1, <1>2, <1>3, <2>2
  <2> QED BY <2>1, <2>2
<1>6. ASSUME NEW j \in Abs(s, r), NEW k \in Abs(s, r), j < k PROVE r[j].v < r[k].v
  <2>0. j \in Abs(s, q)
    BY <1>1, <1>3, <1>6
  <2>1. CASE k = z
    <3>1. r[j].v \in n + 1 .. m /\ r[k].v = m + 1
      BY <1>1, <1>2, <1>3, <2>0, <2>1
    <3> QED BY <3>1
  <2>2. CASE k \in Abs(s, q)
    BY <1>2, <1>3, <1>6, <2>0, <2>2
  <2> QED BY <1>1, <2>1, <2>2
<1>7. n + 1 <= (m + 1) + 1
  BY <1>2
<1>8. Numbered(s, r, n + 1, m + 1)
  BY <1>4, <1>5, <1>6, <1>7, NumberedIs, Zenon
<1> QED BY <1>8 DEF r

\* ... or another event, ...
LEMMA NumbersKept ==
  ASSUME NEW s, NEW q \in Seq(Events), NEW e \in Events, NEW n \in Nat, NEW m \in Nat,
         Numbered(s, q, n + 1, m), ~ Mine(s, e)
  PROVE  Numbered(s, Append(q, e), n + 1, m)
<1> DEFINE r == Append(q, e)
<1>1. /\ \A k \in 1 .. Len(q) : r[k] = q[k]
      /\ \A k : k \in Abs(s, r) <=> k \in Abs(s, q)
      /\ \A k \in Abs(s, q) : k \in 1 .. Len(q)
  BY Added
<1> HIDE DEF r
<1> QED BY <1>1, NumberedIs DEF r

\* ... when the first event is taken, and it is the sensor's, ...
LEMMA NumbersTaken ==
  ASSUME NEW s, NEW q \in Seq(Events), q # <<>>, NEW n \in Nat, NEW m \in Nat,
         Numbered(s, q, n + 1, m), Mine(s, q[1])
  PROVE  q[1].v = n + 1 /\ Numbered(s, Tail(q), n + 2, m)
<1> DEFINE r == Tail(q)
<1>1. /\ Len(q) \in Nat /\ Len(q) > 0 /\ 1 \in Abs(s, q)
      /\ \A k \in 1 .. Len(q) - 1 : r[k] = q[k + 1]
      /\ \A k : k \in Abs(s, r) <=> k \in 1 .. Len(q) - 1 /\ k + 1 \in Abs(s, q)
      /\ \A k \in Abs(s, q) : k \in 1 .. Len(q)
  BY Taken1
<1>2. /\ \A k \in Abs(s, q) : q[k].v \in n + 1 .. m
      /\ \A x \in n + 1 .. m : \E k \in Abs(s, q) : q[k].v = x
      /\ \A j, k \in Abs(s, q) : j < k => q[j].v < q[k].v
  BY NumberedIs
<1> HIDE DEF r
<1>3. q[1].v \in n + 1 .. m /\ n + 1 \in n + 1 .. m
  BY <1>1, <1>2
<1>4. \A k \in Abs(s, q) : k # 1 => q[1].v < q[k].v
  BY <1>1, <1>2
<1>5. q[1].v = n + 1
  <2>1. PICK k \in Abs(s, q) : q[k].v = n + 1
    BY <1>2, <1>3
  <2> QED BY <1>3, <1>4, <2>1
<1>6. ASSUME NEW k \in Abs(s, r)
      PROVE  r[k].v \in n + 2 .. m /\ k + 1 \in Abs(s, q) /\ r[k] = q[k + 1] /\ k \in Nat
  <2>1. k + 1 \in Abs(s, q) /\ k + 1 # 1 /\ r[k] = q[k + 1] /\ k \in Nat
    BY <1>1
  <2>2. q[k + 1].v \in n + 1 .. m /\ n + 1 < q[k + 1].v
    BY <1>2, <1>4, <1>5, <2>1
  <2> QED BY <2>1, <2>2
<1>7. ASSUME NEW x \in n + 2 .. m PROVE \E k \in Abs(s, r) : r[k].v = x
  <2>1. PICK k \in Abs(s, q) : q[k].v = x
    BY <1>2
  <2>2. k \in 1 .. Len(q) /\ k # 1
    BY <1>1, <1>5, <2>1
  <2>3. k - 1 \in 1 .. Len(q) - 1 /\ (k - 1) + 1 = k
    BY <1>1, <2>2
  <2> QED BY <1>1, <2>1, <2>3
<1>8. \A j, k \in Abs(s, r) : j < k => r[j].v < r[k].v
  BY <1>2, <1>6
<1>9. n + 2 <= m + 1
  BY <1>3
<1>10. Numbered(s, r, n + 2, m)
  BY <1>6, <1>7, <1>8, <1>9, NumberedIs, Zenon
<1> QED BY <1>5, <1>10 DEF r

\* ... or is not.
LEMMA NumbersLeft ==
  ASSUME NEW s, NEW q \in Seq(Events), q # <<>>, NEW n \in Nat, NEW m \in Nat,
         Numbered(s, q, n + 1, m), ~ Mine(s, q[1])
  PROVE  Numbered(s, Tail(q), n + 1, m)
<1> DEFINE r == Tail(q)
<1>1. /\ Len(q) \in Nat /\ Len(q) > 0 /\ 1 \notin Abs(s, q)
      /\ \A k \in 1 .. Len(q) - 1 : r[k] = q[k + 1]
      /\ \A k : k \in Abs(s, r) <=> k \in 1 .. Len(q) - 1 /\ k + 1 \in Abs(s, q)
      /\ \A k \in Abs(s, q) : k \in 1 .. Len(q)
  BY Taken1
<1>2. /\ n + 1 <= m + 1
      /\ \A k \in Abs(s, q) : q[k].v \in n + 1 .. m
      /\ \A x \in n + 1 .. m : \E k \in Abs(s, q) : q[k].v = x
      /\ \A j, k \in Abs(s, q) : j < k => q[j].v < q[k].v
  BY NumberedIs
<1> HIDE DEF r
<1>6. \A k \in Abs(s, r) : k + 1 \in Abs(s, q) /\ r[k] = q[k + 1] /\ k \in Nat
  BY <1>1
<1>7. ASSUME NEW x \in n + 1 .. m PROVE \E k \in Abs(s, r) : r[k].v = x
  <2>1. PICK k \in Abs(s, q) : q[k].v = x
    BY <1>2
  <2>2. k \in 1 .. Len(q) /\ k # 1
    BY <1>1, <2>1
  <2>3. k - 1 \in 1 .. Len(q) - 1 /\ (k - 1) + 1 = k
    BY <1>1, <2>2
  <2> QED BY <1>1, <2>1, <2>3
<1>8. \A j, k \in Abs(s, r) : j < k => r[j].v < r[k].v
  BY <1>2, <1>6
<1> QED BY <1>2, <1>6, <1>7, <1>8, NumberedIs DEF r

\* The places when an event is added, ...
LEMMA MarksAdded ==
  ASSUME NEW s, NEW q \in Seq(Events), NEW e \in Events, NEW u \in BOOLEAN
  PROVE  LET r == Append(q, e) IN
         /\ Len(r) = Len(q) + 1 /\ Len(q) \in Nat
         /\ \A k : k \in Marks(s, r, u) <=> k \in Marks(s, q, u) \/ (k = Len(q) + 1 /\ Mine(s, e))
         /\ \A k : k \in Syns(r) <=> k \in Syns(q) \/ (k = Len(q) + 1 /\ e.type = "syn")
         /\ \A k \in Marks(s, q, u) : k \in 0 .. Len(q)
         /\ \A k \in Syns(q) : k \in 1 .. Len(q)
<1> DEFINE r == Append(q, e)
<1>1. /\ Len(r) = Len(q) + 1 /\ Len(q) \in Nat
      /\ \A k : k \in Abs(s, r) <=> k \in Abs(s, q) \/ (k = Len(q) + 1 /\ Mine(s, e))
      /\ \A k : k \in Syns(r) <=> k \in Syns(q) \/ (k = Len(q) + 1 /\ e.type = "syn")
      /\ \A k \in Abs(s, q) \cup Syns(q) : k \in 1 .. Len(q)
  BY Added
<1> HIDE DEF r
<1>2. \A k : k \in Marks(s, r, u) <=> k \in Marks(s, q, u) \/ (k = Len(q) + 1 /\ Mine(s, e))
  BY <1>1, Zenon DEF Marks
<1>3. \A k \in Marks(s, q, u) : k \in 0 .. Len(q)
  BY <1>1 DEF Marks
<1> QED BY <1>1, <1>2, <1>3 DEF r

\* ... and when the first is taken: an event of the sensor's becomes the undelivered one.
LEMMA MarksTaken ==
  ASSUME NEW s, NEW q \in Seq(Events), q # <<>>, NEW u \in BOOLEAN
  PROVE  LET r == Tail(q) IN
         /\ Len(r) = Len(q) - 1 /\ Len(q) \in Nat /\ Len(q) > 0
         /\ \A k : k \in Marks(s, r, Mine(s, q[1])) <=> k \in 0 .. Len(q) - 1 /\ k + 1 \in Marks(s, q, u)
         /\ \A k : k \in Syns(r) <=> k \in 1 .. Len(q) - 1 /\ k + 1 \in Syns(q)
         /\ \A k \in Marks(s, q, u) : k \in 0 .. Len(q)
         /\ \A k \in Syns(q) : k \in 1 .. Len(q)
         /\ 1 \in Marks(s, q, u) <=> Mine(s, q[1])
         /\ 1 \in Syns(q) <=> q[1].type = "syn"
<1> DEFINE r == Tail(q)  w == Mine(s, q[1])
<1>1. /\ Len(r) = Len(q) - 1 /\ Len(q) \in Nat /\ Len(q) > 0
      /\ \A k : k \in Abs(s, r) <=> k \in 1 .. Len(q) - 1 /\ k + 1 \in Abs(s, q)
      /\ \A k : k \in Syns(r) <=> k \in 1 .. Len(q) - 1 /\ k + 1 \in Syns(q)
      /\ \A k \in Abs(s, q) \cup Syns(q) : k \in 1 .. Len(q)
      /\ 1 \in Abs(s, q) <=> w
      /\ 1 \in Syns(q) <=> q[1].type = "syn"
  BY Taken1
<1> HIDE DEF r, w
<1>2. \A k : k \in Marks(s, q, u) <=> k \in Abs(s, q) \/ (k = 0 /\ u)
  BY Zenon DEF Marks
<1>3. \A k : k \in Marks(s, r, w) <=> k \in Abs(s, r) \/ (k = 0 /\ w)
  BY Zenon DEF Marks
<1>4. \A k : k \in 0 .. Len(q) - 1 <=> k = 0 \/ k \in 1 .. Len(q) - 1
  BY <1>1
<1>5. \A k \in Nat : k + 1 \in Marks(s, q, u) <=> k + 1 \in Abs(s, q)
  BY <1>2
<1>6. ASSUME NEW k
      PROVE  k \in Marks(s, r, w) <=> k \in 0 .. Len(q) - 1 /\ k + 1 \in Marks(s, q, u)
  <2>1. CASE k = 0
    <3>1. k + 1 \in Marks(s, q, u) <=> 1 \in Abs(s, q)
      BY <1>5, <2>1
    <3>2. k \in Marks(s, r, w) <=> w
      BY <1>1, <1>3, <2>1
    <3>3. k \in 0 .. Len(q) - 1
      BY <1>1, <2>1
    <3> QED BY <1>1, <3>1, <3>2, <3>3
  <2>2. CASE k # 0 /\ k \in 1 .. Len(q) - 1
    <3>1. k \in Nat
      BY <2>2
    <3> QED BY <1>1, <1>3, <1>4, <1>5, <2>2, <3>1
  <2>3. CASE k # 0 /\ k \notin 1 .. Len(q) - 1
    BY <1>1, <1>3, <1>4, <2>3
  <2> QED BY <2>1, <2>2, <2>3
<1>7. \A k \in Marks(s, q, u) : k \in 0 .. Len(q)
  BY <1>1, <1>2
<1>8. 1 \in Marks(s, q, u) <=> w
  BY <1>1, <1>2
<1> QED BY <1>1, <1>6, <1>7, <1>8 DEF r, w
-----------------------------------------------------------------------------
(* What the steps do to the chain of a sensor's events.                    *)

\* A driver reports a sample, ...
LEMMA ChainReport ==
  ASSUME NEW s, NEW q, NEW u, NEW n, NEW m, Chain(s, q, u, FALSE, n, m),
         NEW e \in Events, Mine(s, e), e.v = m + 1
  PROVE  Chain(s, Append(q, e), u, TRUE, n, m + 1)
<1> DEFINE r == Append(q, e)
<1>1. q \in Seq(Events) /\ u \in BOOLEAN /\ n \in Nat /\ m \in Nat /\ Numbered(s, q, n + 1, m)
      /\ Apart(s, q, u, FALSE)
  BY DEF Chain
<1>2. /\ Len(q) \in Nat
      /\ \A k : k \in Marks(s, r, u) <=> k \in Marks(s, q, u) \/ (k = Len(q) + 1 /\ Mine(s, e))
      /\ \A k : k \in Syns(r) <=> k \in Syns(q) \/ (k = Len(q) + 1 /\ e.type = "syn")
      /\ \A k \in Marks(s, q, u) : k \in 0 .. Len(q)
      /\ \A k \in Syns(q) : k \in 1 .. Len(q)
  BY <1>1, MarksAdded
<1>3. r \in Seq(Events) /\ Numbered(s, r, n + 1, m + 1)
  BY <1>1, Added, NumbersAdded
<1> HIDE DEF r
<1>4. ASSUME NEW j \in Marks(s, r, u), NEW k \in Marks(s, r, u), j < k
      PROVE  \E l \in Syns(r) : j < l /\ l < k
  <2>1. j \in Marks(s, q, u)
    BY <1>2, <1>4
  <2>2. CASE k \in Marks(s, q, u)
    BY <1>1, <1>2, <1>4, <2>1, <2>2 DEF Apart
  <2>3. CASE k = Len(q) + 1
    <3>1. PICK l \in Syns(q) : j < l
      BY <1>1, <2>1 DEF Apart
    <3>2. l < k
      BY <1>2, <2>3, <3>1
    <3> QED BY <1>2, <3>1, <3>2
  <2> QED BY <1>2, <2>2, <2>3
<1>5. Apart(s, r, u, TRUE)
  BY <1>4 DEF Apart
<1>6. m + 1 \in Nat
  BY <1>1
<1>7. Chain(s, r, u, TRUE, n, m + 1)
  BY <1>1, <1>3, <1>5, <1>6 DEF Chain
<1> QED BY <1>7 DEF r

\* ... or one of another sensor, ...
LEMMA ChainOther ==
  ASSUME NEW s, NEW q, NEW u, NEW p, NEW n, NEW m, Chain(s, q, u, p, n, m),
         NEW e \in Events, ~ Mine(s, e), e.type # "syn"
  PROVE  Chain(s, Append(q, e), u, p, n, m)
<1> DEFINE r == Append(q, e)
<1>1. q \in Seq(Events) /\ u \in BOOLEAN /\ p \in BOOLEAN /\ n \in Nat /\ m \in Nat
      /\ Numbered(s, q, n + 1, m) /\ Apart(s, q, u, p)
  BY DEF Chain
<1>2. /\ \A k : k \in Marks(s, r, u) <=> k \in Marks(s, q, u)
      /\ \A k : k \in Syns(r) <=> k \in Syns(q)
  BY <1>1, MarksAdded
<1>3. r \in Seq(Events) /\ Numbered(s, r, n + 1, m)
  BY <1>1, Added, NumbersKept
<1> HIDE DEF r
<1>4. Apart(s, r, u, p)
  BY <1>1, <1>2, Zenon DEF Apart
<1> QED BY <1>1, <1>3, <1>4 DEF Chain, r

\* ... or ends the sample.
LEMMA ChainSync ==
  ASSUME NEW s, NEW q, NEW u, NEW p, NEW n, NEW m, Chain(s, q, u, p, n, m),
         NEW e \in Events, ~ Mine(s, e), e.type = "syn"
  PROVE  Chain(s, Append(q, e), u, FALSE, n, m)
<1> DEFINE r == Append(q, e)
<1>1. q \in Seq(Events) /\ u \in BOOLEAN /\ p \in BOOLEAN /\ n \in Nat /\ m \in Nat
      /\ Numbered(s, q, n + 1, m) /\ Apart(s, q, u, p)
  BY DEF Chain
<1>2. /\ Len(q) \in Nat
      /\ \A k : k \in Marks(s, r, u) <=> k \in Marks(s, q, u)
      /\ \A k : k \in Syns(r) <=> k \in Syns(q) \/ k = Len(q) + 1
      /\ \A k \in Marks(s, q, u) : k \in 0 .. Len(q)
  BY <1>1, MarksAdded
<1>3. r \in Seq(Events) /\ Numbered(s, r, n + 1, m)
  BY <1>1, Added, NumbersKept
<1> HIDE DEF r
<1>4. \A j, k \in Marks(s, r, u) : j < k => \E l \in Syns(r) : j < l /\ l < k
  BY <1>1, <1>2 DEF Apart
<1>5. \A k \in Marks(s, r, u) : \E l \in Syns(r) : k < l
  <2>1. \A k \in Marks(s, r, u) : k < Len(q) + 1 /\ Len(q) + 1 \in Syns(r)
    BY <1>2
  <2> QED BY <2>1
<1>6. Apart(s, r, u, FALSE)
  BY <1>4, <1>5 DEF Apart
<1> QED BY <1>1, <1>3, <1>6 DEF Chain, r

\* An undelivered event is delivered.
LEMMA ChainDeliver ==
  ASSUME NEW s, NEW q, NEW u, NEW p, NEW n, NEW m, Chain(s, q, u, p, n, m)
  PROVE  Chain(s, q, FALSE, p, n, m)
<1>1. Marks(s, q, FALSE) \subseteq Marks(s, q, u)
  BY DEF Marks
<1> QED BY <1>1 DEF Chain, Apart

\* What a tail keeps of the order.
LEMMA ApartTaken ==
  ASSUME NEW s, NEW q \in Seq(Events), q # <<>>, NEW u \in BOOLEAN, NEW p \in BOOLEAN,
         Apart(s, q, u, p)
  PROVE  Apart(s, Tail(q), Mine(s, q[1]), p)
<1> DEFINE r == Tail(q)  w == Mine(s, q[1])
<1>1. /\ Len(q) \in Nat /\ Len(q) > 0
      /\ \A k : k \in Marks(s, r, w) <=> k \in 0 .. Len(q) - 1 /\ k + 1 \in Marks(s, q, u)
      /\ \A k : k \in Syns(r) <=> k \in 1 .. Len(q) - 1 /\ k + 1 \in Syns(q)
      /\ \A k \in Syns(q) : k \in 1 .. Len(q)
  BY MarksTaken
<1> HIDE DEF r, w
<1>2. ASSUME NEW k \in Marks(s, r, w), NEW l \in Syns(q), k + 1 < l
      PROVE  l - 1 \in Syns(r) /\ k < l - 1 /\ l - 1 \in Nat /\ (l - 1) + 1 = l
  <2>1. k \in 0 .. Len(q) - 1 /\ l \in 1 .. Len(q)
    BY <1>1
  <2>2. l - 1 \in 1 .. Len(q) - 1 /\ (l - 1) + 1 = l /\ k < l - 1
    BY <1>1, <1>2, <2>1
  <2> QED BY <1>1, <2>2
<1>3. ASSUME NEW j \in Marks(s, r, w), NEW k \in Marks(s, r, w), j < k
      PROVE  \E l \in Syns(r) : j < l /\ l < k
  <2>1. j + 1 \in Marks(s, q, u) /\ k + 1 \in Marks(s, q, u) /\ j + 1 < k + 1 /\ k \in Nat /\ j \in Nat
    BY <1>1, <1>3
  <2>2. PICK l \in Syns(q) : j + 1 < l /\ l < k + 1
    BY <2>1 DEF Apart
  <2>3. l - 1 \in Syns(r) /\ j < l - 1 /\ l \in Nat
    BY <1>1, <1>2, <2>2
  <2>4. l - 1 < k
    BY <2>1, <2>2, <2>3
  <2> QED BY <2>3, <2>4
<1>4. ASSUME NEW k \in Marks(s, r, w), ~ p PROVE \E l \in Syns(r) : k < l
  <2>1. PICK l \in Syns(q) : k + 1 < l
    BY <1>1, <1>4 DEF Apart
  <2> QED BY <1>2, <2>1
<1>5. Apart(s, r, w, p)
  BY <1>3, <1>4 DEF Apart
<1> QED BY <1>5 DEF r, w

\* A sample of the sensor is taken from the ring: the one before it has been delivered, ...
LEMMA ChainTake ==
  ASSUME NEW s, NEW q, NEW u, NEW p, NEW n, NEW m, Chain(s, q, u, p, n, m),
         q # <<>>, Mine(s, q[1])
  PROVE  u = FALSE /\ q[1].v = n + 1 /\ Chain(s, Tail(q), TRUE, p, n + 1, m)
<1>1. q \in Seq(Events) /\ u \in BOOLEAN /\ p \in BOOLEAN /\ n \in Nat /\ m \in Nat
      /\ Numbered(s, q, n + 1, m) /\ Apart(s, q, u, p)
  BY DEF Chain
<1>2. 1 \in Marks(s, q, u) /\ \A k \in Syns(q) : k \in 1 .. Len(q)
  BY <1>1, MarksTaken
<1>3. ~ u
  <2>1. SUFFICES ASSUME u PROVE FALSE
    OBVIOUS
  <2>2. 0 \in Marks(s, q, u)
    BY <2>1 DEF Marks
  <2>3. PICK l \in Syns(q) : 0 < l /\ l < 1
    BY <1>1, <1>2, <2>2 DEF Apart
  <2>4. l \in 1 .. Len(q)
    BY <1>2
  <2> QED BY <2>3, <2>4
<1>4. q[1].v = n + 1 /\ Numbered(s, Tail(q), n + 2, m)
  BY <1>1, NumbersTaken
<1>5. Apart(s, Tail(q), TRUE, p) /\ Tail(q) \in Seq(Events)
  <2>1. Apart(s, Tail(q), Mine(s, q[1]), p)
    BY <1>1, ApartTaken
  <2>2. Mine(s, q[1]) = TRUE
    BY DEF Mine
  <2>3. Apart(s, Tail(q), TRUE, p)
    BY <2>1, <2>2, Zenon
  <2> QED BY <1>1, <2>3, Taken1
<1>6. n + 2 = (n + 1) + 1 /\ n + 1 \in Nat
  BY <1>1
<1>7. Numbered(s, Tail(q), (n + 1) + 1, m)
  BY <1>4, <1>6, Zenon
<1> QED BY <1>1, <1>3, <1>4, <1>5, <1>6, <1>7 DEF Chain

\* ... or another event: of another sensor, with no sample of this one undelivered, or with one
\* that is kept.
LEMMA ChainSkip ==
  ASSUME NEW s, NEW q, NEW u, NEW p, NEW n, NEW m, Chain(s, q, u, p, n, m),
         q # <<>>, ~ Mine(s, q[1]), q[1].type # "syn"
  PROVE  Chain(s, Tail(q), u, p, n, m)
<1> DEFINE r == Tail(q)  w == Mine(s, q[1])
<1>0. q \in Seq(Events) /\ u \in BOOLEAN /\ p \in BOOLEAN /\ n \in Nat /\ m \in Nat
      /\ Numbered(s, q, n + 1, m) /\ Apart(s, q, u, p)
  BY DEF Chain
<1>1. /\ Len(q) \in Nat /\ Len(q) > 0 /\ r \in Seq(Events) /\ 1 \notin Syns(q)
      /\ \A k : k \in Abs(s, r) <=> k \in 1 .. Len(q) - 1 /\ k + 1 \in Abs(s, q)
      /\ \A k : k \in Syns(r) <=> k \in 1 .. Len(q) - 1 /\ k + 1 \in Syns(q)
      /\ \A k \in Syns(q) : k \in 1 .. Len(q)
  BY <1>0, Taken1
<1>2. Apart(s, r, FALSE, p)
  <2>1. w = FALSE
    BY DEF Mine
  <2> QED BY <1>0, <2>1, ApartTaken
<1>3. Numbered(s, r, n + 1, m)
  BY <1>0, NumbersLeft
<1> HIDE DEF r
<1>4. CASE u = FALSE
  BY <1>0, <1>1, <1>2, <1>3, <1>4 DEF Chain, r
<1>5. CASE u = TRUE
  <2>1. \A k : k \in Marks(s, r, u) <=> k \in Abs(s, r) \/ k = 0
    BY <1>5, Zenon DEF Marks
  <2>2. \A k : k \in Marks(s, q, u) <=> k \in Abs(s, q) \/ k = 0
    BY <1>5, Zenon DEF Marks
  <2>3. \A k : k \in Marks(s, r, FALSE) <=> k \in Abs(s, r)
    BY Zenon DEF Marks
  <2>4. \A l \in Syns(q) : l - 1 \in Syns(r) /\ l \in Nat /\ 0 < l - 1 /\ (l - 1) + 1 = l
    <3>1. \A l \in Syns(q) : l \in 1 .. Len(q) /\ l # 1
      BY <1>1
    <3>2. \A l \in Syns(q) : l - 1 \in 1 .. Len(q) - 1 /\ (l - 1) + 1 = l /\ l \in Nat
      BY <1>1, <3>1
    <3> QED BY <1>1, <3>2
  <2>5. ASSUME NEW k \in Abs(s, r) PROVE \E l \in Syns(r) : 0 < l /\ l < k
    <3>1. k + 1 \in Marks(s, q, u) /\ 0 \in Marks(s, q, u) /\ k \in Nat
      BY <1>1, <2>2
    <3>2. PICK l \in Syns(q) : 0 < l /\ l < k + 1
      BY <1>0, <3>1 DEF Apart
    <3>3. l - 1 < k
      BY <2>4, <3>1, <3>2
    <3> QED BY <2>4, <3>3
  <2>6. ~ p => \E l \in Syns(r) : 0 < l
    <3>1. 0 \in Marks(s, q, u)
      BY <2>2
    <3> QED BY <1>0, <2>4, <3>1 DEF Apart
  <2>7. ASSUME NEW j \in Marks(s, r, u), NEW k \in Marks(s, r, u), j < k
        PROVE  \E l \in Syns(r) : j < l /\ l < k
    <3>1. k \in Abs(s, r)
      BY <1>1, <2>1, <2>7
    <3>2. CASE j = 0
      BY <2>5, <3>1, <3>2
    <3>3. CASE j \in Abs(s, r)
      BY <1>2, <2>3, <2>7, <3>1, <3>3 DEF Apart
    <3> QED BY <2>1, <3>2, <3>3
  <2>8. ASSUME NEW k \in Marks(s, r, u), ~ p PROVE \E l \in Syns(r) : k < l
    <3>1. CASE k = 0
      BY <2>6, <2>8, <3>1
    <3>2. CASE k \in Abs(s, r)
      BY <1>2, <2>3, <2>8, <3>2 DEF Apart
    <3> QED BY <2>1, <3>1, <3>2
  <2>9. Apart(s, r, u, p)
    BY <2>7, <2>8 DEF Apart
  <2> QED BY <1>0, <1>1, <1>3, <2>9 DEF Chain, r
<1> QED BY <1>0, <1>4, <1>5

\* ... or the SYN, with nothing of the sensor's undelivered.
LEMMA ChainEnd ==
  ASSUME NEW s, NEW q, NEW u, NEW p, NEW n, NEW m, Chain(s, q, u, p, n, m),
         q # <<>>, q[1].type = "syn"
  PROVE  Chain(s, Tail(q), FALSE, p, n, m)
<1>1. q \in Seq(Events) /\ u \in BOOLEAN /\ p \in BOOLEAN /\ n \in Nat /\ m \in Nat
      /\ Numbered(s, q, n + 1, m) /\ Apart(s, q, u, p)
  BY DEF Chain
<1>2. Mine(s, q[1]) = FALSE
  BY DEF Mine
<1>3. Apart(s, Tail(q), FALSE, p)
  <2>1. Apart(s, Tail(q), Mine(s, q[1]), p)
    BY <1>1, ApartTaken
  <2> QED BY <1>2, <2>1, Zenon
<1>4. Numbered(s, Tail(q), n + 1, m) /\ Tail(q) \in Seq(Events)
  BY <1>1, <1>2, NumbersLeft, Taken1
<1> QED BY <1>1, <1>3, <1>4 DEF Chain

\* The same for the events of the driver without a mask.
LEMMA AloneReport ==
  ASSUME NEW s, NEW q \in Seq(Events), NEW u \in BOOLEAN, NEW w \in BOOLEAN, NEW c,
         Alone(s, q, u, w, c), NEW e \in Events, Mine(s, e) \/ Mine(Orientation, e)
  PROVE  Alone(s, Append(q, e), u, w, TRUE)
<1> DEFINE r == Append(q, e)
<1>1. /\ Len(r) = Len(q) + 1
      /\ \A k : k \in Marks(s, r, u) <=> k \in Marks(s, q, u) \/ (k = Len(q) + 1 /\ Mine(s, e))
      /\ \A k : k \in Syns(r) => k \in Syns(q)
  <2>1. e.type # "syn"
    BY DEF Mine
  <2> QED BY <2>1, MarksAdded
<1>2. \A k : k \in Marks(Orientation, r, w)
              <=> k \in Marks(Orientation, q, w) \/ (k = Len(q) + 1 /\ Mine(Orientation, e))
  BY MarksAdded
<1> HIDE DEF r
<1>3. \A k \in Syns(r) : k - 1 \in Marks(s, r, u) \cup Marks(Orientation, r, w)
  BY <1>1, <1>2 DEF Alone
<1>4. Len(r) \in Marks(s, r, u) \cup Marks(Orientation, r, w)
  BY <1>1, <1>2
<1>5. Alone(s, r, u, w, TRUE)
  BY <1>3, <1>4 DEF Alone
<1> QED BY <1>5 DEF r

\* (SYN is queued)
LEMMA AloneSync ==
  ASSUME NEW s, NEW q \in Seq(Events), NEW u \in BOOLEAN, NEW w \in BOOLEAN,
         Alone(s, q, u, w, TRUE), NEW e \in Events, e.type = "syn"
  PROVE  Alone(s, Append(q, e), u, w, FALSE)
<1> DEFINE r == Append(q, e)
<1>1. /\ Len(q) \in Nat
      /\ \A k : k \in Marks(s, q, u) => k \in Marks(s, r, u)
      /\ \A k : k \in Syns(r) => k \in Syns(q) \/ k = Len(q) + 1
  BY MarksAdded DEF Mine
<1>2. \A k : k \in Marks(Orientation, q, w) => k \in Marks(Orientation, r, w)
  BY MarksAdded
<1> HIDE DEF r
<1>3. \A k \in Syns(r) : k - 1 \in Marks(s, r, u) \cup Marks(Orientation, r, w)
  <2>1. (Len(q) + 1) - 1 = Len(q)
    BY <1>1
  <2> QED BY <1>1, <1>2, <2>1 DEF Alone
<1>4. Alone(s, r, u, w, FALSE)
  BY <1>3 DEF Alone
<1> QED BY <1>4 DEF r

\* What has been taken out stays marked.
LEMMA MarksMore ==
  ASSUME NEW s, NEW q, NEW u \in BOOLEAN, NEW v \in BOOLEAN, u => v
  PROVE  Marks(s, q, u) \subseteq Marks(s, q, v)
BY DEF Marks

\* (The first is taken)
LEMMA AloneTake ==
  ASSUME NEW s, NEW q \in Seq(Events), q # <<>>, NEW u \in BOOLEAN, NEW w \in BOOLEAN, NEW c,
         Alone(s, q, u, w, c),
         NEW u1 \in BOOLEAN, NEW w1 \in BOOLEAN, Mine(s, q[1]) => u1, Mine(Orientation, q[1]) => w1
  PROVE  /\ Alone(s, Tail(q), u1, w1, c)
         /\ q[1].type = "syn" => u \/ w
<1> DEFINE r == Tail(q)
           S == Marks(s, q, u) \cup Marks(Orientation, q, w)
           R == Marks(s, r, u1) \cup Marks(Orientation, r, w1)
<1>1. /\ Len(r) = Len(q) - 1 /\ Len(q) \in Nat /\ Len(q) > 0
      /\ \A k : k \in Syns(r) <=> k \in 1 .. Len(q) - 1 /\ k + 1 \in Syns(q)
      /\ 1 \in Syns(q) <=> q[1].type = "syn"
  BY MarksTaken
<1>2. \A k \in 0 .. Len(q) - 1 : k + 1 \in Marks(s, q, u) => k \in Marks(s, r, u1)
  <2>1. \A k \in 0 .. Len(q) - 1 : k + 1 \in Marks(s, q, u) => k \in Marks(s, r, Mine(s, q[1]))
    BY MarksTaken
  <2>2. Mine(s, q[1]) \in BOOLEAN
    BY DEF Mine
  <2> HIDE DEF r
  <2> QED BY <2>1, <2>2, MarksMore
<1>3. \A k \in 0 .. Len(q) - 1 :
        k + 1 \in Marks(Orientation, q, w) => k \in Marks(Orientation, r, w1)
  <2>1. \A k \in 0 .. Len(q) - 1 :
          k + 1 \in Marks(Orientation, q, w) => k \in Marks(Orientation, r, Mine(Orientation, q[1]))
    BY MarksTaken
  <2>2. Mine(Orientation, q[1]) \in BOOLEAN
    BY DEF Mine
  <2> HIDE DEF r
  <2> QED BY <2>1, <2>2, MarksMore
<1>4. \A k \in 0 .. Len(q) - 1 : k + 1 \in S => k \in R
  BY <1>2, <1>3
<1>5. /\ \A k \in Syns(q) : k - 1 \in S
      /\ c => Len(q) \in S
  BY DEF Alone
<1>6. q[1].type = "syn" => u \/ w
  <2>1. SUFFICES ASSUME q[1].type = "syn" PROVE u \/ w
    OBVIOUS
  <2>2. 0 \in S
    <3>1. 1 - 1 \in S /\ 1 - 1 = 0
      BY <1>1, <1>5, <2>1
    <3> QED BY <3>1
  <2>3. 0 \notin Abs(s, q) /\ 0 \notin Abs(Orientation, q)
    BY Placed
  <2> QED BY <2>2, <2>3 DEF Marks
<1> HIDE DEF r, S, R
<1>7. ASSUME NEW k \in Syns(r) PROVE k - 1 \in R
  <2>1. k \in 1 .. Len(q) - 1 /\ (k + 1) - 1 \in S
    BY <1>1, <1>5
  <2>2. k - 1 \in 0 .. Len(q) - 1 /\ (k - 1) + 1 = (k + 1) - 1
    BY <1>1, <2>1
  <2> QED BY <1>4, <2>1, <2>2
<1>8. c => Len(r) \in R
  <2>1. Len(r) \in 0 .. Len(q) - 1 /\ Len(r) + 1 = Len(q)
    BY <1>1
  <2> QED BY <1>4, <1>5, <2>1
<1>9. Alone(s, r, u1, w1, c)
  BY <1>7, <1>8 DEF Alone, R
<1> QED BY <1>6, <1>9 DEF r
-----------------------------------------------------------------------------
(* A sensor that stays on.                                                 *)

\* What is so of it if its driver has a mask: q are its driver's events, u and p as before, g the values delivered,
\* v the last one taken from the ring, m the samples it has taken.
Whole(s, q, u, p, g, v, m) ==
  /\ g \in Seq(Nat) /\ g = [k \in 1 .. Len(g) |-> k]
  /\ v \in Nat /\ (u => v = Len(g) + 1)
  /\ Chain(s, q, u, p, Len(g) + (IF u THEN 1 ELSE 0), m)

\* Its driver reports a sample of it, ...
LEMMA WholeReport ==
  ASSUME NEW s, NEW q, NEW u, NEW g, NEW v, NEW m, Whole(s, q, u, FALSE, g, v, m),
         NEW e \in Events, Mine(s, e), e.v = m + 1
  PROVE  Whole(s, Append(q, e), u, TRUE, g, v, m + 1)
BY ChainReport DEF Whole, Chain

\* ... or of another sensor, ...
LEMMA WholeOther ==
  ASSUME NEW s, NEW q, NEW u, NEW p, NEW g, NEW v, NEW m, Whole(s, q, u, p, g, v, m),
         NEW e \in Events, ~ Mine(s, e), e.type # "syn"
  PROVE  Whole(s, Append(q, e), u, p, g, v, m)
BY ChainOther DEF Whole

\* ... or ends the sample.
LEMMA WholeSync ==
  ASSUME NEW s, NEW q, NEW u, NEW p, NEW g, NEW v, NEW m, Whole(s, q, u, p, g, v, m),
         NEW e \in Events, e.type = "syn"
  PROVE  Whole(s, Append(q, e), u, FALSE, g, v, m)
<1>1. ~ Mine(s, e)
  BY DEF Mine
<1>2. Chain(s, Append(q, e), u, FALSE, Len(g) + (IF u THEN 1 ELSE 0), m)
  BY <1>1, ChainSync DEF Whole
<1> QED BY <1>2 DEF Whole

\* Its sample is taken from the ring: it is the next one.
LEMMA WholeTake ==
  ASSUME NEW s, NEW q, NEW u, NEW p, NEW g, NEW v, NEW m, Whole(s, q, u, p, g, v, m),
         q # <<>>, Mine(s, q[1])
  PROVE  q[1].v = Len(g) + 1 /\ Whole(s, Tail(q), TRUE, p, g, q[1].v, m)
<1> DEFINE n == Len(g) + (IF u THEN 1 ELSE 0)
<1>1. Chain(s, q, u, p, n, m) /\ Len(g) \in Nat /\ g \in Seq(Nat)
  BY DEF Whole
<1>2. u = FALSE /\ q[1].v = n + 1 /\ Chain(s, Tail(q), TRUE, p, n + 1, m)
  <2> HIDE DEF n
  <2> QED BY <1>1, ChainTake
<1>3. n = Len(g)
  BY <1>1, <1>2
<1> HIDE DEF n
<1>5. Chain(s, Tail(q), TRUE, p, Len(g) + (IF TRUE THEN 1 ELSE 0), m)
  BY <1>2, <1>3
<1>6. q[1].v \in Nat /\ q[1].v = Len(g) + 1 /\ g = [k \in 1 .. Len(g) |-> k]
  BY <1>1, <1>2, <1>3 DEF Whole
<1> QED BY <1>1, <1>5, <1>6 DEF Whole

\* Another sensor's is.
LEMMA WholeSkip ==
  ASSUME NEW s, NEW q, NEW u, NEW p, NEW g, NEW v, NEW m, Whole(s, q, u, p, g, v, m),
         q # <<>>, ~ Mine(s, q[1]), q[1].type # "syn"
  PROVE  Whole(s, Tail(q), u, p, g, v, m)
BY ChainSkip DEF Whole

\* The values delivered, with the next one.
LEMMA Longer ==
  ASSUME NEW g \in Seq(Nat), g = [k \in 1 .. Len(g) |-> k]
  PROVE  /\ Append(g, Len(g) + 1) \in Seq(Nat) /\ Len(Append(g, Len(g) + 1)) = Len(g) + 1
         /\ Append(g, Len(g) + 1) = [k \in 1 .. Len(Append(g, Len(g) + 1)) |-> k]
<1> DEFINE n == Len(g)  r == Append(g, n + 1)
<1>1. n \in Nat /\ n + 1 \in Nat
  OBVIOUS
<1>2. r \in Seq(Nat) /\ Len(r) = n + 1 /\ r[n + 1] = n + 1 /\ \A k \in 1 .. n : r[k] = g[k]
  BY <1>1, AppendProperties
<1>3. \A k \in 1 .. n : g[k] = k
  OBVIOUS
<1> HIDE DEF n, r
<1>4. \A k \in 1 .. n + 1 : r[k] = k
  BY <1>1, <1>2, <1>3
<1>5. r = [k \in 1 .. n + 1 |-> r[k]]
  BY <1>2
<1>6. r = [k \in 1 .. n + 1 |-> k]
  BY <1>4, <1>5
<1> QED BY <1>2, <1>6 DEF n, r

\* (At a SYN that stays in the ring)
LEMMA WholeDeliver ==
  ASSUME NEW s, NEW q, NEW p, NEW g, NEW v, NEW m, Whole(s, q, TRUE, p, g, v, m)
  PROVE  Whole(s, q, FALSE, p, Append(g, v), v, m)
<1>1. g \in Seq(Nat) /\ g = [k \in 1 .. Len(g) |-> k] /\ v \in Nat /\ v = Len(g) + 1 /\ Len(g) \in Nat
      /\ Chain(s, q, TRUE, p, Len(g) + (IF TRUE THEN 1 ELSE 0), m)
  <2>1. g \in Seq(Nat) /\ g = [k \in 1 .. Len(g) |-> k] /\ v \in Nat /\ v = Len(g) + 1
        /\ Chain(s, q, TRUE, p, Len(g) + (IF TRUE THEN 1 ELSE 0), m)
    BY Zenon DEF Whole
  <2>2. Len(g) \in Nat
    BY <2>1, LenProperties, Zenon
  <2> QED BY <2>1, <2>2, Zenon
<1>2. Append(g, v) \in Seq(Nat) /\ Len(Append(g, v)) = Len(g) + 1
      /\ Append(g, v) = [k \in 1 .. Len(Append(g, v)) |-> k]
  BY <1>1, Longer
<1>3. Chain(s, q, FALSE, p, Len(g) + (IF TRUE THEN 1 ELSE 0), m)
  BY <1>1, ChainDeliver
<1>4. Len(g) + (IF TRUE THEN 1 ELSE 0) = Len(Append(g, v)) + (IF FALSE THEN 1 ELSE 0)
  BY <1>1, <1>2
<1>5. Chain(s, q, FALSE, p, Len(Append(g, v)) + (IF FALSE THEN 1 ELSE 0), m)
  BY <1>3, <1>4, Zenon
<1> QED BY <1>1, <1>2, <1>5 DEF Whole

\* The SYN is taken from the ring, with nothing of the sensor's left to deliver.
LEMMA WholeEnd ==
  ASSUME NEW s, NEW q, NEW p, NEW g, NEW v, NEW m, Whole(s, q, FALSE, p, g, v, m),
         q # <<>>, q[1].type = "syn"
  PROVE  Whole(s, Tail(q), FALSE, p, g, v, m)
BY ChainEnd DEF Whole

-----------------------------------------------------------------------------
(* The sensor of the driver without a mask.                                *)

\* The last of the values delivered.
LastOf(g) == IF g = <<>> THEN 0 ELSE g[Len(g)]

\* None is skipped.
Steps(g) == \A k \in DOMAIN g : g[k] - (IF k = 1 THEN 0 ELSE g[k - 1]) \in {0, 1}

\* What is so of it if it stays on: o, so many events have been dropped.
Alike(s, q, u, p, c, g, v, m, o) ==
  /\ g \in Seq(Nat) /\ v \in Nat /\ o \in Nat
  /\ Steps(g)
  /\ v = LastOf(g) + (IF u THEN 1 ELSE 0)
  /\ Len(g) <= LastOf(g) + o
  /\ Chain(s, q, u, p, v, m)
  /\ Alone(s, q, u, Len(g) < LastOf(g) + o, c)

\* The last value is a number.
LEMMA LastIs == ASSUME NEW g \in Seq(Nat) PROVE LastOf(g) \in Nat /\ Len(g) \in Nat
<1>1. CASE g = <<>>
  BY <1>1 DEF LastOf
<1>2. CASE g # <<>>
  <2>1. Len(g) \in 1 .. Len(g) /\ Len(g) \in Nat
    BY <1>2, EmptySeq, LenProperties
  <2> QED BY <1>2, <2>1 DEF LastOf
<1> QED BY <1>1, <1>2

\* The values delivered, with one more.
LEMMA StepsMore ==
  ASSUME NEW g \in Seq(Nat), NEW v \in Nat, Steps(g), v - LastOf(g) \in {0, 1}
  PROVE  /\ Append(g, v) \in Seq(Nat) /\ Len(Append(g, v)) = Len(g) + 1 /\ LastOf(Append(g, v)) = v
         /\ Steps(Append(g, v))
<1> DEFINE r == Append(g, v)  n == Len(g)
<1>1. /\ r \in Seq(Nat) /\ Len(r) = n + 1 /\ n \in Nat /\ r[n + 1] = v /\ r # <<>>
      /\ \A k \in 1 .. n : r[k] = g[k]
  BY AppendProperties
<1>2. DOMAIN g = 1 .. n /\ (n = 0 <=> g = <<>>)
  BY EmptySeq, LenProperties
<1> HIDE DEF r, n
<1>3. DOMAIN r = 1 .. n + 1
  BY <1>1
<1>4. LastOf(r) = v
  BY <1>1 DEF LastOf
<1>5. ASSUME NEW k \in 1 .. n + 1
      PROVE  r[k] - (IF k = 1 THEN 0 ELSE r[k - 1]) \in {0, 1}
  <2>1. CASE k \in 1 .. n
    <3>1. k # 1 => k - 1 \in 1 .. n
      BY <1>1, <2>1
    <3>2. r[k] = g[k] /\ (k # 1 => r[k - 1] = g[k - 1])
      BY <1>1, <2>1, <3>1
    <3>3. g[k] - (IF k = 1 THEN 0 ELSE g[k - 1]) \in {0, 1}
      BY <1>2, <2>1 DEF Steps
    <3> QED BY <3>2, <3>3
  <2>2. CASE k = n + 1 /\ n = 0
    <3>1. LastOf(g) = 0
      BY <1>2, <2>2 DEF LastOf
    <3> QED BY <1>1, <2>2, <3>1
  <2>3. CASE k = n + 1 /\ n # 0
    <3>1. LastOf(g) = g[n]
      BY <1>2, <2>3 DEF LastOf, n
    <3>2. k - 1 = n /\ n \in 1 .. n /\ k # 1
      BY <1>1, <2>3
    <3>3. r[k] = v /\ r[k - 1] = g[n]
      BY <1>1, <2>3, <3>2
    <3> QED BY <3>1, <3>2, <3>3
  <2> QED BY <1>1, <2>1, <2>2, <2>3
<1>6. Steps(r)
  BY <1>3, <1>5 DEF Steps
<1> QED BY <1>1, <1>4, <1>6 DEF r, n

\* Its driver reports a sample of it, ...
LEMMA AlikeReport ==
  ASSUME NEW s, NEW q, NEW u, NEW c, NEW g, NEW v, NEW m, NEW o,
         Alike(s, q, u, FALSE, c, g, v, m, o), NEW e \in Events, Mine(s, e), e.v = m + 1
  PROVE  Alike(s, Append(q, e), u, TRUE, TRUE, g, v, m + 1, o)
<1>1. Chain(s, Append(q, e), u, TRUE, v, m + 1)
  BY ChainReport DEF Alike
<1>2. Alone(s, Append(q, e), u, Len(g) < LastOf(g) + o, TRUE)
  <2> DEFINE w == Len(g) < LastOf(g) + o
  <2>1. q \in Seq(Events) /\ u \in BOOLEAN /\ Alone(s, q, u, w, c) /\ w \in BOOLEAN
    BY DEF Alike, Chain
  <2> HIDE DEF w
  <2>2. Alone(s, Append(q, e), u, w, TRUE)
    BY <2>1, AloneReport
  <2> QED BY <2>2 DEF w
<1> QED BY <1>1, <1>2 DEF Alike

\* ... or an event to drop, ...
LEMMA AlikeOther ==
  ASSUME NEW s, NEW q, NEW u, NEW p, NEW c, NEW g, NEW v, NEW m, NEW o,
         Alike(s, q, u, p, c, g, v, m, o), NEW e \in Events, ~ Mine(s, e), Mine(Orientation, e)
  PROVE  Alike(s, Append(q, e), u, p, TRUE, g, v, m, o)
<1>1. Chain(s, Append(q, e), u, p, v, m)
  BY ChainOther DEF Alike, Mine
<1>2. Alone(s, Append(q, e), u, Len(g) < LastOf(g) + o, TRUE)
  <2> DEFINE w == Len(g) < LastOf(g) + o
  <2>1. q \in Seq(Events) /\ u \in BOOLEAN /\ Alone(s, q, u, w, c) /\ w \in BOOLEAN
    BY DEF Alike, Chain
  <2> HIDE DEF w
  <2>2. Alone(s, Append(q, e), u, w, TRUE)
    BY <2>1, AloneReport
  <2> QED BY <2>2 DEF w
<1> QED BY <1>1, <1>2 DEF Alike

\* ... or ends the sample.
LEMMA AlikeSync ==
  ASSUME NEW s, NEW q, NEW u, NEW p, NEW g, NEW v, NEW m, NEW o,
         Alike(s, q, u, p, TRUE, g, v, m, o), NEW e \in Events, e.type = "syn"
  PROVE  Alike(s, Append(q, e), u, FALSE, FALSE, g, v, m, o)
<1>1. Chain(s, Append(q, e), u, FALSE, v, m)
  <2>1. ~ Mine(s, e)
    BY DEF Mine
  <2> QED BY <2>1, ChainSync DEF Alike
<1>2. Alone(s, Append(q, e), u, Len(g) < LastOf(g) + o, FALSE)
  <2> DEFINE w == Len(g) < LastOf(g) + o
  <2>1. q \in Seq(Events) /\ u \in BOOLEAN /\ Alone(s, q, u, w, TRUE) /\ w \in BOOLEAN
    <3>1. Alone(s, q, u, w, TRUE)
      BY Zenon DEF Alike
    <3>2. q \in Seq(Events) /\ u \in BOOLEAN
      BY DEF Alike, Chain
    <3>3. w \in BOOLEAN
      OBVIOUS
    <3> QED BY <3>1, <3>2, <3>3
  <2> HIDE DEF w
  <2>2. Alone(s, Append(q, e), u, w, FALSE)
    BY <2>1, AloneSync
  <2> QED BY <2>2 DEF w
<1> QED BY <1>1, <1>2 DEF Alike

\* Its sample is taken from the ring: the one before it has been delivered.
LEMMA AlikeTake ==
  ASSUME NEW s, NEW q, NEW u, NEW p, NEW c, NEW g, NEW v, NEW m, NEW o,
         Alike(s, q, u, p, c, g, v, m, o), q # <<>>, Mine(s, q[1]), s # Orientation
  PROVE  /\ q[1].v = LastOf(g) + 1 /\ LastOf(g) \in Nat
         /\ Alike(s, Tail(q), TRUE, p, c, g, q[1].v, m, o)
<1>1. u = FALSE /\ q[1].v = v + 1 /\ Chain(s, Tail(q), TRUE, p, v + 1, m)
  BY ChainTake DEF Alike
<1>2. g \in Seq(Nat) /\ LastOf(g) \in Nat /\ v = LastOf(g)
  BY <1>1, LastIs DEF Alike
<1>3. Alone(s, Tail(q), TRUE, Len(g) < LastOf(g) + o, c)
  <2> DEFINE w == Len(g) < LastOf(g) + o
  <2>1. q \in Seq(Events) /\ u \in BOOLEAN /\ Alone(s, q, u, w, c) /\ w \in BOOLEAN
    BY DEF Alike, Chain
  <2>2. ~ Mine(Orientation, q[1])
    BY DEF Mine
  <2> HIDE DEF w
  <2>3. Alone(s, Tail(q), TRUE, w, c)
    BY <2>1, <2>2, AloneTake
  <2> QED BY <2>3 DEF w
<1>4. q[1].v \in Nat /\ q[1].v = LastOf(g) + 1 /\ q[1].v = LastOf(g) + (IF TRUE THEN 1 ELSE 0)
  BY <1>1, <1>2
<1>5. Chain(s, Tail(q), TRUE, p, q[1].v, m)
  BY <1>1
<1>6. o \in Nat /\ Steps(g) /\ Len(g) <= LastOf(g) + o
  BY DEF Alike
<1>7. Alike(s, Tail(q), TRUE, p, c, g, q[1].v, m, o)
  BY <1>2, <1>3, <1>4, <1>5, <1>6, Zenon DEF Alike
<1> QED BY <1>2, <1>4, <1>7

\* An event is dropped.
LEMMA AlikeDrop ==
  ASSUME NEW s, NEW q, NEW u, NEW p, NEW c, NEW g, NEW v, NEW m, NEW o,
         Alike(s, q, u, p, c, g, v, m, o), q # <<>>, ~ Mine(s, q[1]), Mine(Orientation, q[1])
  PROVE  Alike(s, Tail(q), u, p, c, g, v, m, o + 1)
<1>1. Chain(s, Tail(q), u, p, v, m)
  BY ChainSkip DEF Alike, Mine
<1>2. /\ g \in Seq(Nat) /\ LastOf(g) \in Nat /\ Len(g) \in Nat /\ o \in Nat
      /\ Len(g) <= LastOf(g) + o
  BY LastIs DEF Alike
<1>3. Len(g) < LastOf(g) + (o + 1) /\ Len(g) <= LastOf(g) + (o + 1)
  BY <1>2
<1>4. Alone(s, Tail(q), u, Len(g) < LastOf(g) + (o + 1), c)
  <2> DEFINE w == Len(g) < LastOf(g) + o  w1 == Len(g) < LastOf(g) + (o + 1)
  <2>1. q \in Seq(Events) /\ u \in BOOLEAN /\ Alone(s, q, u, w, c) /\ w \in BOOLEAN
    BY DEF Alike, Chain
  <2>2. w1 = TRUE
    BY <1>3
  <2> HIDE DEF w, w1
  <2>3. Alone(s, Tail(q), u, w1, c)
    BY <2>1, <2>2, AloneTake
  <2> QED BY <2>3 DEF w1
<1> QED BY <1>1, <1>2, <1>3, <1>4 DEF Alike

\* The SYN is taken from the ring and the last sample delivered, be it for the first time or
\* again, for an event that was dropped.
LEMMA AlikeEnd ==
  ASSUME NEW s, NEW q, NEW u, NEW p, NEW c, NEW g, NEW v, NEW m, NEW o,
         Alike(s, q, u, p, c, g, v, m, o), q # <<>>, q[1].type = "syn"
  PROVE  /\ LastOf(Append(g, v)) = v
         /\ Alike(s, Tail(q), FALSE, p, c, Append(g, v), v, m, o)
<1> DEFINE r == Append(g, v)  w == Len(g) < LastOf(g) + o
<1>1. Chain(s, Tail(q), FALSE, p, v, m)
  BY ChainEnd DEF Alike
<1>2. /\ g \in Seq(Nat) /\ LastOf(g) \in Nat /\ Len(g) \in Nat /\ o \in Nat /\ v \in Nat
      /\ Len(g) <= LastOf(g) + o /\ v = LastOf(g) + (IF u THEN 1 ELSE 0) /\ Steps(g)
  BY LastIs DEF Alike
<1>3. r \in Seq(Nat) /\ Len(r) = Len(g) + 1 /\ LastOf(r) = v /\ Steps(r)
  BY <1>2, StepsMore
<1>4. /\ \A w1 \in BOOLEAN : Alone(s, Tail(q), FALSE, w1, c)
      /\ u \/ w
  <2>1. q \in Seq(Events) /\ u \in BOOLEAN /\ Alone(s, q, u, w, c)
    BY DEF Alike, Chain
  <2>2. ~ Mine(s, q[1]) /\ ~ Mine(Orientation, q[1]) /\ w \in BOOLEAN
    BY DEF Mine
  <2> HIDE DEF w
  <2>3. ASSUME NEW u1 \in BOOLEAN, NEW w1 \in BOOLEAN
        PROVE  Alone(s, Tail(q), u1, w1, c) /\ (u \/ w)
    BY <2>1, <2>2, AloneTake
  <2>4. FALSE \in BOOLEAN
    OBVIOUS
  <2> QED BY <2>3, <2>4, Zenon
<1>5. Len(r) <= LastOf(r) + o
  BY <1>2, <1>3, <1>4
<1>6. Alone(s, Tail(q), FALSE, Len(r) < LastOf(r) + o, c)
  <2> DEFINE w1 == Len(r) < LastOf(r) + o
  <2>1. w1 \in BOOLEAN
    OBVIOUS
  <2> HIDE DEF w1, w
  <2>2. Alone(s, Tail(q), FALSE, w1, c)
    BY <1>4, <2>1
  <2> QED BY <2>2 DEF w1
<1> HIDE DEF r
<1>7. v = LastOf(r) + (IF FALSE THEN 1 ELSE 0)
  BY <1>2, <1>3
<1>8. Alike(s, Tail(q), FALSE, p, c, r, v, m, o)
  BY <1>1, <1>2, <1>3, <1>5, <1>6, <1>7 DEF Alike
<1> QED BY <1>3, <1>8 DEF r

-----------------------------------------------------------------------------
(* The invariant.                                                          *)

\* What a driver can have queued.
Genuine(d) ==
  {e \in Events : e.type = "syn" \/ (e.type = "abs" /\ e.s \in ToSet(Sensors[d]) /\ e.v <= made[e.s])}

\* The types of the data, ...
Typed ==
  /\ file \in [Drivers -> Seq(Events)] /\ partial \in [Drivers -> SUBSET All]
  /\ \A d \in Drivers : partial[d] \subseteq ToSet(Sensors[d])
  /\ made \in [All -> Nat] /\ \A s \in All : made[s] <= MaxSamples[s]
  /\ value \in [All -> Nat] /\ \A s \in All : value[s] <= made[s]
  /\ got \in [All -> Seq(Nat)]
  /\ DOMAIN reader = Drivers /\ \A d \in Drivers : Ring(reader[d])
  /\ \A d \in Drivers : Queue(d) \in Seq(Genuine(d))
  /\ mask \subseteq All /\ enabled \subseteq All /\ All \ Toggled \subseteq enabled

\* ... and of the control.
Control ==
  /\ pending \in BOOLEAN /\ revents \subseteq Drivers /\ wake \in 0 .. MaxWake
  /\ pc \in {"idle", "scan", "read", "drain", "poll"}
  /\ i \in 1 .. Len(Sensors) + 1 /\ (pc \in {"read", "drain"} => i \in Drivers)
  /\ act.at \in {"idle", "pend", "wake"} /\ (act.at # "idle" => wake < MaxWake)

\* The sensors that stay on.
Steady == All \ (Toggled \cup {Orientation})

Sound(s) ==
  LET d == Driver(s)
  IN  IF d \in Masked
      THEN Whole(s, Queue(d), Undelivered(s), s \in partial[d], got[s], value[s], made[s])
      ELSE Alike(s, Queue(d), Undelivered(s), s \in partial[d], partial[d] # {}, got[s], value[s],
                 made[s], Len(got[Orientation]))

SInv == Typed /\ Control /\ \A s \in Steady : Sound(s)

\* Each sensor has one driver.
LEMMA DriverIs ==
  ASSUME NEW d \in Drivers, NEW s \in ToSet(Sensors[d])
  PROVE  s \in All /\ Driver(s) = d
<1>1. s \in All
  BY DEF All
<1>2. \A e \in Drivers : s \in ToSet(Sensors[e]) => e = d
  BY SensorsAssumption
<1> QED BY <1>1, <1>2 DEF Driver

\* It is the one that reports it.
LEMMA DriverOf ==
  ASSUME NEW s \in All
  PROVE  Driver(s) \in Drivers /\ s \in ToSet(Sensors[Driver(s)])
BY DriverIs DEF All

\* The driver without a mask has one sensor, and events of Orientation.
LEMMA Single ==
  /\ Orientation \in All /\ Driver(Orientation) \notin Masked
  /\ \A d \in Drivers \ Masked :
       /\ d = Driver(Orientation)
       /\ \A s, t \in ToSet(Sensors[d]) \ {Orientation} : s = t
<1>1. Orientation \in All /\ Masked = Drivers \ {Driver(Orientation)}
      /\ \E s \in All : ToSet(Sensors[Driver(Orientation)]) \ {Orientation} = {s}
  BY SensorsAssumption
<1>2. Orientation \in All /\ Driver(Orientation) \notin Masked
  BY <1>1
<1>3. ASSUME NEW d \in Drivers \ Masked
      PROVE  /\ d = Driver(Orientation)
             /\ \A s, t \in ToSet(Sensors[d]) \ {Orientation} : s = t
  <2>1. d = Driver(Orientation)
    BY <1>1
  <2>2. PICK x \in All : ToSet(Sensors[d]) \ {Orientation} = {x}
    BY <1>1, <2>1
  <2> QED BY <2>1, <2>2
<1> QED BY <1>2, <1>3

\* A sequence over a set is one over a larger set.
LEMMA Wider ==
  ASSUME NEW S, NEW T, S \subseteq T, NEW q \in Seq(S)
  PROVE  q \in Seq(T)
OBVIOUS

\* The queue of a driver.
LEMMA QueueIs ==
  ASSUME Typed, NEW d \in Drivers
  PROVE  /\ Ring(reader[d]) /\ file[d] \in Seq(Events) /\ Queue(d) \in Seq(Events)
         /\ Queue(d) \in Seq(Genuine(d))
<1>1. Ring(reader[d]) /\ file[d] \in Seq(Events) /\ Queue(d) \in Seq(Genuine(d))
  BY DEF Typed
<1>2. Held(reader[d]) \in Seq(Events)
  BY <1>1, HeldIs
<1>3. Queue(d) \in Seq(Events)
  BY <1>1, <1>2, ConcatProperties DEF Queue
<1> QED BY <1>1, <1>3

\* The queue of a driver depends on its ring and its data file.
LEMMA QueueSame ==
  ASSUME NEW d, reader'[d] = reader[d], file'[d] = file[d]
  PROVE  Queue(d)' = Queue(d)
BY DEF Queue

\* Nothing of a sensor changes.
Same(s) ==
  /\ Queue(Driver(s))' = Queue(Driver(s))
  /\ partial'[Driver(s)] = partial[Driver(s)]
  /\ Driver(s) \notin Masked => got'[Orientation] = got[Orientation]
  /\ got'[s] = got[s] /\ value'[s] = value[s] /\ made'[s] = made[s]
  /\ s \in mask' <=> s \in mask

\* Whether a sample is undelivered depends on these.
LEMMA SameUndelivered ==
  ASSUME NEW s, got'[s] = got[s], value'[s] = value[s], s \in mask' <=> s \in mask
  PROVE  Undelivered(s)' = Undelivered(s)
<1>1. CASE Driver(s) \in Masked
  BY <1>1 DEF Undelivered
<1>2. CASE Driver(s) \notin Masked
  BY <1>2 DEF Undelivered, Latest
<1> QED BY <1>1, <1>2

\* Then the sensor stays as it was.
LEMMA Stays == ASSUME NEW s, Sound(s), Same(s) PROVE Sound(s)'
<1>1. Undelivered(s)' = Undelivered(s)
  BY SameUndelivered DEF Same
<1> QED BY <1>1 DEF Same, Sound

\* The steps that move no event.
LEMMA Still ==
  ASSUME SInv, UNCHANGED <<kernel, hal, got>>, enabled' \subseteq All, All \ Toggled \subseteq enabled'
  PROVE  Typed' /\ \A s \in Steady : Sound(s)'
<1>1. \A d : Queue(d)' = Queue(d)
  BY DEF Queue, kernel, hal
<1>2. Typed'
  BY <1>1 DEF SInv, Typed, kernel, hal, Genuine
<1>3. ASSUME NEW s \in Steady PROVE Sound(s)'
  <2>1. Same(s)
    BY <1>1 DEF kernel, hal, Same
  <2> QED BY <2>1, Stays DEF SInv
<1> QED BY <1>2, <1>3

-----------------------------------------------------------------------------
(* The steps.                                                              *)

\* A driver queues an event: what its queue is then.
LEMMA Queued ==
  ASSUME Typed, NEW d \in Drivers, NEW e \in Events,
         file' = [file EXCEPT ![d] = Append(@, e)], reader' = reader
  PROVE  /\ file' \in [Drivers -> Seq(Events)]
         /\ Queue(d)' = Append(Queue(d), e)
         /\ \A c \in Drivers \ {d} : Queue(c)' = Queue(c)
<1>1. file[d] \in Seq(Events) /\ Ring(reader[d]) /\ file \in [Drivers -> Seq(Events)]
  BY DEF Typed
<1>2. Append(file[d], e) \in Seq(Events) /\ Held(reader[d]) \o Append(file[d], e) = Append(Queue(d), e)
  BY <1>1, QueueAppend DEF Queue
<1>3. file' \in [Drivers -> Seq(Events)] /\ file'[d] = Append(file[d], e)
      /\ \A c \in Drivers \ {d} : file'[c] = file[c]
  BY <1>1, <1>2
<1>4. Queue(d)' = Held(reader[d]) \o file'[d] /\ \A c : Queue(c)' = Held(reader[c]) \o file'[c]
  BY DEF Queue
<1>5. \A c \in Drivers \ {d} : Queue(c)' = Queue(c)
  BY <1>3, <1>4 DEF Queue
<1> QED BY <1>2, <1>3, <1>4, <1>5

\* A driver reports a sample.
LEMMA ReportKeeps ==
  ASSUME SInv, NEW d \in Drivers, NEW t \in ToSet(Sensors[d]), report(d, t)
  PROVE  Typed' /\ \A s \in Steady : Sound(s)'
<1> DEFINE e == [type |-> "abs", s |-> t, v |-> made[t] + 1]
<1>1. /\ made[t] < MaxSamples[t]
      /\ \A x \in partial[d] : PositionOf(d, x) < PositionOf(d, t)
      /\ made' = [made EXCEPT ![t] = @ + 1]
      /\ partial' = [partial EXCEPT ![d] = @ \cup {t}]
      /\ file' = [file EXCEPT ![d] = Append(@, e)]
      /\ reader' = reader /\ value' = value /\ mask' = mask /\ got' = got /\ enabled' = enabled
  BY DEF report, hal
<1>2. t \in All /\ Driver(t) = d /\ made \in [All -> Nat] /\ made[t] \in Nat /\ MaxSamples[t] \in Nat
  BY DriverIs, SensorsAssumption DEF SInv, Typed
<1>3. e \in Events /\ Mine(t, e) /\ e.v = made[t] + 1 /\ e.type # "syn" /\ e.type = "abs" /\ e.s = t
  BY <1>2 DEF Events, Mine
<1> HIDE DEF e
<1>4. /\ file' \in [Drivers -> Seq(Events)] /\ Queue(d)' = Append(Queue(d), e)
      /\ \A c \in Drivers \ {d} : Queue(c)' = Queue(c)
  BY <1>1, <1>3, Queued DEF SInv
<1>5. /\ made' \in [All -> Nat] /\ made'[t] = made[t] + 1
      /\ \A s \in All : made[s] <= made'[s] /\ (s # t => made'[s] = made[s]) /\ made'[s] <= MaxSamples[s]
  <2>1. made' \in [All -> Nat] /\ made'[t] = made[t] + 1 /\ \A s \in All : s # t => made'[s] = made[s]
    BY <1>1, <1>2
  <2>2. \A s \in All : made[s] \in Nat /\ made[s] <= MaxSamples[s]
    BY <1>2 DEF SInv, Typed
  <2>3. made[t] + 1 <= MaxSamples[t] /\ made[t] <= made[t] + 1
    BY <1>1, <1>2
  <2> QED BY <2>1, <2>2, <2>3
<1>6. /\ partial \in [Drivers -> SUBSET All] /\ partial' \in [Drivers -> SUBSET All]
      /\ partial'[d] = partial[d] \cup {t} /\ \A c \in Drivers \ {d} : partial'[c] = partial[c]
      /\ \A c \in Drivers : partial'[c] \subseteq ToSet(Sensors[c])
  BY <1>1, <1>2 DEF SInv, Typed
<1>7. \A c \in Drivers : Genuine(c) \subseteq Genuine(c)'
  <2>1. ASSUME NEW c \in Drivers, NEW x \in Events, x.type = "abs", x.s \in ToSet(Sensors[c]), x.v <= made[x.s]
        PROVE  x.v <= made'[x.s]
    <3>1. x.s \in All /\ x.v \in Nat
      <4>1. x \in [type : {"abs"}, s : All, v : Nat]
        BY <2>1 DEF Events, NoEvent
      <4> QED BY <4>1
    <3> QED BY <1>2, <1>5, <2>1, <3>1
  <2> QED BY <2>1 DEF Genuine
<1>8. ASSUME NEW c \in Drivers PROVE Queue(c)' \in Seq(Genuine(c)')
  <2>1. Queue(c) \in Seq(Genuine(c)')
    BY <1>7, Wider, QueueIs DEF SInv
  <2>2. CASE c = d
    <3>1. e \in Genuine(d)'
      <4>1. e.v <= made'[e.s]
        BY <1>2, <1>3, <1>5
      <4> QED BY <1>3, <4>1 DEF Genuine
    <3>2. Append(Queue(d), e) \in Seq(Genuine(d)')
      BY <2>1, <2>2, <3>1, AppendProperties
    <3> QED BY <1>4, <2>2, <3>2
  <2>3. CASE c # d
    BY <1>4, <2>1, <2>3
  <2> QED BY <2>2, <2>3
<1>9. \A s \in All : value'[s] <= made'[s]
  <2>1. \A s \in All : value[s] \in Nat /\ value[s] <= made[s] /\ made[s] \in Nat /\ made'[s] \in Nat
    BY <1>5 DEF SInv, Typed
  <2> QED BY <1>1, <1>5, <2>1
<1>10. Typed'
  BY <1>1, <1>4, <1>5, <1>6, <1>8, <1>9 DEF SInv, Typed
<1>11. ASSUME NEW s \in Steady PROVE Sound(s)'
  <2>0. Sound(s) /\ Driver(s) \in Drivers /\ s \in ToSet(Sensors[Driver(s)])
    BY DriverOf DEF SInv, Steady
  <2>1. Undelivered(s)' = Undelivered(s)
    BY <1>1, SameUndelivered
  <2>2. CASE Driver(s) # d
    <3>1. s # t
      BY <1>2, <2>2
    <3>2. Same(s)
      BY <1>1, <1>4, <1>5, <1>6, <2>0, <2>2, <3>1 DEF Same
    <3> QED BY <2>0, <3>2, Stays
  <2>3. CASE s = t
    <3>1. (s \in partial[d]) = FALSE
      <4>1. PositionOf(d, t) \in Nat
        BY Positions
      <4>2. t \notin partial[d]
        BY <1>1, <4>1
      <4> QED BY <2>3, <4>2
    <3>2. (s \in partial[d])' = TRUE
      BY <1>6, <2>3
    <3>5. Driver(s) = d /\ got' = got /\ value'[s] = value[s] /\ made'[s] = made[s] + 1
      BY <1>1, <1>2, <1>5, <2>3
    <3>6. CASE d \in Masked
      <4>1. Whole(s, Queue(d), Undelivered(s), FALSE, got[s], value[s], made[s])
        BY <2>0, <3>1, <3>5, <3>6 DEF Sound
      <4>2. Whole(s, Append(Queue(d), e), Undelivered(s), TRUE, got[s], value[s], made[s] + 1)
        BY <1>3, <2>3, <4>1, WholeReport
      <4> QED BY <1>4, <2>1, <3>2, <3>5, <3>6, <4>2 DEF Sound
    <3>7. CASE d \notin Masked
      <4> DEFINE o == Len(got[Orientation])
      <4>1. Alike(s, Queue(d), Undelivered(s), FALSE, partial[d] # {}, got[s], value[s], made[s], o)
        BY <2>0, <3>1, <3>5, <3>7 DEF Sound
      <4>2. Alike(s, Append(Queue(d), e), Undelivered(s), TRUE, TRUE, got[s], value[s], made[s] + 1, o)
        BY <1>3, <2>3, <4>1, AlikeReport
      <4>3. (partial[d] # {})' = TRUE
        BY <1>6
      <4> QED BY <1>4, <2>1, <3>2, <3>5, <3>7, <4>2, <4>3 DEF Sound
    <3> QED BY <3>6, <3>7
  <2>4. CASE Driver(s) = d /\ s # t
    <3>2. (s \in partial[d])' = (s \in partial[d])
      BY <1>6, <2>4
    <3>3. ~ Mine(s, e)
      BY <1>3, <2>4 DEF Mine
    <3>4. got' = got /\ value'[s] = value[s] /\ made'[s] = made[s]
      BY <1>1, <1>5, <2>4 DEF Steady
    <3>5. CASE d \in Masked
      <4>1. Whole(s, Queue(d), Undelivered(s), s \in partial[d], got[s], value[s], made[s])
        BY <2>0, <2>4, <3>5 DEF Sound
      <4>2. Whole(s, Append(Queue(d), e), Undelivered(s), s \in partial[d], got[s], value[s], made[s])
        BY <1>3, <3>3, <4>1, WholeOther
      <4> QED BY <1>4, <2>1, <2>4, <3>2, <3>4, <3>5, <4>2 DEF Sound
    <3>6. CASE d \notin Masked
      <4> DEFINE o == Len(got[Orientation])
      <4>1. t = Orientation /\ Mine(Orientation, e)
        <5>1. s \in ToSet(Sensors[d]) \ {Orientation}
          BY <2>0, <2>4 DEF Steady
        <5>2. t = Orientation
          BY <2>4, <3>6, <5>1, Single
        <5> QED BY <1>3, <5>2
      <4>2. Alike(s, Queue(d), Undelivered(s), s \in partial[d], partial[d] # {}, got[s], value[s],
                  made[s], o)
        BY <2>0, <2>4, <3>6 DEF Sound
      <4>3. Alike(s, Append(Queue(d), e), Undelivered(s), s \in partial[d], TRUE, got[s], value[s],
                  made[s], o)
        BY <1>3, <3>3, <4>1, <4>2, AlikeOther
      <4>4. (partial[d] # {})' = TRUE
        BY <1>6
      <4> QED BY <1>4, <2>1, <2>4, <3>2, <3>4, <3>6, <4>3, <4>4 DEF Sound
    <3> QED BY <3>5, <3>6
  <2> QED BY <2>2, <2>3, <2>4
<1> QED BY <1>10, <1>11

\* A driver ends a sample.
LEMMA SyncKeeps ==
  ASSUME SInv, NEW d \in Drivers, sync(d)
  PROVE  Typed' /\ \A s \in Steady : Sound(s)'
<1> DEFINE e == [type |-> "syn"]
<1>1. /\ partial[d] # {}
      /\ partial' = [partial EXCEPT ![d] = {}]
      /\ file' = [file EXCEPT ![d] = Append(@, e)]
      /\ reader' = reader /\ value' = value /\ mask' = mask /\ got' = got /\ enabled' = enabled /\ made' = made
  BY DEF sync, hal
<1>3. e \in Events /\ e.type = "syn"
  BY DEF Events
<1> HIDE DEF e
<1>4. /\ file' \in [Drivers -> Seq(Events)] /\ Queue(d)' = Append(Queue(d), e)
      /\ \A c \in Drivers \ {d} : Queue(c)' = Queue(c)
  BY <1>1, <1>3, Queued DEF SInv
<1>6. /\ partial \in [Drivers -> SUBSET All] /\ partial' \in [Drivers -> SUBSET All]
      /\ partial'[d] = {} /\ \A c \in Drivers \ {d} : partial'[c] = partial[c]
      /\ \A c \in Drivers : partial[c] \subseteq ToSet(Sensors[c]) /\ partial'[c] \subseteq ToSet(Sensors[c])
  BY <1>1 DEF SInv, Typed
<1>7. \A c \in Drivers : Genuine(c)' = Genuine(c)
  BY <1>1 DEF Genuine
<1>8. ASSUME NEW c \in Drivers PROVE Queue(c)' \in Seq(Genuine(c)')
  <2>1. Queue(c) \in Seq(Genuine(c)')
    BY <1>7, QueueIs DEF SInv
  <2>2. CASE c = d
    <3>1. e \in Genuine(d)'
      BY <1>3 DEF Genuine
    <3>2. Append(Queue(d), e) \in Seq(Genuine(d)')
      BY <2>1, <2>2, <3>1, AppendProperties
    <3> QED BY <1>4, <2>2, <3>2
  <2>3. CASE c # d
    BY <1>4, <2>1, <2>3
  <2> QED BY <2>2, <2>3
<1>10. Typed'
  BY <1>1, <1>4, <1>6, <1>8 DEF SInv, Typed
<1>11. ASSUME NEW s \in Steady PROVE Sound(s)'
  <2>0. Sound(s) /\ Driver(s) \in Drivers /\ s \in ToSet(Sensors[Driver(s)])
    BY DriverOf DEF SInv, Steady
  <2>1. Undelivered(s)' = Undelivered(s)
    BY <1>1, SameUndelivered
  <2>2. CASE Driver(s) # d
    <3>2. Same(s)
      BY <1>1, <1>4, <1>6, <2>0, <2>2 DEF Same
    <3> QED BY <2>0, <3>2, Stays
  <2>3. CASE Driver(s) = d
    <3>1. (partial[d] # {}) = TRUE /\ (partial[d] # {})' = FALSE /\ (s \in partial[d])' = FALSE
      BY <1>1, <1>6
    <3>2. CASE d \in Masked
      <4>1. Whole(s, Queue(d), Undelivered(s), s \in partial[d], got[s], value[s], made[s])
        BY <2>0, <2>3, <3>2 DEF Sound
      <4>2. Whole(s, Append(Queue(d), e), Undelivered(s), FALSE, got[s], value[s], made[s])
        BY <1>3, <4>1, WholeSync
      <4> QED BY <1>1, <1>4, <2>1, <2>3, <3>1, <3>2, <4>2 DEF Sound
    <3>3. CASE d \notin Masked
      <4> DEFINE o == Len(got[Orientation])
      <4>1. Alike(s, Queue(d), Undelivered(s), s \in partial[d], TRUE, got[s], value[s], made[s], o)
        BY <2>0, <2>3, <3>1, <3>3 DEF Sound
      <4>2. Alike(s, Append(Queue(d), e), Undelivered(s), FALSE, FALSE, got[s], value[s], made[s], o)
        BY <1>3, <4>1, AlikeSync
      <4> QED BY <1>1, <1>4, <2>1, <2>3, <3>1, <3>3, <4>2 DEF Sound
    <3> QED BY <3>2, <3>3
  <2> QED BY <2>2, <2>3
<1> QED BY <1>10, <1>11

\* mInputReader.fill moves events from the data file into the ring.
LEMMA FillKeeps ==
  ASSUME SInv, read_fill
  PROVE  Typed' /\ \A s \in Steady : Sound(s)'
<1> DEFINE n == IF reader[i].free < Len(file[i]) THEN reader[i].free ELSE Len(file[i])
           r == fill(reader[i], SubSeq(file[i], 1, n))
           f == SubSeq(file[i], n + 1, Len(file[i]))
<1>1. /\ i \in Drivers
      /\ reader' = [reader EXCEPT ![i] = r] /\ file' = [file EXCEPT ![i] = f]
      /\ UNCHANGED <<partial, made, value, mask, enabled, got>>
  BY DEF read_fill, SInv, Control
<1>2. Ring(reader[i]) /\ file[i] \in Seq(Events) /\ Len(file[i]) \in Nat
  BY <1>1 DEF SInv, Typed
<1>3. n \in 0 .. Len(file[i]) /\ n <= reader[i].free
  BY <1>2, HeldIs
<1> HIDE DEF n
<1>4. Ring(r) /\ f \in Seq(Events) /\ Held(r) \o f = Queue(i)
  BY <1>2, <1>3, QueueFill DEF Queue
<1> HIDE DEF r, f
<1>5. /\ DOMAIN reader' = Drivers /\ reader'[i] = r /\ file'[i] = f /\ file' \in [Drivers -> Seq(Events)]
      /\ \A c \in Drivers \ {i} : reader'[c] = reader[c] /\ file'[c] = file[c]
  BY <1>1, <1>4 DEF SInv, Typed
<1>6. ASSUME NEW c \in Drivers PROVE Queue(c)' = Queue(c) /\ Ring(reader'[c])
  <2>1. CASE c = i
    BY <1>4, <1>5, <2>1 DEF Queue
  <2>2. CASE c # i
    BY <1>5, <2>2, QueueSame DEF SInv, Typed
  <2> QED BY <2>1, <2>2
<1>7. \A c \in Drivers : Genuine(c)' = Genuine(c)
  BY <1>1 DEF Genuine
<1>8. Typed'
  BY <1>1, <1>5, <1>6, <1>7 DEF SInv, Typed
<1>9. ASSUME NEW s \in Steady PROVE Sound(s)'
  <2>1. Same(s)
    BY <1>1, <1>6, DriverOf DEF Same, Steady
  <2> QED BY <2>1, Stays DEF SInv
<1> QED BY <1>8, <1>9

\* readEvent returns the first event of the queue, ...
LEMMA AtFront ==
  ASSUME SInv, pc = "drain", More
  PROVE  /\ i \in Drivers /\ Queue(i) \in Seq(Genuine(i)) /\ Queue(i) \in Seq(Events) /\ Queue(i) # <<>>
         /\ readEvent(reader[i]) = Queue(i)[1] /\ Queue(i)[1] \in Genuine(i)
<1>1. i \in Drivers /\ available(reader[i]) > 0
  BY DEF SInv, Control, More
<1>2. Ring(reader[i]) /\ file[i] \in Seq(Events) /\ Queue(i) \in Seq(Genuine(i)) /\ Queue(i) \in Seq(Events)
  BY <1>1, QueueIs DEF SInv
<1>3. Queue(i) # <<>> /\ readEvent(reader[i]) = Queue(i)[1]
  BY <1>1, <1>2, QueueNext DEF Queue
<1>4. Queue(i)[1] \in Genuine(i)
  <2> DEFINE q == Queue(i)
  <2>1. q \in Seq(Genuine(i)) /\ q # <<>>
    BY <1>2, <1>3
  <2> HIDE DEF q
  <2>2. q[1] \in Genuine(i)
    BY <2>1
  <2> QED BY <2>2 DEF q
<1> QED BY <1>1, <1>2, <1>3, <1>4, Zenon

\* ... and next takes it.
LEMMA Advanced ==
  ASSUME SInv, i \in Drivers, available(reader[i]) > 0,
         file' = file, reader' = [reader EXCEPT ![i] = next(@)]
  PROVE  /\ DOMAIN reader' = Drivers
         /\ \A d \in Drivers : /\ Ring(reader'[d])
                               /\ Queue(d)' = IF d = i THEN Tail(Queue(d)) ELSE Queue(d)
<1>1. DOMAIN reader' = Drivers /\ \A d \in Drivers : reader'[d] = IF d = i THEN next(reader[d]) ELSE reader[d]
  BY DEF SInv, Typed
<1>2. ASSUME NEW d \in Drivers
      PROVE  Ring(reader'[d]) /\ Queue(d)' = IF d = i THEN Tail(Queue(d)) ELSE Queue(d)
  <2>1. Ring(reader[d]) /\ file[d] \in Seq(Events)
    BY DEF SInv, Typed
  <2>2. CASE d = i
    <3>1. Ring(next(reader[d])) /\ Held(next(reader[d])) \o file[d] = Tail(Queue(d))
      BY <2>1, <2>2, QueueNext DEF Queue
    <3> QED BY <1>1, <2>2, <3>1 DEF Queue
  <2>3. CASE d # i
    BY <1>1, <2>1, <2>3, QueueSame
  <2> QED BY <2>2, <2>3
<1> QED BY <1>1, <1>2

\* What is left of a queue is still genuine.
LEMMA TailGenuine ==
  ASSUME SInv, NEW d \in Drivers, Queue(d) # <<>>
  PROVE  Tail(Queue(d)) \in Seq(Genuine(d))
BY QueueIs, HeadTailProperties DEF SInv

\* EV_ABS: the sample becomes the undelivered one of its sensor.
LEMMA AbsKeeps ==
  ASSUME SInv, read_abs
  PROVE  Typed' /\ \A s \in Steady : Sound(s)'
<1> DEFINE e == readEvent(reader[i])
<1>1. /\ pc = "drain" /\ More /\ e.type = "abs"
      /\ IF e.s = Orientation
         THEN got' = [got EXCEPT ![Orientation] = Append(@, e.v)] /\ UNCHANGED value
         ELSE value' = [value EXCEPT ![e.s] = e.v] /\ UNCHANGED got
      /\ mask' = IF i \in Masked THEN mask \cup {e.s} ELSE mask
      /\ reader' = [reader EXCEPT ![i] = next(@)]
      /\ UNCHANGED <<file, partial, made, enabled>>
  BY DEF read_abs, kernel
<1> HIDE DEF e
<1>2. /\ i \in Drivers /\ Queue(i) \in Seq(Events) /\ Queue(i) # <<>> /\ e = Queue(i)[1]
      /\ e \in Genuine(i) /\ available(reader[i]) > 0
  BY <1>1, AtFront DEF More, e
<1>3. e \in Events /\ e.s \in ToSet(Sensors[i]) /\ e.v <= made[e.s] /\ e.type # "syn"
  BY <1>1, <1>2 DEF Genuine
<1>4. e.s \in All /\ Driver(e.s) = i /\ e.v \in Nat
  <2>1. e \in [type : {"abs"}, s : All, v : Nat]
    BY <1>1, <1>3 DEF Events, NoEvent
  <2> QED BY <1>2, <1>3, <2>1, DriverIs
<1>5. /\ DOMAIN reader' = Drivers
      /\ \A d \in Drivers : /\ Ring(reader'[d])
                            /\ Queue(d)' = IF d = i THEN Tail(Queue(d)) ELSE Queue(d)
  BY <1>1, <1>2, Advanced
<1>6. /\ value' \in [All -> Nat] /\ (e.s # Orientation => value'[e.s] = e.v /\ got' = got)
      /\ \A s \in All : s \notin {e.s} \ {Orientation} => value'[s] = value[s]
      /\ got' \in [All -> Seq(Nat)] /\ \A s \in All \ {Orientation} : got'[s] = got[s]
      /\ e.s = Orientation => Len(got'[Orientation]) = Len(got[Orientation]) + 1
  <2>1. value \in [All -> Nat] /\ got \in [All -> Seq(Nat)] /\ Orientation \in All
    BY Single DEF SInv, Typed
  <2>2. CASE e.s = Orientation
    <3>1. /\ got[Orientation] \in Seq(Nat) /\ Append(got[Orientation], e.v) \in Seq(Nat)
          /\ Len(Append(got[Orientation], e.v)) = Len(got[Orientation]) + 1
      BY <1>4, <2>1, AppendProperties
    <3>2. got' = [got EXCEPT ![Orientation] = Append(@, e.v)] /\ value' = value
      BY <1>1, <2>2
    <3> QED BY <2>1, <2>2, <3>1, <3>2
  <2>3. CASE e.s # Orientation
    BY <1>1, <1>4, <2>1, <2>3
  <2> QED BY <2>2, <2>3
<1>7. Typed'
  <2>1. \A d \in Drivers : Queue(d)' \in Seq(Genuine(d)')
    <3>1. \A d \in Drivers : Genuine(d)' = Genuine(d)
      BY <1>1 DEF Genuine
    <3> QED BY <1>2, <1>5, <3>1, TailGenuine DEF SInv, Typed
  <2>2. \A s \in All : value'[s] <= made[s]
    BY <1>3, <1>6 DEF SInv, Typed
  <2>3. mask' \subseteq All
    BY <1>1, <1>4 DEF SInv, Typed
  <2> QED BY <1>1, <1>5, <1>6, <2>1, <2>2, <2>3 DEF SInv, Typed
<1>8. ASSUME NEW s \in Steady PROVE Sound(s)'
  <2>0. Sound(s) /\ Driver(s) \in Drivers /\ s \in ToSet(Sensors[Driver(s)])
    BY DriverOf DEF SInv, Steady
  <2>1. CASE Driver(s) # i
    <3>1. s # e.s
      BY <1>4, <2>1
    <3>2. s \in mask' <=> s \in mask
      BY <1>1, <3>1
    <3>3. Driver(s) \notin Masked => got'[Orientation] = got[Orientation]
      <4>1. SUFFICES ASSUME Driver(s) \notin Masked PROVE e.s # Orientation
        BY <1>6
      <4> QED BY <1>4, <2>0, <2>1, <4>1, Single
    <3>4. got'[s] = got[s] /\ value'[s] = value[s]
      BY <1>6, <3>1 DEF Steady
    <3>5. Queue(Driver(s))' = Queue(Driver(s))
      BY <1>5, <2>0, <2>1
    <3>6. partial' = partial /\ made' = made
      BY <1>1
    <3>7. Same(s)
      BY <3>2, <3>3, <3>4, <3>5, <3>6, Zenon DEF Same
    <3> QED BY <2>0, <3>7, Stays
  <2>2. CASE s = e.s
    <3>1. Driver(s) = i /\ Mine(s, e)
      BY <1>1, <1>4, <2>2 DEF Mine
    <3>2. Queue(Driver(s))' = Tail(Queue(i))
      BY <1>5, <2>0, <3>1
    <3>3. s # Orientation /\ value'[s] = e.v /\ got' = got /\ made'[s] = made[s] /\ partial' = partial
      BY <1>1, <1>6, <2>2 DEF Steady
    <3>4. CASE i \in Masked
      <4>1. Whole(s, Queue(i), Undelivered(s), s \in partial[i], got[s], value[s], made[s])
        BY <2>0, <3>1, <3>4 DEF Sound
      <4>2. Whole(s, Tail(Queue(i)), TRUE, s \in partial[i], got[s], e.v, made[s])
        BY <1>2, <3>1, <4>1, WholeTake
      <4>3. Undelivered(s)' = TRUE
        BY <1>1, <2>2, <3>1, <3>4 DEF Undelivered
      <4> QED BY <3>1, <3>2, <3>3, <3>4, <4>2, <4>3 DEF Sound
    <3>5. CASE i \notin Masked
      <4> DEFINE o == Len(got[Orientation])
      <4>1. Alike(s, Queue(i), Undelivered(s), s \in partial[i], partial[i] # {}, got[s], value[s],
                  made[s], o)
        BY <2>0, <3>1, <3>5 DEF Sound
      <4>2. /\ e.v = LastOf(got[s]) + 1 /\ LastOf(got[s]) \in Nat
            /\ Alike(s, Tail(Queue(i)), TRUE, s \in partial[i], partial[i] # {}, got[s], e.v, made[s], o)
        BY <1>2, <3>1, <3>3, <4>1, AlikeTake
      <4>3. Undelivered(s)' = TRUE
        <5>1. value'[s] > LastOf(got'[s])
          BY <3>3, <4>2
        <5> QED BY <3>1, <3>5, <5>1 DEF Undelivered, Latest, LastOf
      <4> QED BY <3>1, <3>2, <3>3, <3>5, <4>2, <4>3 DEF Sound
    <3> QED BY <3>4, <3>5
  <2>3. CASE Driver(s) = i /\ s # e.s
    <3>1. ~ Mine(s, e)
      BY <2>3 DEF Mine
    <3>2. s \in mask' <=> s \in mask
      BY <1>1, <2>3
    <3>3. value'[s] = value[s] /\ got'[s] = got[s] /\ made'[s] = made[s] /\ partial' = partial
      BY <1>1, <1>6, <2>3 DEF Steady
    <3>4. Undelivered(s)' = Undelivered(s)
      BY <3>2, <3>3, SameUndelivered
    <3>5. Queue(Driver(s))' = Tail(Queue(i))
      BY <1>5, <2>0, <2>3
    <3>6. CASE i \in Masked
      <4>1. Whole(s, Queue(i), Undelivered(s), s \in partial[i], got[s], value[s], made[s])
        BY <2>0, <2>3, <3>6 DEF Sound
      <4>2. Whole(s, Tail(Queue(i)), Undelivered(s), s \in partial[i], got[s], value[s], made[s])
        BY <1>2, <1>3, <3>1, <4>1, WholeSkip
      <4> QED BY <2>3, <3>3, <3>4, <3>5, <3>6, <4>2 DEF Sound
    <3>7. CASE i \notin Masked
      <4> DEFINE o == Len(got[Orientation])
      <4>1. e.s = Orientation /\ Mine(Orientation, e)
        <5>1. s \in ToSet(Sensors[i]) \ {Orientation}
          BY <2>0, <2>3 DEF Steady
        <5>2. e.s = Orientation
          BY <1>2, <1>3, <2>3, <3>7, <5>1, Single
        <5> QED BY <1>1, <5>2 DEF Mine
      <4>2. Alike(s, Queue(i), Undelivered(s), s \in partial[i], partial[i] # {}, got[s], value[s],
                  made[s], o)
        BY <2>0, <2>3, <3>7 DEF Sound
      <4>3. Alike(s, Tail(Queue(i)), Undelivered(s), s \in partial[i], partial[i] # {}, got[s], value[s],
                  made[s], o + 1)
        BY <1>2, <3>1, <4>1, <4>2, AlikeDrop
      <4>4. Len(got'[Orientation]) = o + 1
        BY <1>6, <4>1
      <4> QED BY <2>3, <3>3, <3>4, <3>5, <3>7, <4>3, <4>4 DEF Sound
    <3> QED BY <3>6, <3>7
  <2> QED BY <2>1, <2>2, <2>3
<1> QED BY <1>7, <1>8

\* What Deliver does.
LEMMA Delivered ==
  ASSUME Typed, NEW S, Deliver(S)
  PROVE  /\ got' \in [All -> Seq(Nat)]
         /\ \A s \in All : got'[s] = IF s \in S THEN Append(got[s], value[s]) ELSE got[s]
<1>1. \A s \in All : got[s] \in Seq(Nat) /\ value[s] \in Nat
  BY DEF Typed
<1>2. \A s \in All : Append(got[s], value[s]) \in Seq(Nat)
  BY <1>1, AppendProperties
<1> QED BY <1>1, <1>2 DEF Deliver

\* The types after the value of a sensor or SYN is done with.
LEMMA SynTyped ==
  ASSUME SInv, i \in Drivers,
         UNCHANGED <<kernel, value, enabled>>, mask' \subseteq mask, got' \in [All -> Seq(Nat)],
         \/ reader' = reader
         \/ available(reader[i]) > 0 /\ Queue(i) # <<>> /\ reader' = [reader EXCEPT ![i] = next(@)]
  PROVE  Typed'
<1>1. \A d \in Drivers : Genuine(d)' = Genuine(d)
  BY DEF Genuine, kernel
<1>2. CASE reader' = reader
  <2>1. \A d \in Drivers : Queue(d)' = Queue(d)
    BY <1>2, QueueSame DEF kernel
  <2> QED BY <1>1, <1>2, <2>1 DEF SInv, Typed, kernel
<1>3. CASE available(reader[i]) > 0 /\ Queue(i) # <<>> /\ reader' = [reader EXCEPT ![i] = next(@)]
  <2>1. /\ DOMAIN reader' = Drivers
        /\ \A d \in Drivers : /\ Ring(reader'[d])
                              /\ Queue(d)' = IF d = i THEN Tail(Queue(d)) ELSE Queue(d)
    BY <1>3, Advanced DEF kernel
  <2>2. \A d \in Drivers : Queue(d)' \in Seq(Genuine(d)')
    BY <1>1, <1>3, <2>1, TailGenuine DEF SInv, Typed
  <2> QED BY <2>1, <2>2 DEF SInv, Typed, kernel
<1> QED BY <1>2, <1>3

\* SYN of a driver with one sensor: its sample is undelivered, and is delivered.
LEMMA SynKeepsOne ==
  ASSUME SInv, read_syn
  PROVE  Typed' /\ \A s \in Steady : Sound(s)'
<1>1. /\ pc = "drain" /\ i \notin Masked /\ More /\ readEvent(reader[i]).type = "syn"
      /\ Deliver(ToSet(Sensors[i]) \ {Orientation})
      /\ reader' = [reader EXCEPT ![i] = next(@)]
      /\ UNCHANGED <<kernel, value, mask, enabled>>
  BY DEF read_syn
<1>2. /\ i \in Drivers /\ Queue(i) # <<>> /\ Queue(i)[1].type = "syn" /\ available(reader[i]) > 0
  BY <1>1, AtFront DEF More
<1>3. /\ got' \in [All -> Seq(Nat)]
      /\ \A s \in All : got'[s] = IF s \in ToSet(Sensors[i]) \ {Orientation}
                                THEN Append(got[s], value[s]) ELSE got[s]
      /\ got'[Orientation] = got[Orientation]
  BY <1>1, Delivered, Single DEF SInv
<1>4. Typed'
  BY <1>1, <1>2, <1>3, SynTyped
<1>5. \A d \in Drivers : Queue(d)' = IF d = i THEN Tail(Queue(d)) ELSE Queue(d)
  BY <1>1, <1>2, Advanced DEF kernel
<1>6. ASSUME NEW s \in Steady PROVE Sound(s)'
  <2>0. Sound(s) /\ Driver(s) \in Drivers /\ s \in ToSet(Sensors[Driver(s)])
    BY DriverOf DEF SInv, Steady
  <2>1. CASE Driver(s) # i
    <3>1. got'[s] = got[s]
      BY <1>2, <1>3, <2>1, DriverIs DEF Steady
    <3>2. Queue(Driver(s))' = Queue(Driver(s))
      BY <1>5, <2>0, <2>1
    <3>3. Same(s)
      BY <1>1, <1>3, <3>1, <3>2 DEF Same, kernel
    <3> QED BY <2>0, <3>3, Stays
  <2>2. CASE Driver(s) = i
    <3> DEFINE o == Len(got[Orientation])  p == s \in partial[i]  c == partial[i] # {}
    <3>1. Alike(s, Queue(i), Undelivered(s), p, c, got[s], value[s], made[s], o)
      BY <1>1, <2>0, <2>2 DEF Sound
    <3>2. /\ LastOf(Append(got[s], value[s])) = value[s]
          /\ Alike(s, Tail(Queue(i)), FALSE, p, c, Append(got[s], value[s]), value[s], made[s], o)
      <4> HIDE DEF o, p, c
      <4> QED BY <1>2, <3>1, AlikeEnd
    <3>3. /\ got'[s] = Append(got[s], value[s]) /\ value'[s] = value[s] /\ made'[s] = made[s]
          /\ partial' = partial
      BY <1>1, <1>3, <2>0, <2>2 DEF kernel, Steady
    <3>4. Undelivered(s)' = FALSE
      <4>1. value[s] \in Nat
        BY DEF SInv, Typed, Steady
      <4>2. ~ (value'[s] > LastOf(got'[s]))
        BY <3>2, <3>3, <4>1
      <4> QED BY <1>1, <2>2, <4>2 DEF Undelivered, Latest, LastOf
    <3>5. Queue(Driver(s))' = Tail(Queue(i))
      BY <1>5, <2>0, <2>2
    <3> QED BY <1>1, <1>3, <2>2, <3>2, <3>3, <3>4, <3>5 DEF Sound
  <2> QED BY <2>1, <2>2
<1> QED BY <1>4, <1>6

\* SYN of a driver with a mask: of its sensors in the mask some are delivered, and if that is
\* all of them SYN is done with.
LEMMA SynKeepsMasked ==
  ASSUME SInv, read_syn_masked
  PROVE  Typed' /\ \A s \in Steady : Sound(s)'
<1> DEFINE T == Taken(count - nb)
<1>1. /\ pc = "drain" /\ i \in Masked /\ More /\ readEvent(reader[i]).type = "syn"
      /\ Deliver(T \cap enabled) /\ mask' = mask \ T
      /\ reader' = IF Pending \subseteq T THEN [reader EXCEPT ![i] = next(@)] ELSE reader
      /\ UNCHANGED <<kernel, value, enabled>>
  BY DEF read_syn_masked, SynOfMasked
<1>2. /\ i \in Drivers /\ Queue(i) # <<>> /\ Queue(i)[1].type = "syn" /\ available(reader[i]) > 0
  BY <1>1, AtFront DEF More
<1>3. T \subseteq Pending /\ Pending = mask \cap ToSet(Sensors[i])
  BY DEF Taken, Pending
<1> HIDE DEF T
<1>4. /\ got' \in [All -> Seq(Nat)]
      /\ \A s \in All : got'[s] = IF s \in T \cap enabled THEN Append(got[s], value[s]) ELSE got[s]
  BY <1>1, Delivered DEF SInv
<1>5. Typed'
  <2>1. mask' \subseteq mask
    BY <1>1
  <2> QED BY <1>1, <1>2, <1>4, <2>1, SynTyped
<1>6. \A d \in Drivers :
        Queue(d)' = IF d = i /\ Pending \subseteq T THEN Tail(Queue(d)) ELSE Queue(d)
  <2>1. CASE Pending \subseteq T
    BY <1>1, <1>2, <2>1, Advanced DEF kernel
  <2>2. CASE ~ (Pending \subseteq T)
    BY <1>1, <2>2, QueueSame DEF kernel
  <2> QED BY <2>1, <2>2
<1>7. ASSUME NEW s \in Steady PROVE Sound(s)'
  <2>0. /\ Sound(s) /\ Driver(s) \in Drivers /\ s \in ToSet(Sensors[Driver(s)])
        /\ s \in enabled
    BY DriverOf DEF SInv, Typed, Steady
  <2>1. CASE Driver(s) # i
    <3>1. s \notin T /\ Orientation \notin T
      BY <1>1, <1>2, <1>3, <2>1, DriverIs, Single
    <3>2. /\ got'[s] = got[s] /\ got'[Orientation] = got[Orientation]
          /\ (s \in mask' <=> s \in mask)
      BY <1>1, <1>4, <3>1, Single DEF Steady
    <3>3. Same(s)
      BY <1>1, <1>6, <2>0, <2>1, <3>2 DEF Same, kernel
    <3> QED BY <2>0, <3>3, Stays
  <2>2. CASE Driver(s) = i
    <3> DEFINE u == s \in mask  p == s \in partial[i]
    <3>1. Undelivered(s) = u /\ Undelivered(s)' = (s \in mask')
      BY <1>1, <2>2 DEF Undelivered
    <3>2. Whole(s, Queue(i), u, p, got[s], value[s], made[s])
      BY <1>1, <2>0, <2>2, <3>1 DEF Sound
    <3>3. (s \in mask') = (u /\ s \notin T)
      BY <1>1
    <3>4. value'[s] = value[s] /\ made'[s] = made[s] /\ (s \in partial[Driver(s)])' = p
      BY <1>1, <2>2 DEF kernel
    <3>5. s \in T => u = TRUE
      BY <1>3
    <3>6. Pending \subseteq T /\ s \notin T => u = FALSE
      BY <1>3, <2>0, <2>2
    <3> HIDE DEF u, p
    \* Whether it is taken, ...
    <3>7. Whole(s, Queue(i), Undelivered(s)', p, got'[s], value[s], made[s])
      <4>1. CASE s \in T
        <5>1. Whole(s, Queue(i), FALSE, p, Append(got[s], value[s]), value[s], made[s])
          <6>1. Whole(s, Queue(i), TRUE, p, got[s], value[s], made[s])
            BY <3>2, <3>5, <4>1, Zenon
          <6> QED BY <1>1, <2>2, <6>1, WholeDeliver
        <5>2. Undelivered(s)' = FALSE
          BY <3>1, <3>3, <4>1
        <5>3. got'[s] = Append(got[s], value[s])
          BY <1>4, <2>0, <4>1 DEF Steady
        <5> QED BY <5>1, <5>2, <5>3, Zenon
      <4>2. CASE s \notin T
        <5>1. Undelivered(s)' = u
          BY <3>1, <3>3, <4>2 DEF u
        <5>2. got'[s] = got[s]
          BY <1>4, <4>2 DEF Steady
        <5> QED BY <3>2, <5>1, <5>2, Zenon
      <4> QED BY <4>1, <4>2
    \* ... and whether SYN is.
    <3>8. Whole(s, Queue(Driver(s))', Undelivered(s)', p, got'[s], value[s], made[s])
      <4>1. CASE Pending \subseteq T
        <5>1. Undelivered(s)' = FALSE
          BY <3>1, <3>3, <3>6, <4>1
        <5>2. Whole(s, Queue(i), FALSE, p, got'[s], value[s], made[s])
          BY <3>7, <5>1, Zenon
        <5>3. Whole(s, Tail(Queue(i)), FALSE, p, got'[s], value[s], made[s])
          BY <1>1, <1>2, <2>2, <5>2, WholeEnd
        <5>4. Queue(Driver(s))' = Tail(Queue(i))
          BY <1>6, <2>0, <2>2, <4>1
        <5> QED BY <5>1, <5>3, <5>4
      <4>2. CASE ~ (Pending \subseteq T)
        <5>1. Queue(Driver(s))' = Queue(i)
          BY <1>6, <2>0, <2>2, <4>2
        <5> QED BY <3>7, <5>1
      <4> QED BY <4>1, <4>2
    <3> QED BY <1>1, <2>2, <3>4, <3>8 DEF Sound
  <2> QED BY <2>1, <2>2
<1> QED BY <1>5, <1>7

\* The initial states.
LEMMA Initially == Init => SInv
<1> SUFFICES ASSUME Init PROVE SInv
  OBVIOUS
<1>0. Size \in Nat /\ Size > 0 /\ Sensors \in Seq(Seq(All)) /\ Drivers = 1 .. Len(Sensors)
      /\ Compass \in Drivers /\ MaxSamples \in [All -> Nat] /\ MaxWake \in Nat
  BY SensorsAssumption DEF Drivers
<1>1. RingOf(NewReader, [k \in 0 .. 2 * Size - 1 |-> NoEvent], 0, 0, 0)
  <2>1. [k \in 0 .. 2 * Size - 1 |-> NoEvent] \in [0 .. 2 * Size - 1 -> Events]
    BY DEF Events
  <2>2. HeadAt(0, 0, 0) /\ 0 \in 0 .. Size /\ 0 \in 0 .. Size - 1 /\ Size = Size - 0
    BY <1>0 DEF HeadAt
  <2> QED BY <2>1, <2>2 DEF RingOf, NewReader
<1>2. Ring(NewReader) /\ Held(NewReader) = <<>>
  <2>1. Ring(NewReader) /\ Held(NewReader) \in Seq(Events) /\ Len(Held(NewReader)) = 0
    BY <1>1, RingMade
  <2> QED BY <2>1, EmptySeq
<1>3. \A d \in Drivers : file[d] = <<>> /\ reader[d] = NewReader /\ Queue(d) = <<>>
  <2>1. <<>> \in Seq(Events) /\ <<>> \o <<>> = <<>>
    BY ConcatEmptySeq
  <2> QED BY <1>2, <2>1 DEF Init, Queue
<1>4. Typed
  <2>1. /\ file \in [Drivers -> Seq(Events)] /\ partial \in [Drivers -> SUBSET All]
        /\ \A d \in Drivers : partial[d] \subseteq ToSet(Sensors[d])
    BY DEF Init
  <2>2. /\ made \in [All -> Nat] /\ \A s \in All : made[s] <= MaxSamples[s]
        /\ value \in [All -> Nat] /\ \A s \in All : value[s] <= made[s]
        /\ got \in [All -> Seq(Nat)]
    BY <1>0 DEF Init
  <2>3. DOMAIN reader = Drivers
    BY DEF Init
  <2>4. mask \subseteq All /\ enabled \subseteq All /\ All \ Toggled \subseteq enabled
    BY DEF Init
  <2>5. \A d \in Drivers : Ring(reader[d]) /\ Queue(d) \in Seq(Genuine(d))
    <3>1. ASSUME NEW d \in Drivers PROVE <<>> \in Seq(Genuine(d))
      BY EmptySeq
    <3> QED BY <1>2, <1>3, <3>1
  <2> QED BY <2>1, <2>2, <2>3, <2>4, <2>5 DEF Typed
<1>5. Control
  <2>1. 1 \in 1 .. Len(Sensors) + 1 /\ 0 \in 0 .. MaxWake
    BY <1>0
  <2>2. pending = FALSE /\ revents = {} /\ wake = 0 /\ pc = "idle" /\ i = 1 /\ act.at = "idle"
    BY DEF Init, NoCall
  <2> QED BY <2>1, <2>2 DEF Control
<1>6. ASSUME NEW s \in Steady PROVE Sound(s)
  <2>1. Driver(s) \in Drivers /\ Queue(Driver(s)) = <<>>
    BY <1>3, DriverOf DEF Steady
  <2>2. got[s] = <<>> /\ value[s] = 0 /\ made[s] = 0 /\ (s \in partial[Driver(s)]) = FALSE
    BY <2>1 DEF Init, Steady
  <2>3. Undelivered(s) = FALSE
    <3>1. mask = {} /\ Latest(s) = 0
      BY <2>2 DEF Init, Latest
    <3> QED BY <2>2, <3>1 DEF Undelivered
  <2>4. Abs(s, <<>>) = {} /\ Syns(<<>>) = {} /\ Marks(s, <<>>, FALSE) = {}
    BY DEF Abs, Syns, Marks
  <2>5. Apart(s, <<>>, FALSE, FALSE) /\ Alone(s, <<>>, FALSE, FALSE, FALSE)
    BY <2>4 DEF Apart, Alone
  <2>6. Numbered(s, <<>>, 0 + 1, 0)
    <3>1. 0 + 1 .. 0 = {}
      OBVIOUS
    <3>2. \A x \in 0 + 1 .. 0 : FALSE
      BY <3>1
    <3> QED BY <2>4, <3>2, NumberedIs
  <2>7. Chain(s, <<>>, FALSE, FALSE, 0, 0)
    <3>1. <<>> \in Seq(Events) /\ FALSE \in BOOLEAN /\ 0 \in Nat
      OBVIOUS
    <3> QED BY <2>5, <2>6, <3>1, Zenon DEF Chain
  <2>8. Whole(s, <<>>, FALSE, FALSE, <<>>, 0, 0)
    <3>1. Len(<<>>) = 0 /\ <<>> \in Seq(Nat) /\ <<>> = [k \in 1 .. 0 |-> k]
      OBVIOUS
    <3>2. Len(<<>>) + (IF FALSE THEN 1 ELSE 0) = 0
      BY <3>1
    <3>3. Chain(s, <<>>, FALSE, FALSE, Len(<<>>) + (IF FALSE THEN 1 ELSE 0), 0)
      BY <2>7, <3>2, Zenon
    <3> QED BY <3>1, <3>3 DEF Whole
  <2>9. Alike(s, <<>>, FALSE, FALSE, FALSE, <<>>, 0, 0, 0)
    <3>1. Len(<<>>) = 0 /\ <<>> \in Seq(Nat) /\ LastOf(<<>>) = 0 /\ Steps(<<>>)
      BY DEF LastOf, Steps
    <3>2. (Len(<<>>) < LastOf(<<>>) + 0) = FALSE
      BY <3>1
    <3>3. Alone(s, <<>>, FALSE, Len(<<>>) < LastOf(<<>>) + 0, FALSE)
      BY <2>5, <3>2, Zenon
    <3>4. 0 = LastOf(<<>>) + (IF FALSE THEN 1 ELSE 0) /\ Len(<<>>) <= LastOf(<<>>) + 0 /\ 0 \in Nat
      BY <3>1
    <3> QED BY <2>7, <3>1, <3>3, <3>4, Zenon DEF Alike
  <2>10. Len(got[Orientation]) = 0 /\ (partial[Driver(s)] # {}) = FALSE
    BY <2>1, Single DEF Init
  <2> QED BY <2>1, <2>2, <2>3, <2>8, <2>9, <2>10 DEF Sound
<1> QED BY <1>4, <1>5, <1>6 DEF SInv

\* The control.
LEMMA ControlKeeps == ASSUME SInv, [Next]_vars PROVE Control'
<1>0. Drivers = 1 .. Len(Sensors) /\ Len(Sensors) \in Nat /\ MaxWake \in Nat
  BY SensorsAssumption DEF Drivers
<1>1. CASE \E d \in Drivers : sync(d) \/ \E s \in ToSet(Sensors[d]) : report(d, s)
  BY <1>1 DEF SInv, Control, sync, report, thread
<1>2. CASE \E s \in Toggled, on, err \in BOOLEAN : activate(s, on, err)
  BY <1>2 DEF SInv, Control, activate, thread
<1>3. CASE set_pending
  BY <1>3 DEF SInv, Control, set_pending, thread
<1>4. CASE send_wake
  BY <1>0, <1>4 DEF SInv, Control, send_wake, thread, NoCall
<1>5. CASE \E room \in Rooms : pollEvents(room)
  BY <1>0, <1>5 DEF SInv, Control, pollEvents
<1>6. CASE scan
  <2>1. CASE pc' = "read" /\ Due # {} /\ i' = CHOOSE d \in Due : \A e \in Due : d <= e
    <3>1. Due \subseteq Drivers
      BY DEF Due
    <3>2. \E d \in Due : \A e \in Due : d <= e
      <4>1. Due \subseteq Nat
        BY <1>0, <3>1
      <4> HIDE DEF Due
      <4> QED BY <2>1, <4>1, Least
    <3>3. i' \in Due
      BY <2>1, <3>2
    <3>4. i' \in Drivers /\ i' \in 1 .. Len(Sensors) + 1
      BY <1>0, <3>1, <3>3
    <3> QED BY <1>6, <2>1, <3>4 DEF SInv, Control, scan
  <2>2. CASE pc' \in {"idle", "poll"} /\ i' = i
    BY <1>6, <2>2 DEF SInv, Control, scan
  <2> QED BY <1>6, <2>1, <2>2 DEF scan
<1>7. CASE read_pending \/ read_done
  <2>1. /\ i \in Drivers /\ i' = i + 1 /\ pc' = "scan" /\ revents' \subseteq revents
        /\ pending' \in BOOLEAN /\ UNCHANGED <<wake, act>>
    BY <1>7 DEF SInv, Control, read_pending, read_done, Counted
  <2>2. i' \in 1 .. Len(Sensors) + 1
    BY <1>0, <2>1
  <2> QED BY <2>1, <2>2 DEF SInv, Control
<1>8. CASE read_fill \/ read_abs \/ read_syn \/ read_syn_masked
  <2>1. pc' \in {pc, "drain"} /\ pc \in {"read", "drain"} /\ UNCHANGED <<i, revents, pending, wake, act>>
    BY <1>8 DEF read_fill, read_abs, read_syn, read_syn_masked, SynOfMasked, thread
  <2> QED BY <2>1 DEF SInv, Control
<1>9. CASE poll \/ poll_failed
  <2>1. /\ pc' \in {"idle", "scan"} /\ i' \in {i, 1} /\ revents' \subseteq Drivers /\ UNCHANGED <<pending, act>>
    BY <1>9 DEF SInv, Control, poll, PollWith, poll_failed, Ready
  <2>2. wake' \in 0 .. MaxWake /\ (wake < MaxWake => wake' < MaxWake)
    <3>1. wake \in 0 .. MaxWake
      BY DEF SInv, Control
    <3>2. CASE poll
      BY <1>0, <3>1, <3>2 DEF poll, PollWith
    <3>3. CASE poll_failed
      BY <1>0, <3>1, <3>3 DEF poll_failed
    <3> QED BY <1>9, <3>2, <3>3
  <2>3. i' \in 1 .. Len(Sensors) + 1 /\ pending' \in BOOLEAN
        /\ act'.at \in {"idle", "pend", "wake"} /\ (act'.at # "idle" => wake < MaxWake)
    BY <1>0, <2>1 DEF SInv, Control
  <2> QED BY <2>1, <2>2, <2>3 DEF Control
<1>10. CASE UNCHANGED vars
  BY <1>10 DEF SInv, Control, vars, thread
<1> QED BY <1>1, <1>2, <1>3, <1>4, <1>5, <1>6, <1>7, <1>8, <1>9, <1>10 DEF Next, Collect

\* Every step.
LEMMA StepKeeps == ASSUME SInv, [Next]_vars PROVE SInv'
<1>1. Control'
  BY ControlKeeps
<1>2. CASE \/ \E s \in Toggled, on, err \in BOOLEAN : activate(s, on, err)
           \/ set_pending \/ send_wake \/ \E room \in Rooms : pollEvents(room)
           \/ scan \/ read_pending \/ read_done \/ poll \/ poll_failed \/ UNCHANGED vars
  <2>1. UNCHANGED <<kernel, hal, got>>
    BY <1>2 DEF activate, set_pending, send_wake, pollEvents, scan, read_pending, read_done, poll, PollWith,
                poll_failed, vars
  <2>2. enabled' \subseteq All /\ All \ Toggled \subseteq enabled'
    <3>0. enabled \subseteq All /\ All \ Toggled \subseteq enabled /\ Toggled \subseteq All
      BY SensorsAssumption DEF SInv, Typed
    <3>1. CASE \E s \in Toggled, on, err \in BOOLEAN : activate(s, on, err)
      BY <3>0, <3>1 DEF activate
    <3>2. CASE enabled' = enabled
      BY <3>0, <3>2
    <3> QED BY <1>2, <3>1, <3>2 DEF set_pending, send_wake, pollEvents, scan, read_pending, read_done, poll,
                                    PollWith, poll_failed, vars
  <2> QED BY <1>1, <2>1, <2>2, Still DEF SInv
<1>3. CASE \E d \in Drivers : sync(d) \/ \E s \in ToSet(Sensors[d]) : report(d, s)
  BY <1>1, <1>3, SyncKeeps, ReportKeeps DEF SInv
<1>4. CASE read_fill \/ read_abs \/ read_syn \/ read_syn_masked
  BY <1>1, <1>4, FillKeeps, AbsKeeps, SynKeepsOne, SynKeepsMasked DEF SInv
<1> QED BY <1>2, <1>3, <1>4 DEF Next, Collect


-----------------------------------------------------------------------------
(* The results.                                                            *)

\* Whatever drivers, ring and room there are, the state keeps its shape: the offsets of a
\* ring stay in its array, no value is one that was never measured, and the wake pipe
\* holds no more messages than it was given room for.
THEOREM Types == Spec => []TypeOK
<1>1. SInv => TypeOK
  <2> SUFFICES ASSUME SInv PROVE TypeOK
    OBVIOUS
  <2>1. ASSUME NEW s \in All PROVE made[s] \in 0 .. MaxSamples[s] /\ value[s] \in 0 .. made[s]
    <3>1. made[s] \in Nat /\ value[s] \in Nat /\ made[s] <= MaxSamples[s] /\ value[s] <= made[s]
          /\ MaxSamples[s] \in Nat
      BY SensorsAssumption DEF SInv, Typed
    <3> QED BY <3>1
  <2>2. ASSUME NEW d \in Drivers
        PROVE  /\ reader[d].buffer \in [0 .. 2 * Size - 1 -> Events]
               /\ reader[d].head \in 0 .. Size /\ reader[d].curr \in 0 .. Size - 1
               /\ reader[d].free \in 0 .. Size
    BY DEF SInv, Typed, Ring
  <2> QED BY <2>1, <2>2 DEF SInv, Typed, Control, TypeOK
<1> QED BY <1>1, Initially, StepKeeps, PTL DEF Spec

\* The samples of a sensor that stays on are delivered in order and none is skipped,
\* though polls are short, the ring wraps between any two reads, a SYN is gone through in
\* several polls, and other sensors of the driver are switched on and off; and none is
\* delivered twice, but KXTF9's, no more often than it drops an event.
THEOREM SamplesStayInOrder == Spec => []SamplesInOrder
<1>1. SInv => SamplesInOrder
  <2> SUFFICES ASSUME SInv, NEW s \in Steady
               PROVE  /\ Steps(got[s])
                      /\ Len(got[s]) <= LastOf(got[s]) + Repeats(s)
                      /\ Undelivered(s) => value[s] = LastOf(got[s]) + 1
                      /\ Numbered(s, Queue(Driver(s)), LastOf(got[s]) + (IF Undelivered(s) THEN 2 ELSE 1),
                                  made[s])
    BY DEF SamplesInOrder, Steady, Steps, LastOf, Latest
  <2> DEFINE u == Undelivered(s)  n == LastOf(got[s])
  <2>1. Sound(s)
    BY DEF SInv
  <2>2. CASE Driver(s) \in Masked
    <3>1. Whole(s, Queue(Driver(s)), u, s \in partial[Driver(s)], got[s], value[s], made[s])
      BY <2>1, <2>2 DEF Sound
    <3>2. got[s] \in Seq(Nat) /\ got[s] = [k \in 1 .. Len(got[s]) |-> k] /\ Len(got[s]) \in Nat
      BY <3>1 DEF Whole
    <3>3. \A k \in 1 .. Len(got[s]) : got[s][k] = k
      BY <3>2
    <3>4. Steps(got[s])
      BY <3>2, <3>3 DEF Steps
    <3>5. n = Len(got[s])
      <4>1. CASE got[s] = <<>>
        BY <4>1 DEF LastOf
      <4>2. CASE got[s] # <<>>
        <5>1. Len(got[s]) \in 1 .. Len(got[s])
          BY <3>2, <4>2, EmptySeq
        <5> QED BY <3>3, <4>2, <5>1 DEF LastOf
      <4> QED BY <4>1, <4>2
    <3>6. Numbered(s, Queue(Driver(s)), (Len(got[s]) + (IF u THEN 1 ELSE 0)) + 1, made[s])
          /\ (u => value[s] = Len(got[s]) + 1)
      BY <3>1 DEF Whole, Chain
    <3>7. (Len(got[s]) + (IF u THEN 1 ELSE 0)) + 1 = n + (IF u THEN 2 ELSE 1)
      <4> HIDE DEF n
      <4>1. CASE u
        BY <3>2, <3>5, <4>1
      <4>2. CASE ~ u
        BY <3>2, <3>5, <4>2
      <4> QED BY <4>1, <4>2
    <3>8. Numbered(s, Queue(Driver(s)), n + (IF u THEN 2 ELSE 1), made[s])
      BY <3>6, <3>7, Zenon
    <3> HIDE DEF u
    <3>9. Len(got[s]) <= n + Repeats(s)
      BY <2>2, <3>2, <3>5 DEF Repeats
    <3> QED BY <3>4, <3>5, <3>6, <3>8, <3>9 DEF u
  <2>3. CASE Driver(s) \notin Masked
    <3>1. Alike(s, Queue(Driver(s)), u, s \in partial[Driver(s)], partial[Driver(s)] # {}, got[s], value[s],
                made[s], Len(got[Orientation]))
      BY <2>1, <2>3 DEF Sound
    <3>2. Steps(got[s]) /\ n \in Nat /\ Len(got[s]) <= n + Repeats(s)
      BY <2>3, <3>1, LastIs DEF Alike, Repeats
    <3>3. value[s] = n + (IF u THEN 1 ELSE 0) /\ Numbered(s, Queue(Driver(s)), value[s] + 1, made[s])
      BY <3>1 DEF Alike, Chain
    <3>4. value[s] + 1 = n + (IF u THEN 2 ELSE 1)
      <4> HIDE DEF n
      <4>1. CASE u
        BY <3>2, <3>3, <4>1
      <4>2. CASE ~ u
        BY <3>2, <3>3, <4>2
      <4> QED BY <4>1, <4>2
    <3>5. Numbered(s, Queue(Driver(s)), n + (IF u THEN 2 ELSE 1), made[s])
      BY <3>3, <3>4, Zenon
    <3> QED BY <3>2, <3>3, <3>5
  <2> QED BY <2>2, <2>3
<1> QED BY <1>1, Initially, StepKeeps, PTL DEF Spec

-----------------------------------------------------------------------------
(* The room.                                                               *)

\* count is what is left of the buffer of the service, nb what readEvents has stored.
RInv ==
  /\ pc \in {"idle", "scan", "read", "drain", "poll"}
  /\ count \in Nat /\ nb \in Nat
  /\ pc = "read" => count > 0
  /\ pc = "drain" => nb <= count

\* The steps that store events.
LEMMA SynKeeps == ASSUME RInv, read_syn \/ read_syn_masked PROVE RInv'
<1>1. pc = "drain" /\ pc' = pc /\ count' = count /\ nb < count /\ count \in Nat /\ nb \in Nat
  BY DEF RInv, read_syn, read_syn_masked, SynOfMasked, More
<1>2. CASE read_syn
  BY <1>1, <1>2 DEF RInv, read_syn
<1>3. CASE read_syn_masked
  <2> DEFINE stored == Cardinality(Taken(count - nb) \cap enabled)
  <2>1. i \in Drivers /\ nb' = nb + stored
    BY <1>3, SensorsAssumption DEF read_syn_masked, SynOfMasked
  <2>2. stored \in 0 .. count - nb
    BY <1>1, <2>1, TakenFits
  <2> HIDE DEF stored
  <2> QED BY <1>1, <2>1, <2>2 DEF RInv
<1> QED BY <1>2, <1>3

\* The other steps of the thread in pollEvents.
LEMMA ThreadKeeps ==
  ASSUME RInv,
         \/ \E room \in Rooms : pollEvents(room)
         \/ scan \/ read_pending \/ read_fill \/ read_abs \/ read_done \/ poll \/ poll_failed
  PROVE  RInv'
<1>1. CASE \E room \in Rooms : pollEvents(room)
  BY <1>1, SensorsAssumption DEF RInv, pollEvents
<1>2. CASE scan
  BY <1>2 DEF RInv, scan
<1>3. CASE read_pending \/ read_done
  BY <1>3 DEF RInv, read_pending, read_done, Counted
<1>4. CASE read_fill \/ read_abs
  BY <1>4 DEF RInv, read_fill, read_abs, thread
<1>5. CASE poll \/ poll_failed
  BY <1>5 DEF RInv, poll, PollWith, poll_failed
<1> QED BY <1>1, <1>2, <1>3, <1>4, <1>5

\* The drivers and the thread in activate leave the variables of pollEvents alone.
LEMMA OthersKeep ==
  ASSUME RInv,
         \/ \E d \in Drivers : sync(d) \/ \E s \in ToSet(Sensors[d]) : report(d, s)
         \/ \E s \in Toggled, on, err \in BOOLEAN : activate(s, on, err)
         \/ set_pending \/ send_wake \/ UNCHANGED vars
  PROVE  RInv'
<1>1. UNCHANGED thread
  BY DEF sync, report, activate, set_pending, send_wake, vars
<1> QED BY <1>1 DEF RInv, thread

\* Whatever sensors the drivers have, and however their samples fall into the ring:
\* what readEvents has stored never exceeds the room it was given.
THEOREM RoomIsRespected == Spec => []RoomRespected
<1>1. Init => RInv
  BY DEF Init, RInv
<1>2. RInv /\ [Next]_vars => RInv'
  BY SynKeeps, ThreadKeeps, OthersKeep DEF Next, Collect
<1>3. RInv => RoomRespected
  BY DEF RInv, RoomRespected
<1> QED BY <1>1, <1>2, <1>3, PTL DEF Spec

-----------------------------------------------------------------------------
(* The note that there is more.                                            *)

Others == Drivers \ {Compass}

\* Before poll() runs the loop has passed every driver with POLLIN, and left it
\* either with an empty ring or with no room for more.
HInv ==
  /\ \A d \in Others : available(reader[d]) > 0 => d \in revents
  /\ pc \in {"read", "drain"} /\ i # Compass => i \in revents
  /\ pc \in {"scan", "read", "drain"} => count = 0 \/ \A d \in Others : d < i => d \notin revents
  /\ pc = "poll" => \A d \in Others : d \notin revents

\* The loop goes on to the first driver with something to read.
LEMMA ScanNotes == ASSUME Control, RInv, HInv, scan PROVE HInv'
<1>0. Drivers = 1 .. Len(Sensors) /\ Len(Sensors) \in Nat /\ i \in Nat /\ revents \subseteq Drivers
      /\ reader' = reader /\ revents' = revents /\ count' = count
  BY SensorsAssumption DEF Drivers, Control, scan, hal
<1>1. CASE pc' = "idle"
  BY <1>0, <1>1 DEF HInv
<1>2. CASE count # 0 /\ Due = {} /\ pc' = "poll" /\ i' = i
  <2>1. \A d \in Others : d < i => d \notin revents
    BY <1>2 DEF HInv, scan
  <2>2. \A d \in Others : d >= i => d \notin revents
    BY <1>2 DEF Due, Others
  <2>3. \A d \in Others : d \in Nat
    BY <1>0 DEF Others
  <2>4. \A d \in Others : d \notin revents
    BY <1>0, <2>1, <2>2, <2>3
  <2> QED BY <1>0, <1>2, <2>4 DEF HInv
<1>3. CASE count # 0 /\ Due # {} /\ pc' = "read" /\ i' = CHOOSE d \in Due : \A e \in Due : d <= e
  <2>1. i' \in Due /\ \A e \in Due : i' <= e
    <3>1. Due \subseteq Nat
      BY <1>0 DEF Due
    <3>2. \E d \in Due : \A e \in Due : d <= e
      <4> HIDE DEF Due
      <4> QED BY <1>3, <3>1, Least
    <3> QED BY <1>3, <3>2
  <2>2. i' # Compass => i' \in revents
    BY <2>1 DEF Due
  <2>3. ASSUME NEW d \in Others, d < i' PROVE d \notin revents
    <3>1. d \in Drivers /\ d \in Nat /\ i' \in Nat
      BY <1>0, <2>1 DEF Others, Due
    <3>2. CASE d < i
      BY <1>3, <3>2 DEF HInv, scan
    <3>3. CASE d >= i
      <4>1. d \notin Due
        BY <2>1, <2>3, <3>1
      <4> QED BY <3>1, <3>3, <4>1 DEF Due
    <3> QED BY <1>0, <3>1, <3>2, <3>3
  <2> QED BY <1>0, <1>3, <2>2, <2>3 DEF HInv
<1> QED BY <1>1, <1>2, <1>3 DEF scan

\* A driver is done with: its ring is empty, or there is no room.
LEMMA CountedNotes ==
  ASSUME Control, RInv, HInv, pc \in {"read", "drain"}, reader' = reader,
         NEW n \in Nat, Counted(n), n <= count,
         i # Compass /\ n < count => ~ (available(reader[i]) > 0)
  PROVE  HInv'
<1>1. /\ i \in Drivers /\ count \in Nat /\ pc' = "scan" /\ i' = i + 1 /\ count' = count - n
      /\ revents' = IF n < count THEN revents \ {i} ELSE revents
      /\ count = 0 \/ \A d \in Others : d < i => d \notin revents
  BY DEF Control, RInv, HInv, Counted
<1>2. Drivers \subseteq Nat
  BY SensorsAssumption DEF Drivers
<1>3. \A d \in Others : available(reader[d]) > 0 => d \in revents'
  BY <1>1 DEF HInv, Others
<1>4. CASE n < count
  <2>1. \A d \in Others : d < i + 1 => d \notin revents'
    <3>1. \A d \in Others : d < i + 1 => d = i \/ d < i
      BY <1>1, <1>2 DEF Others
    <3> QED BY <1>1, <1>4, <3>1
  <2> QED BY <1>1, <1>3, <2>1 DEF HInv
<1>5. CASE ~ (n < count)
  <2>1. count' = 0
    BY <1>1, <1>5
  <2> QED BY <1>1, <1>3, <2>1 DEF HInv
<1> QED BY <1>4, <1>5

\* A driver's ring is filled or read, which happens only to one that is noted.
LEMMA ReadNotes ==
  ASSUME Typed, Control, HInv, read_fill \/ read_abs \/ read_syn \/ read_syn_masked
  PROVE  HInv'
<1>1. /\ pc \in {"read", "drain"} /\ pc' \in {"read", "drain"}
      /\ i' = i /\ count' = count /\ revents' = revents
      /\ \A d \in Drivers \ {i} : reader'[d] = reader[d]
  BY DEF read_fill, read_abs, read_syn, read_syn_masked, SynOfMasked, thread, Typed
<1>2. \A d \in Others : available(reader'[d]) > 0 => d \in revents
  BY <1>1 DEF HInv, Others
<1> QED BY <1>1, <1>2 DEF HInv

\* Every step.
LEMMA NotesKept == ASSUME Typed, Control, RInv, HInv, [Next]_vars PROVE HInv'
<1>1. CASE scan
  BY <1>1, ScanNotes
<1>2. CASE read_pending
  <2>1. pc = "read" /\ i = Compass /\ Counted(1) /\ reader' = reader /\ count > 0 /\ count \in Nat
    BY <1>2 DEF read_pending, hal, RInv
  <2>2. 1 \in Nat /\ 1 <= count
    BY <2>1
  <2> QED BY <2>1, <2>2, CountedNotes
<1>3. CASE read_done
  <2>1. pc = "drain" /\ ~ More /\ Counted(nb) /\ reader' = reader /\ nb \in Nat /\ count \in Nat /\ nb <= count
    BY <1>3 DEF read_done, hal, RInv
  <2>2. nb < count => ~ (available(reader[i]) > 0)
    BY <2>1 DEF More
  <2> QED BY <2>1, <2>2, CountedNotes
<1>4. CASE read_fill \/ read_abs \/ read_syn \/ read_syn_masked
  BY <1>4, ReadNotes
<1>5. CASE poll
  <2>1. pc = "poll" /\ reader' = reader /\ (pc' = "idle" \/ (pc' = "scan" /\ i' = 1))
    BY <1>5 DEF poll, PollWith, hal
  <2>2. \A d \in Others : ~ (available(reader'[d]) > 0)
    BY <2>1 DEF HInv
  <2>3. \A d \in Others : ~ (d < 1)
    BY SensorsAssumption DEF Others, Drivers
  <2> QED BY <2>1, <2>2, <2>3 DEF HInv
<1>6. CASE \E room \in Rooms : pollEvents(room)
  <2>1. pc' = "scan" /\ i' = 1 /\ reader' = reader /\ revents' = revents
    BY <1>6 DEF pollEvents, hal
  <2>2. \A d \in Others : ~ (d < 1)
    BY SensorsAssumption DEF Others, Drivers
  <2> QED BY <2>1, <2>2 DEF HInv
<1>7. CASE poll_failed
  BY <1>7 DEF poll_failed, hal, HInv
<1>8. CASE \/ \E d \in Drivers : sync(d) \/ \E s \in ToSet(Sensors[d]) : report(d, s)
           \/ \E s \in Toggled, on, err \in BOOLEAN : activate(s, on, err)
           \/ set_pending \/ send_wake \/ UNCHANGED vars
  <2>1. reader' = reader /\ revents' = revents /\ pc' = pc /\ i' = i /\ count' = count
    BY <1>8 DEF sync, report, activate, set_pending, send_wake, vars, hal, thread
  <2> QED BY <2>1 DEF HInv
<1> QED BY <1>1, <1>2, <1>3, <1>4, <1>5, <1>6, <1>7, <1>8 DEF Next, Collect

\* Whatever the room, the ring and the drivers: a driver other than AK8973 that was left
\* with events in its ring is read by the next pollEvents, for no poll() runs and no
\* revents is cleared before it has been.
THEOREM HeldStaysDue == Spec => []HeldIsDue
<1>1. Init => SInv /\ RInv /\ HInv
  <2>1. Init => RInv
    BY DEF Init, RInv
  <2>2. Init => HInv
    <3>1. ASSUME Init PROVE \A d \in Others : ~ (available(reader[d]) > 0) /\ d \notin revents
      <4>1. Size \in Nat
        BY SizeIs
      <4> QED BY <3>1, <4>1 DEF Init, Others, NewReader, available
    <3> QED BY <3>1 DEF Init, HInv
  <2> QED BY <2>1, <2>2, Initially
<1>2. SInv /\ RInv /\ HInv /\ [Next]_vars => SInv' /\ RInv' /\ HInv'
  <2>1. RInv /\ [Next]_vars => RInv'
    BY SynKeeps, ThreadKeeps, OthersKeep DEF Next, Collect
  <2> QED BY <2>1, StepKeeps, NotesKept DEF SInv
<1>3. HInv => HeldIsDue
  BY DEF HInv, HeldIsDue, Others
<1> QED BY <1>1, <1>2, <1>3, PTL DEF Spec

=============================================================================
