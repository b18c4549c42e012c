--------------------------- MODULE ChargeOnlyProofs ---------------------------
(***************************************************************************)
(* That the alarms of the charge-only mode never get mixed up: the list     *)
(* stays in order, a lit display has one animation and one alarm that dims   *)
(* or ends it, and the restart is due only while the power key is held; for  *)
(* any delays that keep their order and any number of keys and uevents.      *)
(*                                                                          *)
(* All that matters of the list is how many alarms it has of each handler,   *)
(* so the lemmas about alarm_set_relative and alarm_cancel say how they      *)
(* change these numbers.  That the power key is held while the restart is    *)
(* due needs to be known of every press still unread: its release follows    *)
(* it, or the key is still down.                                             *)
(***************************************************************************)
EXTENDS ChargeOnly, FiniteSetTheorems, SequenceTheorems, FunctionTheorems,
        WellFoundedInduction, NaturalsInduction, TLAPS

Alarm == [f : Handlers, in : (- MaxLate) .. Dim]

\* How many alarms of a handler there are, and whether the list is one of alarms,
\* soonest first.
Count(list, f) == Cardinality({i \in DOMAIN list : list[i].f = f})
InOrder(list)  == /\ list \in Seq(Alarm)
                  /\ \A i, j \in DOMAIN list : i < j => list[i].in <= list[j].in

\* The elements of a set of numbers are counted off in their order.
LEMMA Ranked ==
  ASSUME NEW N \in Nat, NEW K \in SUBSET (1 .. N)
  PROVE  /\ IsFiniteSet(K) /\ Cardinality(K) \in Nat
         /\ \A n \in 1 .. Cardinality(K) : \E i \in K : Cardinality({j \in K : j <= i}) = n
         /\ \A i, k \in K : i < k => Cardinality({j \in K : j <= i}) < Cardinality({j \in K : j <= k})
         /\ \A i \in K : Cardinality({j \in K : j <= i}) \in 1 .. Cardinality(K)
<1> DEFINE m == Cardinality(K)  upto(i) == {j \in K : j <= i}  rank(i) == Cardinality(upto(i))
<1>1. IsFiniteSet(K) /\ m \in Nat
  <2>1. IsFiniteSet(1 .. N)
    BY FS_Interval
  <2>2. IsFiniteSet(K)
    BY <2>1, FS_Subset
  <2> QED BY <2>2, FS_CardinalityType
<1>2. ASSUME NEW i \in K PROVE IsFiniteSet(upto(i)) /\ rank(i) \in 1 .. m
  <2>1. upto(i) \in SUBSET K /\ i \in upto(i)
    OBVIOUS
  <2> HIDE DEF upto
  <2>2. IsFiniteSet(upto(i)) /\ rank(i) <= m /\ rank(i) \in Nat
    BY <1>1, <2>1, FS_Subset, FS_CardinalityType
  <2>3. rank(i) # 0
    BY <2>1, <2>2, FS_EmptySet
  <2> HIDE DEF m, rank
  <2> QED BY <1>1, <2>2, <2>3
<1>3. ASSUME NEW i \in K, NEW k \in K, i < k PROVE rank(i) < rank(k)
  <2>1. upto(i) \in SUBSET upto(k) /\ k \in upto(k) /\ k \notin upto(i)
    <3>1. \A j \in K : j \in Nat
      OBVIOUS
    <3>2. \A j \in K : j <= i => j <= k
      BY <1>3, <3>1
    <3>3. k <= k /\ ~ (k <= i)
      BY <1>3, <3>1
    <3> QED BY <3>2, <3>3
  <2>2. IsFiniteSet(upto(k)) /\ rank(i) \in 1 .. m /\ rank(k) \in 1 .. m
    BY <1>2
  <2> HIDE DEF upto
  <2>3. rank(i) <= rank(k) /\ rank(i) # rank(k)
    BY <2>1, <2>2, FS_Subset
  <2> HIDE DEF m, rank
  <2> QED BY <1>1, <2>2, <2>3
<1> DEFINE r == [i \in K |-> rank(i)]
<1>4. r \in Injection(K, 1 .. m)
  <2> HIDE DEF rank, m
  <2>1. r \in [K -> 1 .. m]
    BY <1>2
  <2>2. \A i, k \in K : i # k => r[i] # r[k]
    <3>1. ASSUME NEW i \in K, NEW k \in K, i # k PROVE r[i] # r[k]
      <4>1. i < k \/ k < i
        <5>1. i \in Nat /\ k \in Nat
          OBVIOUS
        <5> QED BY <3>1, <5>1
      <4>2. rank(i) # rank(k)
        <5>1. rank(i) \in Nat /\ rank(k) \in Nat /\ (rank(i) < rank(k) \/ rank(k) < rank(i))
          <6>1. rank(i) \in 1 .. m /\ rank(k) \in 1 .. m
            BY <1>2
          <6>2. rank(i) < rank(k) \/ rank(k) < rank(i)
            BY <1>3, <4>1
          <6> QED BY <1>1, <6>1, <6>2
        <5> QED BY <5>1
      <4> QED BY <4>2
    <3> QED BY <3>1
  <2> QED BY <2>1, <2>2 DEF Injection, IsInjective
<1>5. r \in Surjection(K, 1 .. m)
  <2>1. IsFiniteSet(1 .. m) /\ Cardinality(1 .. m) = m
    <3> HIDE DEF m
    <3> QED BY <1>1, FS_Interval
  <2> HIDE DEF r
  <2> QED BY <1>4, <2>1, FS_Injection
<1>6. \A n \in 1 .. m : \E i \in K : rank(i) = n
  <2> HIDE DEF rank, m
  <2> QED BY <1>5 DEF Surjection
<1> QED BY <1>1, <1>2, <1>3, <1>6

\* A list that has the alarms of another at some places has as many of each handler.
LEMMA Recount ==
  ASSUME NEW L \in Seq(Alarm), NEW R \in Seq(Alarm), NEW K \in SUBSET DOMAIN L,
         NEW g \in Bijection(DOMAIN R, K), \A n \in DOMAIN R : R[n].f = L[g[n]].f,
         NEW f
  PROVE  Count(R, f) = Cardinality({i \in K : L[i].f = f})
<1> DEFINE A == {n \in DOMAIN R : R[n].f = f}  B == {i \in K : L[i].f = f}
           h == [n \in A |-> g[n]]
<1>1. h \in Bijection(A, B)
  <2>1. g \in [DOMAIN R -> K] /\ (\A a, b \in DOMAIN R : g[a] = g[b] => a = b)
        /\ \A t \in K : \E s \in DOMAIN R : g[s] = t
    BY DEF Bijection, Injection, Surjection, IsInjective
  <2>2. h \in [A -> B]
    BY <2>1
  <2>3. h \in Injection(A, B)
    BY <2>1, <2>2 DEF Injection, IsInjective
  <2>4. h \in Surjection(A, B)
    <3>1. ASSUME NEW t \in B PROVE \E s \in A : h[s] = t
      <4>1. PICK s \in DOMAIN R : g[s] = t
        BY <2>1
      <4>2. s \in A
        BY <4>1
      <4> QED BY <4>1, <4>2
    <3> HIDE DEF A, B, h
    <3> QED BY <2>2, <3>1 DEF Surjection
  <2> QED BY <2>3, <2>4 DEF Bijection
<1>2. IsFiniteSet(A)
  <2>1. Len(R) \in Nat /\ A \in SUBSET (1 .. Len(R))
    OBVIOUS
  <2> QED BY <2>1, Ranked
<1>3. Cardinality(B) = Cardinality(A)
  <2> HIDE DEF A, B, h
  <2> QED BY <1>1, <1>2, FS_Bijection DEF ExistsBijection
<1> QED BY <1>3 DEF Count

\* The numbers of alarms are numbers.
LEMMA CountType ==
  ASSUME NEW L \in Seq(Alarm), NEW f
  PROVE  /\ Count(L, f) \in Nat /\ IsFiniteSet({i \in DOMAIN L : L[i].f = f})
         /\ Count(L, f) = 0 <=> {i \in DOMAIN L : L[i].f = f} = {}
<1>1. Len(L) \in Nat /\ {i \in DOMAIN L : L[i].f = f} \in SUBSET (1 .. Len(L))
  OBVIOUS
<1>2. IsFiniteSet({i \in DOMAIN L : L[i].f = f}) /\ Count(L, f) \in Nat
  BY <1>1, Ranked DEF Count
<1> QED BY <1>2, FS_EmptySet DEF Count

\* alarm_cancel takes away all alarms of these handlers and no other.
LEMMA Cancelled ==
  ASSUME NEW L, InOrder(L), NEW fs
  PROVE  /\ InOrder(alarm_cancel(L, fs))
         /\ \A f : Count(alarm_cancel(L, fs), f) = IF f \in fs THEN 0 ELSE Count(L, f)
<1> DEFINE stay   == {i \in DOMAIN L : L[i].f \notin fs}
           nth(n) == CHOOSE i \in stay : Cardinality({j \in stay : j <= i}) = n
           m      == Cardinality(stay)
           R      == alarm_cancel(L, fs)
           g      == [n \in 1 .. m |-> nth(n)]
<1>1. L \in Seq(Alarm) /\ Len(L) \in Nat /\ stay \in SUBSET (1 .. Len(L)) /\ stay \subseteq DOMAIN L
  BY DEF InOrder
<1>2. R = [n \in 1 .. m |-> L[nth(n)]]
  BY DEF alarm_cancel
<1>3. /\ m \in Nat
      /\ \A n \in 1 .. m : nth(n) \in stay /\ Cardinality({j \in stay : j <= nth(n)}) = n
      /\ \A i \in stay : Cardinality({j \in stay : j <= i}) \in 1 .. m
      /\ \A i, k \in stay : i < k =>
           Cardinality({j \in stay : j <= i}) < Cardinality({j \in stay : j <= k})
  <2> HIDE DEF stay
  <2>1. /\ m \in Nat
        /\ \A n \in 1 .. m : \E i \in stay : Cardinality({j \in stay : j <= i}) = n
        /\ \A i \in stay : Cardinality({j \in stay : j <= i}) \in 1 .. m
        /\ \A i, k \in stay : i < k =>
             Cardinality({j \in stay : j <= i}) < Cardinality({j \in stay : j <= k})
    BY <1>1, Ranked
  <2>2. ASSUME NEW n \in 1 .. m
        PROVE  nth(n) \in stay /\ Cardinality({j \in stay : j <= nth(n)}) = n
    BY <2>1
  <2> HIDE DEF nth, m
  <2> QED BY <2>1, <2>2
<1> DEFINE rank(i) == Cardinality({j \in stay : j <= i})
<1>4. /\ \A n \in 1 .. m : nth(n) \in stay /\ rank(nth(n)) = n
      /\ \A i \in stay : rank(i) \in 1 .. m /\ i \in Nat
      /\ \A i, k \in stay : i < k => rank(i) < rank(k)
  <2>1. \A i \in stay : i \in Nat
    BY <1>1
  <2> HIDE DEF stay, nth, m
  <2> QED BY <1>3, <2>1
<1> HIDE DEF rank, stay, m, nth
<1>5. R \in Seq(Alarm) /\ DOMAIN R = 1 .. m
  <2>1. \A n \in 1 .. m : L[nth(n)] \in Alarm
    BY <1>1, <1>4
  <2> HIDE DEF R
  <2>2. R \in [1 .. m -> Alarm]
    BY <1>2, <2>1
  <2> QED BY <1>3, <2>2
<1>6. \A a, b \in 1 .. m : a < b => nth(a) < nth(b)
  <2>1. ASSUME NEW a \in 1 .. m, NEW b \in 1 .. m, a < b PROVE nth(a) < nth(b)
    <3>1. nth(a) \in Nat /\ nth(b) \in Nat /\ rank(nth(a)) = a /\ rank(nth(b)) = b
      BY <1>4
    <3>2. nth(b) < nth(a) => b < a
      BY <1>4, <3>1
    <3>3. nth(a) # nth(b)
      BY <3>1, <2>1
    <3>4. CASE nth(b) < nth(a)
      BY <1>3, <3>2, <3>4, <2>1
    <3> QED BY <3>1, <3>3, <3>4
  <2> QED BY <2>1
<1>7. InOrder(R)
  <2>1. ASSUME NEW a \in DOMAIN R, NEW b \in DOMAIN R, a < b PROVE R[a].in <= R[b].in
    <3>1. R[a] = L[nth(a)] /\ R[b] = L[nth(b)] /\ nth(a) < nth(b) /\ nth(a) \in DOMAIN L /\ nth(b) \in DOMAIN L
      BY <1>1, <1>2, <1>4, <1>5, <1>6, <2>1
    <3> HIDE DEF R
    <3> QED BY <3>1 DEF InOrder
  <2> HIDE DEF R
  <2> QED BY <1>5, <2>1 DEF InOrder
<1>8. g \in Bijection(DOMAIN R, stay)
  <2>0. DOMAIN R = 1 .. m
    BY <1>5
  <2>1. g \in [1 .. m -> stay]
    BY <1>4
  <2>2. \A a, b \in 1 .. m : g[a] = g[b] => a = b
    BY <1>4
  <2>3. \A i \in stay : \E n \in 1 .. m : g[n] = i
    <3>1. ASSUME NEW i \in stay PROVE g[rank(i)] = i
      <4>1. rank(i) \in 1 .. m /\ nth(rank(i)) \in stay /\ rank(nth(rank(i))) = rank(i)
        BY <1>4
      <4>2. i \in Nat /\ nth(rank(i)) \in Nat
        BY <1>4, <4>1
      <4>3. ~ (i < nth(rank(i))) /\ ~ (nth(rank(i)) < i)
        BY <1>4, <4>1, <1>3
      <4>4. nth(rank(i)) = i
        BY <4>2, <4>3
      <4> QED BY <4>1, <4>4
    <3> QED BY <3>1, <1>4
  <2> HIDE DEF R, g
  <2>4. g \in Injection(1 .. m, stay) /\ g \in Surjection(1 .. m, stay)
    BY <2>1, <2>2, <2>3 DEF Injection, Surjection, IsInjective
  <2> QED BY <2>0, <2>4 DEF Bijection
<1>9. ASSUME NEW f PROVE Count(R, f) = IF f \in fs THEN 0 ELSE Count(L, f)
  <2>1. \A n \in DOMAIN R : R[n].f = L[g[n]].f
    BY <1>2, <1>5
  <2>2. Count(R, f) = Cardinality({i \in stay : L[i].f = f})
    <3> HIDE DEF R, g
    <3>1. stay \in SUBSET DOMAIN L /\ L \in Seq(Alarm) /\ R \in Seq(Alarm)
      BY <1>1, <1>5
    <3> QED BY <1>8, <2>1, <3>1, Recount
  <2>3. CASE f \in fs
    <3>1. {i \in stay : L[i].f = f} = {}
      BY <2>3 DEF stay
    <3> QED BY <2>2, <2>3, <3>1, FS_EmptySet
  <2>4. CASE f \notin fs
    <3>1. {i \in stay : L[i].f = f} = {i \in DOMAIN L : L[i].f = f}
      BY <2>4 DEF stay
    <3> QED BY <2>2, <2>4, <3>1 DEF Count
  <2> QED BY <2>3, <2>4
<1> QED BY <1>7, <1>9

\* There is a first alarm that is due later, or the end of the list.
LEMMA Place ==
  ASSUME NEW L \in Seq(Alarm), NEW t \in Int
  PROVE  \E p \in 1 .. Len(L) + 1 : /\ \A i \in 1 .. p - 1 : L[i].in <= t
                                    /\ p <= Len(L) => L[p].in > t
<1> DEFINE n == Len(L)
           U == {p \in 1 .. n + 1 : p <= n => L[p].in > t}
<1>1. n \in Nat /\ \A i \in 1 .. n : L[i] \in Alarm /\ L[i].in \in Int
  <2>1. n \in Nat /\ \A i \in 1 .. n : L[i] \in Alarm
    OBVIOUS
  <2>2. \A a \in Alarm : a.in \in Int
    BY ChargeAssumption DEF Alarm
  <2> QED BY <2>1, <2>2
<1> HIDE DEF n
<1>2. U \subseteq Nat /\ n + 1 \in U
  BY <1>1
<1>3. PICK u \in U : \A v \in U : ~ (<<v, u>> \in OpToRel(<, Nat))
  <2> HIDE DEF U
  <2> QED BY <1>2, NatLessThanWellFounded, WFMin
<1>4. \A v \in U : ~ (v < u)
  BY <1>2, <1>3 DEF OpToRel
<1>5. u \in 1 .. n + 1 /\ (u <= n => L[u].in > t)
  BY <1>3
<1>6. ASSUME NEW i \in 1 .. u - 1 PROVE L[i].in <= t
  <2>1. i \in 1 .. n /\ i < u
    BY <1>1, <1>5
  <2>2. i \notin U
    BY <1>4, <2>1
  <2>3. ~ (L[i].in > t)
    BY <1>1, <2>1, <2>2
  <2> QED BY <1>1, <2>1, <2>3
<1> QED BY <1>5, <1>6 DEF n

\* alarm_set_relative adds one alarm, of this handler.
LEMMA Inserted ==
  ASSUME NEW L, InOrder(L), NEW f \in Handlers, NEW t \in (- MaxLate) .. Dim
  PROVE  /\ InOrder(alarm_set_relative(L, f, t))
         /\ \A h : Count(alarm_set_relative(L, f, t), h) = Count(L, h) + (IF h = f THEN 1 ELSE 0)
<1> DEFINE e == [f |-> f, in |-> t]
           n == Len(L)
           R == alarm_set_relative(L, f, t)
<1>0. MaxLate \in Nat /\ Dim \in Nat /\ t \in Int
  BY ChargeAssumption
<1>1. L \in Seq(Alarm) /\ n \in Nat /\ DOMAIN L = 1 .. n /\ e \in Alarm
  BY DEF InOrder, Alarm
<1>2. PICK p \in 1 .. n + 1 : /\ \A i \in 1 .. p - 1 : L[i].in <= t
                              /\ p <= n => L[p].in > t
                              /\ R = InsertAt(L, p, e)
  <2> DEFINE Good(q) == (\A i \in 1 .. q - 1 : L[i].in <= t) /\ (q <= n => L[q].in > t)
             place   == CHOOSE q \in 1 .. n + 1 : Good(q)
  <2>1. \E q \in 1 .. n + 1 : Good(q)
    BY <1>0, <1>1, Place
  <2>2. place \in 1 .. n + 1 /\ Good(place)
    BY <2>1
  <2>3. R = InsertAt(L, place, e)
    BY DEF alarm_set_relative
  <2> HIDE DEF place
  <2> QED BY <2>2, <2>3
<1>3. /\ R \in Seq(Alarm) /\ DOMAIN R = 1 .. n + 1
      /\ \A j \in 1 .. n + 1 : R[j] = IF j < p THEN L[j] ELSE IF j = p THEN e ELSE L[j - 1]
  <2> DEFINE a == SubSeq(L, 1, p - 1)  b == SubSeq(L, p, n)
  <2>1. /\ a \in Seq(Alarm) /\ Len(a) = p - 1 /\ \A j \in 1 .. p - 1 : a[j] = L[j]
    <3>1. \A j \in 1 .. p - 1 : L[j] \in Alarm
      BY <1>1, <1>2
    <3> QED BY <1>1, <1>2, <3>1, SubSeqProperties
  <2>2. /\ b \in Seq(Alarm) /\ Len(b) = n + 1 - p /\ \A j \in 1 .. n + 1 - p : b[j] = L[j + p - 1]
    <3>1. \A j \in p .. n : L[j] \in Alarm
      BY <1>1, <1>2
    <3> QED BY <1>1, <1>2, <3>1, SubSeqProperties
  <2>3. R = a \o <<e>> \o b
    BY <1>2 DEF InsertAt
  <2> HIDE DEF a, b, e, R
  <2> DEFINE c == a \o <<e>>
  <2>4. /\ c \in Seq(Alarm) /\ Len(c) = p
        /\ \A j \in 1 .. p : c[j] = IF j < p THEN L[j] ELSE e
    <3>1. <<e>> \in Seq(Alarm) /\ Len(<<e>>) = 1 /\ <<e>>[1] = e
      BY <1>1
    <3>2. c \in Seq(Alarm) /\ Len(c) = p - 1 + 1
          /\ \A j \in 1 .. p - 1 + 1 : c[j] = IF j <= p - 1 THEN a[j] ELSE <<e>>[j - (p - 1)]
      BY <2>1, <3>1, ConcatProperties
    <3> HIDE DEF c
    <3>3. p \in Nat /\ p >= 1
      BY <1>2
    <3>4. ASSUME NEW j \in 1 .. p PROVE c[j] = IF j < p THEN L[j] ELSE e
      <4>1. CASE j < p
        BY <2>1, <3>2, <3>3, <4>1
      <4>2. CASE j = p
        <5>1. j - (p - 1) = 1 /\ ~ (j <= p - 1) /\ j \in 1 .. p - 1 + 1
          BY <3>3, <4>2
        <5> QED BY <3>1, <3>2, <5>1, <4>2
      <4> QED BY <3>3, <4>1, <4>2
    <3> QED BY <3>2, <3>3, <3>4
  <2> HIDE DEF c
  <2>5. R = c \o b
    BY <2>3 DEF c
  <2>6. R \in Seq(Alarm) /\ Len(R) = p + (n + 1 - p)
        /\ \A j \in 1 .. p + (n + 1 - p) : R[j] = IF j <= p THEN c[j] ELSE b[j - p]
    <3>1. R \in Seq(Alarm) /\ Len(R) = Len(c) + Len(b)
          /\ \A j \in 1 .. Len(c) + Len(b) : R[j] = IF j <= Len(c) THEN c[j] ELSE b[j - Len(c)]
      <4>1. c \in Seq(Alarm) /\ b \in Seq(Alarm)
        BY <2>2, <2>4
      <4> QED BY <2>5, <4>1, ConcatProperties
    <3>2. Len(c) = p /\ Len(b) = n + 1 - p
      BY <2>2, <2>4
    <3> QED BY <3>1, <3>2, Zenon
  <2>7. p \in Nat /\ p >= 1 /\ p <= n + 1
    BY <1>1, <1>2
  <2>8. DOMAIN R = 1 .. n + 1
    BY <1>1, <2>6, <2>7
  <2>9. ASSUME NEW j \in 1 .. n + 1
        PROVE  R[j] = IF j < p THEN L[j] ELSE IF j = p THEN e ELSE L[j - 1]
    <3>1. CASE j <= p
      BY <1>1, <2>4, <2>6, <2>7, <3>1
    <3>2. CASE j > p
      <4>1. j - p \in 1 .. n + 1 - p /\ (j - p) + p - 1 = j - 1
        BY <1>1, <2>7, <3>2
      <4>2. b[j - p] = L[j - 1]
        BY <2>2, <4>1
      <4>3. R[j] = b[j - p]
        BY <1>1, <2>6, <2>7, <3>2
      <4> QED BY <4>2, <4>3, <3>2, <2>7
    <3> QED BY <2>7, <3>1, <3>2
  <2> QED BY <2>6, <2>8, <2>9
<1> HIDE DEF R
<1>4. \A i, j \in 1 .. n : i < j => L[i].in <= L[j].in
  BY <1>1 DEF InOrder
<1>4a. \A i \in 1 .. n : L[i].in \in Int
  <2>1. \A i \in 1 .. n : L[i] \in Alarm
    BY <1>1
  <2> QED BY <1>0, <2>1 DEF Alarm
<1>5. ASSUME NEW i \in 1 .. n + 1, NEW j \in 1 .. n + 1, i < j PROVE R[i].in <= R[j].in
  <2>0. e.in = t /\ p \in Nat /\ p >= 1
    BY <1>2
  <2>1. CASE j < p
    <3>1. R[i] = L[i] /\ R[j] = L[j] /\ i \in 1 .. n /\ j \in 1 .. n
      BY <1>1, <1>2, <1>3, <1>5, <2>1
    <3> QED BY <1>4, <1>5, <3>1
  <2>2. CASE i < p /\ j = p
    <3>1. R[i] = L[i] /\ R[j] = e /\ i \in 1 .. p - 1
      BY <1>1, <1>2, <1>3, <1>5, <2>2
    <3> HIDE DEF e
    <3> QED BY <1>2, <2>0, <3>1
  <2>3. CASE i < p /\ j > p
    <3>1. R[i] = L[i] /\ R[j] = L[j - 1] /\ i \in 1 .. n /\ j - 1 \in 1 .. n /\ i < j - 1
      BY <1>1, <1>2, <1>3, <1>5, <2>3
    <3> QED BY <1>4, <3>1
  <2>4. CASE i = p
    <3>1. R[i] = e /\ R[j] = L[j - 1] /\ p \in 1 .. n /\ j - 1 \in 1 .. n /\ (p = j - 1 \/ p < j - 1)
      BY <1>1, <1>2, <1>3, <1>5, <2>4
    <3>2. L[p].in > t /\ L[p].in <= L[j - 1].in
      BY <1>2, <1>4, <1>4a, <3>1
    <3>3. L[p].in \in Int /\ L[j - 1].in \in Int
      BY <1>4a, <3>1
    <3> HIDE DEF e
    <3> QED BY <1>0, <2>0, <3>1, <3>2, <3>3
  <2>5. CASE i > p
    <3>1. R[i] = L[i - 1] /\ R[j] = L[j - 1] /\ i - 1 \in 1 .. n /\ j - 1 \in 1 .. n /\ i - 1 < j - 1
      BY <1>1, <1>2, <1>3, <1>5, <2>5
    <3> QED BY <1>4, <3>1
  <2> QED BY <1>1, <1>2, <1>5, <2>1, <2>2, <2>3, <2>4, <2>5
<1>6. ASSUME NEW h PROVE Count(R, h) = Count(L, h) + (IF h = f THEN 1 ELSE 0)
  <2> DEFINE K == (1 .. n + 1) \ {p}
             g == [j \in 1 .. n |-> IF j < p THEN j ELSE j + 1]
             A == {i \in DOMAIN R : R[i].f = h}
  <2>1. g \in Bijection(1 .. n, K)
    <3>1. g \in [1 .. n -> K]
      BY <1>1, <1>2
    <3>2. \A a, b \in 1 .. n : g[a] = g[b] => a = b
      BY <1>1, <1>2
    <3>3. ASSUME NEW k \in K PROVE \E a \in 1 .. n : g[a] = k
      <4>1. CASE k < p
        BY <1>1, <1>2, <4>1
      <4>2. CASE k > p
        <5>1. k - 1 \in 1 .. n /\ ~ (k - 1 < p) /\ k - 1 + 1 = k
          BY <1>1, <1>2, <4>2
        <5>2. g[k - 1] = k
          BY <5>1
        <5> QED BY <5>1, <5>2
      <4> QED BY <1>1, <1>2, <4>1, <4>2
    <3> HIDE DEF g, K
    <3>4. g \in Injection(1 .. n, K) /\ g \in Surjection(1 .. n, K)
      BY <3>1, <3>2, <3>3 DEF Injection, Surjection, IsInjective
    <3> QED BY <3>4 DEF Bijection
  <2>2. ASSUME NEW j \in 1 .. n PROVE L[j].f = R[g[j]].f
    <3>1. CASE j < p
      <4>1. g[j] = j /\ j \in 1 .. n + 1
        BY <1>1, <3>1
      <4> HIDE DEF g
      <4> QED BY <1>3, <3>1, <4>1
    <3>2. CASE ~ (j < p)
      <4>1. g[j] = j + 1 /\ j + 1 \in 1 .. n + 1 /\ ~ (j + 1 < p) /\ j + 1 # p /\ j + 1 - 1 = j
        BY <1>1, <1>2, <3>2
      <4> HIDE DEF g
      <4> QED BY <1>3, <4>1
    <3> QED BY <3>1, <3>2
  <2>3. Count(L, h) = Cardinality({i \in K : R[i].f = h})
    <3>1. K \in SUBSET DOMAIN R /\ g \in Bijection(DOMAIN L, K) /\ \A j \in DOMAIN L : L[j].f = R[g[j]].f
      BY <1>1, <1>3, <2>1, <2>2
    <3>2. L \in Seq(Alarm) /\ R \in Seq(Alarm)
      BY <1>1, <1>3
    <3> HIDE DEF g, K
    <3> QED BY <3>1, <3>2, Recount
  <2>4. {i \in K : R[i].f = h} = A \ {p}
    BY <1>3
  <2>5. R[p].f = f /\ p \in DOMAIN R
    BY <1>2, <1>3
  <2>6. IsFiniteSet(A) /\ Cardinality(A) \in Nat /\ Count(R, h) = Cardinality(A)
    BY <1>3, CountType DEF Count
  <2>7. Cardinality(A \ {p}) = IF h = f THEN Cardinality(A) - 1 ELSE Cardinality(A)
    <3>1. p \in A <=> h = f
      BY <2>5
    <3> HIDE DEF A
    <3> QED BY <2>6, <3>1, FS_RemoveElement
  <2> HIDE DEF A, K
  <2>8. Count(L, h) = Cardinality(A \ {p})
    BY <2>3, <2>4, Zenon
  <2> QED BY <2>6, <2>7, <2>8
<1> QED BY <1>3, <1>5, <1>6 DEF InOrder, R

\* The first alarm is taken off when it is due.
LEMMA Tailed ==
  ASSUME NEW L, InOrder(L), L # <<>>
  PROVE  /\ InOrder(Tail(L))
         /\ \A h : Count(Tail(L), h) = Count(L, h) - (IF h = Head(L).f THEN 1 ELSE 0)
<1> DEFINE n == Len(L)  T == Tail(L)
<1>1. L \in Seq(Alarm) /\ n \in Nat /\ n >= 1 /\ DOMAIN L = 1 .. n /\ Head(L) = L[1]
  BY EmptySeq DEF InOrder
<1>2. T \in Seq(Alarm) /\ DOMAIN T = 1 .. n - 1 /\ \A i \in 1 .. n - 1 : T[i] = L[i + 1]
  BY <1>1
<1>3. InOrder(T)
  <2>1. ASSUME NEW i \in 1 .. n - 1, NEW j \in 1 .. n - 1, i < j PROVE T[i].in <= T[j].in
    <3>1. T[i] = L[i + 1] /\ T[j] = L[j + 1] /\ i + 1 \in DOMAIN L /\ j + 1 \in DOMAIN L /\ i + 1 < j + 1
      BY <1>1, <1>2, <2>1
    <3> HIDE DEF T
    <3> QED BY <3>1 DEF InOrder
  <2> HIDE DEF T
  <2> QED BY <1>2, <2>1 DEF InOrder
<1> HIDE DEF T
<1>4. ASSUME NEW h PROVE Count(T, h) = Count(L, h) - (IF h = Head(L).f THEN 1 ELSE 0)
  <2> DEFINE K == (1 .. n) \ {1}
             g == [j \in 1 .. n - 1 |-> j + 1]
             A == {i \in DOMAIN L : L[i].f = h}
  <2>1. g \in Bijection(1 .. n - 1, K)
    <3>1. g \in [1 .. n - 1 -> K] /\ \A a, b \in 1 .. n - 1 : g[a] = g[b] => a = b
      BY <1>1
    <3>3. ASSUME NEW k \in K PROVE \E a \in 1 .. n - 1 : g[a] = k
      <4>1. k - 1 \in 1 .. n - 1 /\ k - 1 + 1 = k
        BY <1>1
      <4> QED BY <4>1
    <3> HIDE DEF g, K
    <3>4. g \in Injection(1 .. n - 1, K) /\ g \in Surjection(1 .. n - 1, K)
      BY <3>1, <3>3 DEF Injection, Surjection, IsInjective
    <3> QED BY <3>4 DEF Bijection
  <2>3. Count(T, h) = Cardinality({i \in K : L[i].f = h})
    <3>1. K \in SUBSET DOMAIN L /\ g \in Bijection(DOMAIN T, K) /\ \A j \in DOMAIN T : T[j].f = L[g[j]].f
      BY <1>1, <1>2, <2>1
    <3> HIDE DEF g, K
    <3> QED BY <1>1, <1>2, <3>1, Recount
  <2>4. {i \in K : L[i].f = h} = A \ {1}
    BY <1>1
  <2>6. IsFiniteSet(A) /\ Cardinality(A) \in Nat /\ Count(L, h) = Cardinality(A)
    BY <1>1, CountType DEF Count
  <2>7. Cardinality(A \ {1}) = IF h = Head(L).f THEN Cardinality(A) - 1 ELSE Cardinality(A)
    <3>1. 1 \in A <=> h = Head(L).f
      BY <1>1
    <3> HIDE DEF A
    <3> QED BY <2>6, <3>1, FS_RemoveElement
  <2> HIDE DEF A, K
  <2>8. Count(T, h) = Cardinality(A \ {1})
    BY <2>3, <2>4, Zenon
  <2> QED BY <2>6, <2>7, <2>8
<1> QED BY <1>3, <1>4 DEF T

\* A tick changes no alarm's handler.
LEMMA Ticked ==
  ASSUME NEW L, InOrder(L), \A a \in ToSet(L) : a.in > - MaxLate, NEW R,
         R = [i \in DOMAIN L |-> [L[i] EXCEPT !.in = @ - 1]]
  PROVE  InOrder(R) /\ \A h : Count(R, h) = Count(L, h)
<1>0. MaxLate \in Nat /\ Dim \in Nat
  BY ChargeAssumption
<1>1. L \in Seq(Alarm) /\ Len(L) \in Nat /\ DOMAIN L = 1 .. Len(L) /\ DOMAIN R = 1 .. Len(L)
  BY DEF InOrder
<1>2. ASSUME NEW i \in 1 .. Len(L)
      PROVE  R[i] \in Alarm /\ R[i].f = L[i].f /\ R[i].in = L[i].in - 1 /\ L[i].in \in Int
  <2>1. L[i] \in Alarm /\ L[i] \in ToSet(L)
    BY <1>1 DEF ToSet
  <2>2. L[i].f \in Handlers /\ L[i].in \in (- MaxLate) .. Dim /\ L[i].in > - MaxLate
    BY <2>1 DEF Alarm
  <2>3. R[i] = [L[i] EXCEPT !.in = @ - 1]
    BY <1>1
  <2>4. R[i] = [f |-> L[i].f, in |-> L[i].in - 1]
    BY <2>1, <2>3 DEF Alarm
  <2>5. L[i].in - 1 \in (- MaxLate) .. Dim
    BY <1>0, <2>2
  <2> QED BY <1>0, <2>2, <2>4, <2>5 DEF Alarm
<1>3. R \in Seq(Alarm)
  <2>1. R \in [1 .. Len(L) -> Alarm]
    BY <1>1, <1>2
  <2> QED BY <1>1, <2>1
<1>4. InOrder(R)
  <2>1. \A i, j \in DOMAIN L : i < j => L[i].in <= L[j].in
    BY DEF InOrder
  <2>2. \A i, j \in DOMAIN R : i < j => R[i].in <= R[j].in
    BY <1>1, <1>2, <2>1
  <2> QED BY <1>3, <2>2 DEF InOrder
<1>5. \A h : {i \in DOMAIN R : R[i].f = h} = {i \in DOMAIN L : L[i].f = h}
  BY <1>1, <1>2
<1> QED BY <1>4, <1>5 DEF Count
-----------------------------------------------------------------------------
(* The keys and the alarms.                                                 *)

Kinds == {"down", "up", "other"}

\* Unread keys: a press is followed by its release, unless the key is still down.
KeysInv ==
  /\ keys \in Seq(Kinds)
  /\ \A i \in DOMAIN keys : keys[i] = "down" =>
       pressed \/ \E j \in DOMAIN keys : i < j /\ keys[j] = "up"
  /\ \A i, k \in DOMAIN keys : i < k /\ keys[i] = "down" /\ keys[k] = "down" =>
       \E j \in DOMAIN keys : i < j /\ j < k /\ keys[j] = "up"

\* The next change of the power key that the program will read is not a press.
ReleaseFirst ==
  \A i \in DOMAIN keys : keys[i] = "down" => \E j \in DOMAIN keys : j < i /\ keys[j] = "up"

\* What the display shows, in numbers of alarms.
Shown ==
  LET a == Count(alarms, "animation")
      b == Count(alarms, "alarm1")
      c == Count(alarms, "alarm2")
  IN  \/ brightness = "off" /\ a = 0 /\ b = 0 /\ c = 0
      \/ brightness # "off" /\ a = 1 /\ b + c = 1 /\ (b # 0 <=> brightness = "bright")
      \/ brightness # "off" /\ a = 0 /\ b = 0 /\ c = 0 /\ HeldAsRead

RestartDue ==
  Count(alarms, "power_key") # 0 =>
    Count(alarms, "power_key") = 1 /\ powerup /\ HeldAsRead /\ ReleaseFirst

CInv ==
  /\ InOrder(alarms) /\ KeysInv /\ RestartDue
  /\ powerup \in BOOLEAN /\ pressed \in BOOLEAN
  /\ phone = "starting" => brightness = "off" /\ \A f \in Handlers : Count(alarms, f) = 0
  /\ phone = "on" => Shown

\* The numbers of alarms of the handlers, together.
LEMMA Counts ==
  ASSUME NEW L, InOrder(L)
  PROVE  /\ Count(L, "animation") \in Nat /\ Count(L, "alarm1") \in Nat
         /\ Count(L, "alarm2") \in Nat /\ Count(L, "power_key") \in Nat
BY CountType DEF InOrder

\* The pairs of alarms of a display that starts.
LEMMA AnimatedCounts ==
  ASSUME NEW L, InOrder(L)
  PROVE  /\ InOrder(Animated(L))
         /\ Count(Animated(L), "animation") = Count(L, "animation") + 1
         /\ Count(Animated(L), "alarm1") = Count(L, "alarm1") + 1
         /\ Count(Animated(L), "alarm2") = Count(L, "alarm2")
         /\ Count(Animated(L), "power_key") = Count(L, "power_key")
<1> DEFINE M == alarm_set_relative(L, "alarm1", Bright)
<1>1. Bright \in (- MaxLate) .. Dim /\ Animation \in (- MaxLate) .. Dim
  BY ChargeAssumption
<1>2. "alarm1" \in Handlers /\ "animation" \in Handlers
  BY DEF Handlers
<1>3. InOrder(M) /\ \A h : Count(M, h) = Count(L, h) + (IF h = "alarm1" THEN 1 ELSE 0)
  BY <1>1, <1>2, Inserted
<1>4. Animated(L) = alarm_set_relative(M, "animation", Animation)
  BY DEF Animated
<1> HIDE DEF M
<1>5. /\ InOrder(Animated(L))
      /\ \A h : Count(Animated(L), h) = Count(M, h) + (IF h = "animation" THEN 1 ELSE 0)
  BY <1>1, <1>2, <1>3, <1>4, Inserted
<1>6. /\ Count(M, "animation") = Count(L, "animation") + 0 /\ Count(M, "alarm1") = Count(L, "alarm1") + 1
      /\ Count(M, "alarm2") = Count(L, "alarm2") + 0 /\ Count(M, "power_key") = Count(L, "power_key") + 0
  BY <1>3
<1>7. /\ Count(Animated(L), "animation") = Count(M, "animation") + 1
      /\ Count(Animated(L), "alarm1") = Count(M, "alarm1") + 0
      /\ Count(Animated(L), "alarm2") = Count(M, "alarm2") + 0
      /\ Count(Animated(L), "power_key") = Count(M, "power_key") + 0
  BY <1>5
<1>8. /\ Count(L, "animation") \in Nat /\ Count(L, "alarm1") \in Nat
      /\ Count(L, "alarm2") \in Nat /\ Count(L, "power_key") \in Nat
  BY Counts
<1> QED BY <1>5, <1>6, <1>7, <1>8

\* What the program reads of the keys.
LEMMA KeyRead ==
  ASSUME CInv, keys # <<>>, keys' = Tail(keys), pressed' = pressed
  PROVE  /\ KeysInv'
         /\ Head(keys) = "down" => ~ ReleaseFirst /\ HeldAsRead' /\ ReleaseFirst'
         /\ Head(keys) = "other" => (HeldAsRead => HeldAsRead') /\ (ReleaseFirst => ReleaseFirst')
<1> DEFINE n == Len(keys)
<1>1. /\ keys \in Seq(Kinds) /\ n \in Nat /\ n >= 1 /\ DOMAIN keys = 1 .. n /\ Head(keys) = keys[1]
      /\ \A i \in 1 .. n : keys[i] = "down" => pressed \/ \E j \in 1 .. n : i < j /\ keys[j] = "up"
      /\ \A i, k \in 1 .. n : i < k /\ keys[i] = "down" /\ keys[k] = "down" =>
           \E j \in 1 .. n : i < j /\ j < k /\ keys[j] = "up"
  BY EmptySeq DEF CInv, KeysInv
<1>2. /\ keys' \in Seq(Kinds) /\ DOMAIN keys' = 1 .. n - 1
      /\ \A i \in 1 .. n - 1 : keys'[i] = keys[i + 1] /\ i + 1 \in 1 .. n
  BY <1>1
<1> HIDE DEF n
<1>3. ASSUME NEW j \in 2 .. n, keys[j] = "up"
      PROVE  j - 1 \in 1 .. n - 1 /\ keys'[j - 1] = "up"
  <2>1. j - 1 \in 1 .. n - 1 /\ j - 1 + 1 = j
    BY <1>1
  <2> QED BY <1>2, <1>3, <2>1
<1>4. KeysInv'
  <2>1. ASSUME NEW i \in 1 .. n - 1, keys'[i] = "down"
        PROVE  pressed' \/ \E j \in 1 .. n - 1 : i < j /\ keys'[j] = "up"
    <3>1. CASE pressed
      BY <3>1
    <3>2. CASE ~ pressed
      <4>1. PICK j \in 1 .. n : i + 1 < j /\ keys[j] = "up"
        BY <1>1, <1>2, <2>1, <3>2
      <4>2. j \in 2 .. n /\ i < j - 1
        BY <1>1, <4>1
      <4> QED BY <1>3, <4>1, <4>2
    <3> QED BY <3>1, <3>2
  <2>2. ASSUME NEW i \in 1 .. n - 1, NEW k \in 1 .. n - 1, i < k, keys'[i] = "down", keys'[k] = "down"
        PROVE  \E j \in 1 .. n - 1 : i < j /\ j < k /\ keys'[j] = "up"
    <3>1. PICK j \in 1 .. n : i + 1 < j /\ j < k + 1 /\ keys[j] = "up"
      BY <1>1, <1>2, <2>2
    <3>2. j \in 2 .. n /\ i < j - 1 /\ j - 1 < k
      BY <1>1, <3>1
    <3> QED BY <1>3, <3>1, <3>2
  <2>3. \A i \in DOMAIN keys' : keys'[i] = "down" =>
          pressed' \/ \E j \in DOMAIN keys' : i < j /\ keys'[j] = "up"
    BY <1>2, <2>1
  <2>4. \A i, k \in DOMAIN keys' : i < k /\ keys'[i] = "down" /\ keys'[k] = "down" =>
          \E j \in DOMAIN keys' : i < j /\ j < k /\ keys'[j] = "up"
    <3>1. \A i, k \in 1 .. n - 1 : i < k /\ keys'[i] = "down" /\ keys'[k] = "down" =>
            \E j \in 1 .. n - 1 : i < j /\ j < k /\ keys'[j] = "up"
      BY <2>2
    <3>2. DOMAIN keys' = 1 .. n - 1
      BY <1>2
    <3>3. ASSUME NEW i \in DOMAIN keys', NEW k \in DOMAIN keys',
                 i < k /\ keys'[i] = "down" /\ keys'[k] = "down"
          PROVE  \E j \in DOMAIN keys' : i < j /\ j < k /\ keys'[j] = "up"
      <4>1. i \in 1 .. n - 1 /\ k \in 1 .. n - 1
        BY <3>2
      <4>2. PICK j \in 1 .. n - 1 : i < j /\ j < k /\ keys'[j] = "up"
        BY <3>1, <3>3, <4>1
      <4>3. j \in DOMAIN keys'
        BY <3>2, <4>2
      <4> QED BY <4>2, <4>3
    <3> QED BY <3>3
  <2> QED BY <1>2, <2>3, <2>4, Zenon DEF KeysInv
<1>5. ASSUME keys[1] = "down" PROVE ~ ReleaseFirst /\ HeldAsRead' /\ ReleaseFirst'
  <2>1. ~ ReleaseFirst
    BY <1>1, <1>5 DEF ReleaseFirst
  <2>2. HeldAsRead'
    <3>1. CASE pressed
      BY <3>1 DEF HeldAsRead
    <3>2. CASE ~ pressed
      <4>1. PICK j \in 1 .. n : 1 < j /\ keys[j] = "up"
        BY <1>1, <1>5, <3>2
      <4>2. j \in 2 .. n
        BY <1>1, <4>1
      <4> QED BY <1>2, <1>3, <4>1, <4>2 DEF HeldAsRead, ToSet
    <3> QED BY <3>1, <3>2
  <2>3. ASSUME NEW i \in 1 .. n - 1, keys'[i] = "down"
        PROVE  \E j \in 1 .. n - 1 : j < i /\ keys'[j] = "up"
    <3>1. PICK j \in 1 .. n : 1 < j /\ j < i + 1 /\ keys[j] = "up"
      BY <1>1, <1>2, <1>5, <2>3
    <3>2. j \in 2 .. n /\ j - 1 < i
      BY <1>1, <3>1
    <3> QED BY <1>3, <3>1, <3>2
  <2> QED BY <1>2, <2>1, <2>2, <2>3 DEF ReleaseFirst
<1>6. ASSUME keys[1] = "other", HeldAsRead PROVE HeldAsRead'
  <2>1. CASE pressed
    BY <2>1 DEF HeldAsRead
  <2>2. CASE ~ pressed
    <3>1. PICK j \in 1 .. n : keys[j] = "up"
      BY <1>1, <1>6, <2>2 DEF HeldAsRead, ToSet
    <3>2. j \in 2 .. n
      BY <1>1, <1>6, <3>1
    <3> QED BY <1>2, <1>3, <3>1, <3>2 DEF HeldAsRead, ToSet
  <2> QED BY <2>1, <2>2
<1>7. ASSUME keys[1] = "other", ReleaseFirst PROVE ReleaseFirst'
  <2>1. ASSUME NEW i \in 1 .. n - 1, keys'[i] = "down"
        PROVE  \E j \in 1 .. n - 1 : j < i /\ keys'[j] = "up"
    <3>1. PICK j \in 1 .. n : j < i + 1 /\ keys[j] = "up"
      BY <1>1, <1>2, <1>7, <2>1 DEF ReleaseFirst
    <3>2. j \in 2 .. n /\ j - 1 < i
      BY <1>1, <1>7, <3>1
    <3> QED BY <1>3, <3>1, <3>2
  <2> QED BY <1>2, <2>1 DEF ReleaseFirst
<1> QED BY <1>1, <1>4, <1>5, <1>6, <1>7

\* The keys of the user.
LEMMA KeyPressed ==
  ASSUME CInv, press \/ release
  PROVE  KeysInv' /\ (HeldAsRead => HeldAsRead') /\ (HeldAsRead /\ ReleaseFirst => ReleaseFirst')
<1> DEFINE n == Len(keys)
<1>1. /\ keys \in Seq(Kinds) /\ n \in Nat /\ DOMAIN keys = 1 .. n
      /\ \A i \in 1 .. n : keys[i] = "down" => pressed \/ \E j \in 1 .. n : i < j /\ keys[j] = "up"
      /\ \A i, k \in 1 .. n : i < k /\ keys[i] = "down" /\ keys[k] = "down" =>
           \E j \in 1 .. n : i < j /\ j < k /\ keys[j] = "up"
      /\ pressed \in BOOLEAN
  BY DEF CInv, KeysInv
<1>2. PICK e \in Kinds : /\ keys' = Append(keys, e)
                         /\ \/ e = "down" /\ ~ pressed /\ pressed' = TRUE
                            \/ e = "up" /\ pressed /\ pressed' = FALSE
                            \/ e = "other" /\ pressed' = pressed
  BY DEF press, release, Kinds
<1>3. /\ keys' \in Seq(Kinds) /\ DOMAIN keys' = 1 .. n + 1
      /\ \A i \in 1 .. n : keys'[i] = keys[i] /\ i \in 1 .. n + 1
      /\ keys'[n + 1] = e /\ n + 1 \in 1 .. n + 1
  BY <1>1, <1>2
<1> HIDE DEF n
<1>4. ASSUME NEW i \in 1 .. n + 1, i # n + 1 PROVE i \in 1 .. n /\ i < n + 1
  BY <1>1, <1>4
<1>5. KeysInv'
  <2>1. ASSUME NEW i \in 1 .. n + 1, keys'[i] = "down"
        PROVE  pressed' \/ \E j \in 1 .. n + 1 : i < j /\ keys'[j] = "up"
    <3>1. CASE i = n + 1
      BY <1>2, <1>3, <2>1, <3>1
    <3>2. CASE i # n + 1
      <4>1. i \in 1 .. n /\ i < n + 1 /\ keys[i] = "down"
        BY <1>3, <1>4, <2>1, <3>2
      <4>2. CASE e = "up"
        BY <1>3, <4>1, <4>2
      <4>3. CASE e # "up"
        <5>1. pressed => pressed'
          BY <1>2, <4>3
        <5> QED BY <1>1, <1>3, <4>1, <5>1
      <4> QED BY <4>2, <4>3
    <3> QED BY <3>1, <3>2
  <2>2. ASSUME NEW i \in 1 .. n + 1, NEW k \in 1 .. n + 1, i < k, keys'[i] = "down", keys'[k] = "down"
        PROVE  \E j \in 1 .. n + 1 : i < j /\ j < k /\ keys'[j] = "up"
    <3>0. i \in 1 .. n /\ keys[i] = "down"
      <4>1. i # n + 1
        BY <1>1, <2>2
      <4> QED BY <1>3, <1>4, <2>2, <4>1
    <3>1. CASE k = n + 1
      <4>1. ~ pressed
        BY <1>2, <1>3, <2>2, <3>1
      <4>2. PICK j \in 1 .. n : i < j /\ keys[j] = "up"
        BY <1>1, <3>0, <4>1
      <4>3. j < k
        BY <1>1, <3>1
      <4> QED BY <1>3, <4>2, <4>3
    <3>2. CASE k # n + 1
      <4>1. k \in 1 .. n /\ keys[k] = "down"
        BY <1>3, <1>4, <2>2, <3>2
      <4>2. PICK j \in 1 .. n : i < j /\ j < k /\ keys[j] = "up"
        BY <1>1, <3>0, <4>1, <2>2
      <4> QED BY <1>3, <4>2
    <3> QED BY <3>1, <3>2
  <2> QED BY <1>3, <2>1, <2>2 DEF KeysInv
<1>6. ASSUME HeldAsRead PROVE HeldAsRead'
  <2>1. CASE "up" \in ToSet(keys)
    <3>1. PICK j \in 1 .. n : keys[j] = "up"
      BY <1>1, <2>1 DEF ToSet
    <3> QED BY <1>3, <3>1 DEF HeldAsRead, ToSet
  <2>2. CASE pressed
    <3>1. CASE e = "up"
      BY <1>3, <3>1 DEF HeldAsRead, ToSet
    <3>2. CASE e # "up"
      BY <1>2, <2>2, <3>2 DEF HeldAsRead
    <3> QED BY <3>1, <3>2
  <2> QED BY <1>6, <2>1, <2>2 DEF HeldAsRead
<1>7. ASSUME HeldAsRead, ReleaseFirst PROVE ReleaseFirst'
  <2>1. ASSUME NEW i \in 1 .. n + 1, keys'[i] = "down"
        PROVE  \E j \in 1 .. n + 1 : j < i /\ keys'[j] = "up"
    <3>1. CASE i = n + 1
      <4>1. ~ pressed
        BY <1>2, <1>3, <2>1, <3>1
      <4>2. PICK j \in 1 .. n : keys[j] = "up"
        BY <1>1, <1>7, <4>1 DEF HeldAsRead, ToSet
      <4>3. j < i
        BY <1>1, <3>1
      <4> QED BY <1>3, <4>2, <4>3
    <3>2. CASE i # n + 1
      <4>1. i \in 1 .. n /\ keys[i] = "down"
        BY <1>3, <1>4, <2>1, <3>2
      <4>2. PICK j \in 1 .. n : j < i /\ keys[j] = "up"
        BY <1>1, <1>7, <4>1 DEF ReleaseFirst
      <4> QED BY <1>3, <4>2
    <3> QED BY <3>1, <3>2
  <2> QED BY <1>3, <2>1 DEF ReleaseFirst
<1> QED BY <1>5, <1>6, <1>7
-----------------------------------------------------------------------------
(* One step after the other keeps the invariant.                            *)

\* A display that starts anew, whatever there was before.
LEMMA Lit ==
  ASSUME NEW L, InOrder(L)
  PROVE  LET M == Animated(alarm_cancel(L, Display))
         IN  /\ InOrder(M) /\ Count(M, "animation") = 1 /\ Count(M, "alarm1") = 1
             /\ Count(M, "alarm2") = 0 /\ Count(M, "power_key") = Count(L, "power_key")
<1> DEFINE N == alarm_cancel(L, Display)
<1>1. InOrder(N) /\ \A f : Count(N, f) = IF f \in Display THEN 0 ELSE Count(L, f)
  BY Cancelled
<1>2. /\ Count(N, "animation") = 0 /\ Count(N, "alarm1") = 0 /\ Count(N, "alarm2") = 0
      /\ Count(N, "power_key") = Count(L, "power_key")
  BY <1>1 DEF Display
<1> HIDE DEF N
<1>3. /\ InOrder(Animated(N)) /\ Count(Animated(N), "animation") = 1
      /\ Count(Animated(N), "alarm1") = 1 /\ Count(Animated(N), "alarm2") = 0
      /\ Count(Animated(N), "power_key") = Count(L, "power_key")
  BY <1>1, <1>2, AnimatedCounts
<1> QED BY <1>3 DEF N

\* A display that ends, of a list without alarms that dim it or end it.
LEMMA Dark ==
  ASSUME NEW L, InOrder(L), Count(L, "alarm1") = 0, Count(L, "alarm2") = 0,
         NEW off, DisplayEnds(L, off)
  PROVE  /\ InOrder(alarms') /\ brightness' = "off" /\ phone' \in {"on", "off"}
         /\ Count(alarms', "animation") = 0 /\ Count(alarms', "alarm1") = 0
         /\ Count(alarms', "alarm2") = 0 /\ Count(alarms', "power_key") = Count(L, "power_key")
<1> DEFINE N == alarm_cancel(L, {"animation"})
<1>1. InOrder(N) /\ \A f : Count(N, f) = IF f \in {"animation"} THEN 0 ELSE Count(L, f)
  BY Cancelled
<1> HIDE DEF N
<1>2. alarms' = N /\ brightness' = "off" /\ phone' \in {"on", "off"}
  BY DEF DisplayEnds, N
<1>3. /\ Count(N, "animation") = 0 /\ Count(N, "alarm1") = 0 /\ Count(N, "alarm2") = 0
      /\ Count(N, "power_key") = Count(L, "power_key")
  BY <1>1
<1> QED BY <1>1, <1>2, <1>3

\* What power_event makes of a list with the alarms there were.
LEMMA PowerEvent ==
  ASSUME CInv, phone = "on", NEW L, InOrder(L), \A f \in Handlers : Count(L, f) = Count(alarms, f),
         power_event(L), keys' = keys, pressed' = pressed
  PROVE  CInv'
<1>1. KeysInv' /\ HeldAsRead' = HeldAsRead /\ ReleaseFirst' = ReleaseFirst
      /\ powerup' \in BOOLEAN /\ pressed' \in BOOLEAN /\ (powerup => powerup')
  <2>1. KeysInv' /\ HeldAsRead' = HeldAsRead /\ ReleaseFirst' = ReleaseFirst /\ pressed' \in BOOLEAN
    BY DEF CInv, KeysInv, HeldAsRead, ReleaseFirst
  <2>2. powerup \in BOOLEAN /\ powerup' \in {powerup, TRUE}
    BY DEF CInv, power_event
  <2> QED BY <2>1, <2>2
<1>2. /\ Count(L, "animation") = Count(alarms, "animation") /\ Count(L, "alarm1") = Count(alarms, "alarm1")
      /\ Count(L, "alarm2") = Count(alarms, "alarm2") /\ Count(L, "power_key") = Count(alarms, "power_key")
  BY DEF Handlers
<1>3. Shown /\ RestartDue
  BY DEF CInv
<1>4. CASE ~ shutdown /\ ~ plugged
  <2> DEFINE N == alarm_cancel(L, {"alarm1", "alarm2"})
  <2>1. InOrder(N) /\ \A f : Count(N, f) = IF f \in {"alarm1", "alarm2"} THEN 0 ELSE Count(L, f)
    BY Cancelled
  <2>2. DisplayEnds(N, TRUE)
    BY <1>4 DEF power_event
  <2> HIDE DEF N
  <2>3. Count(N, "alarm1") = 0 /\ Count(N, "alarm2") = 0 /\ Count(N, "power_key") = Count(L, "power_key")
    BY <2>1
  <2>4. /\ InOrder(alarms') /\ brightness' = "off" /\ phone' \in {"on", "off"}
        /\ Count(alarms', "animation") = 0 /\ Count(alarms', "alarm1") = 0
        /\ Count(alarms', "alarm2") = 0 /\ Count(alarms', "power_key") = Count(N, "power_key")
    BY <2>1, <2>2, <2>3, Dark
  <2>5. Shown'
    BY <2>4 DEF Shown
  <2>6. RestartDue'
    BY <1>1, <1>2, <1>3, <2>3, <2>4 DEF RestartDue
  <2> QED BY <1>1, <2>4, <2>5, <2>6 DEF CInv
<1>5. CASE ~ (~ shutdown /\ ~ plugged)
  <2>1. alarms' = L /\ phone' = "on" /\ brightness' = brightness
    BY <1>5 DEF power_event
  <2>2. Shown'
    BY <1>1, <1>2, <1>3, <2>1 DEF Shown
  <2>3. RestartDue'
    BY <1>1, <1>2, <1>3, <2>1 DEF RestartDue
  <2>4. InOrder(alarms')
    BY <2>1
  <2> QED BY <1>1, <2>1, <2>2, <2>3, <2>4 DEF CInv
<1> QED BY <1>4, <1>5

\* main up to its loop.
LEMMA StartKeeps == ASSUME CInv, start PROVE CInv'
<1>1. KeysInv' /\ HeldAsRead' = HeldAsRead /\ ReleaseFirst' = ReleaseFirst
      /\ powerup' \in BOOLEAN /\ pressed' \in BOOLEAN
  <2>1. KeysInv' /\ HeldAsRead' = HeldAsRead /\ ReleaseFirst' = ReleaseFirst /\ pressed' \in BOOLEAN
    BY DEF CInv, KeysInv, HeldAsRead, ReleaseFirst, start, world
  <2>2. powerup \in BOOLEAN /\ powerup' \in {powerup, TRUE}
    BY DEF CInv, start, Started
  <2> QED BY <2>1, <2>2
<1>2. /\ InOrder(alarms) /\ Count(alarms, "animation") = 0 /\ Count(alarms, "alarm1") = 0
      /\ Count(alarms, "alarm2") = 0 /\ Count(alarms, "power_key") = 0
  BY DEF CInv, start, Handlers
<1>3. CASE phone' = "on" /\ brightness' = "bright" /\ alarms' = Animated(alarms)
  <2>1. /\ InOrder(alarms') /\ Count(alarms', "animation") = 1 /\ Count(alarms', "alarm1") = 1
        /\ Count(alarms', "alarm2") = 0 /\ Count(alarms', "power_key") = 0
    BY <1>2, <1>3, AnimatedCounts
  <2> QED BY <1>1, <1>3, <2>1 DEF CInv, Shown, RestartDue
<1>4. CASE phone' = "off" /\ alarms' = alarms
  BY <1>1, <1>2, <1>4 DEF CInv, RestartDue
<1> QED BY <1>3, <1>4 DEF start, Started

\* An alarm that is due.
LEMMA AlarmsKeep ==
  ASSUME CInv, animation_alarm \/ alarm1 \/ alarm2 \/ power_key_alarm
  PROVE  CInv'
<1> DEFINE T == Tail(alarms)
<1>1. KeysInv' /\ HeldAsRead' = HeldAsRead /\ ReleaseFirst' = ReleaseFirst
      /\ pressed' = pressed /\ pressed' \in BOOLEAN /\ keys' = keys
  BY DEF CInv, KeysInv, HeldAsRead, ReleaseFirst, animation_alarm, alarm1, alarm2, power_key_alarm, world
<1>2. /\ phone = "on" /\ Shown /\ RestartDue /\ InOrder(alarms) /\ alarms # <<>> /\ powerup \in BOOLEAN
  BY DEF CInv, animation_alarm, alarm1, alarm2, power_key_alarm, Due
<1>3. InOrder(T) /\ \A f : Count(T, f) = Count(alarms, f) - (IF f = Head(alarms).f THEN 1 ELSE 0)
  BY <1>2, Tailed
<1>4. /\ Count(alarms, "animation") \in Nat /\ Count(alarms, "alarm1") \in Nat
      /\ Count(alarms, "alarm2") \in Nat /\ Count(alarms, "power_key") \in Nat
  BY <1>2, Counts
<1>5. /\ Count(T, "animation") \in Nat /\ Count(T, "alarm1") \in Nat
      /\ Count(T, "alarm2") \in Nat /\ Count(T, "power_key") \in Nat
  BY <1>3, Counts
<1>6. /\ MaxLate \in Nat /\ Animation \in (- MaxLate) .. Dim /\ Dim \in (- MaxLate) .. Dim
  BY ChargeAssumption
<1> HIDE DEF T
<1>7. CASE animation_alarm
  <2> DEFINE L == alarm_set_relative(T, "animation", Animation)
  <2>1. Head(alarms).f = "animation" /\ power_event(L)
    BY <1>7 DEF animation_alarm, Due, T
  <2>2. "animation" \in Handlers
    BY DEF Handlers
  <2>3. InOrder(L) /\ \A f : Count(L, f) = Count(T, f) + (IF f = "animation" THEN 1 ELSE 0)
    BY <1>3, <1>6, <2>2, Inserted
  <2> HIDE DEF L
  <2>4. \A f \in Handlers : Count(alarms, f) \in Nat
    BY <1>4 DEF Handlers
  <2>5. \A f \in Handlers : Count(L, f) = Count(alarms, f)
    BY <1>3, <2>1, <2>3, <2>4
  <2> QED BY <1>1, <1>2, <2>1, <2>3, <2>5, PowerEvent
<1>8. CASE alarm1
  <2> DEFINE L == alarm_set_relative(T, "alarm2", Dim)
  <2>1. Head(alarms).f = "alarm1" /\ alarms' = L /\ brightness' = "dim" /\ phone' = phone /\ powerup' = powerup
    BY <1>8 DEF alarm1, Due, T, flags
  <2>2. "alarm2" \in Handlers
    BY DEF Handlers
  <2>3. InOrder(L) /\ \A f : Count(L, f) = Count(T, f) + (IF f = "alarm2" THEN 1 ELSE 0)
    BY <1>3, <1>6, <2>2, Inserted
  <2> HIDE DEF L
  <2>4. /\ Count(alarms', "animation") = Count(alarms, "animation") - 0 + 0
        /\ Count(T, "alarm1") = Count(alarms, "alarm1") - 1
        /\ Count(alarms', "alarm1") = Count(alarms, "alarm1") - 1 + 0
        /\ Count(alarms', "alarm2") = Count(alarms, "alarm2") - 0 + 1
        /\ Count(alarms', "power_key") = Count(alarms, "power_key") - 0 + 0
    BY <1>3, <2>1, <2>3
  <2>5. Shown'
    <3>1. Count(alarms, "alarm1") # 0
      BY <1>4, <1>5, <2>4
    <3>2. brightness # "off" /\ Count(alarms, "animation") = 1 /\ Count(alarms, "alarm1") = 1 /\ Count(alarms, "alarm2") = 0
      BY <1>2, <1>4, <3>1 DEF Shown
    <3> QED BY <2>1, <2>4, <3>2 DEF Shown
  <2>6. RestartDue'
    BY <1>1, <1>2, <1>4, <2>1, <2>4 DEF RestartDue
  <2>7. InOrder(alarms')
    BY <2>1, <2>3
  <2> QED BY <1>1, <1>2, <2>1, <2>5, <2>6, <2>7 DEF CInv
<1>9. CASE alarm2
  <2>1. Head(alarms).f = "alarm2" /\ DisplayEnds(T, shutdown) /\ powerup' = powerup
    BY <1>9 DEF alarm2, Due, T, flags
  <2>2. /\ Count(T, "alarm1") = Count(alarms, "alarm1") - 0
        /\ Count(T, "alarm2") = Count(alarms, "alarm2") - 1
        /\ Count(T, "power_key") = Count(alarms, "power_key") - 0
    BY <1>3, <2>1
  <2>3. Count(T, "alarm1") = 0 /\ Count(T, "alarm2") = 0
    BY <1>2, <1>4, <1>5, <2>2 DEF Shown
  <2>4. /\ InOrder(alarms') /\ brightness' = "off" /\ phone' \in {"on", "off"}
        /\ Count(alarms', "animation") = 0 /\ Count(alarms', "alarm1") = 0
        /\ Count(alarms', "alarm2") = 0 /\ Count(alarms', "power_key") = Count(T, "power_key")
    BY <1>3, <2>1, <2>3, Dark
  <2>5. RestartDue'
    BY <1>1, <1>2, <1>4, <2>1, <2>2, <2>4 DEF RestartDue
  <2> QED BY <1>1, <1>2, <2>1, <2>4, <2>5 DEF CInv, Shown
<1>10. CASE power_key_alarm
  <2> DEFINE N == alarm_cancel(T, Display)
  <2>1. /\ Head(alarms).f = "power_key" /\ alarms' = N /\ brightness' = brightness /\ powerup' = powerup
        /\ phone' \in {"restarting", "on"}
    BY <1>10 DEF power_key_alarm, Due, T, flags
  <2>2. InOrder(N) /\ \A f : Count(N, f) = IF f \in Display THEN 0 ELSE Count(T, f)
    BY <1>3, Cancelled
  <2> HIDE DEF N
  <2>3. /\ Count(alarms', "animation") = 0 /\ Count(alarms', "alarm1") = 0 /\ Count(alarms', "alarm2") = 0
        /\ Count(alarms', "power_key") = Count(T, "power_key")
    BY <2>1, <2>2 DEF Display
  <2>4. Count(T, "power_key") = Count(alarms, "power_key") - 1
    BY <1>3, <2>1
  <2>5. Count(alarms, "power_key") = 1 /\ HeldAsRead
    BY <1>2, <1>4, <1>5, <2>4 DEF RestartDue
  <2>6. Count(alarms', "power_key") = 0
    BY <2>3, <2>4, <2>5
  <2>7. InOrder(alarms')
    BY <2>1, <2>2
  <2> QED BY <1>1, <1>2, <2>1, <2>3, <2>5, <2>6, <2>7 DEF CInv, RestartDue, Shown
<1> QED BY <1>7, <1>8, <1>9, <1>10

\* A list has an alarm of a handler exactly if their number is not zero.
LEMMA Found ==
  ASSUME NEW L, InOrder(L), NEW f
  PROVE  (\E a \in ToSet(L) : a.f = f) <=> Count(L, f) # 0
<1>1. L \in Seq(Alarm)
  BY DEF InOrder
<1>2. Count(L, f) = 0 <=> {i \in DOMAIN L : L[i].f = f} = {}
  BY <1>1, CountType
<1>3. (\E a \in ToSet(L) : a.f = f) <=> {i \in DOMAIN L : L[i].f = f} # {}
  BY DEF ToSet
<1> QED BY <1>2, <1>3

\* A key is read.
LEMMA KeysKeep ==
  ASSUME CInv, power_key_down \/ power_key_up \/ other_key
  PROVE  CInv'
<1>1. /\ keys # <<>> /\ keys' = Tail(keys) /\ pressed' = pressed /\ powerup' = powerup /\ phone = "on"
      /\ Head(keys) = "down" \/ Head(keys) = "up" \/ Head(keys) = "other"
  BY DEF power_key_down, power_key_up, other_key, Key, Waiting, world, flags
<1>2. /\ KeysInv'
      /\ Head(keys) = "down" => ~ ReleaseFirst /\ HeldAsRead' /\ ReleaseFirst'
      /\ Head(keys) = "other" => (HeldAsRead => HeldAsRead') /\ (ReleaseFirst => ReleaseFirst')
  BY <1>1, KeyRead
<1>3. /\ Shown /\ RestartDue /\ InOrder(alarms) /\ powerup' \in BOOLEAN /\ pressed' \in BOOLEAN
  BY <1>1 DEF CInv
<1>4. /\ Count(alarms, "animation") \in Nat /\ Count(alarms, "alarm1") \in Nat
      /\ Count(alarms, "alarm2") \in Nat /\ Count(alarms, "power_key") \in Nat
  BY <1>3, Counts
<1>5. CASE power_key_down
  <2>1. Head(keys) = "down" /\ phone' = phone /\ brightness' = brightness
    BY <1>5 DEF power_key_down, Key
  <2>2. Count(alarms, "power_key") = 0 /\ HeldAsRead' /\ ReleaseFirst'
    BY <1>2, <1>3, <2>1 DEF RestartDue
  <2>3. CASE powerup
    <3> DEFINE L == alarm_set_relative(alarms, "power_key", Hold)
    <3>1. Hold \in (- MaxLate) .. Dim /\ "power_key" \in Handlers
      BY ChargeAssumption DEF Handlers
    <3>2. InOrder(L) /\ \A f : Count(L, f) = Count(alarms, f) + (IF f = "power_key" THEN 1 ELSE 0)
      BY <1>3, <3>1, Inserted
    <3>3. alarms' = L
      BY <1>5, <2>3 DEF power_key_down
    <3> HIDE DEF L
    <3>4. /\ Count(alarms', "animation") = Count(alarms, "animation") + 0
          /\ Count(alarms', "alarm1") = Count(alarms, "alarm1") + 0
          /\ Count(alarms', "alarm2") = Count(alarms, "alarm2") + 0
          /\ Count(alarms', "power_key") = Count(alarms, "power_key") + 1
      BY <3>2, <3>3
    <3>5. Shown'
      BY <1>3, <1>4, <2>1, <2>2, <3>4 DEF Shown
    <3>6. RestartDue'
      BY <1>1, <2>2, <2>3, <3>4 DEF RestartDue
    <3>7. InOrder(alarms')
      BY <3>2, <3>3
    <3> QED BY <1>1, <1>2, <1>3, <2>1, <3>5, <3>6, <3>7 DEF CInv
  <2>4. CASE ~ powerup
    <3>1. alarms' = alarms
      BY <1>5, <2>4 DEF power_key_down
    <3>2. Shown' /\ RestartDue'
      BY <1>3, <2>1, <2>2, <3>1 DEF Shown, RestartDue
    <3>3. InOrder(alarms')
      BY <1>3, <3>1
    <3> QED BY <1>1, <1>2, <1>3, <2>1, <3>2, <3>3 DEF CInv
  <2> QED BY <2>3, <2>4
<1>6. CASE power_key_up
  <2> DEFINE L == alarm_cancel(alarms, {"power_key"})
             M == alarm_cancel(L, Display)
  <2>1. InOrder(L) /\ \A f : Count(L, f) = IF f \in {"power_key"} THEN 0 ELSE Count(alarms, f)
    BY <1>3, Cancelled
  <2>2. Wakeup(L)
    BY <1>6 DEF power_key_up
  <2> HIDE DEF L
  <2>3. Count(L, "power_key") = 0
    BY <2>1
  <2>4. InOrder(M) /\ \A f : Count(M, f) = IF f \in Display THEN 0 ELSE Count(L, f)
    BY <2>1, Cancelled
  <2>5. Count(M, "alarm1") = 0 /\ Count(M, "alarm2") = 0 /\ Count(M, "power_key") = 0
    BY <2>3, <2>4 DEF Display
  <2>6. CASE DisplayEnds(M, shutdown)
    <3> HIDE DEF M
    <3>1. /\ InOrder(alarms') /\ brightness' = "off" /\ phone' \in {"on", "off"}
          /\ Count(alarms', "animation") = 0 /\ Count(alarms', "alarm1") = 0
          /\ Count(alarms', "alarm2") = 0 /\ Count(alarms', "power_key") = Count(M, "power_key")
      BY <2>4, <2>5, <2>6, Dark
    <3> QED BY <1>1, <1>2, <1>3, <2>5, <3>1 DEF CInv, Shown, RestartDue
  <2>7. CASE brightness' = "bright" /\ alarms' = Animated(M) /\ phone' = phone
    <3>1. /\ InOrder(alarms') /\ Count(alarms', "animation") = 1 /\ Count(alarms', "alarm1") = 1
          /\ Count(alarms', "alarm2") = 0 /\ Count(alarms', "power_key") = 0
      BY <2>1, <2>3, <2>7, Lit
    <3> QED BY <1>1, <1>2, <1>3, <2>7, <3>1 DEF CInv, Shown, RestartDue
  <2> QED BY <2>2, <2>6, <2>7 DEF Wakeup
<1>7. CASE other_key
  <2>1. /\ Head(keys) = "other" /\ brightness' = "bright" /\ phone' = phone
        /\ alarms' = Animated(alarm_cancel(alarms, Display))
    BY <1>7 DEF other_key, Key
  <2>2. /\ InOrder(alarms') /\ Count(alarms', "animation") = 1 /\ Count(alarms', "alarm1") = 1
        /\ Count(alarms', "alarm2") = 0 /\ Count(alarms', "power_key") = Count(alarms, "power_key")
    BY <1>3, <2>1, Lit
  <2>3. RestartDue'
    BY <1>1, <1>2, <1>3, <2>1, <2>2 DEF RestartDue
  <2>4. Shown'
    BY <2>1, <2>2 DEF Shown
  <2> QED BY <1>1, <1>2, <1>3, <2>1, <2>2, <2>3, <2>4 DEF CInv
<1> QED BY <1>5, <1>6, <1>7

\* A uevent is read.
LEMMA UeventKeeps == ASSUME CInv, uevent PROVE CInv'
<1>1. phone = "on" /\ keys' = keys /\ pressed' = pressed /\ InOrder(alarms)
  BY DEF CInv, uevent, Waiting, world
<1>2. CASE power_event(alarms)
  BY <1>1, <1>2, PowerEvent
<1>3. CASE UNCHANGED <<alarms, brightness, flags, phone>>
  <2>1. KeysInv' /\ HeldAsRead' = HeldAsRead /\ ReleaseFirst' = ReleaseFirst
    BY <1>1 DEF CInv, KeysInv, HeldAsRead, ReleaseFirst
  <2>2. Shown' = Shown /\ RestartDue' = RestartDue
    BY <1>3, <2>1 DEF Shown, RestartDue, flags
  <2> QED BY <1>1, <1>3, <2>1, <2>2 DEF CInv, flags
<1> QED BY <1>2, <1>3 DEF uevent

\* Time, the charger, what sends uevents and the user.
LEMMA WorldKeeps ==
  ASSUME CInv, \/ tick \/ plug \/ battery_uevent \/ other_uevent \/ press \/ release
               \/ UNCHANGED vars
  PROVE  CInv'
<1>1. brightness' = brightness /\ phone' = phone /\ powerup' = powerup
  BY DEF tick, plug, battery_uevent, other_uevent, press, release, vars, flags
<1>2. CInv => /\ InOrder(alarms) /\ powerup \in BOOLEAN /\ pressed \in BOOLEAN /\ RestartDue
  BY DEF CInv
<1>3. InOrder(alarms') /\ \A f : Count(alarms', f) = Count(alarms, f)
  <2>1. CASE tick
    BY <1>2, <2>1, Ticked DEF tick
  <2>2. CASE UNCHANGED alarms
    BY <1>2, <2>2
  <2> QED BY <2>1, <2>2 DEF plug, battery_uevent, other_uevent, press, release, vars
<1>4. /\ KeysInv' /\ (HeldAsRead => HeldAsRead') /\ (HeldAsRead /\ ReleaseFirst => ReleaseFirst')
      /\ pressed' \in BOOLEAN
  <2>1. CASE press \/ release
    <3>1. pressed' \in BOOLEAN
      BY <1>2, <2>1 DEF press, release
    <3> QED BY <2>1, <3>1, KeyPressed
  <2>2. CASE UNCHANGED <<keys, pressed>>
    BY <1>2, <2>2 DEF CInv, KeysInv, HeldAsRead, ReleaseFirst
  <2> QED BY <2>1, <2>2 DEF tick, plug, battery_uevent, other_uevent, vars, world
<1>5. RestartDue'
  BY <1>1, <1>2, <1>3, <1>4 DEF RestartDue
<1>6. phone = "on" => Shown'
  <2>1. phone = "on" => Shown
    BY DEF CInv
  <2> QED BY <1>1, <1>3, <1>4, <2>1 DEF Shown
<1>7. phone = "starting" => brightness' = "off" /\ \A f \in Handlers : Count(alarms', f) = 0
  BY <1>1, <1>3 DEF CInv
<1> QED BY <1>1, <1>2, <1>3, <1>4, <1>5, <1>6, <1>7 DEF CInv

\* The invariant, inductively.
LEMMA Invariance ==
  /\ Init => CInv
  /\ CInv /\ [Next]_vars => CInv'
<1>1. Init => CInv
  <2> SUFFICES ASSUME Init PROVE CInv
    OBVIOUS
  <2>1. alarms = <<>> /\ keys = <<>> /\ powerup = FALSE /\ pressed = FALSE /\ phone = "starting"
        /\ brightness = "off"
    BY DEF Init
  <2>2. InOrder(alarms)
    BY <2>1 DEF InOrder
  <2>3. \A f : Count(alarms, f) = 0
    <3>1. \A f : {i \in DOMAIN alarms : alarms[i].f = f} = {}
      BY <2>1
    <3> QED BY <3>1, FS_EmptySet DEF Count
  <2>4. KeysInv
    BY <2>1 DEF KeysInv
  <2> QED BY <2>1, <2>2, <2>3, <2>4 DEF CInv, RestartDue
<1>2. CInv /\ [Next]_vars => CInv'
  BY StartKeeps, AlarmsKeep, KeysKeep, UeventKeeps, WorldKeeps DEF Next, Loop
<1> QED BY <1>1, <1>2

\* Whatever alarms, keys and uevents fall together: a lit display has one animation and
\* one alarm that dims it or ends it, a dark one has none.
THEOREM DisplayCycles == Spec => []DisplayCycle
<1>1. CInv => DisplayCycle
  <2> SUFFICES ASSUME CInv, phone = "on" PROVE DisplayCycle
    BY DEF DisplayCycle
  <2> DEFINE ends == Pending("alarm1") \cup Pending("alarm2")
  <2>1. InOrder(alarms) /\ alarms \in Seq(Alarm) /\ Shown
    BY DEF CInv, InOrder
  <2>2. \A f : /\ IsFiniteSet(Pending(f)) /\ Cardinality(Pending(f)) = Count(alarms, f)
               /\ Count(alarms, f) \in Nat /\ (Pending(f) = {} <=> Count(alarms, f) = 0)
    BY <2>1, CountType DEF Count, Pending
  <2>3. Pending("alarm1") \cap Pending("alarm2") = {}
    BY DEF Pending
  <2>4. Cardinality(ends) = Count(alarms, "alarm1") + Count(alarms, "alarm2")
    <3>1. Cardinality(ends) = Cardinality(Pending("alarm1")) + Cardinality(Pending("alarm2"))
                              - Cardinality(Pending("alarm1") \cap Pending("alarm2"))
      BY <2>2, FS_Union
    <3>2. Cardinality(Pending("alarm1") \cap Pending("alarm2")) = 0
      BY <2>3, FS_EmptySet
    <3>3. Cardinality(Pending("alarm1")) = Count(alarms, "alarm1") /\ Count(alarms, "alarm1") \in Nat
          /\ Cardinality(Pending("alarm2")) = Count(alarms, "alarm2") /\ Count(alarms, "alarm2") \in Nat
      BY <2>2
    <3> HIDE DEF ends
    <3> QED BY <3>1, <3>2, <3>3
  <2>5. /\ Cardinality(Pending("animation")) = Count(alarms, "animation")
        /\ Pending("animation") = {} <=> Count(alarms, "animation") = 0
        /\ Pending("alarm1") = {} <=> Count(alarms, "alarm1") = 0
        /\ Pending("alarm2") = {} <=> Count(alarms, "alarm2") = 0
    BY <2>2
  <2>6. ends \cup Pending("animation") = {} <=>
          Pending("animation") = {} /\ Pending("alarm1") = {} /\ Pending("alarm2") = {}
    OBVIOUS
  <2> HIDE DEF ends
  <2>7. \/ brightness = "off" /\ ends \cup Pending("animation") = {}
        \/ /\ brightness # "off"
           /\ Cardinality(Pending("animation")) = 1
           /\ Cardinality(ends) = 1
           /\ Pending("alarm1") # {} <=> brightness = "bright"
        \/ brightness # "off" /\ ends \cup Pending("animation") = {} /\ HeldAsRead
    BY <2>1, <2>4, <2>5, <2>6 DEF Shown
  <2> QED BY <2>7 DEF DisplayCycle, ends
<1> QED BY <1>1, Invariance, PTL DEF Spec

\* The restart is due only while the power key is held, as far as the program has
\* read, once for each press, and after the battery has had the voltage to start.
THEOREM LongPressOnly == Spec => []LongPress
<1>1. CInv => LongPress
  <2> SUFFICES ASSUME CInv, Pending("power_key") # {}
               PROVE  powerup /\ HeldAsRead /\ Cardinality(Pending("power_key")) = 1
    BY DEF LongPress
  <2>1. alarms \in Seq(Alarm) /\ RestartDue
    BY DEF CInv, InOrder
  <2>2. Cardinality(Pending("power_key")) = Count(alarms, "power_key")
        /\ (Pending("power_key") = {} <=> Count(alarms, "power_key") = 0)
    BY <2>1, CountType DEF Count, Pending
  <2> QED BY <2>1, <2>2 DEF RestartDue
<1> QED BY <1>1, Invariance, PTL DEF Spec

\* The rest of the state.
Rest ==
  /\ brightness \in {"off", "dim", "bright"} /\ shutdown \in BOOLEAN
  /\ phone \in {"starting", "on", "off", "restarting"} /\ plugged \in BOOLEAN
  /\ uevents \in Seq({"battery", "other"}) /\ pressedKeys \in 0 .. MaxKeys /\ lost \in BOOLEAN

LEMMA RestKept == ASSUME CInv, Rest, [Next]_vars PROVE Rest'
<1>0. MaxKeys \in Nat /\ pressedKeys \in Nat
  BY ChargeAssumption DEF Rest
<1>1. pressedKeys' \in 0 .. MaxKeys
  <2>1. CASE press
    BY <1>0, <2>1 DEF press, Rest
  <2>2. CASE ~ press
    BY <2>2 DEF Rest, Next, Loop, start, animation_alarm, alarm1, alarm2, power_key_alarm, power_key_down,
         power_key_up, other_key, uevent, tick, plug, battery_uevent, other_uevent, release, world, vars
  <2> QED BY <2>1, <2>2
<1>2. lost' \in BOOLEAN
  <2>1. CASE start \/ animation_alarm \/ uevent
    BY <2>1 DEF Rest, start, Started, animation_alarm, uevent, power_event
  <2>2. CASE ~ (start \/ animation_alarm \/ uevent)
    BY <2>2 DEF Rest, Next, Loop, alarm1, alarm2, power_key_alarm, power_key_down,
         power_key_up, other_key, tick, plug, battery_uevent, other_uevent, press, release, vars
  <2> QED BY <2>1, <2>2
<1>3. plugged' \in BOOLEAN
  BY DEF Rest, Next, Loop, start, animation_alarm, alarm1, alarm2, power_key_alarm, power_key_down,
     power_key_up, other_key, uevent, tick, plug, battery_uevent, other_uevent, press, release, world, vars
<1>4. uevents' \in Seq({"battery", "other"})
  <2>1. CASE plug \/ battery_uevent \/ other_uevent
    BY <2>1 DEF Rest, plug, battery_uevent, other_uevent, Sent
  <2>2. CASE uevent
    BY <2>2 DEF uevent
  <2> QED BY <2>1, <2>2 DEF Rest, Next, Loop, start, animation_alarm, alarm1, alarm2, power_key_alarm,
        power_key_down, power_key_up, other_key, tick, press, release, vars
<1>5. brightness' \in {"off", "dim", "bright"} /\ shutdown' \in BOOLEAN
      /\ phone' \in {"starting", "on", "off", "restarting"}
  <2>0. plugged \in BOOLEAN
    BY DEF Rest
  <2>1. CASE start
    BY <2>0, <2>1 DEF Rest, start, Started
  <2>2. CASE animation_alarm \/ uevent
    BY <2>2 DEF Rest, animation_alarm, uevent, power_event, DisplayEnds, flags
  <2>3. CASE alarm1 \/ alarm2 \/ power_key_alarm \/ power_key_down \/ power_key_up \/ other_key
    BY <2>3 DEF Rest, alarm1, alarm2, power_key_alarm, power_key_down, power_key_up, other_key,
       Wakeup, DisplayEnds, flags
  <2>4. CASE tick \/ plug \/ battery_uevent \/ other_uevent \/ press \/ release \/ UNCHANGED vars
    BY <2>4 DEF Rest, tick, plug, battery_uevent, other_uevent, press, release, vars, flags
  <2> QED BY <2>1, <2>2, <2>3, <2>4 DEF Next, Loop
<1> QED BY <1>1, <1>2, <1>3, <1>4, <1>5 DEF Rest

\* The list of alarms keeps its order through all that is set and cancelled, and the
\* other variables their types.
THEOREM Types == Spec => []TypeOK
<1>1. Init => Rest
  <2> SUFFICES ASSUME Init PROVE Rest
    OBVIOUS
  <2>1. 0 \in 0 .. MaxKeys
    BY ChargeAssumption
  <2>2. <<>> \in Seq({"battery", "other"})
    OBVIOUS
  <2> QED BY <2>1, <2>2 DEF Init, Rest
<1>2. CInv /\ Rest => TypeOK
  BY DEF CInv, Rest, TypeOK, InOrder, Alarm, KeysInv, Kinds
<1> QED BY <1>1, <1>2, Invariance, RestKept, PTL DEF Spec

\* An appended uevent joins those that wait.
LEMMA SentEntries ==
  ASSUME NEW S, NEW q \in Seq(S), NEW e \in S
  PROVE  ToSet(Append(q, e)) = ToSet(q) \cup {e}
<1>1. /\ Len(Append(q, e)) = Len(q) + 1 /\ Append(q, e)[Len(q) + 1] = e
      /\ DOMAIN Append(q, e) = 1 .. Len(q) + 1 /\ DOMAIN q = 1 .. Len(q)
      /\ \A n \in 1 .. Len(q) : Append(q, e)[n] = q[n]
  OBVIOUS
<1>2. 1 .. Len(q) + 1 = (1 .. Len(q)) \cup {Len(q) + 1}
  OBVIOUS
<1> QED BY <1>1, <1>2 DEF ToSet

LEMMA UnplugReportedKept == ASSUME Rest, UnplugReported, [Next]_vars PROVE UnplugReported'
<1>1. CASE start
  BY <1>1 DEF Rest, start, Started, UnplugReported, world
<1>2. CASE animation_alarm
  BY <1>2 DEF Rest, animation_alarm, power_event, UnplugReported, world
<1>3. CASE uevent
  <2>1. phone = "on" /\ plugged' = plugged /\ uevents' = <<>>
    BY <1>3 DEF uevent, Waiting, world
  <2>2. CASE power_event(alarms)
    BY <2>1, <2>2 DEF Rest, power_event, UnplugReported
  <2>3. CASE lost' = (lost \/ "battery" \in ToSet(uevents)) /\ UNCHANGED <<alarms, brightness, flags, phone>>
    BY <2>1, <2>3 DEF UnplugReported, flags
  <2> QED BY <1>3, <2>2, <2>3 DEF uevent
<1>4. CASE alarm1 \/ alarm2 \/ power_key_alarm \/ power_key_down \/ power_key_up \/ other_key
  <2>1. phone = "on" /\ shutdown' = shutdown /\ plugged' = plugged /\ lost' = lost /\ uevents' = uevents
    BY <1>4 DEF alarm1, alarm2, power_key_alarm, power_key_down, power_key_up, other_key, Due, Key,
       Waiting, flags, world
  <2> QED BY <2>1 DEF UnplugReported
<1>5. CASE plug \/ battery_uevent \/ other_uevent
  <2>1. /\ phone' = phone /\ shutdown' = shutdown /\ lost' = lost
        /\ \/ uevents' = Append(uevents, "battery")
           \/ uevents' = Append(uevents, "other") /\ plugged' = plugged
    BY <1>5 DEF plug, battery_uevent, other_uevent, Sent, flags, world
  <2>2. uevents \in Seq({"battery", "other"})
    BY DEF Rest
  <2>3. /\ ToSet(Append(uevents, "battery")) = ToSet(uevents) \cup {"battery"}
        /\ ToSet(Append(uevents, "other")) = ToSet(uevents) \cup {"other"}
    BY <2>2, SentEntries
  <2> QED BY <2>1, <2>3 DEF UnplugReported
<1>6. CASE tick \/ press \/ release \/ UNCHANGED vars
  <2>1. UNCHANGED <<phone, shutdown, plugged, uevents, lost>>
    BY <1>6 DEF tick, press, release, vars, flags, world
  <2> QED BY <2>1 DEF UnplugReported
<1> QED BY <1>1, <1>2, <1>3, <1>4, <1>5, <1>6 DEF Next, Loop

\* Whatever alarms and uevents fall together, the program knows of an unplugged charger,
\* or a battery uevent waits for it, or ev_get has dropped one.
THEOREM UnplugIsReported == Spec => []UnplugReported
<1>1. Init => Rest /\ UnplugReported
  <2> SUFFICES ASSUME Init PROVE Rest /\ UnplugReported
    OBVIOUS
  <2>1. 0 \in 0 .. MaxKeys /\ <<>> \in Seq({"battery", "other"})
    BY ChargeAssumption
  <2> QED BY <2>1 DEF Init, Rest, UnplugReported
<1> QED BY <1>1, Invariance, RestKept, UnplugReportedKept, PTL DEF Spec

=============================================================================
