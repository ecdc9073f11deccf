--------------------------- MODULE VirtioBlkProofs ---------------------------
(***************************************************************************)
(* The block device implements BlkService, and leaves no completion        *)
(* without an interrupt, for every size of the queue and of the disk.      *)
(***************************************************************************)
EXTENDS VirtioBlk, SequenceTheorems, FiniteSetTheorems, TLAPS

-----------------------------------------------------------------------------
(* Index arithmetic.                                                       *)

(* A positive multiple of a number is not below it.                        *)
LEMMA Multiple ==
  ASSUME NEW n \in Nat, NEW k \in Int, k >= 1
  PROVE  n * k \in Int /\ n * k >= n
<1>1. k - 1 \in Nat
  OBVIOUS
<1>2. n * (k - 1) \in Nat
  BY <1>1
<1>3. n * k = n * (k - 1) + n
  OBVIOUS
<1> QED
  BY <1>2, <1>3

(* A quotient and a remainder below the divisor are the quotient and the   *)
(* remainder.                                                              *)
LEMMA Unique ==
  ASSUME NEW n \in Nat \ {0}, NEW x \in Int, NEW q \in Int, NEW r \in 0..(n - 1),
         x = n * q + r
  PROVE  x % n = r
<1> DEFINE p == x \div n
           t == x % n
<1>1. p \in Int /\ t \in 0..(n - 1) /\ x = n * p + t
  OBVIOUS
<1> HIDE DEF p, t
<1>2. n * (q - p) = t - r
  BY <1>1
<1>3. ~(q - p >= 1)
  <2> SUFFICES ASSUME q - p >= 1 PROVE FALSE
    OBVIOUS
  <2>1. n * (q - p) >= n
    BY <1>1, Multiple
  <2> QED
    BY <1>1, <1>2, <2>1
<1>4. ~(p - q >= 1)
  <2> SUFFICES ASSUME p - q >= 1 PROVE FALSE
    OBVIOUS
  <2>1. n * (p - q) >= n
    BY <1>1, Multiple
  <2>2. n * (p - q) = r - t
    BY <1>1
  <2> QED
    BY <1>1, <2>1, <2>2
<1>5. p = q
  BY <1>1, <1>3, <1>4
<1>6. t = r
  BY <1>1, <1>5
<1> QED
  BY <1>6 DEF t

(* A multiple of the divisor does not change the remainder.                *)
LEMMA AddMultiple ==
  ASSUME NEW n \in Nat \ {0}, NEW x \in Int, NEW k \in Int
  PROVE  (x + n * k) % n = x % n
<1> DEFINE p == x \div n
           r == x % n
           y == x + n * k
           z == p + k
<1>1. p \in Int /\ r \in 0..(n - 1) /\ x = n * p + r
  OBVIOUS
<1> HIDE DEF p, r
<1>2. y = n * z + r /\ y \in Int /\ z \in Int
  <2>1. n * (p + k) = n * p + n * k /\ n * p \in Int /\ n * k \in Int
    BY <1>1
  <2> QED
    BY <1>1, <2>1
<1> HIDE DEF y, z
<1>3. y % n = r
  BY <1>1, <1>2, Unique
<1> QED
  BY <1>3 DEF y, r

(* A slot is found from an index that has wrapped: QUEUE_NUM divides 2^16. *)
LEMMA WrapMask ==
  ASSUME NEW x \in Nat, NEW i \in Nat
  PROVE  /\ x % IdxRange \in Indices
         /\ ((x % IdxRange) + i) % QueueNum = (x + i) % QueueNum
         /\ ((x % IdxRange) + i) % IdxRange = (x + i) % IdxRange
         /\ x % QueueNum \in Slots
<1> DEFINE n == QueueNum
           m == IdxRange
           k == m \div n
           q == x \div m
           y == x % m
<1>1. n \in Nat \ {0} /\ m \in Nat \ {0} /\ m % n = 0
  BY QueueAssumption
<1>2. k \in Int /\ m = n * k
  BY <1>1
<1>3. q \in Int /\ y \in 0..(m - 1) /\ x = m * q + y
  BY <1>1
<1>4. x % n \in 0..(n - 1)
  BY <1>1
<1> HIDE DEF n, m, k, q, y
<1> DEFINE z == y + i
           e == k * q
<1>5. z \in Int /\ e \in Int /\ m * q = n * e /\ m * q \in Int /\ x + i = z + m * q
  <2>1. (n * k) * q = n * (k * q) /\ k * q \in Int
    BY <1>1, <1>2, <1>3
  <2>2. m * q \in Int
    BY <1>1, <1>3
  <2> QED
    BY <1>2, <1>3, <2>1, <2>2
<1> HIDE DEF z, e
<1>6. (z + n * e) % n = z % n
  BY <1>1, <1>5, AddMultiple, Zenon
<1>7. (z + m * q) % m = z % m
  BY <1>1, <1>3, <1>5, AddMultiple, Zenon
<1>8. z % n = (x + i) % n /\ z % m = (x + i) % m
  BY <1>5, <1>6, <1>7
<1> QED
  BY <1>3, <1>4, <1>8 DEF n, m, y, z, Indices, Slots

(* The distance of two indices, computed modulo 2^16.                      *)
LEMMA Distance ==
  ASSUME NEW x \in Nat, NEW d \in 0..(IdxRange - 1)
  PROVE  (((x + d) % IdxRange) - (x % IdxRange)) % IdxRange = d
<1> DEFINE m == IdxRange
           p == (x + d) \div m
           q == x \div m
           y == ((x + d) % m) - (x % m)
           k == q - p
<1>1. m \in Nat \ {0}
  BY QueueAssumption
<1>2. x + d = m * p + ((x + d) % m) /\ p \in Int /\ (x + d) % m \in Int
  BY <1>1
<1>3. x = m * q + (x % m) /\ q \in Int /\ x % m \in Int
  BY <1>1
<1> HIDE DEF m, p, q
<1>4. y \in Int /\ k \in Int /\ y = m * k + d
  <2>1. m * (q - p) = m * q - m * p /\ m * q \in Int /\ m * p \in Int
    BY <1>1, <1>2, <1>3
  <2> QED
    BY <1>2, <1>3, <2>1
<1> HIDE DEF y, k
<1>5. d \in 0..(m - 1)
  BY DEF m
<1>6. y % m = d
  BY <1>1, <1>4, <1>5, Unique
<1> QED
  BY <1>6 DEF y, m

(* Indices less than a ring apart have different slots.                    *)
LEMMA Apart ==
  ASSUME NEW x \in Nat, NEW y \in Nat, x < y, y < x + QueueNum
  PROVE  x % QueueNum # y % QueueNum
<1> DEFINE n == QueueNum
           p == x \div n
           q == y \div n
           r == x % n
<1> SUFFICES ASSUME x % n = y % n PROVE FALSE
  OBVIOUS
<1>1. n \in Nat \ {0}
  BY QueueAssumption
<1>2. p \in Int /\ q \in Int /\ r \in Int /\ x = n * p + r /\ y = n * q + r
  BY <1>1
<1> HIDE DEF n, p, q, r
<1>3. n * (q - p) = y - x
  BY <1>1, <1>2
<1>4. ~(q - p >= 1)
  <2> SUFFICES ASSUME q - p >= 1 PROVE FALSE
    OBVIOUS
  <2>1. n * (q - p) >= n
    BY <1>1, <1>2, Multiple
  <2> QED
    BY <1>1, <1>3, <2>1 DEF n
<1>5. ~(p - q >= 1)
  <2> SUFFICES ASSUME p - q >= 1 PROVE FALSE
    OBVIOUS
  <2>1. n * (p - q) >= n
    BY <1>1, <1>2, Multiple
  <2>2. n * (p - q) = x - y
    BY <1>1, <1>2
  <2> QED
    BY <1>1, <2>1, <2>2
<1>6. p = q
  BY <1>2, <1>4, <1>5
<1> QED
  BY <1>2, <1>6

-----------------------------------------------------------------------------
(* Requests in flight.                                                     *)

\* The i-th slot of a ring from index l on.
Entry(a, l, i) == a.ring[(l + i) % QueueNum]

\* From l on, the rings hold f finished and w waiting requests.
Flight(q, a, u, c, l, f, w) ==
  /\ q \in [Heads -> Chain] /\ a \in Ring /\ u \in Ring /\ l \in Indices
  /\ f \in Nat /\ w \in Nat /\ f + w <= QueueNum
  /\ u.idx = c /\ c = (l + f) % IdxRange /\ a.idx = (l + f + w) % IdxRange
  /\ \A i \in 0..(f + w - 1) : q[Entry(a, l, i)].status = IF i < f THEN "ok" ELSE "sent"
  /\ \A i \in 0..(f - 1) : Entry(u, l, i) = Entry(a, l, i)
  /\ \A i, j \in 0..(f + w - 1) : Entry(a, l, i) = Entry(a, l, j) => i = j

Sh(q, h) == [tag |-> h, op |-> q[h].op, sector |-> q[h].sector, val |-> q[h].val,
             status |-> q[h].status]

Shape == [tag : Heads, op : Ops, sector : Sectors, val : Values, status : {"none", "sent", "ok"}]

TodoOf(q, a, l, f, w) == [i \in 1..w |-> Sh(q, Entry(a, l, f + i - 1))]
DoneOf(q, a, l, f) == [i \in 1..f |-> Sh(q, Entry(a, l, i - 1))]

(* Slots hold heads of chains, and a slot within the ring is not another.  *)
LEMMA Entries ==
  ASSUME NEW a \in Ring, NEW l \in Indices, NEW i \in Nat
  PROVE  /\ l \in Nat /\ (l + i) % QueueNum \in Slots /\ Entry(a, l, i) \in Heads
         /\ \A j \in Nat : i < j /\ j < i + QueueNum => (l + i) % QueueNum # (l + j) % QueueNum
<1>1. l \in Nat /\ QueueNum \in Nat
  BY QueueAssumption DEF Indices
<1>2. (l + i) % QueueNum \in Slots
  <2> DEFINE x == l + i
  <2>1. x \in Nat
    BY <1>1
  <2> HIDE DEF x
  <2>2. x % QueueNum \in Slots
    BY <2>1, WrapMask
  <2> QED
    BY <2>2 DEF x
<1>3. Entry(a, l, i) \in Heads
  BY <1>2 DEF Entry, Ring
<1>4. ASSUME NEW j \in Nat, i < j, j < i + QueueNum
      PROVE  (l + i) % QueueNum # (l + j) % QueueNum
  <2> DEFINE x == l + i
             y == l + j
  <2>1. x \in Nat /\ y \in Nat /\ x < y /\ y < x + QueueNum
    BY <1>1, <1>4
  <2> HIDE DEF x, y
  <2>2. x % QueueNum # y % QueueNum
    BY <2>1, Apart
  <2> QED
    BY <2>2 DEF x, y
<1> QED
  BY <1>1, <1>2, <1>3, <1>4

(* What a chain shows.                                                     *)
LEMMA ShType ==
  ASSUME NEW q \in [Heads -> Chain], NEW h \in Heads
  PROVE  Sh(q, h) \in Shape
<1>1. q[h] \in Chain
  OBVIOUS
<1> QED
  BY <1>1 DEF Sh, Shape, Chain

(* The two sequences.                                                      *)
LEMMA TodoSeq ==
  ASSUME NEW q \in [Heads -> Chain], NEW a \in Ring, NEW l \in Indices, NEW f \in Nat, NEW w \in Nat
  PROVE  TodoOf(q, a, l, f, w) \in Seq(Shape) /\ Len(TodoOf(q, a, l, f, w)) = w
<1>1. TodoOf(q, a, l, f, w) \in [1..w -> Shape]
  <2>1. ASSUME NEW i \in 1..w PROVE Sh(q, Entry(a, l, f + i - 1)) \in Shape
    <3> DEFINE k == f + i - 1
    <3>1. k \in Nat
      OBVIOUS
    <3> HIDE DEF k
    <3>2. Sh(q, Entry(a, l, k)) \in Shape
      BY <3>1, Entries, ShType
    <3> QED
      BY <3>2 DEF k
  <2> QED
    BY <2>1 DEF TodoOf
<1>2. ASSUME NEW g \in [1..w -> Shape] PROVE g \in Seq(Shape) /\ Len(g) = w
  OBVIOUS
<1> QED
  BY <1>1, <1>2

LEMMA DoneSeq ==
  ASSUME NEW q \in [Heads -> Chain], NEW a \in Ring, NEW l \in Indices, NEW f \in Nat
  PROVE  DoneOf(q, a, l, f) \in Seq(Shape) /\ Len(DoneOf(q, a, l, f)) = f
<1>1. DoneOf(q, a, l, f) \in [1..f -> Shape]
  <2>1. ASSUME NEW i \in 1..f PROVE Sh(q, Entry(a, l, i - 1)) \in Shape
    <3> DEFINE k == i - 1
    <3>1. k \in Nat
      OBVIOUS
    <3> HIDE DEF k
    <3>2. Sh(q, Entry(a, l, k)) \in Shape
      BY <3>1, Entries, ShType
    <3> QED
      BY <3>2 DEF k
  <2> QED
    BY <2>1 DEF DoneOf
<1>2. ASSUME NEW g \in [1..f -> Shape] PROVE g \in Seq(Shape) /\ Len(g) = f
  OBVIOUS
<1> QED
  BY <1>1, <1>2

(* There is room for one more request than are in flight.                  *)
LEMMA Room ==
  ASSUME NEW q, NEW a, NEW u, NEW c, NEW l, NEW f, NEW w, Flight(q, a, u, c, l, f, w),
         NEW h \in Heads, \A i \in 0..(f + w - 1) : Entry(a, l, i) # h
  PROVE  f + w + 1 <= QueueNum
<1> DEFINE k == f + w
           S == 0..k
           T == 0..(QueueNum - 1)
           g == [i \in S |-> IF i = k THEN h ELSE Entry(a, l, i)]
<1>1. k \in Nat /\ QueueNum \in Nat \ {0} /\ a \in Ring /\ l \in Indices /\ f \in Nat /\ w \in Nat
  BY QueueAssumption DEF Flight
<1>2. g \in [S -> T]
  <2>1. ASSUME NEW i \in S PROVE (IF i = k THEN h ELSE Entry(a, l, i)) \in T
    <3>1. i \in Nat
      BY <1>1
    <3>2. Entry(a, l, i) \in Heads
      BY <1>1, <3>1, Entries
    <3> QED
      BY <3>2, QueueAssumption, Zenon
  <2> QED
    BY <2>1
<1>3. \A i, j \in S : g[i] = g[j] => i = j
  <2>1. \A i \in S : i = k \/ i \in 0..(f + w - 1)
    BY <1>1
  <2> QED
    BY <2>1 DEF Flight
<1>4. IsFiniteSet(S) /\ Cardinality(S) = k + 1
  <2> HIDE DEF k
  <2>1. 0 \in Int /\ k \in Int /\ ~(0 > k)
    BY <1>1
  <2> QED
    BY <2>1, FS_Interval
<1>5. IsFiniteSet(T) /\ Cardinality(T) = QueueNum
  <2> DEFINE b == QueueNum - 1
  <2>1. 0 \in Int /\ b \in Int /\ ~(0 > b) /\ b - 0 + 1 = QueueNum
    BY <1>1
  <2> HIDE DEF b
  <2>2. IsFiniteSet(0..b) /\ Cardinality(0..b) = b - 0 + 1
    BY <2>1, FS_Interval
  <2> QED
    BY <2>1, <2>2 DEF b
<1> HIDE DEF S, T, g
<1>6. ~(Cardinality(T) < Cardinality(S))
  BY <1>2, <1>3, <1>4, <1>5, FS_PigeonHole
<1> QED
  BY <1>1, <1>4, <1>5, <1>6

(* Sequences of shapes are equal when they agree.                          *)
LEMMA SameShapes ==
  ASSUME NEW x \in Seq(Shape), NEW y \in Seq(Shape), Len(x) = Len(y),
         \A i \in 1..Len(x) : x[i] = y[i]
  PROVE  x = y
BY SeqEqual

\* What Submit does to the chains and the avail ring.
Posts(q, a, h, r, p, b) ==
  /\ p = [q EXCEPT ![h] = r]
  /\ b = [idx |-> (a.idx + 1) % IdxRange, ring |-> [a.ring EXCEPT ![a.idx % QueueNum] = h]]

\* And to what is in flight.
Posted(q, a, u, c, l, f, w, h, p, b) ==
  /\ Flight(p, b, u, c, l, f, w + 1)
  /\ TodoOf(p, b, l, f, w + 1) = Append(TodoOf(q, a, l, f, w), Sh(p, h))
  /\ DoneOf(p, b, l, f) = DoneOf(q, a, l, f)

(* A request is made available.                                            *)
LEMMA FlightSubmit ==
  ASSUME NEW q, NEW a, NEW u, NEW c, NEW l, NEW f, NEW w, Flight(q, a, u, c, l, f, w),
         NEW h \in Heads, NEW r \in Chain, r.status = "sent",
         \A g \in Heads : q[g].status # "none" => g # h,
         NEW p, NEW b,
         Posts(q, a, h, r, p, b)
  PROVE  Posted(q, a, u, c, l, f, w, h, p, b)
<1>0. /\ p = [q EXCEPT ![h] = r]
      /\ b = [idx |-> (a.idx + 1) % IdxRange, ring |-> [a.ring EXCEPT ![a.idx % QueueNum] = h]]
  BY DEF Posts
<1> DEFINE k == f + w
           t == (l + k) % QueueNum
<1>1. /\ q \in [Heads -> Chain] /\ a \in Ring /\ u \in Ring /\ l \in Indices /\ l \in Nat
      /\ f \in Nat /\ w \in Nat /\ k \in Nat /\ k <= QueueNum /\ QueueNum \in Nat \ {0}
      /\ IdxRange \in Nat \ {0} /\ QueueNum < IdxRange
      /\ a.ring \in [Slots -> Heads]
  BY QueueAssumption DEF Flight, Indices, Ring
<1>2. \A i \in 0..(k - 1) : Entry(a, l, i) \in Heads /\ q[Entry(a, l, i)].status # "none"
                            /\ Entry(a, l, i) # h
  <2> SUFFICES ASSUME NEW i \in 0..(k - 1)
               PROVE  Entry(a, l, i) \in Heads /\ q[Entry(a, l, i)].status # "none"
                      /\ Entry(a, l, i) # h
    OBVIOUS
  <2>1. i \in Nat
    BY <1>1
  <2>2. Entry(a, l, i) \in Heads
    BY <1>1, <2>1, Entries
  <2>3. q[Entry(a, l, i)].status # "none"
    BY DEF Flight
  <2> QED
    BY <2>2, <2>3
<1>3. k + 1 <= QueueNum
  <2>1. \A i \in 0..(f + w - 1) : Entry(a, l, i) # h
    <3> SUFFICES ASSUME NEW i \in 0..(f + w - 1) PROVE Entry(a, l, i) # h
      OBVIOUS
    <3> QED
      BY <1>1, <1>2
  <2>2. f + w + 1 <= QueueNum
    BY <2>1, Room
  <2> QED
    BY <2>2
<1>4. a.idx % QueueNum = t /\ (a.idx + 1) % IdxRange = (l + k + 1) % IdxRange
  <2> DEFINE x == l + k
  <2>1. x \in Nat /\ a.idx = x % IdxRange /\ x + 0 = x
    BY <1>1 DEF Flight
  <2> HIDE DEF x
  <2>2. /\ ((x % IdxRange) + 0) % QueueNum = (x + 0) % QueueNum
        /\ ((x % IdxRange) + 1) % IdxRange = (x + 1) % IdxRange
    BY <2>1, WrapMask
  <2>3. (x % IdxRange) + 0 = x % IdxRange
    BY <1>1, <2>1
  <2> QED
    BY <2>1, <2>2, <2>3 DEF x
<1>5. t \in Slots
  BY <1>1, Entries, Zenon
<1>6. b \in Ring /\ b.ring = [a.ring EXCEPT ![t] = h] /\ b.idx = (l + f + (w + 1)) % IdxRange
  <2>1. l + k + 1 = l + f + (w + 1)
    BY <1>1
  <2>2. (a.idx + 1) % IdxRange \in Indices
    BY <1>1, <1>4 DEF Indices
  <2>3. [a.ring EXCEPT ![t] = h] \in [Slots -> Heads]
    BY <1>1, Zenon
  <2> HIDE DEF t, k
  <2>4. b = [idx |-> (a.idx + 1) % IdxRange, ring |-> [a.ring EXCEPT ![t] = h]]
    BY <1>0, <1>4
  <2> QED
    BY <1>4, <2>1, <2>2, <2>3, <2>4 DEF Ring
<1>7. \A i \in 0..(k - 1) : Entry(b, l, i) = Entry(a, l, i)
  <2> SUFFICES ASSUME NEW i \in 0..(k - 1) PROVE Entry(b, l, i) = Entry(a, l, i)
    OBVIOUS
  <2>1. i \in Nat /\ i < k /\ k < i + QueueNum
    BY <1>1, <1>3
  <2>2. (l + i) % QueueNum # t /\ (l + i) % QueueNum \in Slots
    BY <1>1, <2>1, Entries, Zenon
  <2> QED
    BY <1>1, <1>6, <2>2 DEF Entry
<1>8. Entry(b, l, k) = h
  BY <1>1, <1>5, <1>6 DEF Entry
<1> HIDE DEF t
<1>9. p \in [Heads -> Chain] /\ p[h] = r /\ \A g \in Heads : g # h => p[g] = q[g]
  BY <1>0, <1>1
<1>10. \A i \in 0..k : i = k \/ i \in 0..(k - 1)
  BY <1>1
<1>11. Flight(p, b, u, c, l, f, w + 1)
  <2>1. f + (w + 1) - 1 = k /\ f + (w + 1) = k + 1 /\ f <= k
    BY <1>1
  <2>2. \A i \in 0..k : p[Entry(b, l, i)].status = IF i < f THEN "ok" ELSE "sent"
    <3> SUFFICES ASSUME NEW i \in 0..k
                 PROVE  p[Entry(b, l, i)].status = IF i < f THEN "ok" ELSE "sent"
      OBVIOUS
    <3>1. CASE i = k
      BY <1>1, <1>8, <1>9, <2>1, <3>1
    <3>2. CASE i \in 0..(k - 1)
      <4>1. p[Entry(b, l, i)] = q[Entry(a, l, i)]
        BY <1>2, <1>7, <1>9, <3>2
      <4>2. q[Entry(a, l, i)].status = IF i < f THEN "ok" ELSE "sent"
        BY <3>2 DEF Flight
      <4> QED
        BY <4>1, <4>2
    <3> QED
      BY <1>10, <3>1, <3>2
  <2>3. \A i \in 0..(f - 1) : Entry(u, l, i) = Entry(b, l, i)
    <3>1. \A i \in 0..(f - 1) : i \in 0..(k - 1)
      BY <1>1
    <3> QED
      BY <1>7, <3>1 DEF Flight
  <2>4. \A i, j \in 0..k : Entry(b, l, i) = Entry(b, l, j) => i = j
    <3>1. \A i, j \in 0..(k - 1) : Entry(a, l, i) = Entry(a, l, j) => i = j
      BY DEF Flight
    <3> QED
      BY <1>2, <1>7, <1>8, <1>10, <3>1
  <2>5. u.idx = c /\ c = (l + f) % IdxRange
    BY DEF Flight
  <2> HIDE DEF k
  <2> QED
    BY <1>1, <1>3, <1>6, <1>9, <2>1, <2>2, <2>3, <2>4, <2>5 DEF Flight
<1>12. \A i \in 0..(k - 1) : Sh(p, Entry(b, l, i)) = Sh(q, Entry(a, l, i))
  BY <1>2, <1>7, <1>9 DEF Sh
<1>13. TodoOf(p, b, l, f, w + 1) = Append(TodoOf(q, a, l, f, w), Sh(p, h))
  <2> DEFINE x == TodoOf(p, b, l, f, w + 1)
             o == TodoOf(q, a, l, f, w)
             e == Sh(p, h)
             y == Append(o, e)
  <2>1. /\ x \in Seq(Shape) /\ Len(x) = w + 1
        /\ \A i \in 1..(w + 1) : x[i] = Sh(p, Entry(b, l, f + i - 1))
    <3> DEFINE v == w + 1
    <3>1. v \in Nat /\ f \in Nat /\ l \in Indices /\ b \in Ring /\ p \in [Heads -> Chain]
      BY <1>1, <1>6, <1>9
    <3> HIDE DEF v
    <3>2. /\ TodoOf(p, b, l, f, v) \in Seq(Shape) /\ Len(TodoOf(p, b, l, f, v)) = v
      BY <3>1, TodoSeq, Zenon
    <3>3. \A i \in 1..v : TodoOf(p, b, l, f, v)[i] = Sh(p, Entry(b, l, f + i - 1))
      BY DEF TodoOf
    <3> QED
      BY <3>2, <3>3 DEF v
  <2>2. /\ o \in Seq(Shape) /\ Len(o) = w
        /\ \A i \in 1..w : o[i] = Sh(q, Entry(a, l, f + i - 1))
    <3>1. o \in Seq(Shape) /\ Len(o) = w
      BY <1>1, TodoSeq
    <3> QED
      BY <3>1, Zenon DEF TodoOf
  <2>3. e \in Shape
    BY <1>9, ShType
  <2> HIDE DEF x, o, e
  <2>4. y \in Seq(Shape) /\ Len(y) = w + 1 /\ y[w + 1] = e /\ \A i \in 1..w : y[i] = o[i]
    BY <2>2, <2>3, AppendProperties
  <2> HIDE DEF y
  <2>5. ASSUME NEW i \in 1..(w + 1) PROVE x[i] = y[i]
    <3>1. CASE i = w + 1
      <4>1. f + i - 1 = k
        BY <1>1, <3>1
      <4> QED
        BY <1>8, <2>1, <2>4, <3>1, <4>1, Zenon DEF e
    <3>2. CASE i # w + 1
      <4>1. i \in 1..w /\ f + i - 1 \in 0..(k - 1)
        BY <1>1, <3>2
      <4> QED
        BY <1>12, <2>1, <2>2, <2>4, <4>1
    <3> QED
      BY <3>1, <3>2, Zenon
  <2>6. x = y
    BY <2>1, <2>4, <2>5, SameShapes
  <2> QED
    BY <2>6 DEF x, y, o, e
<1>14. DoneOf(p, b, l, f) = DoneOf(q, a, l, f)
  <2>1. \A i \in 1..f : i - 1 \in 0..(k - 1)
    BY <1>1
  <2> QED
    BY <1>12, <2>1 DEF DoneOf
<1> QED
  BY <1>11, <1>13, <1>14 DEF Posted

\* What Serve does to the chains and the used ring.
Serves(q, a, u, c, s, h, p, v) ==
  /\ h = a.ring[c % QueueNum]
  /\ p = [q EXCEPT ![h] = s]
  /\ v = [idx |-> (c + 1) % IdxRange, ring |-> [u.ring EXCEPT ![c % QueueNum] = h]]

\* And to what is in flight.
Answered(q, a, u, c, l, f, w, h, p, v) ==
  /\ Flight(p, a, v, (c + 1) % IdxRange, l, f + 1, w - 1)
  /\ TodoOf(q, a, l, f, w) # <<>>
  /\ Head(TodoOf(q, a, l, f, w)) = Sh(q, h)
  /\ TodoOf(p, a, l, f + 1, w - 1) = Tail(TodoOf(q, a, l, f, w))
  /\ DoneOf(p, a, l, f + 1) = Append(DoneOf(q, a, l, f), Sh(p, h))

(* A request is served.                                                    *)
LEMMA FlightServe ==
  ASSUME NEW q, NEW a, NEW u, NEW c, NEW l, NEW f, NEW w, Flight(q, a, u, c, l, f, w), w # 0,
         NEW s \in Chain, s.status = "ok", NEW h, NEW p, NEW v,
         Serves(q, a, u, c, s, h, p, v)
  PROVE  Answered(q, a, u, c, l, f, w, h, p, v)
<1>0. /\ h = a.ring[c % QueueNum]
      /\ p = [q EXCEPT ![h] = s]
      /\ v = [idx |-> (c + 1) % IdxRange, ring |-> [u.ring EXCEPT ![c % QueueNum] = h]]
  BY DEF Serves
<1> DEFINE k == f + w
           t == (l + f) % QueueNum
           d == (c + 1) % IdxRange
<1>1. /\ q \in [Heads -> Chain] /\ a \in Ring /\ u \in Ring /\ l \in Indices /\ l \in Nat
      /\ f \in Nat /\ w \in Nat \ {0} /\ k \in Nat /\ k <= QueueNum /\ QueueNum \in Nat \ {0}
      /\ IdxRange \in Nat \ {0} /\ QueueNum < IdxRange
      /\ u.ring \in [Slots -> Heads] /\ u.idx = c /\ c = (l + f) % IdxRange
      /\ a.idx = (l + f + w) % IdxRange
  BY QueueAssumption DEF Flight, Indices, Ring
<1>2. c % QueueNum = t /\ d = (l + f + 1) % IdxRange
  <2> DEFINE x == l + f
  <2>1. x \in Nat /\ c = x % IdxRange /\ x + 0 = x
    BY <1>1
  <2> HIDE DEF x
  <2>2. /\ ((x % IdxRange) + 0) % QueueNum = (x + 0) % QueueNum
        /\ ((x % IdxRange) + 1) % IdxRange = (x + 1) % IdxRange
    BY <2>1, WrapMask
  <2>3. (x % IdxRange) + 0 = x % IdxRange
    BY <1>1, <2>1
  <2> QED
    BY <2>1, <2>2, <2>3 DEF x
<1>3. t \in Slots /\ h = Entry(a, l, f) /\ h \in Heads
  <2>1. t \in Slots /\ Entry(a, l, f) \in Heads
    BY <1>1, Entries
  <2> HIDE DEF t
  <2>2. h = a.ring[t]
    BY <1>0, <1>2
  <2> QED
    BY <2>1, <2>2 DEF Entry, t
<1>4. v \in Ring /\ v.ring = [u.ring EXCEPT ![t] = h] /\ v.idx = d
  <2>1. d \in Indices
    BY <1>1, <1>2 DEF Indices
  <2>2. [u.ring EXCEPT ![t] = h] \in [Slots -> Heads]
    BY <1>1, <1>3
  <2> HIDE DEF t, d
  <2>3. v = [idx |-> d, ring |-> [u.ring EXCEPT ![t] = h]]
    BY <1>0, <1>2 DEF d
  <2> QED
    BY <2>1, <2>2, <2>3 DEF Ring
<1>5. p \in [Heads -> Chain] /\ p[h] = s /\ \A g \in Heads : g # h => p[g] = q[g]
  BY <1>0, <1>1, <1>3, Zenon
<1>6. \A i \in 0..(k - 1) : i # f => Entry(a, l, i) \in Heads /\ Entry(a, l, i) # h
  <2> SUFFICES ASSUME NEW i \in 0..(k - 1), i # f PROVE Entry(a, l, i) \in Heads /\ Entry(a, l, i) # h
    OBVIOUS
  <2>1. i \in Nat /\ f \in 0..(k - 1)
    BY <1>1
  <2>2. Entry(a, l, i) \in Heads
    BY <1>1, <2>1, Entries
  <2>3. Entry(a, l, i) # Entry(a, l, f)
    BY <2>1 DEF Flight
  <2> QED
    BY <1>3, <2>2, <2>3
<1> HIDE DEF t, d
<1>7. \A i \in 0..(k - 1) : i # f => p[Entry(a, l, i)] = q[Entry(a, l, i)]
  BY <1>5, <1>6
<1>8. Flight(p, a, v, d, l, f + 1, w - 1)
  <2>1. f + 1 + (w - 1) - 1 = k - 1 /\ f + 1 + (w - 1) = k /\ f + 1 - 1 = f
        /\ l + (f + 1) + (w - 1) = l + f + w /\ l + (f + 1) = l + f + 1
    <3>1. f \in Nat /\ w \in Nat /\ l \in Nat
      BY <1>1, Zenon
    <3> QED
      BY <3>1
  <2>2. \A i \in 0..(k - 1) : p[Entry(a, l, i)].status = IF i < f + 1 THEN "ok" ELSE "sent"
    <3> SUFFICES ASSUME NEW i \in 0..(k - 1)
                 PROVE  p[Entry(a, l, i)].status = IF i < f + 1 THEN "ok" ELSE "sent"
      OBVIOUS
    <3>1. CASE i = f
      BY <1>1, <1>3, <1>5, <3>1
    <3>2. CASE i # f
      <4>1. p[Entry(a, l, i)] = q[Entry(a, l, i)]
        BY <1>7, <3>2
      <4>2. q[Entry(a, l, i)].status = IF i < f THEN "ok" ELSE "sent"
        BY DEF Flight
      <4>3. i < f + 1 <=> i < f
        BY <1>1, <3>2
      <4> QED
        BY <4>1, <4>2, <4>3, Zenon
    <3> QED
      BY <3>1, <3>2
  <2>3. \A i \in 0..f : Entry(v, l, i) = Entry(a, l, i)
    <3> SUFFICES ASSUME NEW i \in 0..f PROVE Entry(v, l, i) = Entry(a, l, i)
      OBVIOUS
    <3>1. CASE i = f
      BY <1>1, <1>3, <1>4, <3>1 DEF Entry, t
    <3>2. CASE i # f
      <4>1. i \in Nat /\ i < f /\ f < i + QueueNum /\ i \in 0..(f - 1)
        BY <1>1, <3>2
      <4>2. (l + i) % QueueNum # t /\ (l + i) % QueueNum \in Slots
        <5>1. a \in Ring /\ l \in Indices /\ f \in Nat
          BY <1>1
        <5> QED
          BY <4>1, <5>1, Entries DEF t
      <4>3. Entry(v, l, i) = Entry(u, l, i)
        BY <1>1, <1>4, <4>2 DEF Entry
      <4>4. Entry(u, l, i) = Entry(a, l, i)
        BY <4>1 DEF Flight
      <4> QED
        BY <4>3, <4>4
    <3> QED
      BY <3>1, <3>2
  <2>4. \A i, j \in 0..(k - 1) : Entry(a, l, i) = Entry(a, l, j) => i = j
    BY DEF Flight
  <2>5. w - 1 \in Nat /\ f + 1 \in Nat
    BY <1>1
  <2> HIDE DEF k
  <2> QED
    BY <1>1, <1>2, <1>4, <1>5, <2>1, <2>2, <2>3, <2>4, <2>5, SMTT(20) DEF Flight
<1>9. \A i \in 0..(k - 1) : i # f => Sh(p, Entry(a, l, i)) = Sh(q, Entry(a, l, i))
  BY <1>7, Zenon DEF Sh
<1> DEFINE o == TodoOf(q, a, l, f, w)
           x == TodoOf(p, a, l, f + 1, w - 1)
           n == DoneOf(q, a, l, f)
           m == DoneOf(p, a, l, f + 1)
           e == Sh(p, h)
           y == Append(n, e)
           z == Tail(o)
<1>10. /\ o \in Seq(Shape) /\ Len(o) = w /\ n \in Seq(Shape) /\ Len(n) = f
       /\ \A i \in 1..w : o[i] = Sh(q, Entry(a, l, f + i - 1))
       /\ \A i \in 1..f : n[i] = Sh(q, Entry(a, l, i - 1))
  <2>0. q \in [Heads -> Chain] /\ a \in Ring /\ l \in Indices /\ f \in Nat /\ w \in Nat
    BY <1>1, Zenon
  <2>1. o \in Seq(Shape) /\ Len(o) = w /\ n \in Seq(Shape) /\ Len(n) = f
    BY <2>0, TodoSeq, DoneSeq
  <2> QED
    BY <2>1, Zenon DEF TodoOf, DoneOf
<1>11. /\ x \in Seq(Shape) /\ Len(x) = w - 1 /\ m \in Seq(Shape) /\ Len(m) = f + 1
       /\ \A i \in 1..(w - 1) : x[i] = Sh(p, Entry(a, l, f + 1 + i - 1))
       /\ \A i \in 1..(f + 1) : m[i] = Sh(p, Entry(a, l, i - 1))
  <2> DEFINE f1 == f + 1
             w1 == w - 1
  <2>1. f1 \in Nat /\ w1 \in Nat /\ l \in Indices /\ a \in Ring /\ p \in [Heads -> Chain]
    BY <1>1, <1>5
  <2> HIDE DEF f1, w1
  <2>2. /\ TodoOf(p, a, l, f1, w1) \in Seq(Shape) /\ Len(TodoOf(p, a, l, f1, w1)) = w1
        /\ DoneOf(p, a, l, f1) \in Seq(Shape) /\ Len(DoneOf(p, a, l, f1)) = f1
    BY <2>1, TodoSeq, DoneSeq
  <2>3. /\ \A i \in 1..w1 : TodoOf(p, a, l, f1, w1)[i] = Sh(p, Entry(a, l, f1 + i - 1))
        /\ \A i \in 1..f1 : DoneOf(p, a, l, f1)[i] = Sh(p, Entry(a, l, i - 1))
    BY DEF TodoOf, DoneOf
  <2> QED
    BY <2>2, <2>3, Zenon DEF f1, w1
<1>12. e \in Shape
  BY <1>3, <1>5, ShType, Zenon
<1> HIDE DEF o, x, n, m, e
<1>13. o # <<>> /\ Head(o) = Sh(q, h)
  <2>1. o # <<>>
    BY <1>1, <1>10, EmptySeq
  <2>2. Head(o) = o[1]
    BY <1>10, <2>1, HeadTailProperties
  <2>3. 1 \in 1..w /\ f + 1 - 1 = f
    BY <1>1
  <2> QED
    BY <1>3, <1>10, <2>1, <2>2, <2>3
<1>14. z \in Seq(Shape) /\ Len(z) = w - 1 /\ \A i \in 1..(w - 1) : z[i] = o[i + 1]
  BY <1>10, <1>13, HeadTailProperties
<1>15. y \in Seq(Shape) /\ Len(y) = f + 1 /\ y[f + 1] = e /\ \A i \in 1..f : y[i] = n[i]
  BY <1>1, <1>10, <1>12, AppendProperties
<1> HIDE DEF y, z
<1>16. x = z
  <2>1. ASSUME NEW i \in 1..(w - 1) PROVE x[i] = z[i]
    <3>1. /\ i + 1 \in 1..w /\ f + (i + 1) - 1 = f + i /\ f + 1 + i - 1 = f + i
          /\ f + i \in 0..(k - 1) /\ f + i # f
      BY <1>1
    <3>2. x[i] = Sh(p, Entry(a, l, f + i))
      BY <1>11, <3>1, Zenon
    <3>3. z[i] = Sh(q, Entry(a, l, f + i))
      BY <1>10, <1>14, <3>1, Zenon
    <3> QED
      BY <1>9, <3>1, <3>2, <3>3, Zenon
  <2> QED
    BY <1>11, <1>14, <2>1, SameShapes, Zenon
<1>17. m = y
  <2>1. ASSUME NEW i \in 1..(f + 1) PROVE m[i] = y[i]
    <3>1. CASE i = f + 1
      <4>1. i - 1 = f
        BY <1>1, <3>1, SMTT(20)
      <4>2. m[i] = Sh(p, Entry(a, l, f))
        BY <1>11, <4>1, Zenon
      <4> QED
        BY <1>3, <1>15, <3>1, <4>2, Zenon DEF e
    <3>2. CASE i # f + 1
      <4>1. i \in 1..f /\ i - 1 \in 0..(k - 1) /\ i - 1 # f
        BY <1>1, <3>2
      <4> QED
        BY <1>9, <1>10, <1>11, <1>15, <4>1, Zenon
    <3> QED
      BY <3>1, <3>2
  <2> QED
    BY <1>11, <1>15, <2>1, SameShapes, Zenon
<1> QED
  BY <1>8, <1>13, <1>16, <1>17 DEF d, o, x, n, m, e, y, z, Answered

\* What Collect does to the chains and the rings.
Takes(q, a, u, l, s, g, p, b, v, n) ==
  /\ p = [q EXCEPT ![u.ring[l % QueueNum]] = s]
  /\ b = [a EXCEPT !.ring[l % QueueNum] = g]
  /\ v = [u EXCEPT !.ring[l % QueueNum] = g]
  /\ n = (l + 1) % IdxRange

\* And to what is in flight.
Taken(q, a, u, c, l, f, w, p, b, v, n) ==
  /\ Flight(p, b, v, c, n, f - 1, w)
  /\ DoneOf(q, a, l, f) # <<>>
  /\ TodoOf(p, b, n, f - 1, w) = TodoOf(q, a, l, f, w)
  /\ DoneOf(p, b, n, f - 1) = Tail(DoneOf(q, a, l, f))

(* An answer is collected.                                                 *)
LEMMA FlightCollect ==
  ASSUME NEW q, NEW a, NEW u, NEW c, NEW l, NEW f, NEW w, Flight(q, a, u, c, l, f, w), f # 0,
         NEW s \in Chain, NEW g \in Heads, NEW p, NEW b, NEW v, NEW n,
         Takes(q, a, u, l, s, g, p, b, v, n)
  PROVE  Taken(q, a, u, c, l, f, w, p, b, v, n)
<1>0. /\ p = [q EXCEPT ![u.ring[l % QueueNum]] = s]
      /\ b = [a EXCEPT !.ring[l % QueueNum] = g]
      /\ v = [u EXCEPT !.ring[l % QueueNum] = g]
      /\ n = (l + 1) % IdxRange
  BY DEF Takes
<1> DEFINE k == f + w
           t == l % QueueNum
           h == u.ring[t]
<1>1. /\ q \in [Heads -> Chain] /\ a \in Ring /\ u \in Ring /\ l \in Indices /\ l \in Nat
      /\ f \in Nat \ {0} /\ w \in Nat /\ k \in Nat /\ k <= QueueNum /\ QueueNum \in Nat \ {0}
      /\ IdxRange \in Nat \ {0} /\ QueueNum < IdxRange /\ l + 0 = l
      /\ a.ring \in [Slots -> Heads] /\ u.ring \in [Slots -> Heads]
      /\ u.idx = c /\ c = (l + f) % IdxRange /\ a.idx = (l + f + w) % IdxRange
  BY QueueAssumption DEF Flight, Indices, Ring
<1>nat. /\ l \in Nat /\ f \in Nat \ {0} /\ w \in Nat /\ k \in Nat
        /\ QueueNum \in Nat /\ k <= QueueNum
  BY <1>1, Zenon
<1>2. t \in Slots /\ h = Entry(a, l, 0) /\ h \in Heads
  <2>1. (l + 0) % QueueNum \in Slots /\ Entry(a, l, 0) \in Heads
    BY <1>1, Entries
  <2>2. 0 \in 0..(f - 1)
    BY <1>1, SMTT(20)
  <2>3. Entry(u, l, 0) = Entry(a, l, 0)
    BY <2>2 DEF Flight
  <2> QED
    BY <1>1, <2>1, <2>3 DEF Entry
<1>3. /\ n \in Indices /\ n \in Nat
      /\ \A i \in Nat : /\ (n + i) % QueueNum = (l + (i + 1)) % QueueNum
                        /\ (n + i) % IdxRange = (l + (i + 1)) % IdxRange
  <2> DEFINE x == l + 1
  <2>1. x \in Nat /\ n = x % IdxRange /\ \A i \in Nat : x + i = l + (i + 1)
    BY <1>0, <1>1
  <2> HIDE DEF x
  <2>2. ASSUME NEW i \in Nat
        PROVE  /\ x % IdxRange \in Indices
               /\ ((x % IdxRange) + i) % QueueNum = (x + i) % QueueNum
               /\ ((x % IdxRange) + i) % IdxRange = (x + i) % IdxRange
    BY <2>1, WrapMask
  <2>3. n \in Indices
    BY <2>1, <2>2
  <2>4. n \in Nat
    BY <1>1, <2>3 DEF Indices
  <2> QED
    BY <2>1, <2>2, <2>3, <2>4
<1>4. /\ b \in Ring /\ b.ring = [a.ring EXCEPT ![t] = g] /\ b.idx = a.idx
      /\ v \in Ring /\ v.ring = [u.ring EXCEPT ![t] = g] /\ v.idx = u.idx
  <2> HIDE DEF t
  <2>1. ASSUME NEW o \in Ring PROVE LET m == [o EXCEPT !.ring[t] = g]
                                    IN  m \in Ring /\ m.ring = [o.ring EXCEPT ![t] = g] /\ m.idx = o.idx
    BY <1>2 DEF Ring
  <2>2. b = [a EXCEPT !.ring[t] = g] /\ v = [u EXCEPT !.ring[t] = g]
    BY <1>0 DEF t
  <2> QED
    BY <1>1, <2>1, <2>2
<1>5. p \in [Heads -> Chain] /\ \A x \in Heads : x # h => p[x] = q[x]
  <2>1. p = [q EXCEPT ![h] = s]
    BY <1>0
  <2> HIDE DEF h
  <2> QED
    BY <1>1, <1>2, <2>1
<1>6. \A i \in 0..(k - 2) :
        /\ Entry(b, n, i) = Entry(a, l, i + 1) /\ Entry(v, n, i) = Entry(u, l, i + 1)
        /\ Entry(a, l, i + 1) \in Heads /\ Entry(a, l, i + 1) # h
  <2> SUFFICES ASSUME NEW i \in 0..(k - 2)
               PROVE  /\ Entry(b, n, i) = Entry(a, l, i + 1) /\ Entry(v, n, i) = Entry(u, l, i + 1)
                      /\ Entry(a, l, i + 1) \in Heads /\ Entry(a, l, i + 1) # h
    OBVIOUS
  <2> DEFINE j == i + 1
  <2>1. /\ i \in Nat /\ j \in Nat /\ 0 < j /\ j < 0 + QueueNum /\ j \in 0..(k - 1)
        /\ 0 \in 0..(k - 1) /\ j # 0 /\ 0 \in Nat
    BY <1>nat
  <2>2. (n + i) % QueueNum = (l + j) % QueueNum
    BY <1>3, <2>1
  <2> HIDE DEF j
  <2>3. (l + j) % QueueNum # t /\ (l + j) % QueueNum \in Slots /\ Entry(a, l, j) \in Heads
    <3>1. (l + 0) % QueueNum # (l + j) % QueueNum
      BY <1>1, <2>1, Entries, Zenon
    <3>2. (l + j) % QueueNum \in Slots /\ Entry(a, l, j) \in Heads
      BY <1>1, <2>1, Entries, Zenon
    <3> QED
      BY <1>1, <3>1, <3>2, Zenon
  <2>4. Entry(a, l, j) # h
    <3>1. Entry(a, l, j) # Entry(a, l, 0)
      BY <2>1 DEF Flight
    <3> QED
      BY <1>2, <3>1, Zenon
  <2> HIDE DEF t, h
  <2>5. Entry(b, n, i) = Entry(a, l, j) /\ Entry(v, n, i) = Entry(u, l, j)
    BY <1>1, <1>4, <2>2, <2>3, Zenon DEF Entry
  <2> QED
    BY <2>3, <2>4, <2>5 DEF j
<1> HIDE DEF t, h
<1>7. \A i \in 0..(k - 2) : p[Entry(b, n, i)] = q[Entry(a, l, i + 1)]
  BY <1>5, <1>6
<1>8. Flight(p, b, v, c, n, f - 1, w)
  <2>1. f - 1 + w - 1 = k - 2 /\ f - 1 + w = k - 1 /\ f - 1 - 1 = f - 2
        /\ f - 1 \in Nat /\ k - 1 \in Nat
    BY <1>nat
  <2>2. \A i \in 0..(k - 2) : p[Entry(b, n, i)].status = IF i < f - 1 THEN "ok" ELSE "sent"
    <3> SUFFICES ASSUME NEW i \in 0..(k - 2)
                 PROVE  p[Entry(b, n, i)].status = IF i < f - 1 THEN "ok" ELSE "sent"
      BY Zenon
    <3>1. i + 1 \in 0..(k - 1) /\ (i + 1 < f <=> i < f - 1)
      BY <1>nat
    <3>2. q[Entry(a, l, i + 1)].status = IF i + 1 < f THEN "ok" ELSE "sent"
      BY <3>1 DEF Flight
    <3> QED
      BY <1>7, <3>1, <3>2, Zenon
  <2>3. \A i \in 0..(f - 2) : Entry(v, n, i) = Entry(b, n, i)
    <3> SUFFICES ASSUME NEW i \in 0..(f - 2) PROVE Entry(v, n, i) = Entry(b, n, i)
      OBVIOUS
    <3>1. i + 1 \in 0..(f - 1) /\ i \in 0..(k - 2)
      BY <1>nat
    <3>2. Entry(u, l, i + 1) = Entry(a, l, i + 1)
      BY <3>1 DEF Flight
    <3> QED
      BY <1>6, <3>1, <3>2
  <2>4. \A i, j \in 0..(k - 2) : Entry(b, n, i) = Entry(b, n, j) => i = j
    <3> SUFFICES ASSUME NEW i \in 0..(k - 2), NEW j \in 0..(k - 2), Entry(b, n, i) = Entry(b, n, j)
                 PROVE  i = j
      OBVIOUS
    <3>1. i + 1 \in 0..(k - 1) /\ j + 1 \in 0..(k - 1)
      BY <1>nat
    <3>2. Entry(a, l, i + 1) = Entry(a, l, j + 1)
      BY <1>6
    <3>3. i + 1 = j + 1
      BY <3>1, <3>2 DEF Flight
    <3> QED
      BY <3>3
  <2>5. c = (n + (f - 1)) % IdxRange /\ b.idx = (n + (f - 1) + w) % IdxRange
    <3> DEFINE y == f - 1
               z == k - 1
    <3>1. y \in Nat /\ z \in Nat /\ y + 1 = f /\ z + 1 = k /\ n + z = n + (f - 1) + w
          /\ l + k = l + f + w
      <4>1. f \in Nat \ {0} /\ w \in Nat /\ l \in Nat /\ n \in Nat
        BY <1>1, <1>3, Zenon
      <4> QED
        BY <4>1
    <3> HIDE DEF y, z
    <3>2. (n + y) % IdxRange = (l + (y + 1)) % IdxRange /\ (n + z) % IdxRange = (l + (z + 1)) % IdxRange
      BY <1>3, <3>1
    <3> HIDE DEF k
    <3>3. (n + y) % IdxRange = c /\ (n + z) % IdxRange = b.idx
      BY <1>1, <1>4, <3>1, <3>2, Zenon
    <3> QED
      BY <3>1, <3>3 DEF y
  <2>6. /\ p \in [Heads -> Chain] /\ b \in Ring /\ v \in Ring /\ n \in Indices
        /\ w \in Nat /\ v.idx = c /\ k - 1 <= QueueNum
    <3>1. k - 1 <= QueueNum
      BY <1>nat
    <3> QED
      BY <1>1, <1>3, <1>4, <1>5, <3>1, Zenon
  <2> HIDE DEF k
  <2> QED
    BY <2>1, <2>2, <2>3, <2>4, <2>5, <2>6, Zenon DEF Flight
<1>9. \A i \in 0..(k - 2) : Sh(p, Entry(b, n, i)) = Sh(q, Entry(a, l, i + 1))
  BY <1>6, <1>7, Zenon DEF Sh
<1>10. TodoOf(p, b, n, f - 1, w) = TodoOf(q, a, l, f, w)
  <2> SUFFICES ASSUME NEW i \in 1..w
               PROVE  Sh(p, Entry(b, n, f - 1 + i - 1)) = Sh(q, Entry(a, l, f + i - 1))
    BY DEF TodoOf
  <2> DEFINE j == f - 1 + i - 1
  <2>1. j \in 0..(k - 2) /\ j + 1 = f + i - 1
    BY <1>nat
  <2> HIDE DEF j, k
  <2>2. Sh(p, Entry(b, n, j)) = Sh(q, Entry(a, l, j + 1))
    BY <1>9, <2>1
  <2> QED
    BY <2>1, <2>2 DEF j
<1> DEFINE o == DoneOf(q, a, l, f)
           m == DoneOf(p, b, n, f - 1)
           z == Tail(o)
<1>11. o \in Seq(Shape) /\ Len(o) = f /\ \A i \in 1..f : o[i] = Sh(q, Entry(a, l, i - 1))
  <2>0. q \in [Heads -> Chain] /\ a \in Ring /\ l \in Indices /\ f \in Nat /\ w \in Nat
    BY <1>1, Zenon
  <2>1. o \in Seq(Shape) /\ Len(o) = f
    BY <2>0, DoneSeq
  <2> QED
    BY <2>1, Zenon DEF DoneOf
<1>12. m \in Seq(Shape) /\ Len(m) = f - 1 /\ \A i \in 1..(f - 1) : m[i] = Sh(p, Entry(b, n, i - 1))
  <2> DEFINE y == f - 1
  <2>1. y \in Nat /\ w \in Nat /\ n \in Indices /\ b \in Ring /\ p \in [Heads -> Chain]
    BY <1>1, <1>3, <1>4, <1>5, SMTT(20)
  <2> HIDE DEF y
  <2>2. DoneOf(p, b, n, y) \in Seq(Shape) /\ Len(DoneOf(p, b, n, y)) = y
    BY <2>1, DoneSeq
  <2>3. \A i \in 1..y : DoneOf(p, b, n, y)[i] = Sh(p, Entry(b, n, i - 1))
    BY DEF DoneOf
  <2> QED
    BY <2>2, <2>3 DEF y
<1> HIDE DEF o, m
<1>13. o # <<>>
  BY <1>1, <1>11, EmptySeq, Zenon
<1>14. z \in Seq(Shape) /\ Len(z) = f - 1 /\ \A i \in 1..(f - 1) : z[i] = o[i + 1]
  BY <1>11, <1>13, HeadTailProperties
<1> HIDE DEF z
<1>15. m = z
  <2>1. ASSUME NEW i \in 1..(f - 1) PROVE m[i] = z[i]
    <3>1. i + 1 \in 1..f /\ i + 1 - 1 = i /\ i - 1 + 1 = i /\ i - 1 \in 0..(k - 2)
      BY <1>nat
    <3>2. m[i] = Sh(p, Entry(b, n, i - 1))
      BY <1>12
    <3>3. z[i] = Sh(q, Entry(a, l, i))
      BY <1>11, <1>14, <3>1, SMTT(20)
    <3> DEFINE j == i - 1
    <3> HIDE DEF j, k
    <3>4. Sh(p, Entry(b, n, j)) = Sh(q, Entry(a, l, j + 1))
      BY <1>9, <3>1 DEF j
    <3> QED
      BY <3>1, <3>2, <3>3, <3>4, Zenon DEF j
  <2> QED
    BY <1>12, <1>14, <2>1, SameShapes, Zenon
<1> QED
  BY <1>8, <1>10, <1>13, <1>15 DEF o, m, z, Taken

TodoC(q, a, c) == [i \in 1..((a.idx - c) % IdxRange) |-> Sh(q, a.ring[(c + i - 1) % QueueNum])]
DoneC(q, u, l) == [i \in 1..((u.idx - l) % IdxRange) |-> Sh(q, u.ring[(l + i - 1) % QueueNum])]

(* The indices of the rings count what is in flight.                       *)
LEMMA Bars ==
  ASSUME NEW q, NEW a, NEW u, NEW c, NEW l, NEW f, NEW w, Flight(q, a, u, c, l, f, w)
  PROVE  /\ TodoC(q, a, c) = TodoOf(q, a, l, f, w)
         /\ DoneC(q, u, l) = DoneOf(q, a, l, f)
         /\ w = 0 <=> c = a.idx
         /\ f = 0 <=> u.idx = l
<1> DEFINE x == l + f
<1>1. /\ l \in Nat /\ l \in Indices /\ f \in Nat /\ w \in Nat /\ x \in Nat /\ l + 0 = l
      /\ IdxRange \in Nat \ {0} /\ QueueNum \in Nat \ {0}
      /\ f \in 0..(IdxRange - 1) /\ w \in 0..(IdxRange - 1) /\ l % IdxRange = l
  BY QueueAssumption DEF Flight, Indices
<1>2. u.idx = c /\ c = x % IdxRange /\ a.idx = (x + w) % IdxRange
  BY DEF Flight
<1>3. (u.idx - l) % IdxRange = f
  <2>1. (((l + f) % IdxRange) - (l % IdxRange)) % IdxRange = f
    BY <1>1, Distance
  <2> QED
    BY <1>1, <1>2, <2>1
<1> HIDE DEF x
<1>4. (a.idx - c) % IdxRange = w
  <2>1. (((x + w) % IdxRange) - (x % IdxRange)) % IdxRange = w
    BY <1>1, Distance, Zenon
  <2> QED
    BY <1>2, <2>1
<1>5. TodoC(q, a, c) = TodoOf(q, a, l, f, w)
  <2>1. ASSUME NEW i \in 1..w PROVE a.ring[(c + i - 1) % QueueNum] = Entry(a, l, f + i - 1)
    <3> DEFINE j == i - 1
    <3>1. j \in Nat
      OBVIOUS
    <3>2. c + i - 1 = c + j /\ l + (f + i - 1) = x + j
      <4>1. c \in Nat
        BY <1>1, <1>2
      <4> QED
        BY <1>1, <4>1 DEF x
    <3> HIDE DEF j
    <3>3. ((x % IdxRange) + j) % QueueNum = (x + j) % QueueNum
      BY <1>1, <3>1, WrapMask, Zenon
    <3> QED
      BY <1>2, <3>2, <3>3 DEF Entry
  <2> QED
    BY <1>4, <2>1 DEF TodoC, TodoOf
<1>6. DoneC(q, u, l) = DoneOf(q, a, l, f)
  <2>1. ASSUME NEW i \in 1..f PROVE u.ring[(l + i - 1) % QueueNum] = Entry(a, l, i - 1)
    <3>1. i - 1 \in 0..(f - 1) /\ l + i - 1 = l + (i - 1)
      BY <1>1
    <3>2. Entry(u, l, i - 1) = Entry(a, l, i - 1)
      BY <3>1 DEF Flight
    <3> QED
      BY <3>1, <3>2 DEF Entry
  <2> QED
    BY <1>3, <2>1 DEF DoneC, DoneOf
<1>7. c \in Int /\ a.idx \in Int /\ u.idx \in Int
  BY <1>1, <1>2
<1>8. w = 0 <=> c = a.idx
  <2>1. CASE w = 0
    BY <1>1, <1>2, <2>1
  <2>2. CASE c = a.idx
    BY <1>1, <1>4, <1>7, <2>2
  <2> QED
    BY <2>1, <2>2
<1>9. f = 0 <=> u.idx = l
  <2>1. CASE f = 0
    BY <1>1, <1>2, <2>1 DEF x
  <2>2. CASE u.idx = l
    BY <1>1, <1>3, <1>7, <2>2
  <2> QED
    BY <2>1, <2>2
<1> QED
  BY <1>5, <1>6, <1>8, <1>9

-----------------------------------------------------------------------------
(* The inductive invariant.                                                *)

Rings == \E f, w \in Nat : Flight(req, avail, used, vq_avail_currect, last_used, f, w)

\* While there are answers the PLIC's line is up to date, and unless the handler runs the
\* request of the device has not been taken.
Raised ==
  phase = "guest" /\ used.idx # last_used =>
    /\ board = "rv" => line = Update(pending, enable)
    /\ isr = "out" => IF board = "la" THEN line ELSE Blk \in pending

\* The types of the state that is not in the rings.
Types ==
  /\ board \in {"la", "rv"}
  /\ disk \in [Sectors -> Values]
  /\ phase \in {"guest", "serving", "exited"}
  /\ pending \subseteq Sources /\ enable \subseteq Sources
  /\ line \in BOOLEAN
  /\ isr \in {"out", "entered", "collecting"}

BlkInv == Types /\ Rings /\ Raised

(* What a step does to the abstract queue.                                 *)
Step == Service!Submit \/ Service!Perform \/ Service!Take \/ UNCHANGED Service!svars

(* The mapped sequences, for the two states of a step.                     *)
LEMMA BarsOf ==
  /\ todoBar = TodoC(req, avail, vq_avail_currect)
  /\ doneBar = DoneC(req, used, last_used)
  /\ todoBar' = TodoC(req', avail', vq_avail_currect')
  /\ doneBar' = DoneC(req', used', last_used')
BY Zenon DEF todoBar, doneBar, TodoC, DoneC, Waiting, Finished, Shown, Sh, QUEUE_NUM_MASKED

(* A step that leaves the rings, the chains and the disk alone.            *)
LEMMA Stutter ==
  ASSUME UNCHANGED <<req, avail, used, vq_avail_currect, last_used, disk>>, Rings
  PROVE  Rings' /\ Step
<1>1. Rings'
  BY DEF Rings
<1>2. todoBar' = todoBar /\ doneBar' = doneBar /\ disk' = disk
  BY BarsOf
<1> QED
  BY <1>1, <1>2 DEF Step, Service!svars

(* What slots and chains that are not in flight hold.                      *)
LEMMA Defaults == NoChain \in Chain /\ SomeHead \in Heads /\ EmptyRing \in Ring
<1>1. SomeHead \in Heads
  BY QueueAssumption DEF SomeHead
<1>2. (CHOOSE x \in Sectors : TRUE) \in Sectors /\ (CHOOSE v \in Values : TRUE) \in Values
  BY DataAssumption
<1>3. NoChain \in Chain
  BY <1>2 DEF NoChain, Chain, Ops
<1>4. 0 \in Indices
  BY QueueAssumption DEF Indices
<1> QED
  BY <1>1, <1>3, <1>4 DEF EmptyRing, Ring

(* The driver makes a request available.                                   *)
LEMMA SubmitStep ==
  ASSUME Rings, NEW h \in Heads, NEW r \in Requests, Submit(h, r)
  PROVE  Rings' /\ Step
<1> DEFINE c == vq_avail_currect
           l == last_used
<1>1. r \in Chain /\ r.status = "sent"
  BY RequestsAssumption
<1>2. \A g \in Heads : req[g].status # "none" => g # h
  <2> SUFFICES ASSUME req[h].status # "none" PROVE FALSE
    OBVIOUS
  <2>1. Descs(h) \intersect Descs(h) = {}
    BY DEF Submit, InFlight
  <2>2. QUEUE_NUM_MASKED(h + 0) \in Descs(h)
    BY DEF Descs
  <2> QED
    BY <2>1, <2>2
<1>3. PICK f \in Nat, w \in Nat : Flight(req, avail, used, c, l, f, w)
  BY DEF Rings
<1>4. /\ req' = [req EXCEPT ![h] = r]
      /\ avail' = [idx |-> (avail.idx + 1) % IdxRange,
                   ring |-> [avail.ring EXCEPT ![avail.idx % QueueNum] = h]]
  BY DEF Submit, QUEUE_NUM_MASKED
<1>same. used' = used /\ c' = c /\ l' = l /\ disk' = disk
  BY Zenon DEF Submit, driver
<1>5. /\ Flight(req', avail', used, c, l, f, w + 1)
      /\ TodoOf(req', avail', l, f, w + 1) = Append(TodoOf(req, avail, l, f, w), Sh(req', h))
      /\ DoneOf(req', avail', l, f) = DoneOf(req, avail, l, f)
  <2>1. Posts(req, avail, h, r, req', avail')
    BY <1>4 DEF Posts
  <2>2. Posted(req, avail, used, c, l, f, w, h, req', avail')
    BY <1>1, <1>2, <1>3, <2>1, FlightSubmit, Zenon
  <2> QED
    BY <2>2 DEF Posted
<1>6. /\ todoBar = TodoOf(req, avail, l, f, w)
      /\ doneBar = DoneOf(req, avail, l, f)
  BY <1>3, Bars, BarsOf
<1>7. /\ todoBar' = TodoOf(req', avail', l, f, w + 1)
      /\ doneBar' = DoneOf(req', avail', l, f)
  <2>1. Flight(req', avail', used', c', l', f, w + 1)
    BY <1>5, <1>same
  <2>2. /\ TodoC(req', avail', c') = TodoOf(req', avail', l', f, w + 1)
        /\ DoneC(req', used', l') = DoneOf(req', avail', l', f)
    BY <2>1, Bars
  <2> QED
    BY <1>same, <2>2, BarsOf
<1>8. todoBar' = Append(todoBar, Sh(req', h)) /\ doneBar' = doneBar
  BY <1>5, <1>6, <1>7, Zenon
<1>9. Sh(req', h) \in Service!Request /\ Sh(req', h).status = "sent"
  <2>1. req'[h] = r
    BY <1>3, <1>4, Zenon DEF Flight
  <2> QED
    BY <1>1, <2>1, Zenon DEF Sh, Service!Request, Chain, Ops, Service!Ops
<1>10. Service!Submit
  BY <1>same, <1>8, <1>9 DEF Service!Submit
<1>11. Rings'
  <2>1. w + 1 \in Nat
    OBVIOUS
  <2> QED
    BY <1>5, <1>same, <2>1 DEF Rings
<1> QED
  BY <1>10, <1>11 DEF Step

(* The answer to a request.                                                *)
LEMMA AnswerOf ==
  ASSUME NEW m \in Shape, NEW y \in Shape, NEW d \in Values,
         y.tag = m.tag, y.op = m.op, y.sector = m.sector, y.val = d, y.status = "ok"
  PROVE  y = [m EXCEPT !.status = "ok", !.val = d]
<1> DEFINE z == [m EXCEPT !.status = "ok", !.val = d]
<1>1. /\ z \in Shape /\ z.tag = m.tag /\ z.op = m.op /\ z.sector = m.sector
      /\ z.val = d /\ z.status = "ok"
  BY Zenon DEF Shape
<1> HIDE DEF z
<1>2. y = z
  BY <1>1 DEF Shape
<1> QED
  BY <1>2 DEF z

(* The device serves a request.                                            *)
LEMMA ServeStep ==
  ASSUME TypeOK, Rings, Serve
  PROVE  Rings' /\ Step
<1> DEFINE c == vq_avail_currect
           l == last_used
           h == avail.ring[c % QueueNum]
           s == Transferred(req[h])
<1>1. PICK f \in Nat, w \in Nat : Flight(req, avail, used, c, l, f, w)
  BY DEF Rings
<1>2. /\ req' = [req EXCEPT ![h] = s]
      /\ used' = [idx |-> (c + 1) % IdxRange, ring |-> [used.ring EXCEPT ![c % QueueNum] = h]]
      /\ c' = (c + 1) % IdxRange /\ l' = l /\ avail' = avail /\ disk' = Written(req[h])
      /\ c # avail.idx
  BY Zenon DEF Serve, QUEUE_NUM_MASKED, UsedAfter, Succ, driver
<1>3. h \in Heads
  <2>1. c % QueueNum \in Slots
    <3>1. c \in Nat
      BY QueueAssumption DEF TypeOK, Indices
    <3> QED
      BY <3>1, WrapMask
  <2> QED
    BY <2>1 DEF TypeOK, Ring
<1>4. req[h] \in Chain /\ disk \in [Sectors -> Values]
  BY <1>3 DEF TypeOK
<1> DEFINE r == req[h]
           d == IF r.op = "IN" THEN disk[r.sector] ELSE r.val
<1>5. s = [r EXCEPT !.status = "ok", !.val = d] /\ d \in Values
  BY <1>4, Zenon DEF Transferred, Chain
<1> HIDE DEF d
<1>6. /\ s \in Chain /\ s.status = "ok" /\ s.val = d
      /\ s.op = r.op /\ s.sector = r.sector
  <2> HIDE DEF r, s
  <2> QED
    BY <1>4, <1>5, Zenon DEF Chain, r
<1>7. w # 0
  <2>1. c # avail.idx
    BY <1>2, Zenon
  <2> QED
    BY <1>1, <2>1, Bars
<1> HIDE DEF s, h
<1>8. /\ Flight(req', avail, used', (c + 1) % IdxRange, l, f + 1, w - 1)
      /\ TodoOf(req, avail, l, f, w) # <<>>
      /\ Head(TodoOf(req, avail, l, f, w)) = Sh(req, h)
      /\ TodoOf(req', avail, l, f + 1, w - 1) = Tail(TodoOf(req, avail, l, f, w))
      /\ DoneOf(req', avail, l, f + 1) = Append(DoneOf(req, avail, l, f), Sh(req', h))
  <2>1. Serves(req, avail, used, c, s, h, req', used')
    BY <1>2, Zenon DEF Serves, h
  <2>2. Answered(req, avail, used, c, l, f, w, h, req', used')
    BY <1>1, <1>6, <1>7, <2>1, FlightServe, Zenon
  <2> QED
    BY <2>2 DEF Answered
<1>9. /\ todoBar = TodoOf(req, avail, l, f, w)
      /\ doneBar = DoneOf(req, avail, l, f)
  BY <1>1, Bars, BarsOf
<1>same. c' = (c + 1) % IdxRange /\ l' = l /\ avail' = avail
  BY <1>2, Zenon
<1>10. /\ todoBar' = TodoOf(req', avail, l, f + 1, w - 1)
       /\ doneBar' = DoneOf(req', avail, l, f + 1)
  <2>1. Flight(req', avail', used', c', l', f + 1, w - 1)
    BY <1>8, <1>same
  <2>2. /\ TodoC(req', avail', c') = TodoOf(req', avail', l', f + 1, w - 1)
        /\ DoneC(req', used', l') = DoneOf(req', avail', l', f + 1)
    BY <2>1, Bars
  <2> QED
    BY <1>same, <2>2, BarsOf
<1>11. /\ todoBar # <<>> /\ Head(todoBar) = Sh(req, h) /\ todoBar' = Tail(todoBar)
       /\ doneBar' = Append(doneBar, Sh(req', h))
  BY <1>8, <1>9, <1>10, Zenon
<1>12. Sh(req', h) = Service!Answer(Sh(req, h), disk)
  <2>1. req'[h] = s
    BY <1>2, <1>3 DEF TypeOK
  <2> DEFINE m == Sh(req, h)
             y == Sh(req', h)
  <2>2. m \in Shape /\ m.tag = h /\ m.op = r.op /\ m.sector = r.sector /\ m.val = r.val
    <3>1. m \in Shape
      BY <1>3, ShType DEF TypeOK
    <3> QED
      BY <3>1 DEF Sh
  <2>3. y = [tag |-> h, op |-> r.op, sector |-> r.sector, val |-> d, status |-> "ok"]
    BY <1>6, <2>1 DEF Sh
  <2>4. y \in Shape /\ y.tag = h /\ y.op = r.op /\ y.sector = r.sector
        /\ y.val = d /\ y.status = "ok"
    <3>1. r.op \in Ops /\ r.sector \in Sectors
      BY <1>4 DEF Chain
    <3> HIDE DEF y, r
    <3> QED
      BY <1>3, <1>5, <2>3, <3>1 DEF Shape
  <2> HIDE DEF m, y, r
  <2>5. y = [m EXCEPT !.status = "ok", !.val = d]
    BY <1>5, <2>2, <2>4, AnswerOf, Zenon
  <2>6. Service!Answer(m, disk) = [m EXCEPT !.status = "ok", !.val = d]
    BY <2>2 DEF Service!Answer, d
  <2> QED
    BY <2>5, <2>6 DEF m, y
<1>13. disk' = Service!After(Sh(req, h), disk)
  BY <1>2, Zenon DEF Sh, Service!After, Written
<1>14. Service!Perform
  BY <1>11, <1>12, <1>13 DEF Service!Perform
<1>15. Rings'
  <2>1. f + 1 \in Nat /\ w - 1 \in Nat
    BY <1>7
  <2> QED
    BY <1>8, <1>same, <2>1 DEF Rings
<1> QED
  BY <1>14, <1>15 DEF Step

(* The handler collects an answer.                                         *)
LEMMA CollectStep ==
  ASSUME TypeOK, Rings, Collect
  PROVE  Rings' /\ Step
<1> DEFINE c == vq_avail_currect
           l == last_used
           n == (l + 1) % IdxRange
<1>1. PICK f \in Nat, w \in Nat : Flight(req, avail, used, c, l, f, w)
  BY DEF Rings
<1>2. /\ req' = [req EXCEPT ![used.ring[l % QueueNum]] = NoChain]
      /\ avail' = [avail EXCEPT !.ring[l % QueueNum] = SomeHead]
      /\ used' = [used EXCEPT !.ring[l % QueueNum] = SomeHead]
      /\ l' = n /\ c' = c /\ disk' = disk /\ used.idx # l
  BY DEF Collect, QUEUE_NUM_MASKED
<1>3. Takes(req, avail, used, l, NoChain, SomeHead, req', avail', used', n)
  BY <1>2 DEF Takes
<1>4. f # 0
  <2>1. used.idx # l
    BY <1>2
  <2> QED
    BY <1>1, <2>1, Bars
<1> HIDE DEF n
<1>5. /\ Flight(req', avail', used', c, n, f - 1, w)
      /\ DoneOf(req, avail, l, f) # <<>>
      /\ TodoOf(req', avail', n, f - 1, w) = TodoOf(req, avail, l, f, w)
      /\ DoneOf(req', avail', n, f - 1) = Tail(DoneOf(req, avail, l, f))
  <2>1. Taken(req, avail, used, c, l, f, w, req', avail', used', n)
    BY <1>1, <1>3, <1>4, Defaults, FlightCollect
  <2> QED
    BY <2>1 DEF Taken
<1>6. /\ TodoC(req, avail, c) = TodoOf(req, avail, l, f, w)
      /\ DoneC(req, used, l) = DoneOf(req, avail, l, f)
  BY <1>1, Bars
<1>7. /\ TodoC(req', avail', c) = TodoOf(req', avail', n, f - 1, w)
      /\ DoneC(req', used', n) = DoneOf(req', avail', n, f - 1)
  BY <1>5, Bars
<1>8. l' = n /\ c' = c /\ disk' = disk
  BY <1>2
<1>9. doneBar # <<>> /\ doneBar' = Tail(doneBar) /\ todoBar' = todoBar
  BY <1>5, <1>6, <1>7, <1>8, BarsOf
<1>10. Service!Take
  BY <1>8, <1>9 DEF Service!Take
<1>11. Rings'
  <2>1. f - 1 \in Nat
    BY <1>4
  <2> QED
    BY <1>5, <1>8, <2>1 DEF Rings
<1> QED
  BY <1>10, <1>11 DEF Step

(* Every step keeps the rings, and is a step of the abstract queue or      *)
(* changes nothing it shows.                                               *)
LEMMA RingsStep ==
  ASSUME TypeOK, Rings, [Next]_vars
  PROVE  Rings' /\ Step
<1>1. CASE Serve
  BY <1>1, ServeStep
<1>2. CASE \E h \in Heads, r \in Requests : Submit(h, r)
  BY <1>2, SubmitStep
<1>3. CASE Collect
  BY <1>3, CollectStep
<1>4. CASE \/ Notify \/ Exit \/ Served \/ Interrupt \/ Claim \/ Ack \/ Return \/ CheckIo
           \/ \E e \in SUBSET Sources : WriteEnable(e)
           \/ \E irq \in Sources \ {Blk} : OtherSource(irq)
           \/ UNCHANGED vars
  <2>1. UNCHANGED <<req, avail, used, vq_avail_currect, last_used, disk>>
    BY <1>4, Zenon DEF Notify, Exit, Served, Interrupt, Claim, Ack, Return, CheckIo, WriteEnable,
                OtherSource, vars, driver
  <2> QED
    BY <2>1, Stutter
<1> QED
  BY <1>1, <1>2, <1>3, <1>4 DEF Next

(* The rings have their types.                                             *)
LEMMA RingTypes ==
  ASSUME Types, Rings
  PROVE  TypeOK
<1>1. PICK f \in Nat, w \in Nat : Flight(req, avail, used, vq_avail_currect, last_used, f, w)
  BY DEF Rings
<1>2. /\ req \in [Heads -> Chain] /\ avail \in Ring /\ used \in Ring /\ last_used \in Indices
      /\ used.idx = vq_avail_currect
  BY <1>1 DEF Flight
<1>3. used.idx \in Indices
  BY <1>2 DEF Ring
<1> QED
  BY <1>2, <1>3 DEF TypeOK, Types

(* Every step keeps those types.                                           *)
LEMMA TypesStep ==
  ASSUME TypeOK, [Next]_vars
  PROVE  Types'
<1>1. Types
  BY DEF TypeOK, Types
<1>2. CASE Serve
  <2> DEFINE h == avail.ring[vq_avail_currect % QueueNum]
             r == req[h]
  <2>1. r \in Chain
    <3>1. vq_avail_currect \in Nat
      BY QueueAssumption DEF TypeOK, Indices
    <3>2. vq_avail_currect % QueueNum \in Slots
      BY <3>1, WrapMask
    <3> QED
      BY <3>2 DEF TypeOK, Ring
  <2>2. /\ disk' = Written(r)
        /\ UNCHANGED <<board, phase, pending, enable, line, isr>>
    BY <1>2, Zenon DEF Serve, QUEUE_NUM_MASKED, plic, driver
  <2> HIDE DEF r
  <2>3. disk' \in [Sectors -> Values]
    BY <1>1, <2>1, <2>2 DEF Types, Written, Chain
  <2> QED
    BY <1>1, <2>2, <2>3 DEF Types
<1>3. CASE Notify \/ Exit \/ Interrupt
  BY <1>1, <1>3, Zenon DEF Notify, Exit, Interrupt, Types, plic, driver
<1>4. CASE Served
  BY <1>1, <1>4, SourcesAssumption, Zenon DEF Served, set_irq, irq_request, Update, Types, plic, driver
<1>5. CASE (\E h \in Heads, r \in Requests : Submit(h, r)) \/ Collect
  BY <1>1, <1>5 DEF Submit, Collect, Types, plic, driver
<1>6. CASE Claim
  BY <1>1, <1>6 DEF Claim, Update, Types, plic, driver
<1>7. CASE Ack
  BY <1>1, <1>7, SourcesAssumption, Zenon DEF Ack, set_irq, irq_request, Update, Types, plic, driver
<1>8. CASE Return
  BY <1>1, <1>8, Zenon DEF Return, Update, Types, plic, driver
<1>9. CASE CheckIo \/ \E e \in SUBSET Sources : WriteEnable(e)
  BY <1>1, <1>9, Zenon DEF CheckIo, WriteEnable, Update, Types, plic, driver
<1>10. CASE \E irq \in Sources \ {Blk} : OtherSource(irq)
  BY <1>1, <1>10 DEF OtherSource, irq_request, Update, Types, plic, driver
<1>11. CASE UNCHANGED vars
  BY <1>1, <1>11 DEF vars, Types, plic, driver
<1> QED
  BY <1>2, <1>3, <1>4, <1>5, <1>6, <1>7, <1>8, <1>9, <1>10, <1>11 DEF Next

(* Every step keeps the interrupt of the answers.                          *)
LEMMA RaisedStep ==
  ASSUME TypeOK, Raised, [Next]_vars
  PROVE  Raised'
<1>1. CASE Notify \/ Serve \/ Exit
  BY <1>1 DEF Notify, Serve, Exit, Raised
<1>2. CASE Served
  BY <1>2 DEF Served, set_irq, irq_request, Raised, TypeOK
<1>3. CASE (\E h \in Heads, r \in Requests : Submit(h, r)) \/ Interrupt \/ UNCHANGED vars
  BY <1>3 DEF Submit, Interrupt, vars, plic, driver, Raised
<1>4. CASE Claim
  BY <1>4 DEF Claim, Raised, plic, driver
<1>5. CASE Ack
  BY <1>5 DEF Ack, set_irq, Raised, plic
<1>6. CASE Collect
  BY <1>6 DEF Collect, Raised, plic, TypeOK, Ring
<1>7. CASE Return
  BY <1>7 DEF Return, Raised
<1>8. CASE CheckIo \/ \E e \in SUBSET Sources : WriteEnable(e)
  BY <1>8 DEF CheckIo, WriteEnable, Raised, driver
<1>9. CASE \E irq \in Sources \ {Blk} : OtherSource(irq)
  BY <1>9 DEF OtherSource, irq_request, Raised, driver
<1> QED
  BY <1>1, <1>2, <1>3, <1>4, <1>5, <1>6, <1>7, <1>8, <1>9 DEF Next

(* Initially nothing is in flight.                                         *)
LEMMA RingsInit ==
  ASSUME Init
  PROVE  Flight(req, avail, used, vq_avail_currect, last_used, 0, 0)
<1>1. /\ req \in [Heads -> Chain] /\ avail \in Ring /\ used \in Ring
      /\ used.idx = 0 /\ avail.idx = 0 /\ vq_avail_currect = 0 /\ last_used = 0
  BY Defaults DEF Init, EmptyRing
<1>2. 0 \in Indices /\ 0 % IdxRange = 0 /\ 0 \in Nat /\ 0 <= QueueNum
  BY QueueAssumption DEF Indices
<1> QED
  BY <1>1, <1>2 DEF Flight

LEMMA BlkInvHolds == Spec => []BlkInv
<1>1. Init => BlkInv
  <2> SUFFICES ASSUME Init PROVE BlkInv
    OBVIOUS
  <2>1. Rings
    BY RingsInit DEF Rings
  <2>2. Types
    BY Zenon DEF Init, Types
  <2>3. Raised
    BY DEF Init, Raised, EmptyRing
  <2> QED
    BY <2>1, <2>2, <2>3 DEF BlkInv
<1>2. BlkInv /\ [Next]_vars => BlkInv'
  <2> SUFFICES ASSUME BlkInv, [Next]_vars PROVE BlkInv'
    OBVIOUS
  <2>1. TypeOK
    BY RingTypes DEF BlkInv
  <2> QED
    BY <2>1, RingsStep, TypesStep, RaisedStep DEF BlkInv
<1> QED
  BY <1>1, <1>2, PTL DEF Spec

(* The rings hold heads of chains, and the indices are 16-bit values.      *)
THEOREM BlkTypes == Spec => []TypeOK
<1>1. BlkInv => TypeOK
  BY RingTypes DEF BlkInv
<1> QED
  BY <1>1, BlkInvHolds, PTL

(* No completion is left without an interrupt (Notified): a QUEUE_NOTIFY   *)
(* may race with the handler, and the PLIC forgets a claimed request.      *)
THEOREM CompletionsAreNotified == Spec => []Notified
<1>1. BlkInv => Notified
  BY DEF BlkInv, Raised, Notified, Update, Types
<1> QED
  BY <1>1, BlkInvHolds, PTL

(* The device implements the abstract queue: handle_request serves each    *)
(* request once and in order, for every size of the queue and of the       *)
(* indices.                                                                *)
THEOREM DeviceImplements == Spec => Implements
<1>1. Init => Service!SInit
  <2> SUFFICES ASSUME Init PROVE Service!SInit
    OBVIOUS
  <2>1. todoBar = TodoOf(req, avail, last_used, 0, 0) /\ doneBar = DoneOf(req, avail, last_used, 0)
    BY RingsInit, Bars, BarsOf
  <2>2. todoBar = <<>> /\ doneBar = <<>>
    BY <2>1 DEF TodoOf, DoneOf
  <2> QED
    BY <2>2 DEF Init, Service!SInit
<1>2. BlkInv /\ [Next]_vars => [Service!Submit \/ Service!Perform \/ Service!Take]_(Service!svars)
  BY RingTypes, RingsStep DEF BlkInv, Step
<1> QED
  BY <1>1, <1>2, BlkInvHolds, PTL DEF Spec, Implements, Service!SSpec
=============================================================================
