------------------------------ MODULE UartProofs ------------------------------
(***************************************************************************)
(* The properties of the UART for every FIFO length, every set of trigger  *)
(* levels, and every value malloc may leave in the state.                  *)
(***************************************************************************)
EXTENDS Uart, SequenceTheorems, TLAPS

-----------------------------------------------------------------------------
(* The ring buffer implements a bounded queue.                             *)

(* The index arithmetic of fifo.c wraps at most once.                      *)
LEMMA Wrap ==
  ASSUME NEW x \in Nat, x < Capacity + Capacity
  PROVE  /\ x % Capacity \in 0..(Capacity - 1)
         /\ x < Capacity => x % Capacity = x
         /\ Capacity <= x => x % Capacity = x - Capacity
<1>1. Capacity \in Nat /\ 0 < Capacity
  BY CapacityIsPositive
<1>2. x = Capacity * (x \div Capacity) + (x % Capacity) /\ x % Capacity \in 0..(Capacity - 1)
      /\ x \div Capacity \in Int
  BY <1>1
<1>3. x < Capacity => x % Capacity = x
  BY <1>1
<1>4. Capacity <= x => x % Capacity = x - Capacity
  BY <1>1
<1> QED
  BY <1>2, <1>3, <1>4

(* The elements of a ring are characters (fifo8_push, fifo8_pop).          *)
LEMMA ContentsType ==
  ASSUME NEW f \in Fifo
  PROVE  /\ f.num \in 0..Capacity /\ f.head \in 0..(Capacity - 1)
         /\ f.data \in [0..(Capacity - 1) -> Chars]
         /\ Contents(f) \in Seq(Chars) /\ Len(Contents(f)) = f.num
<1>1. /\ f.num \in 0..Capacity /\ f.head \in 0..(Capacity - 1)
      /\ f.data \in [0..(Capacity - 1) -> Chars] /\ Capacity \in Nat /\ 0 < Capacity
  BY CapacityIsPositive DEF Fifo
<1>2. ASSUME NEW i \in 1..f.num
      PROVE  f.data[(f.head + i - 1) % Capacity] \in Chars
  <2>1. (f.head + i - 1) \in Nat /\ f.head + i - 1 < Capacity + Capacity
    BY <1>1
  <2>2. (f.head + i - 1) % Capacity \in 0..(Capacity - 1)
    BY <2>1, Wrap
  <2> QED
    BY <1>1, <2>2
<1>3. Contents(f) \in [1..f.num -> Chars]
  BY <1>2 DEF Contents
<1>4. f.num \in Nat
  BY <1>1
<1> QED
  BY <1>1, <1>3, <1>4

(* Two rings' elements, seen as sequences, are equal when they agree.      *)
LEMMA SameSeq ==
  ASSUME NEW q \in Seq(Chars), NEW r \in Seq(Chars), Len(q) = Len(r),
         \A i \in 1..Len(q) : q[i] = r[i]
  PROVE  q = r
BY SeqEqual

(* fifo8_push appends.                                                     *)
LEMMA PushAppends ==
  ASSUME NEW f \in Fifo, f.num < Capacity, NEW c \in Chars
  PROVE  /\ fifo8_push(f, c) \in Fifo
         /\ fifo8_push(f, c).num = f.num + 1
         /\ Contents(fifo8_push(f, c)) = Append(Contents(f), c)
<1> DEFINE g == fifo8_push(f, c)
           t == (f.head + f.num) % Capacity
<1>1. /\ f.num \in 0..Capacity /\ f.head \in 0..(Capacity - 1)
      /\ f.data \in [0..(Capacity - 1) -> Chars] /\ Capacity \in Nat /\ 0 < Capacity
      /\ Contents(f) \in Seq(Chars) /\ Len(Contents(f)) = f.num
  BY ContentsType, CapacityIsPositive
<1>2. /\ t \in 0..(Capacity - 1)
      /\ f.head + f.num < Capacity => t = f.head + f.num
      /\ Capacity <= f.head + f.num => t = f.head + f.num - Capacity
  <2> DEFINE y == f.head + f.num
  <2>1. y \in Nat /\ y < Capacity + Capacity
    BY <1>1
  <2> HIDE DEF y
  <2>2. /\ y % Capacity \in 0..(Capacity - 1)
        /\ y < Capacity => y % Capacity = y
        /\ Capacity <= y => y % Capacity = y - Capacity
    BY <2>1, Wrap
  <2> QED
    BY <1>1, <2>1, <2>2 DEF y
<1>3. /\ g.data = [f.data EXCEPT ![t] = c] /\ g.num = f.num + 1 /\ g.head = f.head
      /\ g = [data |-> [f.data EXCEPT ![t] = c], head |-> f.head, num |-> f.num + 1]
  <2>1. g = [f EXCEPT !.data[t] = c, !.num = f.num + 1]
    BY DEF fifo8_push, Tail8
  <2> HIDE DEF g, t
  <2>2. f = [data |-> f.data, head |-> f.head, num |-> f.num]
    BY DEF Fifo
  <2> QED
    BY <2>1, <2>2, Zenon
<1> HIDE DEF g, t
<1>4. g \in Fifo
  <2>1. [f.data EXCEPT ![t] = c] \in [0..(Capacity - 1) -> Chars]
    BY <1>1, <1>2
  <2>2. f.num + 1 \in 0..Capacity
    BY <1>1
  <2> QED
    BY <1>1, <1>3, <2>1, <2>2 DEF Fifo
<1>5. /\ Contents(g) \in Seq(Chars) /\ Len(Contents(g)) = f.num + 1
      /\ Append(Contents(f), c) \in Seq(Chars) /\ Len(Append(Contents(f), c)) = f.num + 1
  BY <1>1, <1>3, <1>4, ContentsType, AppendProperties
<1>6. ASSUME NEW i \in 1..(f.num + 1)
      PROVE  Contents(g)[i] = Append(Contents(f), c)[i]
  <2> DEFINE y == f.head + i - 1
             x == y % Capacity
  <2>1. y \in Nat /\ y < Capacity + Capacity
    BY <1>1
  <2>2. Contents(g)[i] = g.data[x]
    BY <1>3 DEF Contents
  <2>3. CASE i = f.num + 1
    <3>1. x = t
      BY <1>1, <2>3 DEF t
    <3>2. g.data[x] = c
      BY <1>1, <1>2, <1>3, <3>1
    <3>3. Append(Contents(f), c)[f.num + 1] = c
      BY <1>1, AppendProperties
    <3> QED
      BY <2>2, <2>3, <3>2, <3>3
  <2>4. CASE i # f.num + 1
    <3>1. i \in 1..f.num
      BY <1>1, <2>4
    <3>2. Contents(f)[i] = f.data[x]
      BY <3>1 DEF Contents
    <3>3. Append(Contents(f), c)[i] = Contents(f)[i]
      BY <1>1, <3>1, AppendProperties
    <3>4. y < f.head + f.num /\ f.head <= y
      BY <1>1, <3>1
    <3> HIDE DEF y
    <3>5. /\ x \in 0..(Capacity - 1)
          /\ y < Capacity => x = y
          /\ Capacity <= y => x = y - Capacity
      BY <2>1, Wrap
    <3> HIDE DEF x
    <3>6. x # t
      BY <1>1, <1>2, <2>1, <3>4, <3>5
    <3>7. g.data[x] = f.data[x]
      BY <1>1, <1>2, <1>3, <3>5, <3>6
    <3> QED
      BY <2>2, <3>2, <3>3, <3>7
  <2> QED
    BY <2>3, <2>4, Zenon
<1> DEFINE q == Contents(g)
           r == Append(Contents(f), c)
<1>7. q = r
  <2>1. q \in Seq(Chars) /\ r \in Seq(Chars) /\ Len(q) = Len(r)
        /\ \A i \in 1..Len(q) : q[i] = r[i]
    BY <1>5, <1>6
  <2> HIDE DEF q, r
  <2> QED
    BY <2>1, SameSeq
<1> QED
  BY <1>3, <1>4, <1>7, Zenon DEF g

(* fifo8_pop takes off the element that fifo8_front shows, the oldest.     *)
LEMMA PopTakesHead ==
  ASSUME NEW f \in Fifo, f.num > 0
  PROVE  /\ fifo8_pop(f) \in Fifo
         /\ fifo8_pop(f).num = f.num - 1
         /\ Contents(f) # <<>>
         /\ Contents(fifo8_pop(f)) = Tail(Contents(f))
         /\ fifo8_front(f) \in Chars
<1> DEFINE g == fifo8_pop(f)
           h == (f.head + 1) % Capacity
<1>1. /\ f.num \in 0..Capacity /\ f.head \in 0..(Capacity - 1)
      /\ f.data \in [0..(Capacity - 1) -> Chars] /\ Capacity \in Nat /\ 0 < Capacity
      /\ Contents(f) \in Seq(Chars) /\ Len(Contents(f)) = f.num
  BY ContentsType, CapacityIsPositive
<1>2. /\ h \in 0..(Capacity - 1)
      /\ f.head + 1 < Capacity => h = f.head + 1
      /\ Capacity <= f.head + 1 => h = f.head + 1 - Capacity
  <2> DEFINE y == f.head + 1
  <2>1. y \in Nat /\ y < Capacity + Capacity
    BY <1>1
  <2> HIDE DEF y
  <2>2. /\ y % Capacity \in 0..(Capacity - 1)
        /\ y < Capacity => y % Capacity = y
        /\ Capacity <= y => y % Capacity = y - Capacity
    BY <2>1, Wrap
  <2> QED
    BY <1>1, <2>1, <2>2 DEF y
<1>3. /\ g.data = f.data /\ g.num = f.num - 1 /\ g.head = h
      /\ g = [data |-> f.data, head |-> h, num |-> f.num - 1]
  <2>1. g = [f EXCEPT !.head = h, !.num = f.num - 1]
    BY DEF fifo8_pop
  <2> HIDE DEF g, h
  <2>2. f = [data |-> f.data, head |-> f.head, num |-> f.num]
    BY DEF Fifo
  <2> QED
    BY <2>1, <2>2, Zenon
<1> HIDE DEF g, h
<1>4. g \in Fifo
  <2>1. f.num - 1 \in 0..Capacity
    BY <1>1
  <2> QED
    BY <1>1, <1>2, <1>3, <2>1 DEF Fifo
<1>5. Contents(f) # <<>>
  BY <1>1
<1>6. /\ Contents(g) \in Seq(Chars) /\ Len(Contents(g)) = f.num - 1
      /\ Tail(Contents(f)) \in Seq(Chars) /\ Len(Tail(Contents(f))) = f.num - 1
  BY <1>1, <1>3, <1>4, <1>5, ContentsType, HeadTailProperties
<1>7. ASSUME NEW i \in 1..(f.num - 1)
      PROVE  Contents(g)[i] = Tail(Contents(f))[i]
  <2> DEFINE y == h + i - 1
             z == f.head + (i + 1) - 1
  <2>1. Contents(g)[i] = f.data[y % Capacity]
    BY <1>3 DEF Contents
  <2>2. Tail(Contents(f))[i] = Contents(f)[i + 1]
    BY <1>1, <1>5, <1>6, HeadTailProperties
  <2>3. i + 1 \in 1..f.num
    BY <1>1
  <2>4. Contents(f)[i + 1] = f.data[z % Capacity]
    BY <2>3 DEF Contents
  <2>5. /\ y \in Nat /\ y < Capacity + Capacity /\ z \in Nat /\ z < Capacity + Capacity
        /\ (y = z \/ y = z - Capacity)
    <3>1. i \in Int /\ 1 <= i /\ i + 1 <= Capacity /\ f.head \in Int /\ h \in Int
      BY <1>1, <1>2
    <3>2. h = f.head + 1 \/ h = f.head + 1 - Capacity
      BY <1>1, <1>2
    <3>3. 0 <= f.head /\ f.head < Capacity /\ 0 <= h /\ h < Capacity
      BY <1>1, <1>2
    <3>4. Capacity \in Int
      BY <1>1
    <3>5. y \in Nat /\ y < Capacity + Capacity
      BY <3>1, <3>3, <3>4
    <3>6. z \in Nat /\ z < Capacity + Capacity
      BY <3>1, <3>3, <3>4
    <3>7. y = z \/ y = z - Capacity
      <4>1. CASE h = f.head + 1
        BY <3>1, <4>1
      <4>2. CASE h = f.head + 1 - Capacity
        BY <3>1, <3>4, <4>2
      <4> QED
        BY <3>2, <4>1, <4>2
    <3> QED
      BY <3>5, <3>6, <3>7
  <2> HIDE DEF y, z
  <2>6. /\ y < Capacity => y % Capacity = y
        /\ Capacity <= y => y % Capacity = y - Capacity
    BY <2>5, Wrap
  <2>7. /\ z < Capacity => z % Capacity = z
        /\ Capacity <= z => z % Capacity = z - Capacity
    BY <2>5, Wrap
  <2>8. y % Capacity = z % Capacity
    BY <1>1, <2>5, <2>6, <2>7
  <2> QED
    BY <2>1, <2>2, <2>4, <2>8, Zenon
<1> DEFINE q == Contents(g)
           r == Tail(Contents(f))
<1>8. q = r
  <2>1. q \in Seq(Chars) /\ r \in Seq(Chars) /\ Len(q) = Len(r)
        /\ \A i \in 1..Len(q) : q[i] = r[i]
    BY <1>6, <1>7
  <2> HIDE DEF q, r
  <2> QED
    BY <2>1, SameSeq
<1>9. fifo8_front(f) \in Chars
  BY <1>1 DEF fifo8_front
<1> QED
  BY <1>3, <1>4, <1>5, <1>8, <1>9 DEF g

(* fifo8_reset empties.                                                    *)
LEMMA ResetEmpties ==
  ASSUME NEW f \in Fifo
  PROVE  /\ fifo8_reset(f) \in Fifo
         /\ fifo8_reset(f).num = 0
         /\ Contents(fifo8_reset(f)) = <<>>
<1> DEFINE g == fifo8_reset(f)
<1>1. g \in Fifo /\ g.num = 0
  <2>1. 0 \in 0..(Capacity - 1) /\ 0 \in 0..Capacity
    BY CapacityIsPositive
  <2> QED
    BY <2>1, Zenon DEF fifo8_reset, Fifo
<1>2. Contents(g) \in Seq(Chars) /\ Len(Contents(g)) = 0
  BY <1>1, ContentsType
<1> QED
  BY <1>1, <1>2, EmptySeq

-----------------------------------------------------------------------------
(* The handlers, as functions of the state, keep these relations.          *)

\* IIR and the line say what the rest of the state calls for.
Exact(u) == u.iir = Iir(u) /\ u.irq = (Iir(u) # "NO_INT")

\* The receiver holds the characters q.
Holds(u, q) ==
  /\ IF u.fe THEN Contents(u.recv_fifo) = q
     ELSE q = IF "DR" \in u.lsr THEN <<u.rbr>> ELSE <<>>
  /\ IF u.fe THEN "DR" \in u.lsr <=> u.recv_fifo.num > 0 ELSE u.recv_fifo.num = 0

Base(u, q) == u \in SerialState /\ q \in Seq(Chars) /\ Holds(u, q)

\* The transmitter of w is that of u.
SameXmit(u, w) ==
  /\ w.ier = u.ier /\ w.fe = u.fe /\ w.loop = u.loop /\ w.xmit_fifo = u.xmit_fifo
  /\ w.thr_ipending = u.thr_ipending
  /\ "THRE" \in w.lsr <=> "THRE" \in u.lsr
  /\ "TEMT" \in w.lsr <=> "TEMT" \in u.lsr

(* serial_update_irq makes IIR and the line exact and changes nothing else. *)
LEMMA UpdateIrq ==
  ASSUME NEW u, NEW q, Base(u, q)
  PROVE  /\ Base(serial_update_irq(u), q)
         /\ Exact(serial_update_irq(u))
         /\ SameXmit(u, serial_update_irq(u))
<1> DEFINE w == serial_update_irq(u)
           i == Iir(u)
           b == i # "NO_INT"
<1>1. u \in SerialState /\ i \in Ids /\ b \in BOOLEAN
  BY DEF Base, Iir, Ids
<1>2. w = [u EXCEPT !.iir = i, !.irq = b]
  BY DEF serial_update_irq
<1> HIDE DEF w, i, b
<1>3. w \in SerialState /\ w.iir = i /\ w.irq = b
  BY <1>1, <1>2, Zenon DEF SerialState
<1>4. /\ w.ier = u.ier /\ w.lsr = u.lsr /\ w.fe = u.fe /\ w.recv_fifo_itl = u.recv_fifo_itl
      /\ w.loop = u.loop /\ w.rbr = u.rbr /\ w.thr_ipending = u.thr_ipending
      /\ w.timeout_ipending = u.timeout_ipending /\ w.recv_fifo = u.recv_fifo
      /\ w.xmit_fifo = u.xmit_fifo
  BY <1>1, <1>2 DEF SerialState
<1>5. Iir(w) = i
  BY <1>4 DEF Iir, i
<1>6. Exact(w)
  BY <1>3, <1>5 DEF Exact, b
<1>7. Base(w, q)
  BY <1>3, <1>4 DEF Base, Holds
<1>8. SameXmit(u, w)
  BY <1>4 DEF SameXmit
<1> QED
  BY <1>6, <1>7, <1>8 DEF w

(* serial_receive1 takes the character, unless the FIFO is full.           *)
LEMMA Receive ==
  ASSUME NEW u, NEW q, Base(u, q), NEW c \in Chars
  PROVE  LET w == serial_receive1(u, c)
             r == IF u.fe /\ fifo8_is_full(u.recv_fifo) THEN q
                  ELSE IF u.fe THEN Append(q, c) ELSE <<c>>
         IN  Base(w, r) /\ Exact(w) /\ SameXmit(u, w)
<1> DEFINE r == IF u.fe /\ fifo8_is_full(u.recv_fifo) THEN q
                ELSE IF u.fe THEN Append(q, c) ELSE <<c>>
<1>1. u \in SerialState /\ q \in Seq(Chars) /\ u.recv_fifo \in Fifo /\ u.fe \in BOOLEAN
      /\ u.lsr \in SUBSET {"TEMT", "THRE", "OE", "DR"}
  BY DEF Base, SerialState
<1>2. u.recv_fifo.num \in 0..Capacity /\ Capacity \in Nat /\ 0 < Capacity
  BY <1>1, ContentsType, CapacityIsPositive
<1>3. ASSUME NEW x, Base(x, r), SameXmit(u, x), serial_receive1(u, c) = serial_update_irq(x)
      PROVE  Base(serial_receive1(u, c), r) /\ Exact(serial_receive1(u, c))
             /\ SameXmit(u, serial_receive1(u, c))
  BY <1>3, UpdateIrq DEF SameXmit
<1>4. CASE u.fe /\ fifo8_is_full(u.recv_fifo)
  <2> DEFINE x == [u EXCEPT !.lsr = (@ \union {"OE"}) \union {"DR"}]
  <2>1. serial_receive1(u, c) = serial_update_irq(x)
    BY <1>1, <1>4, Zenon DEF serial_receive1, recv_fifo_put, SerialState
  <2>2. /\ x \in SerialState /\ x.fe = u.fe /\ x.recv_fifo = u.recv_fifo /\ "DR" \in x.lsr
        /\ SameXmit(u, x)
    BY <1>1 DEF SerialState, SameXmit
  <2>3. Base(x, q)
    <3>1. Contents(u.recv_fifo) = q /\ u.recv_fifo.num > 0
      BY <1>2, <1>4 DEF Base, Holds, fifo8_is_full
    <3> QED
      BY <1>1, <1>4, <2>2, <3>1 DEF Base, Holds
  <2> QED
    BY <1>3, <1>4, <2>1, <2>2, <2>3
<1>5. CASE u.fe /\ ~fifo8_is_full(u.recv_fifo)
  <2> DEFINE g == fifo8_push(u.recv_fifo, c)
             x == [u EXCEPT !.recv_fifo = g, !.lsr = @ \union {"DR"}]
  <2>1. serial_receive1(u, c) = serial_update_irq(x)
    BY <1>1, <1>5 DEF serial_receive1, recv_fifo_put, SerialState
  <2>2. g \in Fifo /\ g.num = u.recv_fifo.num + 1 /\ Contents(g) = Append(Contents(u.recv_fifo), c)
    <3>1. u.recv_fifo.num < Capacity
      BY <1>2, <1>5 DEF fifo8_is_full
    <3> QED
      BY <1>1, <3>1, PushAppends
  <2> HIDE DEF g
  <2>3. /\ x \in SerialState /\ x.fe = u.fe /\ x.recv_fifo = g /\ "DR" \in x.lsr
        /\ SameXmit(u, x)
    BY <1>1, <2>2, Zenon DEF SerialState, SameXmit
  <2>4. Base(x, Append(q, c))
    <3>1. Contents(g) = Append(q, c) /\ g.num > 0
      BY <1>2, <1>5, <2>2 DEF Base, Holds
    <3>2. Append(q, c) \in Seq(Chars)
      BY <1>1
    <3> QED
      BY <1>5, <2>3, <3>1, <3>2 DEF Base, Holds
  <2> QED
    BY <1>3, <1>5, <2>1, <2>3, <2>4
<1>6. CASE ~u.fe
  <2> DEFINE l == u.lsr \union {"DR"} \union (IF "DR" \in u.lsr THEN {"OE"} ELSE {})
             x == [u EXCEPT !.rbr = c, !.lsr = l]
  <2>1. serial_receive1(u, c) = serial_update_irq(x)
    BY <1>6 DEF serial_receive1
  <2>2. /\ l \in SUBSET {"TEMT", "THRE", "OE", "DR"} /\ "DR" \in l
        /\ "THRE" \in l <=> "THRE" \in u.lsr
        /\ "TEMT" \in l <=> "TEMT" \in u.lsr
    BY <1>1
  <2> HIDE DEF l
  <2>3. /\ x \in SerialState /\ x.fe = u.fe /\ x.recv_fifo = u.recv_fifo /\ x.lsr = l
        /\ x.rbr = c /\ SameXmit(u, x)
    BY <1>1, <2>2, Zenon DEF SerialState, SameXmit
  <2>4. Base(x, <<c>>)
    <3>1. u.recv_fifo.num = 0
      BY <1>6 DEF Base, Holds
    <3>2. <<c>> \in Seq(Chars)
      OBVIOUS
    <3> QED
      BY <1>6, <2>2, <2>3, <3>1, <3>2 DEF Base, Holds
  <2> QED
    BY <1>3, <1>6, <2>1, <2>3, <2>4
<1> QED
  BY <1>1, <1>4, <1>5, <1>6

(* fifo_timeout_int adds the timeout's interrupt.                          *)
LEMMA Timeout ==
  ASSUME NEW u, NEW q, Base(u, q), Exact(u)
  PROVE  LET w == fifo_timeout_int(u)
         IN  Base(w, q) /\ Exact(w) /\ SameXmit(u, w)
<1> DEFINE x == [u EXCEPT !.timeout_ipending = TRUE]
<1>1. x \in SerialState /\ SameXmit(u, x) /\ x.fe = u.fe /\ x.recv_fifo = u.recv_fifo
      /\ x.lsr = u.lsr /\ x.rbr = u.rbr
  BY Zenon DEF Base, SerialState, SameXmit
<1>2. Base(x, q)
  BY <1>1 DEF Base, Holds
<1>3. SameXmit(u, u)
  BY DEF SameXmit
<1> HIDE DEF x
<1>4. Base(serial_update_irq(x), q) /\ Exact(serial_update_irq(x)) /\ SameXmit(u, serial_update_irq(x))
  BY <1>1, <1>2, UpdateIrq DEF SameXmit
<1>5. fifo_timeout_int(u) = serial_update_irq(x) \/ fifo_timeout_int(u) = u
  BY DEF fifo_timeout_int, x
<1> QED
  BY <1>3, <1>4, <1>5

(* A change to fields that neither Iir nor the receiver depends on.        *)
LEMMA Elsewhere ==
  ASSUME NEW u, NEW q, Base(u, q), Exact(u), NEW w \in SerialState,
         w.iir = u.iir, w.irq = u.irq, w.ier = u.ier, w.fe = u.fe, w.rbr = u.rbr,
         w.recv_fifo = u.recv_fifo, w.recv_fifo_itl = u.recv_fifo_itl,
         w.thr_ipending = u.thr_ipending, w.timeout_ipending = u.timeout_ipending,
         "OE" \in w.lsr <=> "OE" \in u.lsr, "DR" \in w.lsr <=> "DR" \in u.lsr
  PROVE  Base(w, q) /\ Exact(w)
<1>1. Iir(w) = Iir(u)
  BY DEF Iir
<1>2. Exact(w)
  BY <1>1 DEF Exact
<1>3. Holds(w, q)
  BY DEF Base, Holds
<1> QED
  BY <1>2, <1>3 DEF Base

(* One character leaves the transmitter.                                   *)
LEMMA Shift ==
  ASSUME NEW u, NEW q, Base(u, q), Exact(u), u.fe => u.xmit_fifo.num > 0, "THRE" \notin u.lsr
  PROVE  LET w == Shifted(u)
         IN  /\ Base(w, q) /\ Exact(w)
             /\ w.ier = u.ier /\ w.fe = u.fe /\ w.loop = u.loop
             /\ w.recv_fifo = u.recv_fifo
             /\ "TEMT" \in w.lsr <=> "TEMT" \in u.lsr
             /\ "THRE" \in w.lsr <=> (u.fe => u.xmit_fifo.num = 1)
             /\ w.xmit_fifo.num = IF u.fe THEN u.xmit_fifo.num - 1 ELSE u.xmit_fifo.num
             /\ Tsr(u) \in Chars
<1> DEFINE w == Shifted(u)
<1>1. u \in SerialState /\ u.xmit_fifo \in Fifo /\ u.fe \in BOOLEAN /\ u.thr \in Chars
      /\ u.lsr \in SUBSET {"TEMT", "THRE", "OE", "DR"}
  BY DEF Base, SerialState
<1>2. CASE u.fe
  <2> DEFINE g == fifo8_pop(u.xmit_fifo)
             l == u.lsr \union (IF u.xmit_fifo.num = 1 THEN {"THRE"} ELSE {})
             x == [u EXCEPT !.xmit_fifo = g, !.lsr = l]
  <2>1. g \in Fifo /\ g.num = u.xmit_fifo.num - 1 /\ fifo8_front(u.xmit_fifo) \in Chars
    BY <1>1, <1>2, PopTakesHead
  <2>2. w = x
    BY <1>2 DEF Shifted
  <2>3. /\ l \in SUBSET {"TEMT", "THRE", "OE", "DR"}
        /\ "THRE" \in l <=> u.xmit_fifo.num = 1
        /\ "TEMT" \in l <=> "TEMT" \in u.lsr
        /\ "OE" \in l <=> "OE" \in u.lsr
        /\ "DR" \in l <=> "DR" \in u.lsr
    BY <1>1
  <2> HIDE DEF g, l
  <2>4. /\ x \in SerialState /\ x.xmit_fifo = g /\ x.lsr = l
        /\ x.iir = u.iir /\ x.irq = u.irq /\ x.ier = u.ier /\ x.fe = u.fe /\ x.rbr = u.rbr
        /\ x.recv_fifo = u.recv_fifo /\ x.recv_fifo_itl = u.recv_fifo_itl /\ x.loop = u.loop
        /\ x.thr_ipending = u.thr_ipending /\ x.timeout_ipending = u.timeout_ipending
    BY <1>1, <2>1, <2>3, Zenon DEF SerialState
  <2> HIDE DEF x
  <2>5. Base(x, q) /\ Exact(x)
    BY <2>3, <2>4, Elsewhere
  <2>6. Tsr(u) \in Chars
    BY <1>2, <2>1 DEF Tsr
  <2> QED
    BY <1>2, <2>1, <2>2, <2>3, <2>4, <2>5, <2>6
<1>3. CASE ~u.fe
  <2> DEFINE l == u.lsr \union {"THRE"}
             x == [u EXCEPT !.lsr = l]
  <2>1. w = x
    BY <1>3 DEF Shifted
  <2>2. /\ l \in SUBSET {"TEMT", "THRE", "OE", "DR"}
        /\ "THRE" \in l
        /\ "TEMT" \in l <=> "TEMT" \in u.lsr
        /\ "OE" \in l <=> "OE" \in u.lsr
        /\ "DR" \in l <=> "DR" \in u.lsr
    BY <1>1
  <2> HIDE DEF l
  <2>3. /\ x \in SerialState /\ x.xmit_fifo = u.xmit_fifo /\ x.lsr = l
        /\ x.iir = u.iir /\ x.irq = u.irq /\ x.ier = u.ier /\ x.fe = u.fe /\ x.rbr = u.rbr
        /\ x.recv_fifo = u.recv_fifo /\ x.recv_fifo_itl = u.recv_fifo_itl /\ x.loop = u.loop
        /\ x.thr_ipending = u.thr_ipending /\ x.timeout_ipending = u.timeout_ipending
    BY <1>1, <2>2 DEF SerialState
  <2> HIDE DEF x
  <2>4. Base(x, q) /\ Exact(x)
    BY <2>2, <2>3, Elsewhere
  <2>5. Tsr(u) \in Chars
    BY <1>1, <1>3 DEF Tsr
  <2> QED
    BY <1>3, <2>1, <2>2, <2>3, <2>4, <2>5
<1> QED
  BY <1>1, <1>2, <1>3

(* An empty transmitter has its interrupt pending.                         *)
LEMMA Empty ==
  ASSUME NEW u, NEW q, Base(u, q), Exact(u)
  PROVE  LET w == ThrEmpty(u)
         IN  /\ Base(w, q) /\ Exact(w)
             /\ w.ier = u.ier /\ w.fe = u.fe /\ w.loop = u.loop
             /\ w.xmit_fifo = u.xmit_fifo /\ w.recv_fifo = u.recv_fifo
             /\ "THRE" \in w.lsr <=> "THRE" \in u.lsr
             /\ "TEMT" \in w.lsr <=> "TEMT" \in u.lsr
             /\ "THRE" \in w.lsr => w.thr_ipending
<1> DEFINE x == [u EXCEPT !.thr_ipending = TRUE]
<1>1. /\ x \in SerialState /\ x.ier = u.ier /\ x.fe = u.fe /\ x.loop = u.loop
      /\ x.xmit_fifo = u.xmit_fifo /\ x.recv_fifo = u.recv_fifo /\ x.lsr = u.lsr
      /\ x.rbr = u.rbr /\ x.thr_ipending
  BY Zenon DEF Base, SerialState
<1>2. Base(x, q)
  BY <1>1 DEF Base, Holds
<1> HIDE DEF x
<1> DEFINE y == serial_update_irq(x)
<1>3. Base(y, q) /\ Exact(y) /\ SameXmit(x, y) /\ y.recv_fifo = x.recv_fifo
  <2>1. y.recv_fifo = x.recv_fifo
    BY <1>1 DEF serial_update_irq, SerialState
  <2> QED
    BY <1>2, <2>1, UpdateIrq
<1>4. CASE "THRE" \in u.lsr /\ ~u.thr_ipending
  <2>1. ThrEmpty(u) = y
    BY <1>4 DEF ThrEmpty, x
  <2> HIDE DEF y
  <2> QED
    BY <1>1, <1>3, <2>1, Zenon DEF SameXmit
<1>5. CASE ~("THRE" \in u.lsr /\ ~u.thr_ipending)
  <2>1. ThrEmpty(u) = u
    BY <1>5 DEF ThrEmpty
  <2> QED
    BY <1>5, <2>1
<1> QED
  BY <1>4, <1>5

-----------------------------------------------------------------------------
(* The inductive invariant.                                                *)

\* The state u of the UART, in phase b, when it holds q and acked is a.
Sound(u, q, b, a) ==
  /\ Base(u, q) /\ Exact(u)
  /\ b \in {"idle", "xmit", "poll", "aborted"}
  /\ a \in BOOLEAN
  /\ b = "xmit" => "THRE" \notin u.lsr /\ "TEMT" \notin u.lsr /\ (u.fe => u.xmit_fifo.num > 0)
  /\ b # "xmit" => "THRE" \in u.lsr /\ "TEMT" \in u.lsr /\ u.xmit_fifo.num = 0
  /\ ~u.fe => u.xmit_fifo.num = 0
  /\ b # "xmit" /\ "THRI" \in u.ier /\ ~a => u.thr_ipending

UartInv == Sound(s, expect, busy, acked) /\ serial_timer_int \in BOOLEAN

(* The invariant implies what the UART promises.                           *)
LEMMA InvImplies ==
  UartInv => TypeOK /\ IrqExact /\ InOrder /\ DrExact /\ XmitAsserts /\ ThrSignalled
<1> SUFFICES ASSUME UartInv
             PROVE  TypeOK /\ IrqExact /\ InOrder /\ DrExact /\ XmitAsserts /\ ThrSignalled
  OBVIOUS
<1> USE DEF UartInv, Sound
<1>1. s \in SerialState /\ expect \in Seq(Chars) /\ s.fe \in BOOLEAN /\ s.recv_fifo \in Fifo
      /\ s.recv_fifo_itl \in Int
  <2>1. s \in SerialState /\ expect \in Seq(Chars) /\ s.fe \in BOOLEAN /\ s.recv_fifo \in Fifo
        /\ s.recv_fifo_itl \in Itls \union Garbage
    BY DEF Base, SerialState
  <2>2. Itls \subseteq Int /\ Garbage \subseteq Int
    BY LevelsAreSmall, CapacityIsPositive
  <2> QED
    BY <2>1, <2>2, Zenon
<1>2. TypeOK
  BY <1>1 DEF TypeOK
<1>3. IrqExact
  <2>1. s.recv_fifo.num \in Int
    BY <1>1, ContentsType
  <2> QED
    BY <1>1, <2>1, Zenon DEF IrqExact, Exact, Iir
<1>4. InOrder
  BY DEF InOrder, Base, Holds
<1>5. DrExact
  <2>1. CASE s.fe
    <3>1. Contents(s.recv_fifo) = expect /\ ("DR" \in s.lsr <=> s.recv_fifo.num > 0)
      BY <2>1 DEF Base, Holds
    <3>2. Len(expect) = s.recv_fifo.num /\ s.recv_fifo.num \in Nat
      BY <1>1, <3>1, ContentsType
    <3>3. expect # <<>> <=> s.recv_fifo.num > 0
      BY <1>1, <3>2, EmptySeq
    <3> QED
      BY <3>1, <3>3 DEF DrExact
  <2>2. CASE ~s.fe
    <3>1. expect = IF "DR" \in s.lsr THEN <<s.rbr>> ELSE <<>>
      BY <2>2 DEF Base, Holds
    <3>2. <<s.rbr>> # <<>>
      OBVIOUS
    <3> QED
      BY <3>1, <3>2 DEF DrExact
  <2> QED
    BY <2>1, <2>2
<1>6. XmitAsserts
  BY DEF XmitAsserts
<1>7. ThrSignalled
  BY DEF ThrSignalled
<1> QED
  BY <1>2, <1>3, <1>4, <1>5, <1>6, <1>7

(* simple_serial_init establishes it, whatever malloc has left.            *)
LEMMA InitInv == Init => UartInv
<1> SUFFICES ASSUME Init
             PROVE  UartInv
  OBVIOUS
<1>1. SomeChar \in Chars
  BY ThereAreChars DEF SomeChar
<1>2. EmptyFifo \in Fifo /\ EmptyFifo.num = 0
  <2>1. 0 \in 0..(Capacity - 1) /\ 0 \in 0..Capacity
    BY CapacityIsPositive
  <2> QED
    BY <1>1, <2>1 DEF EmptyFifo, Fifo
<1>3. Contents(EmptyFifo) = <<>>
  BY <1>2, ContentsType, EmptySeq
<1>4. PICK fe \in BOOLEAN, itl \in Garbage :
        s = [ier |-> {}, iir |-> "NO_INT", lsr |-> {"TEMT", "THRE"},
             fe |-> fe, recv_fifo_itl |-> itl, dlab |-> FALSE, loop |-> FALSE,
             rbr |-> SomeChar, thr |-> SomeChar, thr_ipending |-> FALSE,
             timeout_ipending |-> FALSE, recv_fifo |-> EmptyFifo, xmit_fifo |-> EmptyFifo,
             irq |-> FALSE]
  BY Zenon DEF Init
<1> HIDE DEF EmptyFifo, SomeChar
<1>5. s \in SerialState
  BY <1>1, <1>2, <1>4 DEF SerialState, Ids, Bits
<1>6. /\ s.ier = {} /\ s.lsr = {"TEMT", "THRE"} /\ s.iir = "NO_INT" /\ ~s.irq
      /\ s.irq = FALSE /\ s.recv_fifo = EmptyFifo /\ s.xmit_fifo = EmptyFifo
  BY <1>4
<1>7. Iir(s) = "NO_INT" /\ Exact(s)
  BY <1>6, Zenon DEF Iir, Exact
<1>8. <<>> \in Seq(Chars)
  BY EmptySeq
<1>9. Base(s, <<>>)
  BY <1>2, <1>3, <1>5, <1>6, <1>8 DEF Base, Holds
<1> QED
  BY <1>2, <1>6, <1>7, <1>9, Zenon DEF Init, UartInv, Sound

(* One iteration of serial_xmit.                                           *)
LEMMA XmitInv == UartInv /\ XmitStep => UartInv'
<1> SUFFICES ASSUME UartInv, XmitStep
             PROVE  UartInv'
  OBVIOUS
<1> DEFINE c    == Tsr(s)
           sh   == Shifted(s)
           out  == ThrEmpty(sh)
           sent == IF s.loop THEN serial_receive1(out, c) ELSE out
           r    == IF ~s.loop \/ (s.fe /\ fifo8_is_full(s.recv_fifo)) THEN expect
                   ELSE IF s.fe THEN Append(expect, c) ELSE <<c>>
<1>1. /\ Base(s, expect) /\ Exact(s) /\ busy = "xmit" /\ acked \in BOOLEAN
      /\ s.fe => s.xmit_fifo.num > 0
      /\ ~s.fe => s.xmit_fifo.num = 0
      /\ "THRE" \notin s.lsr /\ "TEMT" \notin s.lsr
      /\ serial_timer_int \in BOOLEAN
  BY DEF UartInv, Sound, XmitStep
<1>2. /\ IF "THRE" \in sent.lsr
         THEN s' = [sent EXCEPT !.lsr = @ \union {"TEMT"}] /\ busy' = "idle"
         ELSE s' = sent /\ busy' = busy
      /\ expect' = r /\ serial_timer_int' = serial_timer_int /\ acked' = acked
  BY DEF XmitStep
<1>3. /\ Base(sh, expect) /\ Exact(sh)
      /\ sh.fe = s.fe /\ sh.loop = s.loop /\ sh.recv_fifo = s.recv_fifo
      /\ "TEMT" \notin sh.lsr
      /\ "THRE" \in sh.lsr <=> (s.fe => s.xmit_fifo.num = 1)
      /\ sh.xmit_fifo.num = IF s.fe THEN s.xmit_fifo.num - 1 ELSE s.xmit_fifo.num
      /\ c \in Chars
  BY <1>1, Shift
<1> HIDE DEF sh, c
<1>4. /\ Base(out, expect) /\ Exact(out)
      /\ out.fe = s.fe /\ out.recv_fifo = s.recv_fifo /\ out.xmit_fifo = sh.xmit_fifo
      /\ "TEMT" \notin out.lsr
      /\ "THRE" \in out.lsr <=> (s.fe => s.xmit_fifo.num = 1)
      /\ "THRE" \in out.lsr => out.thr_ipending
  BY <1>3, Empty
<1> HIDE DEF out
<1>5. Base(sent, r) /\ Exact(sent) /\ SameXmit(out, sent)
  <2>1. CASE s.loop
    <3> DEFINE w == serial_receive1(out, c)
               p == IF out.fe /\ fifo8_is_full(out.recv_fifo) THEN expect
                    ELSE IF out.fe THEN Append(expect, c) ELSE <<c>>
    <3>1. Base(w, p) /\ Exact(w) /\ SameXmit(out, w)
      BY <1>3, <1>4, Receive
    <3>2. p = r
      BY <1>4, <2>1
    <3> HIDE DEF w, p
    <3>3. sent = w
      BY <2>1 DEF w
    <3> QED
      BY <3>1, <3>2, <3>3
  <2>2. CASE ~s.loop
    BY <1>4, <2>2 DEF SameXmit
  <2> QED
    BY <2>1, <2>2
<1> HIDE DEF sent, r
<1>6. /\ sent.fe = s.fe /\ sent.xmit_fifo = sh.xmit_fifo /\ "TEMT" \notin sent.lsr
      /\ "THRE" \in sent.lsr <=> (s.fe => s.xmit_fifo.num = 1)
      /\ "THRE" \in sent.lsr => sent.thr_ipending
  BY <1>4, <1>5 DEF SameXmit
<1>7. s.xmit_fifo.num \in Nat
  <2>1. s.xmit_fifo \in Fifo
    BY <1>1 DEF Base, SerialState
  <2> QED
    BY <2>1, ContentsType
<1>8. CASE "THRE" \in sent.lsr
  <2> DEFINE w == [sent EXCEPT !.lsr = @ \union {"TEMT"}]
  <2>1. s' = w /\ busy' = "idle"
    BY <1>2, <1>8
  <2>2. sent \in SerialState
    BY <1>5 DEF Base
  <2>3. /\ w \in SerialState /\ w.lsr = sent.lsr \union {"TEMT"}
        /\ w.iir = sent.iir /\ w.irq = sent.irq /\ w.ier = sent.ier /\ w.fe = sent.fe
        /\ w.rbr = sent.rbr /\ w.recv_fifo = sent.recv_fifo /\ w.xmit_fifo = sent.xmit_fifo
        /\ w.recv_fifo_itl = sent.recv_fifo_itl /\ w.thr_ipending = sent.thr_ipending
        /\ w.timeout_ipending = sent.timeout_ipending
    BY <2>2 DEF SerialState
  <2> HIDE DEF w
  <2>4. Base(w, r) /\ Exact(w)
    BY <1>5, <2>3, Elsewhere
  <2>5. w.xmit_fifo.num = 0
    BY <1>1, <1>3, <1>6, <1>7, <1>8, <2>3
  <2>6. Sound(w, r, "idle", acked)
    BY <1>1, <1>6, <1>8, <2>3, <2>4, <2>5 DEF Sound
  <2> QED
    BY <1>1, <1>2, <2>1, <2>6 DEF UartInv
<1>9. CASE "THRE" \notin sent.lsr
  <2>1. s.fe /\ sent.xmit_fifo.num > 0
    BY <1>1, <1>3, <1>6, <1>7, <1>9
  <2>2. Sound(sent, r, "xmit", acked)
    BY <1>1, <1>5, <1>6, <1>9, <2>1 DEF Sound
  <2> QED
    BY <1>1, <1>2, <1>9, <2>2 DEF UartInv
<1> QED
  BY <1>8, <1>9

(* The poll of the terminal takes a character.                             *)
LEMMA PollInv ==
  ASSUME NEW c \in Chars
  PROVE  UartInv /\ PollChar(c) => UartInv'
<1> SUFFICES ASSUME UartInv, PollChar(c)
             PROVE  UartInv'
  OBVIOUS
<1> DEFINE x == serial_receive1(s, c)
           w == fifo_timeout_int(x)
           r == IF s.fe /\ fifo8_is_full(s.recv_fifo) THEN expect
                ELSE IF s.fe THEN Append(expect, c) ELSE <<c>>
<1>1. Base(s, expect) /\ Exact(s) /\ busy = "poll" /\ Sound(s, expect, busy, acked)
      /\ serial_timer_int \in BOOLEAN
  BY DEF UartInv, Sound, PollChar
<1>2. Append(expect, c) = r
  <2>1. CASE s.fe
    <3>1. s.recv_fifo.num < Capacity
      BY <2>1 DEF PollChar, serial_can_receive
    <3>2. ~fifo8_is_full(s.recv_fifo)
      <4>1. s.recv_fifo.num \in Int
        BY <1>1, ContentsType DEF Base, SerialState
      <4> QED
        BY <3>1, <4>1, CapacityIsPositive DEF fifo8_is_full
    <3> QED
      BY <2>1, <3>2
  <2>2. CASE ~s.fe
    <3>1. expect = <<>>
      BY <1>1, <2>2 DEF PollChar, serial_can_receive, Base, Holds
    <3>2. Append(<<>>, c) = <<c>>
      OBVIOUS
    <3> QED
      BY <2>2, <3>1, <3>2
  <2> QED
    BY <2>1, <2>2
<1>3. Base(x, r) /\ Exact(x) /\ SameXmit(s, x)
  BY <1>1, Receive
<1> HIDE DEF x, r
<1>4. Base(w, r) /\ Exact(w) /\ SameXmit(s, w)
  BY <1>3, Timeout DEF SameXmit
<1>5. s' = w /\ expect' = r /\ busy' = busy /\ acked' = acked
      /\ serial_timer_int' = serial_timer_int
  BY <1>2 DEF PollChar, x
<1> HIDE DEF w
<1>6. Sound(w, r, busy, acked)
  BY <1>1, <1>4 DEF Sound, SameXmit
<1> QED
  BY <1>1, <1>5, <1>6 DEF UartInv

(* A write of THR, which makes room in a full FIFO.                        *)
LEMMA ThrInv ==
  ASSUME NEW c \in Sent
  PROVE  UartInv /\ WriteThr(c) => UartInv'
<1> SUFFICES ASSUME UartInv, WriteThr(c)
             PROVE  UartInv'
  OBVIOUS
<1> DEFINE f == s.xmit_fifo
           g == IF ~s.fe THEN f
                ELSE fifo8_push(IF fifo8_is_full(f) THEN fifo8_pop(f) ELSE f, c)
           x == Loaded(s, c)
           w == serial_update_irq(x)
<1>1. /\ Base(s, expect) /\ s \in SerialState /\ f \in Fifo /\ c \in Chars /\ s.fe \in BOOLEAN
      /\ s.xmit_fifo.num = 0 /\ serial_timer_int \in BOOLEAN
  BY ThereAreChars DEF UartInv, Sound, Base, SerialState, WriteThr, Access
<1>2. g \in Fifo /\ (s.fe => g.num > 0) /\ (~s.fe => g.num = 0)
  <2>1. CASE ~s.fe
    BY <1>1, <2>1
  <2>2. CASE s.fe
    <3>1. ~fifo8_is_full(f) /\ f.num < Capacity
      BY <1>1, CapacityIsPositive DEF fifo8_is_full
    <3>2. fifo8_push(f, c) \in Fifo /\ fifo8_push(f, c).num = f.num + 1
      BY <1>1, <3>1, PushAppends
    <3> QED
      BY <1>1, <2>2, <3>1, <3>2
  <2> QED
    BY <2>1, <2>2
<1>3. x = [s EXCEPT !.thr = c, !.thr_ipending = FALSE, !.lsr = @ \ {"THRE", "TEMT"},
                    !.xmit_fifo = g]
  BY DEF Loaded
<1> HIDE DEF g, x
<1>4. /\ x \in SerialState /\ x.fe = s.fe /\ x.rbr = s.rbr /\ x.recv_fifo = s.recv_fifo
      /\ x.lsr = s.lsr \ {"THRE", "TEMT"} /\ x.xmit_fifo = g
  BY <1>1, <1>2, <1>3, Zenon DEF SerialState
<1>5. Base(x, expect)
  BY <1>1, <1>4 DEF Base, Holds
<1>6. Base(w, expect) /\ Exact(w) /\ SameXmit(x, w)
  BY <1>5, UpdateIrq
<1>7. s' = w /\ expect' = expect /\ acked' = FALSE /\ busy' = "xmit"
      /\ serial_timer_int' = serial_timer_int
  BY DEF WriteThr, Access, x
<1> HIDE DEF w
<1>8. Sound(w, expect, "xmit", FALSE)
  BY <1>2, <1>4, <1>6 DEF Sound, SameXmit
<1> QED
  BY <1>1, <1>7, <1>8, Zenon DEF UartInv

(* A write of IER, which samples THRI as it is switched.                   *)
LEMMA IerInv ==
  ASSUME NEW v \in Iers
  PROVE  UartInv /\ WriteIer(v) => UartInv'
<1> SUFFICES ASSUME UartInv, WriteIer(v)
             PROVE  UartInv'
  OBVIOUS
<1> DEFINE switched == ("THRI" \in s.ier) # ("THRI" \in v)
           p == IF switched THEN "THRI" \in v /\ "THRE" \in s.lsr ELSE s.thr_ipending
           x == [s EXCEPT !.ier = v, !.thr_ipending = p]
           w == Enabled(s, v)
           a == acked /\ ("THRI" \in s.ier \/ "THRI" \notin v)
<1>1. /\ Base(s, expect) /\ Exact(s) /\ s \in SerialState /\ busy = "idle"
      /\ Sound(s, expect, "idle", acked)
      /\ acked \in BOOLEAN /\ serial_timer_int \in BOOLEAN /\ s.thr_ipending \in BOOLEAN
      /\ "THRE" \in s.lsr
  BY DEF UartInv, Sound, Base, SerialState, WriteIer, Access
<1>2. v \in SUBSET Bits /\ p \in BOOLEAN
  BY <1>1, IersAreBits, Zenon
<1>3. /\ "THRI" \in v /\ ~a => p
      /\ a \in BOOLEAN
  BY <1>1 DEF Sound
<1> HIDE DEF p, a
<1>4. /\ x \in SerialState /\ x.ier = v /\ x.thr_ipending = p /\ x.fe = s.fe /\ x.rbr = s.rbr
      /\ x.recv_fifo = s.recv_fifo /\ x.lsr = s.lsr /\ x.xmit_fifo = s.xmit_fifo
      /\ x.iir = s.iir /\ x.irq = s.irq /\ x.recv_fifo_itl = s.recv_fifo_itl
      /\ x.timeout_ipending = s.timeout_ipending
  BY <1>1, <1>2, Zenon DEF SerialState
<1> HIDE DEF x
<1>5. Base(x, expect)
  BY <1>1, <1>4 DEF Base, Holds
<1>6. w = (IF v # s.ier THEN serial_update_irq(x) ELSE x)
  BY DEF Enabled, x, p
<1>7. Base(w, expect) /\ Exact(w) /\ SameXmit(x, w)
  <2>1. CASE v # s.ier
    BY <1>5, <1>6, <2>1, UpdateIrq
  <2>2. CASE v = s.ier
    <3>1. w = x /\ p = s.thr_ipending
      BY <1>6, <2>2 DEF p
    <3>2. Exact(x)
      BY <1>1, <1>4, <1>5, <2>2, <3>1, Elsewhere
    <3> QED
      BY <1>5, <3>1, <3>2 DEF SameXmit
  <2> QED
    BY <2>1, <2>2
<1>8. s' = w /\ expect' = expect /\ acked' = a /\ busy' = busy
      /\ serial_timer_int' = serial_timer_int
  BY DEF WriteIer, Access, a
<1> HIDE DEF w
<1>9. Sound(w, expect, "idle", a)
  BY <1>1, <1>3, <1>4, <1>7 DEF Sound, SameXmit
<1> QED
  BY <1>1, <1>8, <1>9 DEF UartInv

(* The two resets of a write of FCR.                                       *)
LEMMA Resets ==
  ASSUME NEW u \in SerialState
  PROVE  /\ LET w == RecvReset(u)
            IN  /\ w \in SerialState /\ w.lsr = u.lsr \ {"DR"}
                /\ w.recv_fifo.num = 0 /\ Contents(w.recv_fifo) = <<>>
                /\ w.fe = u.fe /\ w.ier = u.ier /\ w.xmit_fifo = u.xmit_fifo
                /\ w.thr_ipending = u.thr_ipending
         /\ LET w == XmitReset(u)
            IN  /\ w \in SerialState /\ w.lsr = u.lsr \union {"THRE"}
                /\ w.xmit_fifo.num = 0 /\ w.thr_ipending
                /\ w.fe = u.fe /\ w.ier = u.ier /\ w.recv_fifo = u.recv_fifo /\ w.rbr = u.rbr
<1>1. u.recv_fifo \in Fifo /\ u.xmit_fifo \in Fifo
  BY DEF SerialState
<1> DEFINE g == fifo8_reset(u.recv_fifo)
           h == fifo8_reset(u.xmit_fifo)
<1>2. g \in Fifo /\ g.num = 0 /\ Contents(g) = <<>> /\ h \in Fifo /\ h.num = 0
  BY <1>1, ResetEmpties
<1>3. /\ RecvReset(u) = [u EXCEPT !.lsr = @ \ {"DR"}, !.timeout_ipending = FALSE, !.recv_fifo = g]
      /\ XmitReset(u) = [u EXCEPT !.lsr = @ \union {"THRE"}, !.thr_ipending = TRUE, !.xmit_fifo = h]
  BY DEF RecvReset, XmitReset
<1> HIDE DEF g, h
<1>4. LET w == RecvReset(u)
      IN  /\ w \in SerialState /\ w.lsr = u.lsr \ {"DR"}
          /\ w.recv_fifo.num = 0 /\ Contents(w.recv_fifo) = <<>>
          /\ w.fe = u.fe /\ w.ier = u.ier /\ w.xmit_fifo = u.xmit_fifo
          /\ w.thr_ipending = u.thr_ipending
  <2> DEFINE w == RecvReset(u)
             l == u.lsr \ {"DR"}
  <2>1. w = [u EXCEPT !.lsr = l, !.timeout_ipending = FALSE, !.recv_fifo = g]
        /\ l \in SUBSET {"TEMT", "THRE", "OE", "DR"}
    BY <1>3 DEF SerialState
  <2> HIDE DEF w, l
  <2>2. w \in SerialState /\ w.lsr = l
    BY <1>2, <2>1, Zenon DEF SerialState
  <2>3. /\ w.recv_fifo = g /\ w.fe = u.fe /\ w.ier = u.ier /\ w.xmit_fifo = u.xmit_fifo
        /\ w.thr_ipending = u.thr_ipending
    BY <2>1 DEF SerialState
  <2> QED
    BY <1>2, <2>2, <2>3 DEF w, l
<1>5. LET w == XmitReset(u)
      IN  /\ w \in SerialState /\ w.lsr = u.lsr \union {"THRE"}
          /\ w.xmit_fifo.num = 0 /\ w.thr_ipending
          /\ w.fe = u.fe /\ w.ier = u.ier /\ w.recv_fifo = u.recv_fifo /\ w.rbr = u.rbr
  BY <1>2, <1>3, ZenonT(40) DEF SerialState
<1> QED
  BY <1>4, <1>5

(* A write of FCR.                                                         *)
LEMMA FcrInv ==
  ASSUME NEW fe \in BOOLEAN, NEW rfr \in BOOLEAN, NEW xfr \in BOOLEAN, NEW itl \in Itls
  PROVE  UartInv /\ WriteFcr(fe, rfr, xfr, itl) => UartInv'
<1> SUFFICES ASSUME UartInv, WriteFcr(fe, rfr, xfr, itl)
             PROVE  UartInv'
  OBVIOUS
<1> DEFINE flip == fe # s.fe
           r == IF flip \/ rfr THEN RecvReset(s) ELSE s
           x == IF flip \/ xfr THEN XmitReset(r) ELSE r
           l == IF fe THEN itl ELSE x.recv_fifo_itl
           y == [x EXCEPT !.fe = fe, !.recv_fifo_itl = l]
           w == serial_update_irq(y)
           q == IF flip \/ rfr THEN <<>> ELSE expect
           a == acked /\ ~(flip \/ xfr)
<1>1. /\ Base(s, expect) /\ s \in SerialState /\ busy = "idle" /\ s.fe \in BOOLEAN
      /\ acked \in BOOLEAN /\ serial_timer_int \in BOOLEAN
      /\ "THRE" \in s.lsr /\ "TEMT" \in s.lsr /\ s.xmit_fifo.num = 0
      /\ "THRI" \in s.ier /\ ~acked => s.thr_ipending
  BY DEF UartInv, Sound, Base, SerialState, WriteFcr, Access
<1>2. s' = w /\ expect' = q /\ acked' = a /\ busy' = busy /\ serial_timer_int' = serial_timer_int
  BY DEF WriteFcr, Access
<1>3. /\ r \in SerialState /\ r.fe = s.fe /\ r.ier = s.ier /\ r.thr_ipending = s.thr_ipending
      /\ "THRE" \in r.lsr /\ "TEMT" \in r.lsr /\ r.xmit_fifo.num = 0
      /\ flip \/ rfr => "DR" \notin r.lsr /\ r.recv_fifo.num = 0 /\ Contents(r.recv_fifo) = <<>>
      /\ ~(flip \/ rfr) => r = s
  <2>1. CASE flip \/ rfr
    BY <1>1, <2>1, Resets
  <2>2. CASE ~(flip \/ rfr)
    BY <1>1, <2>2
  <2> QED
    BY <2>1, <2>2
<1> HIDE DEF r
<1>4. /\ x \in SerialState /\ x.fe = s.fe /\ x.ier = s.ier
      /\ "THRE" \in x.lsr /\ "TEMT" \in x.lsr /\ x.xmit_fifo.num = 0
      /\ x.recv_fifo = r.recv_fifo /\ x.rbr = r.rbr
      /\ "DR" \in x.lsr <=> "DR" \in r.lsr
      /\ flip \/ xfr => x.thr_ipending
      /\ ~(flip \/ xfr) => x.thr_ipending = s.thr_ipending
  <2>1. CASE flip \/ xfr
    BY <1>3, <2>1, Resets
  <2>2. CASE ~(flip \/ xfr)
    BY <1>3, <2>2
  <2> QED
    BY <2>1, <2>2
<1> HIDE DEF x
<1>5. l \in Itls \union Garbage
  BY <1>4 DEF SerialState
<1> HIDE DEF l
<1>6. /\ y \in SerialState /\ y.fe = fe /\ y.ier = x.ier /\ y.lsr = x.lsr /\ y.rbr = x.rbr
      /\ y.xmit_fifo = x.xmit_fifo /\ y.recv_fifo = x.recv_fifo
      /\ y.thr_ipending = x.thr_ipending
  BY <1>4, <1>5, Zenon DEF SerialState
<1> HIDE DEF y
<1>7. Base(y, q)
  <2>1. CASE flip \/ rfr
    <3>1. q = <<>> /\ <<>> \in Seq(Chars)
      BY <2>1, EmptySeq
    <3>2. "DR" \notin y.lsr /\ y.recv_fifo.num = 0 /\ Contents(y.recv_fifo) = <<>>
      BY <1>3, <1>4, <1>6, <2>1
    <3> HIDE DEF q, flip
    <3>3. Holds(y, q)
      <4>1. ~(y.recv_fifo.num > 0)
        BY <3>2
      <4> QED
        BY <3>1, <3>2, <4>1 DEF Holds
    <3> QED
      BY <1>6, <3>1, <3>3 DEF Base
  <2>2. CASE ~(flip \/ rfr)
    <3>1. q = expect /\ r = s /\ fe = s.fe
      BY <1>3, <2>2
    <3> HIDE DEF q, flip
    <3>2. /\ y.fe = s.fe /\ y.recv_fifo = s.recv_fifo /\ y.rbr = s.rbr
          /\ "DR" \in y.lsr <=> "DR" \in s.lsr
      BY <1>4, <1>6, <3>1
    <3> QED
      BY <1>1, <1>6, <3>1, <3>2 DEF Base, Holds
  <2> QED
    BY <2>1, <2>2
<1>8. a \in BOOLEAN /\ ("THRI" \in y.ier /\ ~a => y.thr_ipending)
  BY <1>1, <1>4, <1>6
<1> HIDE DEF q, a
<1>9. Base(w, q) /\ Exact(w) /\ SameXmit(y, w)
  BY <1>7, UpdateIrq
<1> HIDE DEF w
<1>10. Sound(w, q, "idle", a)
  BY <1>4, <1>6, <1>8, <1>9 DEF Sound, SameXmit
<1> QED
  BY <1>1, <1>2, <1>10 DEF UartInv

(* LCR and MCR: fields that nothing else is derived from.                  *)
LEMMA ControlInv ==
  ASSUME NEW b \in BOOLEAN
  PROVE  UartInv /\ (WriteLcr(b) \/ WriteMcr(b)) => UartInv'
<1> SUFFICES ASSUME UartInv, NEW w, w = [s EXCEPT !.dlab = b] \/ w = [s EXCEPT !.loop = b],
                    Access(w, expect, acked), busy' = busy
             PROVE  UartInv'
  BY DEF WriteLcr, WriteMcr
<1>1. s \in SerialState /\ Base(s, expect) /\ Exact(s)
  BY DEF UartInv, Sound, Base
<1>2. /\ w \in SerialState /\ w.lsr = s.lsr /\ w.iir = s.iir /\ w.irq = s.irq /\ w.ier = s.ier
      /\ w.fe = s.fe /\ w.rbr = s.rbr /\ w.recv_fifo = s.recv_fifo /\ w.xmit_fifo = s.xmit_fifo
      /\ w.recv_fifo_itl = s.recv_fifo_itl /\ w.thr_ipending = s.thr_ipending
      /\ w.timeout_ipending = s.timeout_ipending
  BY <1>1 DEF SerialState
<1>3. Base(w, expect) /\ Exact(w)
  BY <1>1, <1>2, Elsewhere
<1>4. Sound(w, expect, busy, acked)
  BY <1>2, <1>3 DEF UartInv, Sound
<1> QED
  BY <1>4 DEF UartInv, Access

(* A read of RBR takes the oldest character.                               *)
LEMMA RbrInv == UartInv /\ ReadRbr => UartInv'
<1> SUFFICES ASSUME UartInv, ReadRbr
             PROVE  UartInv'
  OBVIOUS
<1> DEFINE x == IF s.fe THEN Popped(s) ELSE [s EXCEPT !.lsr = @ \ {"DR"}]
           w == serial_update_irq(x)
           q == IF expect = <<>> THEN expect ELSE Tail(expect)
           f == s.recv_fifo
<1>1. /\ Base(s, expect) /\ s \in SerialState /\ busy = "idle" /\ s.fe \in BOOLEAN
      /\ expect \in Seq(Chars) /\ f \in Fifo
      /\ Sound(s, expect, "idle", acked) /\ serial_timer_int \in BOOLEAN
  BY DEF UartInv, Sound, Base, SerialState, ReadRbr, Access
<1>2. s' = w /\ expect' = q /\ acked' = acked /\ busy' = busy /\ serial_timer_int' = serial_timer_int
  BY DEF ReadRbr, Access
<1>3. Base(x, q) /\ SameXmit(s, x)
  <2>1. CASE ~s.fe
    <3>1. x = [s EXCEPT !.lsr = @ \ {"DR"}]
      BY <2>1
    <3>2. x \in SerialState /\ x.lsr = s.lsr \ {"DR"} /\ SameXmit(s, x)
          /\ x.fe = s.fe /\ x.recv_fifo = f
      BY <1>1, <3>1 DEF SerialState, SameXmit
    <3>3. f.num = 0 /\ expect = IF "DR" \in s.lsr THEN <<s.rbr>> ELSE <<>>
      BY <1>1, <2>1 DEF Base, Holds
    <3>4. q = <<>>
      <4>1. Tail(<<s.rbr>>) = <<>>
        OBVIOUS
      <4> QED
        BY <3>3, <4>1
    <3>5. <<>> \in Seq(Chars)
      BY EmptySeq
    <3> HIDE DEF x, q
    <3> QED
      BY <2>1, <3>2, <3>3, <3>4, <3>5 DEF Base, Holds
  <2>2. CASE s.fe
    <3> DEFINE g == IF f.num = 0 THEN f ELSE fifo8_pop(f)
               l == IF f.num <= 1 THEN s.lsr \ {"DR"} ELSE s.lsr
    <3>1. x = [s EXCEPT !.recv_fifo = g, !.lsr = l, !.timeout_ipending = FALSE]
      BY <2>2 DEF Popped
    <3>2. /\ Contents(f) = expect /\ ("DR" \in s.lsr <=> f.num > 0)
          /\ f.num \in Nat /\ Len(expect) = f.num
      BY <1>1, <2>2, ContentsType DEF Base, Holds
    <3>3. g \in Fifo /\ Contents(g) = q /\ g.num = IF f.num = 0 THEN 0 ELSE f.num - 1
      <4>1. CASE f.num = 0
        <5>1. expect = <<>>
          BY <1>1, <3>2, <4>1, EmptySeq
        <5> QED
          BY <1>1, <3>2, <4>1, <5>1
      <4>2. CASE f.num # 0
        <5>1. f.num > 0
          BY <3>2, <4>2
        <5>2. /\ fifo8_pop(f) \in Fifo /\ fifo8_pop(f).num = f.num - 1 /\ Contents(f) # <<>>
              /\ Contents(fifo8_pop(f)) = Tail(Contents(f))
          BY <1>1, <5>1, PopTakesHead
        <5> QED
          BY <3>2, <4>2, <5>2
      <4> QED
        BY <4>1, <4>2
    <3>4. q \in Seq(Chars)
      BY <3>3, ContentsType, Zenon
    <3>5. /\ l \in SUBSET {"TEMT", "THRE", "OE", "DR"}
          /\ "THRE" \in l <=> "THRE" \in s.lsr
          /\ "TEMT" \in l <=> "TEMT" \in s.lsr
          /\ "DR" \in l <=> f.num > 1
      BY <1>1, <3>2 DEF SerialState
    <3> HIDE DEF x, q, g, l
    <3>6. x \in SerialState /\ x.recv_fifo = g /\ x.lsr = l /\ x.fe = s.fe /\ SameXmit(s, x)
      BY <1>1, <3>1, <3>3, <3>5, Zenon DEF SerialState, SameXmit
    <3>7. g.num > 0 <=> f.num > 1
      BY <3>2, <3>3
    <3> QED
      BY <2>2, <3>3, <3>4, <3>5, <3>6, <3>7 DEF Base, Holds
  <2> QED
    BY <2>1, <2>2
<1> HIDE DEF x, q
<1>4. Base(w, q) /\ Exact(w) /\ SameXmit(x, w)
  BY <1>3, UpdateIrq
<1> HIDE DEF w
<1>5. Sound(w, q, "idle", acked)
  BY <1>1, <1>3, <1>4 DEF Sound, SameXmit
<1> QED
  BY <1>1, <1>2, <1>5 DEF UartInv

(* The reads of IIR and LSR that change the state.                         *)
LEMMA StatusInv == UartInv /\ (ReadIir \/ ReadLsr) => UartInv'
<1> SUFFICES ASSUME UartInv, NEW x, NEW a \in BOOLEAN,
                    \/ x = [s EXCEPT !.thr_ipending = FALSE] /\ a = TRUE
                    \/ x = [s EXCEPT !.lsr = @ \ {"OE"}] /\ a = acked,
                    Access(serial_update_irq(x), expect, a), busy' = busy
             PROVE  UartInv'
  BY Zenon DEF ReadIir, ReadLsr, UartInv, Sound
<1> DEFINE w == serial_update_irq(x)
<1>1. s \in SerialState /\ Base(s, expect) /\ busy = "idle" /\ Sound(s, expect, "idle", acked)
      /\ s.lsr \in SUBSET {"TEMT", "THRE", "OE", "DR"}
  BY DEF UartInv, Sound, Base, Access, SerialState
<1>2. /\ x \in SerialState /\ x.ier = s.ier /\ x.fe = s.fe /\ x.rbr = s.rbr
      /\ x.recv_fifo = s.recv_fifo /\ x.xmit_fifo = s.xmit_fifo
      /\ x.lsr \ {"OE"} = s.lsr \ {"OE"}
      /\ a \/ (x.thr_ipending = s.thr_ipending /\ a = acked)
  <2>1. CASE x = [s EXCEPT !.thr_ipending = FALSE] /\ a = TRUE
    BY <1>1, <2>1, Zenon DEF SerialState
  <2>2. CASE x = [s EXCEPT !.lsr = @ \ {"OE"}] /\ a = acked
    BY <1>1, <2>2 DEF SerialState
  <2> QED
    BY <2>1, <2>2, Zenon
<1>3. /\ "DR" \in x.lsr <=> "DR" \in s.lsr
      /\ "THRE" \in x.lsr <=> "THRE" \in s.lsr
      /\ "TEMT" \in x.lsr <=> "TEMT" \in s.lsr
  BY <1>2
<1>4. Base(x, expect)
  BY <1>1, <1>2, <1>3 DEF Base, Holds
<1>5. Base(w, expect) /\ Exact(w) /\ SameXmit(x, w)
  BY <1>4, UpdateIrq
<1>6. s' = w /\ expect' = expect /\ acked' = a /\ serial_timer_int' = serial_timer_int
  BY DEF Access
<1> HIDE DEF w
<1>7. Sound(w, expect, "idle", a)
  BY <1>1, <1>2, <1>3, <1>5 DEF Sound, SameXmit
<1> QED
  BY <1>1, <1>6, <1>7 DEF UartInv

(* The steps that leave the UART alone.                                    *)
LEMMA QuietInv ==
  UartInv /\ (sigaction_entry_serial_timer \/ CheckIrq \/ PollEnd \/ PollEof \/ UNCHANGED vars)
    => UartInv'
<1> SUFFICES ASSUME UartInv, s' = s, expect' = expect, acked' = acked,
                    busy' = busy \/ (busy # "xmit" /\ busy' \in {"idle", "poll", "aborted"}),
                    serial_timer_int' \in BOOLEAN
             PROVE  UartInv'
  BY Zenon DEF UartInv, sigaction_entry_serial_timer, CheckIrq, PollEnd, PollEof, vars
<1> QED
  BY DEF UartInv, Sound

(* The invariant of serial_plus.c.                                         *)
LEMMA UartInductive == Spec => []UartInv
<1>1. UartInv /\ [Next]_vars => UartInv'
  <2> SUFFICES ASSUME UartInv, [Next]_vars
               PROVE  UartInv'
    OBVIOUS
  <2>1. ASSUME NEW c \in Sent, WriteThr(c) PROVE UartInv'
    BY <2>1, ThrInv
  <2>2. ASSUME NEW v \in Iers, WriteIer(v) PROVE UartInv'
    BY <2>2, IerInv
  <2>3. ASSUME NEW fe \in BOOLEAN, NEW rfr \in BOOLEAN, NEW xfr \in BOOLEAN, NEW itl \in Itls,
               WriteFcr(fe, rfr, xfr, itl)
        PROVE  UartInv'
    BY <2>3, FcrInv
  <2>4. ASSUME NEW b \in BOOLEAN, WriteLcr(b) \/ WriteMcr(b) PROVE UartInv'
    BY <2>4, ControlInv
  <2>5. CASE ReadRbr
    BY <2>5, RbrInv
  <2>6. CASE ReadIir \/ ReadLsr
    BY <2>6, StatusInv
  <2>7. CASE XmitStep
    BY <2>7, XmitInv
  <2>8. ASSUME NEW c \in Chars, PollChar(c) PROVE UartInv'
    BY <2>8, PollInv
  <2>9. CASE sigaction_entry_serial_timer \/ CheckIrq \/ PollEnd \/ PollEof \/ UNCHANGED vars
    BY <2>9, QuietInv
  <2> QED
    BY <2>1, <2>2, <2>3, <2>4, <2>5, <2>6, <2>7, <2>8, <2>9 DEF Next, Guest, Emulator
<1> QED
  BY <1>1, InitInv, PTL DEF Spec

-----------------------------------------------------------------------------
(* The theorems.                                                           *)

(* The registers, the rings and the history keep their types: no index of  *)
(* fifo.c leaves its array, for any capacity.                              *)
THEOREM UartTypes == Spec => []TypeOK
BY UartInductive, InvImplies, PTL

(* The interrupt line is never stale: after every handler it is up exactly *)
(* when an enabled cause holds (serial_update_irq).                        *)
THEOREM LineIsExact == Spec => []IrqExact
BY UartInductive, InvImplies, PTL

(* Reads of RBR return what was received, in order, and LSR.DR tells       *)
(* exactly whether there is more (recv_fifo_put, fifo8_pop, the resets).   *)
THEOREM ReceivedInOrder == Spec => [](InOrder /\ DrExact)
BY UartInductive, InvImplies, PTL

(* The assertions of serial_xmit never fail, and it leaves the transmitter *)
(* empty.                                                                  *)
THEOREM XmitNeverAsserts == Spec => []XmitAsserts
BY UartInductive, InvImplies, PTL

(* A driver that waits for THRI is not left waiting: the request stands    *)
(* until IIR has reported it (serial_xmit, and the sampling in IER).       *)
THEOREM ThrIsSignalled == Spec => []ThrSignalled
BY UartInductive, InvImplies, PTL
=============================================================================
