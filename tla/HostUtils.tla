------------------------------ MODULE HostUtils ------------------------------
(***************************************************************************)
(* The double-width arithmetic of host-utils.c, host-utils.h, int128.h and *)
(* int128.c as it is written for hosts without a 128-bit type, and the bit *)
(* tricks of host-utils.h and bitops.h.                                    *)
(*                                                                         *)
(* A word has 2 * HW bits (64 in the code, HW = 32), so that every operand *)
(* can be tried.  A pair of words is a record [lo, hi].                    *)
(***************************************************************************)
EXTENDS Words, TLC

CONSTANT HW          \* bits in half a word

ASSUME HostAssumption == HW \in Nat \ {0}

VARIABLE arg         \* the operands of the call under study

WW == 2 * HW
Words == 0 .. 2^WW - 1
lo32(x) == x % 2^HW
hi32(x) == x \div 2^HW
Pair(lo, hi) == [lo |-> U(lo, WW), hi |-> U(hi, WW)]
Value(p) == p.lo + p.hi * 2^WW
SValue(p) == S(Value(p), 2 * WW)
OfValue(n) == Pair(n, n \div 2^WW)

----------------------------------------------------------------------------
(* host-utils.c *)

mul64(a, b) ==
    LET rl == lo32(a) * lo32(b)
        rm == lo32(a) * hi32(b)
        rn == hi32(a) * lo32(b)
        rh == hi32(a) * hi32(b)
        c1 == hi32(rl) + lo32(rm) + lo32(rn)
        c2 == hi32(c1) + hi32(rm) + hi32(rn) + lo32(rh)
    IN  Pair(lo32(rl) + lo32(c1) * 2^HW, lo32(c2) + lo32(hi32(rh) + lo32(hi32(c2))) * 2^HW)
muls64(a, b) ==
    LET p == mul64(a, b)
        h1 == IF S(b, WW) < 0 THEN p.hi - a ELSE p.hi
    IN  Pair(p.lo, IF S(a, WW) < 0 THEN h1 - b ELSE h1)

(* One half-word digit of the quotient: q is too large by at most 2, and   *)
(* the sum that corrects the remainder may wrap around.                    *)
\* Mutant: the digit is corrected once only.
DigitOnce(rest, d, next) ==
    LET q == rest \div hi32(d)
        m == U(q * lo32(d), WW)
        r == U((rest % hi32(d)) * 2^HW, WW) + next
    IN  IF r >= m THEN [q |-> q, r |-> r - m] ELSE [q |-> q - 1, r |-> U(r + d - m, WW)]
Corrected(q, m, r, d) ==
    LET r1 == U(r + d, WW)
    IN  IF r >= m THEN [q |-> q, r |-> r - m]
        ELSE IF r1 >= d /\ r1 < m THEN [q |-> q - 2, r |-> U(r1 + d - m, WW)]
        ELSE [q |-> q - 1, r |-> U(r1 - m, WW)]
Digit(rest, d, next) ==
    Corrected(rest \div hi32(d), U((rest \div hi32(d)) * lo32(d), WW),
              U((rest % hi32(d)) * 2^HW, WW) + next, d)
BothDigits(q1, s0) == [q |-> U(Or(U(q1 * 2^HW, WW), U(s0.q, WW), WW), WW), r |-> s0.r]
SecondDigit(s1, d, next) == BothDigits(s1.q, Digit(s1.r, d, next))
udiv_qrnnd(n1, n0, d) == SecondDigit(Digit(n1, d, hi32(n0)), d, lo32(n0))

(* p is the dividend.  The divisor is normalised for udiv_qrnnd and the    *)
(* remainder is shifted back.                                              *)
OneWord(u, top, sh) == [q |-> Pair(u.q, top), r |-> u.r \div 2^sh]
TwoWords(top, dlo, d, sh) == OneWord(udiv_qrnnd(top.r, dlo, d), top.q, sh)
Normalised(p, divisor, sh) ==
    LET d == U(divisor * 2^sh, WW)
        dhighest == p.hi \div 2^(WW - sh)
        dhi == U(p.hi * 2^sh, WW) + (IF sh = 0 THEN 0 ELSE p.lo \div 2^(WW - sh))
        dlo == U(p.lo * 2^sh, WW)
    IN  IF p.hi < divisor THEN OneWord(udiv_qrnnd(dhi, dlo, d), 0, sh)
        ELSE TwoWords(IF sh = 0 THEN [q |-> 1, r |-> dhi - d] ELSE udiv_qrnnd(dhighest, dhi, d), dlo, d, sh)
divu128(p, divisor) ==
    IF p.hi = 0 THEN [q |-> Pair(p.lo \div divisor, 0), r |-> p.lo % divisor]
    ELSE Normalised(p, divisor, clz(divisor, WW))

(* Negation of a pair, word by word *)
Negate(p) == IF p.lo = 0 THEN Pair(0, -p.hi) ELSE Pair(-p.lo, Not(p.hi, WW))
Resigned(res, negQ, negR) ==
    [q |-> IF negQ THEN Negate(res.q) ELSE res.q, r |-> U(IF negR THEN -res.r ELSE res.r, WW)]
divs128(p, divisor) ==
    LET neg == S(p.hi, WW) < 0
    IN  Resigned(divu128(IF neg THEN Negate(p) ELSE p, U(Abs(S(divisor, WW)), WW)),
                 neg # (S(divisor, WW) < 0), neg)

urshift(p, n) ==
    LET shift == n % (2 * WW)
        h == p.hi \div 2^(shift % WW)
    IN  IF shift = 0 THEN p
        ELSE IF shift >= WW THEN Pair(h, 0)
        ELSE Pair(Or(p.lo \div 2^shift, U(p.hi * 2^(WW - shift), WW), WW), h)
(* The overflow flag is only ever set: a shift by zero leaves it alone *)
ulshift(p, n, overflow) ==
    LET shift == n % (2 * WW)
        lost == urshift(p, 2 * WW - shift)
    IN  IF shift = 0 THEN [p |-> p, overflow |-> overflow]
        ELSE [p |-> IF shift >= WW THEN Pair(0, p.lo * 2^(shift % WW))
                    ELSE Pair(p.lo * 2^shift,
                              Or(p.lo \div 2^(WW - shift), U(p.hi * 2^shift, WW), WW)),
              overflow |-> overflow \/ lost # Pair(0, 0)]

----------------------------------------------------------------------------
(* host-utils.h *)

muldiv64_rounding(a, b, c, roundUp) ==
    LET rl == lo32(a) * b + (IF roundUp THEN c - 1 ELSE 0)
        rh == hi32(a) * b + hi32(rl)
    IN  lo32(rh \div c) * 2^HW + lo32(((rh % c) * 2^HW + lo32(rl)) \div c)
mulu128(p, factor) ==
    LET low == mul64(p.lo, factor)
        high == mul64(p.hi, factor)
    IN  IF p.hi = 0 THEN [p |-> low, overflow |-> FALSE]
        ELSE [p |-> Pair(low.lo, low.hi + high.lo),
              overflow |-> low.hi + high.lo >= 2^WW \/ high.hi # 0]
uadd64_carry(x, y, carry) ==
    LET x1 == U(x + carry, WW)
    IN  [x |-> U(x1 + y, WW), c |-> Bool(x + carry >= 2^WW \/ x1 + y >= 2^WW)]
usub64_borrow(x, y, borrow) ==
    LET x1 == U(x - borrow, WW)
    IN  [x |-> U(x1 - y, WW), c |-> Bool(x < borrow \/ x1 < y)]
is_power_of_2(x) == x # 0 /\ And(x, U(x - 1, WW), WW) = 0
pow2floor(x) == IF x = 0 THEN 0 ELSE 2^(WW - 1) \div 2^clz(x, WW)
pow2ceil(x) ==
    LET n == clz(U(x - 1, WW), WW)
    IN  IF n = 0 THEN Bool(x = 0) ELSE 2^(WW - 1) \div 2^(n - 1)
(* x |= x >> 1, x >> 2, x >> 4 ... smears the top bit downwards *)
pow2roundup32(x) ==
    LET s1 == Or(x, x \div 2, WW)
        s2 == Or(s1, s1 \div 4, WW)
        s3 == Or(s2, s2 \div 16, WW)
    IN  U(s3 + 1, WW)
(* Swap the halves of ever smaller fields; here down from half a byte *)
revbit8(x) ==
    LET n == Or(And(x, 240, 8) \div 16, And(x, 15, 8) * 16, 8)
    IN  And(n, 136, 8) \div 8 + And(n, 68, 8) \div 2 + And(n, 34, 8) * 2 + And(n, 17, 8) * 8
clrsb(x, w) == clz(IF S(x, w) < 0 THEN Not(x, w) ELSE x, w) - 1

----------------------------------------------------------------------------
(* bitops.h on 8 bits: the even bits spread out, and gathered again *)
half_shuffle(x) ==
    LET s1 == And(Or(x * 4, x, 8), 51, 8)
    IN  And(Or(s1 * 2, s1, 8), 85, 8)
half_unshuffle(x) ==
    LET m == And(x, 85, 8)
        s1 == And(Or(m \div 2, m, 8), 51, 8)
    IN  And(Or(s1 \div 4, s1, 8), 15, 8)

----------------------------------------------------------------------------
(* int128.h, the struct *)

int128_rshift(a, n) ==
    LET h == R_SHIFT(S(a.hi, WW), n % WW)
    IN  IF n = 0 THEN a
        ELSE IF n >= WW THEN Pair(h, R_SHIFT(h, WW - 1))
        ELSE Pair(Or(a.lo \div 2^n, U(a.hi * 2^(WW - n), WW), WW), h)
int128_urshift(a, n) ==
    LET h == a.hi \div 2^(n % WW)
    IN  IF n = 0 THEN a
        ELSE IF n >= WW THEN Pair(h, 0)
        ELSE Pair(Or(a.lo \div 2^n, U(a.hi * 2^(WW - n), WW), WW), h)
int128_lshift(a, n) ==
    LET l == U(a.lo * 2^(n % WW), WW)
    IN  IF n >= WW THEN Pair(0, l)
        ELSE IF n > 0 THEN Pair(l, Or(U(a.hi * 2^n, WW), a.lo \div 2^(WW - n), WW))
        ELSE a
(* The carry out of the lower words is lo < a.lo *)
int128_add(a, b) ==
    LET lo == U(a.lo + b.lo, WW) IN Pair(lo, a.hi + b.hi + Bool(lo < a.lo))
int128_neg(a) ==
    LET lo == U(-a.lo, WW) IN Pair(lo, Not(a.hi, WW) + Bool(lo = 0))
int128_sub(a, b) == Pair(a.lo - b.lo, a.hi - b.hi - Bool(a.lo < b.lo))
int128_ge(a, b) == S(a.hi, WW) > S(b.hi, WW) \/ (a.hi = b.hi /\ a.lo >= b.lo)
int128_uge(a, b) == a.hi > b.hi \/ (a.hi = b.hi /\ a.lo >= b.lo)
clz128(a) == IF a.hi # 0 THEN clz(a.hi, WW) ELSE clz(a.lo, WW) + WW

(* int128.c: a quotient estimated from the upper words, at most 1 too big *)
Estimate(u, v, s) ==
    LET hi == int128_lshift(v, s).hi
    IN  IF hi > u.hi THEN int128_lshift(Pair(divu128(u, hi).q.lo, 0), s).hi
        ELSE int128_lshift(Pair(divu128(Pair(u.lo, u.hi - hi), hi).q.lo, 1), s).hi
Remains(u, q, back) ==
    [q |-> Pair(q, 0), r |-> Pair(u.lo - back.lo, u.hi - (back.hi + Bool(u.lo < back.lo)))]
Lowered(u, v, q, pq) == Remains(u, q, Pair(pq.lo, pq.hi + q * v.hi))
Verified(u, v, est, tmp, p, high) ==
    IF high < tmp \/ high > u.hi \/ (high = u.hi /\ p.lo > u.lo)
    THEN Lowered(u, v, U(est - 1, WW), mul64(U(est - 1, WW), v.lo))
    ELSE Remains(u, est, Pair(p.lo, high))
Product(u, v, est, tmp, p) == Verified(u, v, est, tmp, p, U(p.hi + tmp, WW))
Estimated(u, v, est) == Product(u, v, est, U(est * v.hi, WW), mul64(est, v.lo))
Easy(e) == [q |-> e.q, r |-> Pair(e.r, 0)]
divrem128(u, v) ==
    IF v.hi = 0 THEN Easy(divu128(u, v.lo)) ELSE Estimated(u, v, Estimate(u, v, clz(v.hi, WW)))
Magnitude(a) == IF S(a.hi, WW) < 0 THEN int128_neg(a) ELSE a
int128_divs(a, b) ==
    LET q == divrem128(Magnitude(a), Magnitude(b)).q
    IN  IF (S(a.hi, WW) < 0) # (S(b.hi, WW) < 0) THEN int128_neg(q) ELSE q
int128_rems(a, b) ==
    LET r == divrem128(Magnitude(a), Magnitude(b)).r
    IN  IF S(a.hi, WW) < 0 THEN int128_neg(r) ELSE r

----------------------------------------------------------------------------
(* The operands: one pair of words per state, the other operand ranges     *)
(* over every word or pair in the properties.                              *)
NoArg == [kind |-> "none", a |-> 0, b |-> 0]
Wides(a) == {[kind |-> "wide", a |-> a, b |-> b] : b \in Words}

UDivOk(u, p, d) == Value(u.q) * d + u.r = Value(p) /\ u.r < d
SDivOk(s, p, d) == SValue(s.q) = Quot(SValue(p), S(d, WW)) /\ S(s.r, WW) = Rem(SValue(p), S(d, WW))
DivExact(p, d) ==
    /\ UDivOk(divu128(p, d), p, d)
    \* the quotient of the most negative pair by -1 is not representable
    /\ SValue(p) # -(2^(2 * WW - 1)) => SDivOk(divs128(p, d), p, d)
DivRemOk(u, p, v) == Value(u.q) * Value(v) + Value(u.r) = Value(p) /\ Value(u.r) < Value(v)
PairExact(p, v) ==
    /\ DivRemOk(divrem128(p, v), p, v)
    /\ SValue(int128_divs(p, v)) = S(Quot(SValue(p), SValue(v)), 2 * WW)
    /\ SValue(int128_rems(p, v)) = Rem(SValue(p), SValue(v))
    /\ int128_add(p, v) = OfValue(Value(p) + Value(v))
    /\ int128_sub(p, v) = OfValue(Value(p) - Value(v))
    /\ int128_ge(p, v) = (SValue(p) >= SValue(v))
    /\ int128_uge(p, v) = (Value(p) >= Value(v))
ShiftExact(p, n) ==
    /\ urshift(p, n) = OfValue(Value(p) \div 2^n) /\ int128_urshift(p, n) = urshift(p, n)
    /\ int128_rshift(p, n) = OfValue(R_SHIFT(SValue(p), n))
    /\ int128_lshift(p, n) = OfValue(Value(p) * 2^n)
    /\ LET l == ulshift(p, n, FALSE)
       IN  l.p = OfValue(Value(p) * 2^n) /\ l.overflow = (Value(p) * 2^n >= 2^(2 * WW))
WordExact(x, y) ==
    /\ mul64(x, y) = OfValue(x * y) /\ muls64(x, y) = OfValue(S(x, WW) * S(y, WW))
    /\ \A c \in {0, 1} :
          /\ uadd64_carry(x, y, c) = [x |-> U(x + y + c, WW), c |-> (x + y + c) \div 2^WW]
          /\ usub64_borrow(x, y, c) = [x |-> U(x - y - c, WW), c |-> Bool(x < y + c)]
    /\ is_power_of_2(x) = (\E k \in 0 .. WW - 1 : x = 2^k)
    /\ pow2floor(x) = IF x = 0 THEN 0 ELSE Max({2^k : k \in {j \in 0 .. WW : 2^j <= x}})
    /\ pow2ceil(x) = U(Min({2^k : k \in {j \in 0 .. WW : 2^j >= x}}), WW)
    /\ pow2roundup32(x) = U(IF x = 0 THEN 1 ELSE 2 * pow2floor(x), WW)
    /\ clrsb(x, WW) = Max({n \in 0 .. WW - 1 : \A i \in 1 .. n : Bit(x, WW - 1 - i) = Bit(x, WW - 1)})
    /\ LET z == x + y * 2^WW
       IN  revbit8(z % 256) = OfBits({7 - i : i \in Bits(z, 8)})
    /\ half_shuffle(x % 16) = OfBits({2 * i : i \in Bits(x, 4)})
    /\ half_unshuffle(half_shuffle(x % 16)) = x % 16

(* Every division, multiplication, shift and comparison that is built out  *)
(* of single words equals the exact operation on the double-width value,   *)
(* for every pair of operands: in particular no intermediate sum of the    *)
(* digit corrections loses a carry, and no shift by zero or by a full word *)
(* goes wrong.                                                             *)
WideExact ==
    arg.kind = "wide" =>
        LET p == Pair(arg.a, arg.b)
        IN  /\ WordExact(arg.a, arg.b)
            /\ \A n \in 0 .. 2 * WW - 1 : ShiftExact(p, n)
            /\ \A d \in Words \ {0} : DivExact(p, d)
            /\ \A f \in Words : mulu128(p, f) =
                   [p |-> OfValue(Value(p) * f), overflow |-> Value(p) * f >= 2^(2 * WW)]
            /\ \A x \in Words, y \in Words : Pair(x, y) # Pair(0, 0) => PairExact(p, Pair(x, y))
            /\ int128_neg(p) = OfValue(-Value(p)) /\ clz128(p) = clz(Value(p), 2 * WW)
            /\ \A b \in 0 .. 2^HW - 1, c \in 1 .. 2^HW - 1, up \in BOOLEAN :
                   LET n == arg.a * b + (IF up THEN c - 1 ELSE 0)
                   IN  n < c * 2^WW => muldiv64_rounding(arg.a, b, c, up) = n \div c
=============================================================================
