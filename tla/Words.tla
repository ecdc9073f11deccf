-------------------------------- MODULE Words --------------------------------
(***************************************************************************)
(* Machine words of w bits, held as their unsigned value 0 .. 2^w - 1, and *)
(* the C operators on them.  A store truncates (U); a read through a       *)
(* signed type is S.                                                       *)
(***************************************************************************)
EXTENDS Integers, Sequences, FiniteSetsExt

U(x, w) == x % 2^w
S(x, w) == IF x % 2^w >= 2^(w - 1) THEN (x % 2^w) - 2^w ELSE x % 2^w
As(sgn, x, w) == IF sgn THEN S(x, w) ELSE U(x, w)

Bit(x, i) == (x \div 2^i) % 2
Bits(x, w) == {i \in 0 .. w - 1 : Bit(x, i) = 1}
OfBits(B) == SumSet({2^i : i \in B})
Bool(p) == IF p THEN 1 ELSE 0

(* Machine words as sets of bit positions *)
Not(x, w) == 2^w - 1 - U(x, w)
And(x, y, w) == OfBits(Bits(x, w) \cap Bits(y, w))
Or(x, y, w) == OfBits(Bits(x, w) \cup Bits(y, w))
Xor(x, y, w) == OfBits((Bits(x, w) \ Bits(y, w)) \cup (Bits(y, w) \ Bits(x, w)))

(* >> of a C integer: floor for a negative signed operand too *)
R_SHIFT(a, n) == a \div 2^n

Abs(n) == IF n < 0 THEN -n ELSE n

(* C division truncates toward zero, % has the sign of the dividend *)
Quot(n, m) == LET q == Abs(n) \div Abs(m)
              IN  IF (n < 0) = (m < 0) THEN q ELSE -q
Rem(n, m) == n - m * Quot(n, m)

(* host-utils.h: counts of leading zeros, trailing zeros and ones *)
clz(x, w) == IF x = 0 THEN w ELSE w - 1 - Max(Bits(x, w))
ctz(x, w) == IF x = 0 THEN w ELSE Min(Bits(x, w))
ctpop(x, w) == Cardinality(Bits(x, w))

(* bitops.h: the count is masked, and so is its negation, so that a count  *)
(* of 0 or of the full width shifts by 0 on both sides.                    *)
rol(x, n, w) == Or(U(x * 2^(n % w), w), x \div 2^((-n) % w), w)
ror(x, n, w) == Or(x \div 2^(n % w), U(x * 2^((-n) % w), w), w)
=============================================================================
