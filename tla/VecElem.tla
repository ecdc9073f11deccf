------------------------------- MODULE VecElem -------------------------------
(***************************************************************************)
(* The element operations of the LoongArch vector unit: the macros of      *)
(* vec.h, the shift, narrowing and saturating functions of vec_helper.c,   *)
(* the saturating and rotating element steps of tcg-runtime-gvec.c.        *)
(*                                                                         *)
(* An element of w bits is held as its unsigned value, 0 .. 2^w - 1.  The  *)
(* code reads it through a signed or an unsigned member of VReg: S(x, w)   *)
(* is the signed reading.  A store truncates: U(x, w).  The operators take *)
(* the width as a parameter; the code has one copy per width.              *)
(***************************************************************************)
EXTENDS Words

----------------------------------------------------------------------------
(* vec.h: a and b are already read with the signedness of the instruction *)

DO_VAVG(a, b) == R_SHIFT(a, 1) + R_SHIFT(b, 1) + Bit(a, 0) * Bit(b, 0)

DO_VAVGR(a, b) ==
    R_SHIFT(a, 1) + R_SHIFT(b, 1) + Bool(Bit(a, 0) = 1 \/ Bit(b, 0) = 1)

DO_VABSD(a, b) == IF a > b THEN a - b ELSE b - a
DO_VABS(a) == Abs(a)
DO_SIGNCOV(a, b) == IF a = 0 THEN 0 ELSE IF a < 0 THEN -b ELSE b

(* The guards of the helper macros.  N == -N holds of the most negative    *)
(* value and of 0 when the negation is taken in the type of N.             *)
NegatesToItself(n, w) == U(-n, w) = U(n, w)
DO_DIV(n, m, w) ==
    IF m = 0 THEN 0
    ELSE IF NegatesToItself(n, w) /\ m = -1 THEN n ELSE Quot(n, m)
DO_REM(n, m, w) ==
    IF m = 0 THEN 0
    ELSE IF NegatesToItself(n, w) /\ m = -1 THEN 0 ELSE Rem(n, m)

(* interpreter.c guards only the zero divisor.  The quotient of the most   *)
(* negative value by -1 in a type at least as wide as int is undefined.    *)
UNDEFINED == 2^20       \* no element has this value
SAFE_DIV_MOD(n, m, w, isDiv, atLeastInt) ==
    IF m = 0 THEN 0
    ELSE IF atLeastInt /\ m = -1 /\ n = -(2^(w - 1)) THEN UNDEFINED
    ELSE IF isDiv THEN Quot(n, m) ELSE Rem(n, m)

(* clz32 of a value in a register of W bits; DO_CLZ_B is clz32(N) - 24 *)
DO_CLZ(x, w, W) == clz(x, W) - (W - w)
DO_CLO(x, w, W) == clz(And(Not(x, W), 2^w - 1, W), W) - (W - w)

SHF_POS(i, imm) == 4 * (i \div 4) + ((imm \div 4^(i % 4)) % 4)

----------------------------------------------------------------------------
(* tcg-runtime-gvec.c.  The narrow forms clamp an int result; the 32 and   *)
(* 64-bit forms detect overflow and choose the bound from the wrapped sum. *)

ClampInt(r, w) == IF r > 2^(w - 1) - 1 THEN 2^(w - 1) - 1
                  ELSE IF r < -(2^(w - 1)) THEN -(2^(w - 1)) ELSE r
WrapOrBound(r, w) ==
    LET di == S(r, w)
    IN  IF di = r THEN di ELSE IF di < 0 THEN 2^(w - 1) - 1 ELSE -(2^(w - 1))

gvec_ssadd(a, b, w, narrow) ==
    IF narrow THEN ClampInt(a + b, w) ELSE WrapOrBound(a + b, w)
gvec_sssub(a, b, w, narrow) ==
    IF narrow THEN ClampInt(a - b, w) ELSE WrapOrBound(a - b, w)
gvec_usadd(a, b, w, narrow) ==
    IF narrow THEN IF a + b > 2^w - 1 THEN 2^w - 1 ELSE a + b
    ELSE IF U(a + b, w) # a + b THEN 2^w - 1 ELSE U(a + b, w)
gvec_ussub(a, b, w, narrow) ==
    IF narrow THEN IF a - b < 0 THEN 0 ELSE a - b
    ELSE IF a - b < 0 THEN 0 ELSE U(a - b, w)

----------------------------------------------------------------------------
(* vec_helper.c: rounding shifts.  sh is already reduced modulo the width. *)

do_vsrlr(x, sh, w) ==
    IF sh = 0 THEN x ELSE U(R_SHIFT(x, sh) + Bit(R_SHIFT(x, sh - 1), 0), w)
do_vsrar(x, sh, w) ==
    IF sh = 0 THEN x ELSE R_SHIFT(x, sh) + Bit(R_SHIFT(x, sh - 1), 0)

(* Saturating narrowing of an element of w bits to w/2.  The L forms take  *)
(* the unsigned value, the A forms the signed one; ...S saturates to the   *)
(* signed range of the narrow element, ...U to its unsigned range.         *)
Mask(sh) == 2^sh - 1
CapAbove(r, sh) == IF r > Mask(sh) THEN Mask(sh) ELSE r
CapBoth(r, sh) ==
    IF r > Mask(sh) THEN Mask(sh) ELSE IF r < -(Mask(sh) + 1) THEN -(Mask(sh) + 1) ELSE r

do_ssrlns(x, sa, w) == CapAbove(IF sa = 0 THEN x ELSE R_SHIFT(x, sa), w \div 2 - 1)
do_ssrans(x, sa, w) == CapBoth(IF sa = 0 THEN x ELSE R_SHIFT(x, sa), w \div 2 - 1)
do_ssrlnu(x, sa, w) == CapAbove(IF sa = 0 THEN x ELSE R_SHIFT(x, sa), w \div 2)
\* Mutant: a negative value is not clipped to zero.
NegativeKept(x, sa, w) == CapAbove(U(IF sa = 0 THEN x ELSE R_SHIFT(x, sa), w), w \div 2)
do_ssranu(x, sa, w) ==
    LET r == U(IF sa = 0 THEN x ELSE R_SHIFT(x, sa), w)
    IN  CapAbove(IF x < 0 THEN 0 ELSE r, w \div 2)

do_ssrlrns(x, sa, w) == CapAbove(do_vsrlr(x, sa, w), w \div 2 - 1)
do_ssrarns(x, sa, w) == CapBoth(do_vsrar(x, sa, w), w \div 2 - 1)
do_ssrlrnu(x, sa, w) == CapAbove(do_vsrlr(x, sa, w), w \div 2)
do_ssrarnu(x, sa, w) ==
    CapAbove(IF x < 0 THEN 0 ELSE U(do_vsrar(x, sa, w), w), w \div 2)

(* vsat: the interpreter turns the immediate into the bound.  ~max in the  *)
(* element type is the lower bound; the unsigned bound of the widest       *)
(* immediate is all ones, computed apart because the shift would overflow. *)
sat_max(imm) == 2^imm - 1
VSAT_S(x, max) == IF x > max THEN max ELSE IF x < -max - 1 THEN -max - 1 ELSE x
satu_max(imm, w) == IF imm = w - 1 THEN 2^w - 1 ELSE 2^(imm + 1) - 1
VSAT_U(x, max) == IF x > max THEN max ELSE x

(* High half of the product: the wide product shifted down *)
DO_VMUH(a, b, w) == R_SHIFT(a * b, w)

----------------------------------------------------------------------------
(* The gathering of one bit per byte in a 64-bit word, with the word as    *)
(* the set of its bit positions.  Shl drops the bits above the word.       *)
Word == 0 .. 63
Shl(B, n) == {i + n : i \in B} \cap Word
Spread(c) ==
    LET c1 == c \cup Shl(c, 7)
        c2 == c1 \cup Shl(c1, 14)
    IN  c2 \cup Shl(c2, 28)
TopByte(c) == {i - 56 : i \in {j \in c : j >= 56}}

ByteSigns == {7, 15, 23, 31, 39, 47, 55, 63}
do_vmskltz_b(B) == TopByte(Spread(B \cap ByteSigns))

(* (a & m) + m with m = 0x7f..7f never carries out of a byte: bit 7 of a   *)
(* byte of the sum is set exactly when one of its low seven bits is.       *)
do_vmskez_b(B) ==
    TopByte(Spread({s \in ByteSigns : s \notin B /\ \A i \in s - 7 .. s - 1 : i \notin B}))

(* Is some byte of n, an array of bytes, zero?  n ^ broadcast(0) = n, and  *)
(* the test is (n - ones) & ~n & signs; the borrow of a byte starts at the *)
(* first zero byte and runs through the bytes above it.                    *)
do_match2(n, w) ==
    LET N == 2^w
        word == n[0] + N * n[1]
        ones == 1 + N
        c == (word - ones) % (N * N)
    IN  \E k \in 0 .. 1 : Bit(c \div N^k, w - 1) = 1 /\ Bit(n[k], w - 1) = 0

(* vldi with bit 12 of the immediate set: B is the low byte of the         *)
(* immediate, as a set of bits, and mode its bits 11:8.                    *)
vldi_get_value(mode, B) ==
    LET t(n) == {i + n : i \in B}
        low(n) == {i + n : i \in B \cap 0 .. 5}
        \* (b7 << k) | ((1 - b6) << (k-1)) | (b6 ? all ones below : 0)
        exp(k, n) == {k + n : i \in B \cap {7}}
                     \cup (IF 6 \in B THEN n .. n + k - 2 ELSE {k - 1 + n})
    IN  CASE mode = 0  -> t(32) \cup t(0)
          [] mode = 1  -> t(40) \cup t(8)
          [] mode = 2  -> t(48) \cup t(16)
          [] mode = 3  -> t(56) \cup t(24)
          [] mode = 4  -> t(48) \cup t(32) \cup t(16) \cup t(0)
          [] mode = 5  -> t(56) \cup t(40) \cup t(24) \cup t(8)
          [] mode = 6  -> t(40) \cup 32 .. 39 \cup t(8) \cup 0 .. 7
          [] mode = 7  -> t(48) \cup 32 .. 47 \cup t(16) \cup 0 .. 15
          [] mode = 8  -> UNION {t(8 * k) : k \in 0 .. 7}
          [] mode = 9  -> UNION {8 * b .. 8 * b + 7 : b \in B}
          [] mode = 10 -> exp(6, 57) \cup low(51) \cup exp(6, 25) \cup low(19)
          [] mode = 11 -> exp(6, 25) \cup low(19)
          [] mode = 12 -> exp(9, 54) \cup low(48)
=============================================================================
