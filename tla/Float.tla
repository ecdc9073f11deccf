-------------------------------- MODULE Float --------------------------------
(***************************************************************************)
(* softfloat.c: an operation unpacks its operands into sign, exponent and  *)
(* a left-aligned fraction word, works on those parts, and rounds and      *)
(* packs the result; for add, sub, mul, div, fused multiply-add, square    *)
(* root and conversion from integers the host's floating-point unit is     *)
(* used instead when no flag can be lost by it (hardfloat).                *)
(*                                                                         *)
(* The fraction word has FN bits (64 in the code) and a format is any      *)
(* [e, f] with f + 3 <= FN.  What no front end of this emulator reads is   *)
(* left out: the sub-flags of invalid, the input-denormal flags (so the    *)
(* classes normal and denormal are one), and the modes neither front end   *)
(* selects (flush to zero, rebias, default-NaN mode, tininess before       *)
(* rounding, round to odd).                                                *)
(*                                                                         *)
(* A status is [mode, flags, nan]: nan says whether the target has chosen  *)
(* its NaN rules and its default NaN ("set", LoongArch: restore_fp_status) *)
(* or left them zero ("unset", RISC-V), where needing one ends in abort(). *)
(***************************************************************************)
EXTENDS Ieee, HostUtils

CONSTANT FN          \* bits in a fraction word

ASSUME FloatAssumption == FN \in Nat /\ FN >= 6

Modes == {"ne", "tz", "up", "dn", "ta"}
ABORT == 2^20        \* the emulator ends in abort()

IMPLICIT == 2^(FN - 1)
frac_shift(F) == FN - F.f - 1

Parts(cls, sign, exp, frac) == [cls |-> cls, sign |-> sign, exp |-> exp, frac |-> frac]
Res(p, fl) == [p |-> p, fl |-> fl]
Sgn(s) == Bool(s)

is_nan(p) == p.cls \in {"qnan", "snan"}
Only(ps, c) == \A p \in ps : p.cls = c
Some(ps, c) == \E p \in ps : p.cls = c
anynan(ps) == \E p \in ps : is_nan(p)
infzero(ps) == Some(ps, "inf") /\ Some(ps, "zero") /\ \A p \in ps : p.cls \in {"inf", "zero"}

unpack_raw(v, F) == Parts("raw", NegBit(v, F) = 1, ExpField(v, F), FracField(v, F))
pack_raw(p, F) == IF p.cls = "abort" THEN ABORT
                  ELSE OfFields(Sgn(p.sign), p.exp % 2^F.e, p.frac % 2^F.f, F)

----------------------------------------------------------------------------
(* The fraction word, of n bits (FN, or 2 * FN in muladd) *)

Jam(q, sticky) == IF sticky /\ q % 2 = 0 THEN q + 1 ELSE q
frac_add(a, b, n) == U(a + b, n)
frac_carry(a, b, n) == a + b >= 2^n
frac_sub(a, b, n) == U(a - b, n)
frac_neg(a, n) == U(-a, n)
frac_shl(a, c, n) == U(a * 2^c, n)
frac_shr(a, c) == a \div 2^c
frac_shrjam(a, c, n) == IF c = 0 THEN a
                        ELSE IF c < n THEN Jam(a \div 2^c, a % 2^c # 0)
                        ELSE Bool(a # 0)
frac_mulw(a, b) == a * b
frac_truncjam(w) == Jam(w \div 2^FN, w % 2^FN # 0)
frac_widen(a) == a * 2^FN

(* a / b in one word: a is doubled first when it is the smaller one.  The  *)
(* quotient and the remainder are udiv_qrnnd's, exact by WideExact.        *)
frac_div(a, b) ==
    LET less == a < b
        n == IF less THEN a * 2^FN ELSE a * 2^(FN - 1)
    IN  [frac |-> Jam(n \div b, n % b # 0), less |-> Bool(less)]

----------------------------------------------------------------------------
(* NaNs *)

default_nan(nan) == IF nan = "set" THEN Parts("qnan", FALSE, 2^10, 2^(FN - 2))
                    ELSE Parts("abort", FALSE, 0, 0)
is_snan_frac(frac) == Bit(frac, FN - 2) = 0
silence_nan(p) == IF p.cls = "snan" THEN [p EXCEPT !.cls = "qnan", !.frac = @ + 2^(FN - 2)]
                  ELSE p
return_nan(p) == Res(silence_nan(p), IF p.cls = "snan" THEN {"invalid"} ELSE {})

(* float_2nan_prop_s_ab *)
pick_nan(a, b, st) ==
    LET snan == Some({a, b}, "snan")
        ret == IF snan THEN (IF a.cls = "snan" THEN a ELSE b)
               ELSE IF is_nan(a) THEN a ELSE b
    IN  Res(IF st.nan = "set" THEN silence_nan(ret) ELSE default_nan(st.nan),
            IF snan THEN {"invalid"} ELSE {})

(* float_3nan_prop_s_cab, float_infzeronan_dnan_never.  In the unset case  *)
(* infinity * 0 + NaN has no valid rule either.                            *)
pick_nan_muladd(a, b, c, st) ==
    LET snan == Some({a, b, c}, "snan")
        order == <<c, a, b>>
        picked == Min({i \in 1 .. 3 : IF snan THEN order[i].cls = "snan" ELSE is_nan(order[i])})
        ret == IF infzero({a, b}) THEN c ELSE order[picked]
    IN  Res(IF st.nan = "set" THEN silence_nan(ret) ELSE default_nan(st.nan),
            IF snan \/ infzero({a, b}) THEN {"invalid"} ELSE {})

----------------------------------------------------------------------------
(* Unpacking and packing *)

canonicalize(p, F) ==
    LET shift == clz(p.frac, FN)
    IN  IF p.exp = 0
        THEN IF p.frac = 0 THEN [p EXCEPT !.cls = "zero"]
             ELSE Parts("normal", p.sign, frac_shift(F) - F.bias - shift + 1,
                        frac_shl(p.frac, shift, FN))
        ELSE IF p.exp < F.top
        THEN Parts("normal", p.sign, p.exp - F.bias,
                   frac_shl(p.frac, frac_shift(F), FN) + IMPLICIT)
        ELSE IF p.frac = 0 THEN [p EXCEPT !.cls = "inf"]
        ELSE LET m == frac_shl(p.frac, frac_shift(F), FN)
             IN  [p EXCEPT !.frac = m, !.cls = IF is_snan_frac(m) THEN "snan" ELSE "qnan"]

round_inc(frac, sign, mode, shift) ==
    LET half == 2^(shift - 1)
    IN  CASE mode = "ne" -> IF frac % 2^(shift + 1) # half THEN half ELSE 0
          [] mode = "ta" -> half
          [] mode = "tz" -> 0
          [] mode = "up" -> IF sign THEN 0 ELSE 2^shift - 1
          [] mode = "dn" -> IF sign THEN 2^shift - 1 ELSE 0
overflow_norm(sign, mode) == \/ mode = "tz"
                             \/ mode = "up" /\ sign
                             \/ mode = "dn" /\ ~sign
Cleared(frac, shift) == frac - (frac % 2^shift)

uncanon_normal(p, mode, F) ==
    LET sh == frac_shift(F)
        exp == p.exp + F.bias
        inc(m) == round_inc(m, p.sign, mode, sh)
        inexact(m) == m % 2^sh # 0
        carry == inexact(p.frac) /\ frac_carry(p.frac, inc(p.frac), FN)
        sum == frac_add(p.frac, inc(p.frac), FN)
        up == IF carry THEN frac_shr(sum, 1) + IMPLICIT
              ELSE IF inexact(p.frac) THEN sum ELSE p.frac
        e == exp + Bool(carry)
        tiny == exp < 0 \/ ~frac_carry(p.frac, inc(p.frac), FN)
        low == frac_shrjam(p.frac, 1 - exp, FN)
        sub == IF inexact(low) THEN Cleared(frac_add(low, inc(low), FN), sh) ELSE low
    IN  IF exp > 0
        THEN IF e >= F.top
             THEN Res(IF overflow_norm(p.sign, mode)
                      THEN Parts("normal", p.sign, F.top - 1, 2^F.f - 1)
                      ELSE Parts("inf", p.sign, F.top, 0), {"overflow", "inexact"})
             ELSE Res(Parts("normal", p.sign, e, frac_shr(Cleared(up, sh), sh)),
                      IF inexact(p.frac) THEN {"inexact"} ELSE {})
        ELSE Res(Parts("normal", p.sign, Bool(sub >= IMPLICIT), frac_shr(sub, sh)),
                 (IF inexact(low) THEN {"inexact"} ELSE {})
                 \cup (IF inexact(low) /\ tiny THEN {"underflow"} ELSE {}))
uncanon(p, mode, F) ==
    CASE p.cls = "normal" -> uncanon_normal(p, mode, F)
      [] p.cls = "zero" -> Res([p EXCEPT !.exp = 0, !.frac = 0], {})
      [] p.cls = "inf" -> Res([p EXCEPT !.exp = F.top, !.frac = 0], {})
      [] is_nan(p) -> Res([p EXCEPT !.exp = F.top, !.frac = frac_shr(@, frac_shift(F))], {})
      [] OTHER -> Res(p, {})

unpack_canonical(v, F) == canonicalize(unpack_raw(v, F), F)
round_pack_canonical(r, st, F) ==
    LET q == uncanon(r.p, st.mode, F) IN Ans(pack_raw(q.p, F), r.fl \cup q.fl)

----------------------------------------------------------------------------
(* Operations on parts *)

add_normal(a, b, n) ==
    LET d == a.exp - b.exp
        x == IF d < 0 THEN frac_shrjam(a.frac, -d, n) ELSE a.frac
        y == IF d > 0 THEN frac_shrjam(b.frac, d, n) ELSE b.frac
        e == IF d < 0 THEN b.exp ELSE a.exp
        s == frac_add(x, y, n)
    IN  IF frac_carry(x, y, n)
        THEN [a EXCEPT !.exp = e + 1, !.frac = frac_shrjam(s, 1, n) + 2^(n - 1)]
        ELSE [a EXCEPT !.exp = e, !.frac = s]

(* The class is "zero" when the difference is exactly zero *)
sub_normal(a, b, n) ==
    LET d == a.exp - b.exp
        flip == d < 0 \/ (d = 0 /\ a.frac < b.frac)
        m == IF d > 0 THEN frac_sub(a.frac, frac_shrjam(b.frac, d, n), n)
             ELSE IF d < 0 THEN frac_sub(b.frac, frac_shrjam(a.frac, -d, n), n)
             ELSE IF flip THEN frac_neg(frac_sub(a.frac, b.frac, n), n)
             ELSE frac_sub(a.frac, b.frac, n)
        shift == clz(m, n)
    IN  [a EXCEPT !.sign = (@ # flip),
                  !.exp = (IF d < 0 THEN b.exp ELSE a.exp) - shift,
                  !.frac = frac_shl(m, shift, n),
                  !.cls = IF m = 0 THEN "zero" ELSE @]

parts_addsub(a, b, subtract, st) ==
    LET b_sign == b.sign # subtract
        d == sub_normal(a, b, FN)
        nullsum == [a EXCEPT !.cls = "zero", !.sign = (st.mode = "dn")]
        other == IF b.cls = "zero" THEN a ELSE [b EXCEPT !.sign = b_sign]
    IN  IF Only({a, b}, "normal")
        THEN Res(IF a.sign = b_sign THEN add_normal(a, b, FN)
                 ELSE IF d.cls = "normal" THEN d ELSE nullsum, {})
        ELSE IF Only({a, b}, "zero") THEN Res(IF a.sign = b_sign THEN a ELSE nullsum, {})
        ELSE IF anynan({a, b}) THEN pick_nan(a, b, st)
        ELSE IF Only({a, b}, "inf") /\ a.sign # b_sign
             THEN Res(default_nan(st.nan), {"invalid"})
        ELSE IF a.cls = "inf" THEN Res(a, {})
        ELSE IF b.cls = "inf" THEN Res([b EXCEPT !.sign = b_sign], {})
        ELSE Res(other, {})

parts_mul(a, b, st) ==
    LET sign == a.sign # b.sign
        m == frac_truncjam(frac_mulw(a.frac, b.frac))
    IN  IF Only({a, b}, "normal")
        THEN Res(IF m >= IMPLICIT THEN Parts("normal", sign, a.exp + b.exp + 1, m)
                 ELSE Parts("normal", sign, a.exp + b.exp, frac_add(m, m, FN)), {})
        ELSE IF infzero({a, b}) THEN Res(default_nan(st.nan), {"invalid"})
        ELSE IF anynan({a, b}) THEN pick_nan(a, b, st)
        ELSE Res(Parts(IF Some({a, b}, "inf") THEN "inf" ELSE "zero", sign, 0, 0), {})

(* negs: which of the addend "c", the "product" and the "result" to negate *)
parts_muladd(a, b, c, negs, st) ==
    LET psign == (a.sign # b.sign) # ("product" \in negs)
        cc == [c EXCEPT !.sign = (@ # ("c" \in negs))]
        w == frac_mulw(a.frac, b.frac)
        prod == IF w >= 2^(2 * FN - 1) THEN Parts("normal", psign, a.exp + b.exp + 1, w)
                ELSE Parts("normal", psign, a.exp + b.exp, frac_add(w, w, 2 * FN))
        wide == [cc EXCEPT !.frac = frac_widen(@)]
        sum == IF c.cls = "zero" THEN prod
               ELSE IF psign = cc.sign THEN add_normal(prod, wide, 2 * FN)
               ELSE sub_normal(prod, wide, 2 * FN)
        narrow == [sum EXCEPT !.frac = frac_truncjam(@)]
        nil(s) == Parts("zero", s, 0, 0)
        out(p) == Res([p EXCEPT !.sign = (@ # ("result" \in negs))], {})
    IN  IF anynan({a, b, c}) THEN pick_nan_muladd(a, b, c, st)
        ELSE IF infzero({a, b}) THEN Res(default_nan(st.nan), {"invalid"})
        ELSE IF Some({a, b}, "inf")
             THEN IF c.cls = "inf" /\ psign # cc.sign THEN Res(default_nan(st.nan), {"invalid"})
                  ELSE out(Parts("inf", psign, 0, 0))
        ELSE IF c.cls = "inf" THEN out(cc)
        ELSE IF Some({a, b}, "zero")
             THEN IF c.cls = "normal" THEN out(cc)
                  ELSE out(nil(IF psign = cc.sign THEN psign ELSE st.mode = "dn"))
        ELSE IF sum.cls = "zero" THEN out(nil(st.mode = "dn"))
        ELSE out(narrow)

parts_div(a, b, st) ==
    LET sign == a.sign # b.sign
        q == frac_div(a.frac, b.frac)
    IN  IF Only({a, b}, "normal")
        THEN Res(Parts("normal", sign, a.exp - b.exp - q.less, q.frac), {})
        ELSE IF Only({a, b}, "zero") \/ Only({a, b}, "inf")
             THEN Res(default_nan(st.nan), {"invalid"})
        ELSE IF anynan({a, b}) THEN pick_nan(a, b, st)
        ELSE IF a.cls \in {"inf", "zero"} THEN Res([a EXCEPT !.sign = sign], {})
        ELSE IF b.cls = "inf" THEN Res(Parts("zero", sign, 0, 0), {})
        ELSE Res(Parts("inf", sign, 0, 0), {"divbyzero"})

(* Root stands for the table and the Newton iterations: the root of m, a   *)
(* fixed-point number in [1, 4), with an inexact root marked in its lsb.   *)
Root(m) == LET n == m * 2^(FN - 2) s == Isqrt(n) IN Jam(s, s * s # n)
parts_sqrt(a, st) ==
    LET m == IF a.exp % 2 = 1 THEN a.frac ELSE frac_shr(a.frac, 1)
        s == Root(m)
    IN  IF is_nan(a) THEN return_nan(a)
        ELSE IF a.cls = "zero" \/ (a.cls = "inf" /\ ~a.sign) THEN Res(a, {})
        ELSE IF a.sign THEN Res(default_nan(st.nan), {"invalid"})
        ELSE IF s >= IMPLICIT THEN Res(Parts("normal", FALSE, (a.exp \div 2) + 1, s), {})
        ELSE Res(Parts("normal", FALSE, a.exp \div 2, frac_add(s, s, FN)), {})
=============================================================================
