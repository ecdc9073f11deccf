------------------------------ MODULE FloatOps ------------------------------
(***************************************************************************)
(* The rest of softfloat.c's operations (rounding to an integer, integer   *)
(* and format conversions, minimum and maximum, comparison, scaling,       *)
(* logarithm), the entry points with their hardfloat shortcuts, and what   *)
(* they all must agree with: one correctly rounded IEEE operation.         *)
(***************************************************************************)
EXTENDS Float

(* TRUE in inexact: the value was changed *)
round_to_int_normal(p, mode, scale, frac_size) ==
    LET a == [p EXCEPT !.exp = @ + scale]
        one == CASE mode = "ne" -> a.exp = -1 /\ frac_add(a.frac, a.frac, FN) # 0
                 [] mode = "ta" -> a.exp = -1
                 [] mode = "tz" -> FALSE
                 [] mode = "up" -> ~a.sign
                 [] mode = "dn" -> a.sign
        sh == FN - 1 - a.exp
        inc == round_inc(a.frac, a.sign, mode, sh)
        sum == frac_add(a.frac, inc, FN)
    IN  IF a.exp < 0
        THEN [p |-> IF one THEN Parts("normal", a.sign, 0, IMPLICIT)
                    ELSE Parts("zero", a.sign, 0, 0), inexact |-> TRUE]
        ELSE IF a.exp >= frac_size \/ a.frac % 2^sh = 0 THEN [p |-> a, inexact |-> FALSE]
        ELSE IF frac_carry(a.frac, inc, FN)
        THEN [p |-> [a EXCEPT !.exp = @ + 1, !.frac = Cleared(frac_shr(sum, 1) + IMPLICIT, sh)],
              inexact |-> TRUE]
        ELSE [p |-> [a EXCEPT !.frac = Cleared(sum, sh)], inexact |-> TRUE]
parts_round_to_int(p, mode, F) ==
    LET r == round_to_int_normal(p, mode, 0, F.f)
    IN  IF is_nan(p) THEN return_nan(p)
        ELSE IF p.cls # "normal" THEN Res(p, {})
        ELSE Res(r.p, IF r.inexact THEN {"inexact"} ELSE {})

(* The integer a rounded value stands for; beyond the word, all ones *)
IntOf(p) == IF p.cls = "zero" THEN 0
            ELSE IF p.exp <= FN - 1 THEN frac_shr(p.frac, FN - 1 - p.exp) ELSE 2^FN - 1
float_to_sint(p, mode, scale, lo, hi) ==
    LET r == round_to_int_normal(p, mode, scale, FN - 2)
        n == IntOf(r.p)
        exact == IF r.inexact THEN {"inexact"} ELSE {}
    IN  IF is_nan(p) THEN Ans(hi, {"invalid"})
        ELSE IF p.cls = "inf" THEN Ans(IF p.sign THEN lo ELSE hi, {"invalid"})
        ELSE IF p.cls = "zero" THEN Ans(0, {})
        ELSE IF p.sign THEN (IF n <= -lo THEN Ans(-n, exact) ELSE Ans(lo, {"invalid"}))
        ELSE IF n > hi THEN Ans(hi, {"invalid"})
        ELSE Ans(n, exact)
float_to_uint(p, mode, scale, hi) ==
    LET r == round_to_int_normal(p, mode, scale, FN - 2)
        exact == IF r.inexact THEN {"inexact"} ELSE {}
    IN  IF is_nan(p) THEN Ans(hi, {"invalid"})
        ELSE IF p.cls = "inf" THEN Ans(IF p.sign THEN 0 ELSE hi, {"invalid"})
        ELSE IF p.cls = "zero" THEN Ans(0, {})
        ELSE IF r.p.cls = "zero" THEN Ans(0, exact)
        ELSE IF p.sign THEN Ans(0, {"invalid"})
        ELSE IF r.p.exp > FN - 1 \/ IntOf(r.p) > hi THEN Ans(hi, {"invalid"})
        ELSE Ans(IntOf(r.p), exact)
sint_to_float(n, scale) ==
    LET f == U(Abs(n), FN)
        shift == clz(f, FN)
    IN  IF n = 0 THEN Parts("zero", FALSE, 0, 0)
        ELSE Parts("normal", n < 0, FN - 1 - shift + scale, frac_shl(f, shift, FN))
uint_to_float(n, scale) ==
    LET shift == clz(n, FN)
    IN  IF n = 0 THEN Parts("zero", FALSE, 0, 0)
        ELSE Parts("normal", FALSE, FN - 1 - shift + scale, frac_shl(n, shift, FN))

(* flags \subseteq {"ismin", "isnum", "ismag", "isnumber"} *)
parts_minmax(a, b, flags, st) ==
    LET rank(p) == CASE p.cls = "inf" -> 2^12 [] p.cls = "zero" -> -(2^12) [] OTHER -> p.exp
        number == IF is_nan(a) THEN b ELSE a
        mag == IF rank(a) # rank(b) THEN rank(a) - rank(b) ELSE a.frac - b.frac
        cmp == IF "ismag" \in flags /\ mag # 0 THEN mag
               ELSE IF a.sign # b.sign THEN (IF a.sign THEN -1 ELSE 1)
               ELSE IF a.sign THEN -mag ELSE mag
        less == IF "ismin" \in flags THEN -cmp < 0 ELSE cmp < 0
    IN  IF anynan({a, b})
        THEN IF {"isnum", "isnumber"} \cap flags # {} /\ ~Some({a, b}, "snan")
                /\ \E p \in {a, b} : p.cls # "qnan"
             THEN Res(number, {})
             ELSE IF "isnumber" \in flags /\ Some({a, b}, "snan") /\ \E p \in {a, b} : ~is_nan(p)
             THEN Res(number, {"invalid"})
             ELSE pick_nan(a, b, st)
        ELSE Res(IF less THEN b ELSE a, {})

parts_compare(a, b, quiet) ==
    LET bySign(p, pos, neg) == IF p.sign THEN neg ELSE pos
        mag == IF a.exp # b.exp THEN a.exp - b.exp ELSE a.frac - b.frac
        cmp == IF a.sign THEN -mag ELSE mag
        rel == IF Only({a, b}, "normal") /\ a.sign = b.sign
               THEN IF cmp < 0 THEN "less" ELSE IF cmp = 0 THEN "equal" ELSE "greater"
               ELSE IF Only({a, b}, "normal") THEN bySign(a, "greater", "less")
               ELSE IF Only({a, b}, "zero") THEN "equal"
               ELSE IF a.cls = "zero" THEN bySign(b, "less", "greater")
               ELSE IF b.cls = "zero" THEN bySign(a, "greater", "less")
               ELSE IF Only({a, b}, "inf") /\ a.sign = b.sign THEN "equal"
               ELSE IF ~Only({a, b}, "inf") /\ b.cls = "inf" THEN bySign(b, "less", "greater")
               ELSE bySign(a, "greater", "less")
    IN  IF anynan({a, b})
        THEN Ans("unordered", IF Some({a, b}, "snan") \/ ~quiet THEN {"invalid"} ELSE {})
        ELSE Ans(rel, {})

parts_scalbn(p, n) == IF is_nan(p) THEN return_nan(p)
                      ELSE IF p.cls = "normal" THEN Res([p EXCEPT !.exp = @ + n], {})
                      ELSE Res(p, {})

(* One digit of the logarithm per turn, by squaring; w is a0 and a1.  When *)
(* the exponent is 0 the first 1 found restarts the fraction.              *)
log2_turn(s, n, a_exp) ==
    LET a0 == s.w \div 2^FN
        sq == IF s.w % 2^FN # 0 THEN (s.w * s.w) \div 2^(2 * FN) ELSE a0 * a0
        bit == sq >= 2^(2 * FN - 1)
    IN  IF s.i >= n \/ s.exact THEN s
        ELSE IF s.w = 2^(2 * FN - 1) THEN [s EXCEPT !.exact = TRUE]
        ELSE IF bit /\ a_exp = 0 /\ s.r = 0
        THEN [s EXCEPT !.w = sq, !.f_exp = @ - s.i, !.r = IMPLICIT, !.t = IMPLICIT \div 2, !.i = 1]
        ELSE [s EXCEPT !.w = IF bit THEN sq ELSE U(2 * sq, 2 * FN),
                       !.r = IF bit THEN Or(@, s.t, FN) ELSE @,
                       !.t = @ \div 2, !.i = @ + 1]
parts_log2(a, st, F) ==
    LET n == IF a.exp = -1 THEN Min({F.f * 2 + 2, FN - 2}) ELSE F.f + 2
        turns[k \in 0 .. 2 * n + 1] ==
            IF k = 0 THEN [w |-> a.frac * 2^FN, r |-> 0, t |-> IMPLICIT, i |-> 0,
                           f_exp |-> -1, exact |-> FALSE]
            ELSE LET p == turns[k - 1] IN log2_turn(p, n, a.exp)
        s == turns[2 * n + 1]
        r == Jam(s.r, ~s.exact /\ s.w # 2^(2 * FN - 1))
        shift == clz(r, FN)
        f == Parts("normal", FALSE, s.f_exp - shift, frac_shl(r, shift, FN))
        whole == sint_to_float(a.exp, 0)
    IN  IF is_nan(a) THEN return_nan(a)
        ELSE IF a.cls = "zero" THEN Res(Parts("inf", TRUE, 0, 0), {"divbyzero"})
        ELSE IF a.sign THEN Res(default_nan(st.nan), {"invalid"})
        ELSE IF a.cls = "inf" THEN Res(a, {})
        ELSE IF r = 0 THEN Res(whole, {})
        ELSE IF a.exp < 0 THEN Res(sub_normal(whole, f, FN), {})
        ELSE IF a.exp > 0 THEN Res(add_normal(whole, f, FN), {})
        ELSE Res(f, {})

----------------------------------------------------------------------------
(* The entry points, for any format F *)

soft_addsub(a, b, subtract, st, F) ==
    round_pack_canonical(parts_addsub(unpack_canonical(a, F), unpack_canonical(b, F),
                                      subtract, st), st, F)
soft_mul(a, b, st, F) ==
    round_pack_canonical(parts_mul(unpack_canonical(a, F), unpack_canonical(b, F), st), st, F)
soft_div(a, b, st, F) ==
    round_pack_canonical(parts_div(unpack_canonical(a, F), unpack_canonical(b, F), st), st, F)
soft_sqrt(a, st, F) == round_pack_canonical(parts_sqrt(unpack_canonical(a, F), st), st, F)

can_use_fpu(st) == "inexact" \in st.flags /\ st.mode = "ne"
is_zero_or_normal(v, F) == IsZero(v, F) \/ IsNormal(v, F)
is_zon2(a, b, F) == is_zero_or_normal(a, F) /\ is_zero_or_normal(b, F)
addsubmul_post(a, b, F) == ~(IsZero(a, F) /\ IsZero(b, F))
div_pre(a, b, F) == is_zero_or_normal(a, F) /\ IsNormal(b, F)
div_post(a, b, F) == ~IsZero(a, F)
MinNormal(F) == 2^F.f

(* The host rounds to nearest even; what it returns decides whether a flag *)
(* other than inexact is at stake.                                         *)
\* Mutant: a host result equal to the smallest normal number is taken.
Gen2AtMin(hard, soft, pre, post, st, F) ==
    IF ~can_use_fpu(st) \/ ~pre THEN soft
    ELSE IF IsInf(hard, F) THEN Ans(hard, {"overflow"})
    ELSE IF Mag(hard, F) < MinNormal(F) /\ post THEN soft
    ELSE Ans(hard, {})
gen2(hard, soft, pre, post, st, F) ==
    IF ~can_use_fpu(st) \/ ~pre THEN soft
    ELSE IF IsInf(hard, F) THEN Ans(hard, {"overflow"})
    ELSE IF Mag(hard, F) <= MinNormal(F) /\ post THEN soft
    ELSE Ans(hard, {})
float_add(a, b, st, F) ==
    gen2(IeeeAdd(a, b, "ne", F).v, soft_addsub(a, b, FALSE, st, F),
         is_zon2(a, b, F), addsubmul_post(a, b, F), st, F)
float_sub(a, b, st, F) ==
    gen2(IeeeSub(a, b, "ne", F).v, soft_addsub(a, b, TRUE, st, F),
         is_zon2(a, b, F), addsubmul_post(a, b, F), st, F)
float_mul(a, b, st, F) ==
    gen2(IeeeMul(a, b, "ne", F).v, soft_mul(a, b, st, F),
         is_zon2(a, b, F), addsubmul_post(a, b, F), st, F)
float_div(a, b, st, F) ==
    gen2(IeeeDiv(a, b, "ne", F).v, soft_div(a, b, st, F),
         div_pre(a, b, F), div_post(a, b, F), st, F)

muladd_scalbn(a, b, c, negs, st, F) ==
    round_pack_canonical(parts_muladd(unpack_canonical(a, F), unpack_canonical(b, F),
                                      unpack_canonical(c, F), negs, st), st, F)
float_muladd(a, b, c, negs, st, F) ==
    LET neg(v, what) == IF what \in negs THEN Flip(v, F) ELSE v
        soft == muladd_scalbn(a, b, c, negs, st, F)
        prod == Zero((ProductSign(a, b, F) + Bool("product" \in negs)) % 2, F)
        r == IF IsZero(a, F) \/ IsZero(b, F) THEN IeeeAdd(prod, neg(c, "c"), "ne", F).v
             ELSE IeeeFma(neg(a, "product"), b, neg(c, "c"), "ne", F).v
    IN  IF ~can_use_fpu(st) \/ ~(is_zon2(a, b, F) /\ is_zero_or_normal(c, F)) THEN soft
        ELSE IF IsZero(a, F) \/ IsZero(b, F) THEN Ans(neg(r, "result"), {})
        ELSE IF IsInf(r, F) THEN Ans(neg(r, "result"), {"overflow"})
        ELSE IF Mag(r, F) <= MinNormal(F) THEN soft
        ELSE Ans(neg(r, "result"), {})
float_sqrt(a, st, F) ==
    IF ~can_use_fpu(st) \/ ~is_zero_or_normal(a, F) \/ NegBit(a, F) = 1 THEN soft_sqrt(a, st, F)
    ELSE Ans(IeeeSqrt(a, "ne", F).v, {})

float_round_to_int(a, st, F) ==
    round_pack_canonical(parts_round_to_int(unpack_canonical(a, F), st.mode, F), st, F)
to_int_scalbn(a, mode, scale, w, F) ==
    float_to_sint(unpack_canonical(a, F), mode, scale, -(2^(w - 1)), 2^(w - 1) - 1)
to_int(a, st, w, F) == to_int_scalbn(a, st.mode, 0, w, F)
to_int_round_to_zero(a, st, w, F) == to_int_scalbn(a, "tz", 0, w, F)
to_uint_scalbn(a, mode, scale, w, F) ==
    float_to_uint(unpack_canonical(a, F), mode, scale, 2^w - 1)
to_uint(a, st, w, F) == to_uint_scalbn(a, st.mode, 0, w, F)
to_uint_round_to_zero(a, st, w, F) == to_uint_scalbn(a, "tz", 0, w, F)

(* The host converts a full word at once; it cannot overflow *)
int_to_float(n, st, F) ==
    IF can_use_fpu(st) THEN Ans(IeeeOfInt(n, "ne", F).v, {})
    ELSE round_pack_canonical(Res(sint_to_float(n, 0), {}), st, F)
uint_to_floatv(n, st, F) ==
    IF can_use_fpu(st) THEN Ans(IeeeOfInt(n, "ne", F).v, {})
    ELSE round_pack_canonical(Res(uint_to_float(n, 0), {}), st, F)

(* Widening a normal number or a zero is left to the host *)
float_to_float(p) == IF is_nan(p) THEN return_nan(p) ELSE Res(p, {})
to_wider(a, st, F, G) ==
    IF is_zero_or_normal(a, F) THEN Ans(IeeeConvert(a, "ne", F, G).v, {})
    ELSE round_pack_canonical(float_to_float(unpack_canonical(a, F)), st, G)
to_narrower(a, st, F, G) ==
    round_pack_canonical(float_to_float(unpack_canonical(a, F)), st, G)

float_minmax(a, b, flags, st, F) ==
    round_pack_canonical(parts_minmax(unpack_canonical(a, F), unpack_canonical(b, F),
                                      flags, st), st, F)
do_compare(a, b, quiet, F) ==
    parts_compare(unpack_canonical(a, F), unpack_canonical(b, F), quiet)
hs_compare(a, b, quiet, F) ==
    LET denormal(v) == ExpField(v, F) = 0 /\ ~IsZero(v, F)
    IN  IF denormal(a) \/ denormal(b) \/ IeeeRelation(a, b, F) = "unordered"
        THEN do_compare(a, b, quiet, F)
        ELSE Ans(IeeeRelation(a, b, F), {})
float_scalbn(a, n, st, F) == round_pack_canonical(parts_scalbn(unpack_canonical(a, F), n), st, F)
float_log2(a, st, F) == round_pack_canonical(parts_log2(unpack_canonical(a, F), st, F), st, F)

(* fpu_helper.c: the logarithm rounded down, then rounded down to integer *)
flogb(a, st, F) ==
    LET down == [st EXCEPT !.mode = "dn"]
        l == float_log2(a, down, F)
        r == float_round_to_int(l.v, down, F)
    IN  Ans(r.v, (l.fl \cup r.fl) \ {"inexact"})
=============================================================================
