-------------------------------- MODULE Ieee --------------------------------
(***************************************************************************)
(* What IEEE 754 asks of an operation: the exact result, rounded once, and *)
(* the exceptions it signals.  It is the reference the softfloat model is  *)
(* compared with, and the model of the host's floating-point unit.         *)
(*                                                                         *)
(* A format has e exponent bits and f fraction bits.  A finite value is    *)
(* measured in units of the smallest subnormal (Mag), so that exact        *)
(* results are ratios of integers.                                         *)
(***************************************************************************)
EXTENDS Words

Format(e, f) == [e |-> e, f |-> f, bias |-> 2^(e - 1) - 1, top |-> 2^e - 1]
Floats(F) == 0 .. 2^(1 + F.e + F.f) - 1

NegBit(v, F) == v \div 2^(F.e + F.f)
ExpField(v, F) == (v \div 2^F.f) % 2^F.e
FracField(v, F) == v % 2^F.f
OfFields(s, e, m, F) == (s * 2^F.e + e) * 2^F.f + m

IsFinite(v, F) == ExpField(v, F) # F.top
IsInf(v, F) == ExpField(v, F) = F.top /\ FracField(v, F) = 0
IsNaN(v, F) == ExpField(v, F) = F.top /\ FracField(v, F) # 0
IsSNaN(v, F) == IsNaN(v, F) /\ FracField(v, F) < 2^(F.f - 1)
IsZero(v, F) == v % 2^(F.e + F.f) = 0
IsNormal(v, F) == ExpField(v, F) \notin {0, F.top}

Infinity(s, F) == OfFields(s, F.top, 0, F)
Zero(s, F) == OfFields(s, 0, 0, F)
DefaultNaN(F) == OfFields(0, F.top, 2^(F.f - 1), F)
Quiet(v, F) == IF IsSNaN(v, F) THEN v + 2^(F.f - 1) ELSE v

Mag(v, F) == IF ExpField(v, F) = 0 THEN FracField(v, F)
             ELSE (2^F.f + FracField(v, F)) * 2^(ExpField(v, F) - 1)
Signed(v, F) == IF NegBit(v, F) = 1 THEN -Mag(v, F) ELSE Mag(v, F)
One(F) == 2^(F.bias + F.f - 1)
MaxMag(F) == (2^(F.f + 1) - 1) * 2^(F.top - 2)

(* The binade of num/den: its values have a spacing of 2^Binade *)
Binade(num, den, F) ==
    CHOOSE k \in 0 .. 24 : /\ num < den * 2^(F.f + 1 + k)
                           /\ k = 0 \/ num >= den * 2^(F.f + k)
OfMag(s, m, F) ==
    LET k == Binade(m, 1, F) q == m \div 2^k
    IN  IF q < 2^F.f THEN OfFields(s, 0, q, F) ELSE OfFields(s, k + 1, q - 2^F.f, F)

(* num/den >= 0 to an integer; s is the sign of the number being rounded *)
RoundInt(num, den, s, mode) ==
    LET q == num \div den
        twice == 2 * (num % den)
        up == CASE mode = "ne" -> twice > den \/ (twice = den /\ q % 2 = 1)
                [] mode = "ta" -> twice >= den
                [] mode = "tz" -> FALSE
                [] mode = "up" -> twice > 0 /\ s = 0
                [] mode = "dn" -> twice > 0 /\ s = 1
    IN  q + Bool(up)
ToInfinity(s, mode) == \/ mode \in {"ne", "ta"}
                       \/ mode = "up" /\ s = 0
                       \/ mode = "dn" /\ s = 1

Ans(v, fl) == [v |-> v, fl |-> fl]

(* Tininess is judged after rounding to the format's precision with an     *)
(* unbounded exponent: just below the smallest normal number the spacing   *)
(* would be half a unit.                                                   *)
Round(num, den, s, mode, F) ==
    LET k == Binade(num, den, F)
        r == RoundInt(num, den * 2^k, s, mode) * 2^k
        inexact == r * den # num
        tiny == num < den * 2^F.f /\ RoundInt(2 * num, den, s, mode) < 2 * 2^F.f
    IN  IF r > MaxMag(F)
        THEN Ans(IF ToInfinity(s, mode) THEN Infinity(s, F)
                 ELSE OfMag(s, MaxMag(F), F), {"overflow", "inexact"})
        ELSE Ans(OfMag(s, r, F), (IF inexact THEN {"inexact"} ELSE {})
                                 \cup (IF inexact /\ tiny THEN {"underflow"} ELSE {}))
RoundSigned(n, den, zeroSign, mode, F) ==
    IF n = 0 THEN Ans(Zero(zeroSign, F), {})
    ELSE Round(Abs(n), den, Bool(n < 0), mode, F)

(* The NaN an operation returns: a signalling one first, in operand order *)
SomeNaN(ops, F) == \E i \in DOMAIN ops : IsNaN(ops[i], F)
NaNOf(ops, F) ==
    LET sig == {i \in DOMAIN ops : IsSNaN(ops[i], F)}
        first == Min(IF sig # {} THEN sig ELSE {i \in DOMAIN ops : IsNaN(ops[i], F)})
    IN  Ans(Quiet(ops[first], F), IF sig # {} THEN {"invalid"} ELSE {})
Invalid(F) == Ans(DefaultNaN(F), {"invalid"})

Flip(v, F) == OfFields(1 - NegBit(v, F), ExpField(v, F), FracField(v, F), F)

IeeeSum(a, b, mode, F) ==
    IF IsInf(a, F) /\ IsInf(b, F) /\ a # b THEN Invalid(F)
    ELSE IF IsInf(a, F) THEN Ans(a, {})
    ELSE IF IsInf(b, F) THEN Ans(b, {})
    ELSE RoundSigned(Signed(a, F) + Signed(b, F), 1,
                     IF NegBit(a, F) = NegBit(b, F) THEN NegBit(a, F) ELSE Bool(mode = "dn"),
                     mode, F)
IeeeAdd(a, b, mode, F) ==
    IF SomeNaN(<<a, b>>, F) THEN NaNOf(<<a, b>>, F) ELSE IeeeSum(a, b, mode, F)
IeeeSub(a, b, mode, F) ==
    IF SomeNaN(<<a, b>>, F) THEN NaNOf(<<a, b>>, F) ELSE IeeeSum(a, Flip(b, F), mode, F)

ProductSign(a, b, F) == (NegBit(a, F) + NegBit(b, F)) % 2
InfTimesZero(a, b, F) == (IsInf(a, F) /\ IsZero(b, F)) \/ (IsZero(a, F) /\ IsInf(b, F))
IeeeMul(a, b, mode, F) ==
    LET s == ProductSign(a, b, F)
    IN  IF SomeNaN(<<a, b>>, F) THEN NaNOf(<<a, b>>, F)
        ELSE IF InfTimesZero(a, b, F) THEN Invalid(F)
        ELSE IF IsInf(a, F) \/ IsInf(b, F) THEN Ans(Infinity(s, F), {})
        ELSE Round(Mag(a, F) * Mag(b, F), One(F), s, mode, F)
IeeeDiv(a, b, mode, F) ==
    LET s == ProductSign(a, b, F)
    IN  IF SomeNaN(<<a, b>>, F) THEN NaNOf(<<a, b>>, F)
        ELSE IF (IsInf(a, F) /\ IsInf(b, F)) \/ (IsZero(a, F) /\ IsZero(b, F)) THEN Invalid(F)
        ELSE IF IsInf(a, F) THEN Ans(Infinity(s, F), {})
        ELSE IF IsInf(b, F) THEN Ans(Zero(s, F), {})
        ELSE IF IsZero(b, F) THEN Ans(Infinity(s, F), {"divbyzero"})
        ELSE Round(Mag(a, F) * One(F), Mag(b, F), s, mode, F)

(* a * b + c with one rounding.  infinity * 0 + NaN is invalid and yields  *)
(* c; otherwise c comes first among the NaNs.                              *)
IeeeFma(a, b, c, mode, F) ==
    LET s == ProductSign(a, b, F)
        p == Mag(a, F) * Mag(b, F)
        n == NaNOf(<<c, a, b>>, F)
        z == IF s = NegBit(c, F) THEN s ELSE Bool(mode = "dn")
    IN  IF IsNaN(c, F) /\ InfTimesZero(a, b, F) THEN Ans(Quiet(c, F), {"invalid"})
        ELSE IF SomeNaN(<<c, a, b>>, F) THEN n
        ELSE IF InfTimesZero(a, b, F) THEN Invalid(F)
        ELSE IF IsInf(a, F) \/ IsInf(b, F)
             THEN IF IsInf(c, F) /\ NegBit(c, F) # s THEN Invalid(F)
                  ELSE Ans(Infinity(s, F), {})
        ELSE IF IsInf(c, F) THEN Ans(c, {})
        ELSE RoundSigned((IF s = 1 THEN -p ELSE p) + Signed(c, F) * One(F), One(F), z, mode, F)

(* Integer square root: the largest x with x * x <= n < 2^26 *)
Isqrt(n) ==
    LET root[k \in 0 .. 13] ==
            IF k = 0 THEN 0
            ELSE LET p == root[k - 1] x == p + 2^(13 - k)
                 IN  IF x * x <= n THEN x ELSE p
    IN  root[13]
IeeeSqrt(a, mode, F) ==
    LET n == Mag(a, F) * One(F) * 2^12
        t == Isqrt(n)
    IN  IF IsNaN(a, F) THEN NaNOf(<<a>>, F)
        ELSE IF IsZero(a, F) THEN Ans(a, {})
        ELSE IF NegBit(a, F) = 1 THEN Invalid(F)
        ELSE IF IsInf(a, F) THEN Ans(a, {})
        ELSE Round(2 * t + Bool(t * t # n), 2^7, 0, mode, F)

IeeeRint(a, mode, F) ==
    LET r == RoundInt(Mag(a, F), One(F), NegBit(a, F), mode) * One(F)
    IN  IF IsNaN(a, F) THEN NaNOf(<<a>>, F)
        ELSE IF IsInf(a, F) THEN Ans(a, {})
        ELSE Ans(OfMag(NegBit(a, F), r, F), IF r = Mag(a, F) THEN {} ELSE {"inexact"})

(* To an integer of the range lo .. hi *)
IeeeToInt(a, mode, lo, hi, F) ==
    LET s == NegBit(a, F)
        r == RoundInt(Mag(a, F), One(F), s, mode)
        n == IF s = 1 THEN -r ELSE r
    IN  IF IsNaN(a, F) THEN Ans(hi, {"invalid"})
        ELSE IF IsInf(a, F) \/ n < lo \/ n > hi
             THEN Ans(IF s = 1 THEN lo ELSE hi, {"invalid"})
        ELSE Ans(n, IF r * One(F) = Mag(a, F) THEN {} ELSE {"inexact"})
IeeeOfInt(n, mode, F) == RoundSigned(n * One(F), 1, 0, mode, F)

(* a * 2^n *)
IeeeScale(a, n, mode, F) ==
    IF IsNaN(a, F) THEN NaNOf(<<a>>, F)
    ELSE IF IsInf(a, F) \/ IsZero(a, F) THEN Ans(a, {})
    ELSE Round(Mag(a, F) * 2^(IF n > 0 THEN n ELSE 0), 2^(IF n < 0 THEN -n ELSE 0),
               NegBit(a, F), mode, F)

(* From format F to format G *)
IeeeConvert(a, mode, F, G) ==
    IF IsNaN(a, F)
    THEN LET q == Quiet(a, F)
             m == IF G.f >= F.f THEN FracField(q, F) * 2^(G.f - F.f)
                  ELSE FracField(q, F) \div 2^(F.f - G.f)
         IN  Ans(OfFields(NegBit(a, F), G.top, m, G), IF IsSNaN(a, F) THEN {"invalid"} ELSE {})
    ELSE IF IsInf(a, F) THEN Ans(Infinity(NegBit(a, F), G), {})
    ELSE Round(Mag(a, F) * One(G), One(F), NegBit(a, F), mode, G)

IeeeRelation(a, b, F) ==
    IF SomeNaN(<<a, b>>, F) THEN "unordered"
    ELSE LET x == IF IsInf(a, F) THEN (IF NegBit(a, F) = 1 THEN -1 ELSE 1) * 2 * MaxMag(F)
                  ELSE Signed(a, F)
             y == IF IsInf(b, F) THEN (IF NegBit(b, F) = 1 THEN -1 ELSE 1) * 2 * MaxMag(F)
                  ELSE Signed(b, F)
         IN  IF x < y THEN "less" ELSE IF x = y THEN "equal" ELSE "greater"
=============================================================================
