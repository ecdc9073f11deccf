------------------------------ MODULE FloatRef ------------------------------
(***************************************************************************)
(* Every softfloat operation, by the soft path and by the hardfloat path,  *)
(* against the correctly rounded IEEE operation: all operands of small     *)
(* formats, all rounding modes, with and without inexact already raised.   *)
(***************************************************************************)
EXTENDS FloatOps

F32 == Format(3, 2)  \* all pairs of operands
F16 == Format(2, 1)  \* all triples of operands; the narrower format
F64 == Format(4, 2)  \* holds every integer of a word, as float32 does for int64_t

Status(mode, flags, nan) == [mode |-> mode, flags |-> flags, nan |-> nan]
Statuses == {Status(m, {}, "set") : m \in Modes} \cup {Status("ne", {"inexact"}, "set")}

FpArg(kind, a, b, c, st) == [kind |-> kind, a |-> a, b |-> b, c |-> c, st |-> st]
FpUnaries(a) == {FpArg("fp1", a, 0, 0, st) : st \in Statuses}
FpLogs(a) == {FpArg("logb", a, 0, 0, st) : st \in Statuses}
FpPairs(a) == {FpArg("fp2", a, b, 0, st) : b \in Floats(F32), st \in Statuses}
FpTriples(a) == {FpArg("fp3", a, b, c, st) : b, c \in Floats(F16), st \in Statuses}

(* Same value, same exceptions accrued *)
Agrees(got, want, st) == got.v = want.v /\ st.flags \cup got.fl = st.flags \cup want.fl

(* Without NaN rules an operation that has to make or pick a NaN aborts;   *)
(* otherwise nothing changes.                                              *)
AgreesUnset(got, want, F) == got.v = IF want.v \in Floats(F) /\ IsNaN(want.v, F) THEN ABORT
                                     ELSE want.v

PairExactFp(a, b, st) ==
    LET m == st.mode  un == [st EXCEPT !.nan = "unset"]
    IN  /\ Agrees(float_add(a, b, st, F32), IeeeAdd(a, b, m, F32), st)
        /\ Agrees(float_sub(a, b, st, F32), IeeeSub(a, b, m, F32), st)
        /\ Agrees(float_mul(a, b, st, F32), IeeeMul(a, b, m, F32), st)
        /\ Agrees(float_div(a, b, st, F32), IeeeDiv(a, b, m, F32), st)
        /\ m = "ne" => /\ AgreesUnset(float_add(a, b, un, F32), IeeeAdd(a, b, m, F32), F32)
                       /\ AgreesUnset(float_div(a, b, un, F32), IeeeDiv(a, b, m, F32), F32)

(* compare, compare_quiet, and the eight minima and maxima *)
Smaller(a, b, mag, F) ==
    LET r == IeeeRelation(a, b, F)
        s == IeeeRelation(IF NegBit(a, F) = 1 THEN Flip(a, F) ELSE a,
                          IF NegBit(b, F) = 1 THEN Flip(b, F) ELSE b, F)
    IN  IF mag /\ s # "equal" THEN s = "less"
        ELSE r = "less" \/ (r = "equal" /\ NegBit(a, F) > NegBit(b, F))
WantMinMax(a, b, flags, F) ==
    LET nans == {v \in {a, b} : IsNaN(v, F)}
        number == IF IsNaN(a, F) THEN b ELSE a
        signals == IF IsSNaN(a, F) \/ IsSNaN(b, F) THEN {"invalid"} ELSE {}
        lower == IF Smaller(b, a, "ismag" \in flags, F) THEN b ELSE a
        upper == IF Smaller(a, b, "ismag" \in flags, F) THEN b ELSE a
    IN  IF nans = {} THEN Ans(IF "ismin" \in flags THEN lower ELSE upper, {})
        ELSE IF /\ ~(IsNaN(a, F) /\ IsNaN(b, F))
                /\ "isnumber" \in flags \/ ("isnum" \in flags /\ signals = {})
             THEN Ans(number, signals)
        ELSE NaNOf(<<a, b>>, F)
MinMaxFlags == {mn \cup k : mn \in {{}, {"ismin"}},
                            k \in {{}, {"isnum"}, {"isnum", "ismag"}, {"isnumber"}}}
OrderExact(a, b, st) ==
    /\ \A q \in BOOLEAN :
          Agrees(hs_compare(a, b, q, F32),
                 Ans(IeeeRelation(a, b, F32),
                     IF SomeNaN(<<a, b>>, F32) /\ (~q \/ IsSNaN(a, F32) \/ IsSNaN(b, F32))
                     THEN {"invalid"} ELSE {}), st)
    /\ \A fl \in MinMaxFlags :
          Agrees(float_minmax(a, b, fl, st, F32), WantMinMax(a, b, fl, F32), st)

(* Rounding happens after the negation of the result; the sign of an exact *)
(* zero is chosen before it.                                               *)
Opposite(mode) == CASE mode = "up" -> "dn" [] mode = "dn" -> "up" [] OTHER -> mode
WantFma(a, b, c, negs, mode, F) ==
    LET x == IF "product" \in negs THEN Flip(a, F) ELSE a
        z == IF "c" \in negs THEN Flip(c, F) ELSE c
        r == IeeeFma(x, b, z, mode, F)
        o == IeeeFma(x, b, z, Opposite(mode), F)
    IN  IF SomeNaN(<<a, b, c>>, F) THEN IeeeFma(a, b, c, mode, F)
        ELSE IF "result" \notin negs \/ IsNaN(r.v, F) THEN r
        ELSE IF IsZero(r.v, F) /\ r.fl = {} THEN Ans(Flip(r.v, F), {})
        ELSE Ans(Flip(o.v, F), o.fl)
Negations == {{}, {"c"}, {"product"}, {"c", "product"}, {"result"}, {"c", "result"}}
TripleExactFp(a, b, c, st) ==
    \A negs \in Negations :
        Agrees(float_muladd(a, b, c, negs, st, F16), WantFma(a, b, c, negs, st.mode, F16), st)

IntWidths == {FN - 2, FN}
UnaryExactFp(a, st) ==
    LET m == st.mode
    IN  /\ Agrees(float_sqrt(a, st, F32), IeeeSqrt(a, m, F32), st)
        /\ Agrees(float_round_to_int(a, st, F32), IeeeRint(a, m, F32), st)
        /\ Agrees(to_wider(a, st, F32, F64), IeeeConvert(a, m, F32, F64), st)
        /\ Agrees(to_narrower(a, st, F32, F16), IeeeConvert(a, m, F32, F16), st)
        /\ \A n \in -6 .. 6 :
              Agrees(float_scalbn(a, n, st, F32), IeeeScale(a, n, m, F32), st)
        /\ \A w \in IntWidths :
              /\ Agrees(to_int(a, st, w, F32),
                        IeeeToInt(a, m, -(2^(w - 1)), 2^(w - 1) - 1, F32), st)
              /\ Agrees(to_int_round_to_zero(a, st, w, F32),
                        IeeeToInt(a, "tz", -(2^(w - 1)), 2^(w - 1) - 1, F32), st)
              /\ Agrees(to_uint(a, st, w, F32), IeeeToInt(a, m, 0, 2^w - 1, F32), st)
              /\ Agrees(to_uint_round_to_zero(a, st, w, F32),
                        IeeeToInt(a, "tz", 0, 2^w - 1, F32), st)
        /\ Agrees(int_to_float(S(a, FN), st, F64), IeeeOfInt(S(a, FN), m, F64), st)
        /\ Agrees(uint_to_floatv(U(a, FN), st, F64), IeeeOfInt(U(a, FN), m, F64), st)

(* The exponent; F64, where no logarithm is subnormal, as in float32 *)
LogExact(a, st) ==
    LET want == IF IsNaN(a, F64) THEN NaNOf(<<a>>, F64)
                ELSE IF IsZero(a, F64) THEN Ans(Infinity(1, F64), {"divbyzero"})
                ELSE IF NegBit(a, F64) = 1 THEN Invalid(F64)
                ELSE IF IsInf(a, F64) THEN Ans(a, {})
                ELSE IeeeOfInt(CHOOSE k \in -8 .. 7 : /\ Mag(a, F64) * 2^8 >= One(F64) * 2^(k + 8)
                                                      /\ Mag(a, F64) * 2^8 < One(F64) * 2^(k + 9),
                               "ne", F64)
    IN  Agrees(flogb(a, st, F64), want, st)

(* Every operation returns the exact result rounded once in the current    *)
(* mode and accrues exactly the exceptions of that rounding, whether it    *)
(* ran on the fraction words (canonicalize .. uncanon_normal) or on the    *)
(* host (gen2, float_muladd, float_sqrt, int_to_float); a target that set  *)
(* no NaN rules gets the same numbers and aborts where a NaN is due.       *)
FloatExact ==
    /\ arg.kind = "fp1" => UnaryExactFp(arg.a, arg.st)
    /\ arg.kind = "logb" => LogExact(arg.a, arg.st)
    /\ arg.kind = "fp2" => PairExactFp(arg.a, arg.b, arg.st)
    /\ (arg.kind = "fp2" /\ arg.st.mode = "ne") => OrderExact(arg.a, arg.b, arg.st)
    /\ arg.kind = "fp3" => TripleExactFp(arg.a, arg.b, arg.c, arg.st)
=============================================================================
