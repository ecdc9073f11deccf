------------------------------- MODULE VecRef -------------------------------
(***************************************************************************)
(* What the element operations of VecElem promise, in exact arithmetic on  *)
(* integers, and the comparison with what the code computes, for every     *)
(* pair of elements of EW bits and every immediate.                        *)
(***************************************************************************)
EXTENDS VecElem, HostUtils

EW == 4              \* bits in an element
WIDE == 8            \* bits of the register that clz32 counts in

Elems == 0 .. 2^EW - 1
Pairs(a) == {[kind |-> "elem", a |-> a, b |-> b] : b \in Elems}
Masks(a) == {[kind |-> "mask", a |-> a, b |-> b] : b \in {0, 1, 64, 127}}
Vldis(a) == {[kind |-> "vldi", a |-> a, b |-> m] : m \in 0 .. 12}

(* Rounding to nearest, halves upwards; saturation to n bits *)
RoundShift(x, sh) == IF sh = 0 THEN x ELSE (x + 2^(sh - 1)) \div 2^sh
ToSigned(x, n) == IF x > 2^(n - 1) - 1 THEN 2^(n - 1) - 1 ELSE IF x < -(2^(n - 1)) THEN -(2^(n - 1)) ELSE x
ToUnsigned(x, n) == IF x > 2^n - 1 THEN 2^n - 1 ELSE IF x < 0 THEN 0 ELSE x

ArithExact(a, b) ==
    LET sa == S(a, EW)
        sb == S(b, EW)
    IN  /\ DO_VAVG(a, b) = (a + b) \div 2 /\ DO_VAVG(sa, sb) = (sa + sb) \div 2
        /\ DO_VAVGR(a, b) = (a + b + 1) \div 2 /\ DO_VAVGR(sa, sb) = (sa + sb + 1) \div 2
        /\ DO_VABSD(sa, sb) = Abs(sa - sb) /\ DO_VMUH(sa, sb, EW) = (sa * sb) \div 2^EW
        /\ \A narrow \in BOOLEAN :
              /\ gvec_ssadd(sa, sb, EW, narrow) = ToSigned(sa + sb, EW)
              /\ gvec_sssub(sa, sb, EW, narrow) = ToSigned(sa - sb, EW)
              /\ gvec_usadd(a, b, EW, narrow) = ToUnsigned(a + b, EW)
              /\ gvec_ussub(a, b, EW, narrow) = ToUnsigned(a - b, EW)
        /\ b # 0 =>
              /\ DO_DIV(a, b, EW) = a \div b /\ DO_REM(a, b, EW) = a % b
              /\ U(DO_DIV(sa, sb, EW), EW) = U(Quot(sa, sb), EW)
              /\ U(DO_REM(sa, sb, EW), EW) = U(Rem(sa, sb), EW)
              /\ \A isDiv \in BOOLEAN :
                    LET r == SAFE_DIV_MOD(sa, sb, EW, isDiv, TRUE)
                    IN  r # UNDEFINED => r = IF isDiv THEN DO_DIV(sa, sb, EW) ELSE DO_REM(sa, sb, EW)

ShiftedExact(a, sh) ==
    LET sa == S(a, EW)
        n == EW \div 2
    IN  /\ do_vsrlr(a, sh, EW) = RoundShift(a, sh) /\ do_vsrar(sa, sh, EW) = RoundShift(sa, sh)
        /\ do_ssrlns(a, sh, EW) = ToSigned(a \div 2^sh, n)
        /\ do_ssrans(sa, sh, EW) = ToSigned(sa \div 2^sh, n)
        /\ do_ssrlnu(a, sh, EW) = ToUnsigned(a \div 2^sh, n)
        /\ do_ssranu(sa, sh, EW) = ToUnsigned(sa \div 2^sh, n)
        /\ do_ssrlrns(a, sh, EW) = ToSigned(RoundShift(a, sh), n)
        /\ do_ssrarns(sa, sh, EW) = ToSigned(RoundShift(sa, sh), n)
        /\ do_ssrlrnu(a, sh, EW) = ToUnsigned(RoundShift(a, sh), n)
        /\ do_ssrarnu(sa, sh, EW) = ToUnsigned(RoundShift(sa, sh), n)
        /\ VSAT_S(sa, sat_max(sh)) = ToSigned(sa, sh + 1)
        /\ VSAT_U(a, satu_max(sh, EW)) = ToUnsigned(a, sh + 1)
        /\ rol(a, sh, EW) = OfBits({(i + sh) % EW : i \in Bits(a, EW)})
        /\ ror(a, sh, EW) = OfBits({(i - sh) % EW : i \in Bits(a, EW)})
        /\ DO_CLZ(a, EW, WIDE) = clz(a, EW) /\ DO_CLO(a, EW, WIDE) = clz(Not(a, EW), EW)

(* A word whose byte k is low, and negative if bit k of signs is set *)
BytesOf(signs, low) ==
    UNION {({8 * k + 7 : j \in {i \in Bits(signs, 8) : i = k}} \cup {8 * k + i : i \in Bits(low, 7)})
              : k \in 0 .. 7}
(* ... and one whose byte k is zero if bit k of nz is clear *)
ZeroBytes(nz, low) ==
    UNION {{8 * k + i : i \in Bits(IF low = 0 THEN 128 ELSE low, 8)} : k \in Bits(nz, 8)}

(* The layouts of vldi as its comments draw them: copies of a row of       *)
(* fields, from the top, of zeros, ones, or bits of the immediate B.       *)
Row(fields, B) ==
    LET at[i \in 0 .. Len(fields)] == IF i = 0 THEN 0 ELSE at[i - 1] + fields[i][1]
        w == at[Len(fields)]
        In(f, k) == CASE f[2] = "0" -> FALSE [] f[2] = "1" -> TRUE
                      [] f[2] = "imm" -> k \in B            \* imm[n-1:0]
                      [] f[2] = "b7" -> 7 \in B [] f[2] = "b6" -> 6 \in B
                      [] f[2] = "~b6" -> 6 \notin B
    IN  [w |-> w, bits |-> UNION {{w - at[i] + k : k \in {j \in 0 .. fields[i][1] - 1 : In(fields[i], j)}}
                                     : i \in 1 .. Len(fields)}]
Copies(fields, B) ==
    LET r == Row(fields, B)
    IN  UNION {{i + r.w * c : i \in r.bits} : c \in 0 .. 64 \div r.w - 1}
Layout(mode, B) ==
    CASE mode = 0 -> Copies(<<<<24, "0">>, <<8, "imm">>>>, B)
      [] mode = 1 -> Copies(<<<<16, "0">>, <<8, "imm">>, <<8, "0">>>>, B)
      [] mode = 2 -> Copies(<<<<8, "0">>, <<8, "imm">>, <<16, "0">>>>, B)
      [] mode = 3 -> Copies(<<<<8, "imm">>, <<24, "0">>>>, B)
      [] mode = 4 -> Copies(<<<<8, "0">>, <<8, "imm">>>>, B)
      [] mode = 5 -> Copies(<<<<8, "imm">>, <<8, "0">>>>, B)
      [] mode = 6 -> Copies(<<<<16, "0">>, <<8, "imm">>, <<8, "1">>>>, B)
      [] mode = 7 -> Copies(<<<<8, "0">>, <<8, "imm">>, <<16, "1">>>>, B)
      [] mode = 8 -> Copies(<<<<8, "imm">>>>, B)
      [] mode = 9 -> {i \in Word : i \div 8 \in B}
      [] mode = 10 -> Copies(<<<<1, "b7">>, <<1, "~b6">>, <<5, "b6">>, <<6, "imm">>, <<19, "0">>>>, B)
      [] mode = 11 -> Copies(<<<<32, "0">>, <<1, "b7">>, <<1, "~b6">>, <<5, "b6">>, <<6, "imm">>, <<19, "0">>>>, B)
      [] mode = 12 -> Copies(<<<<1, "b7">>, <<1, "~b6">>, <<8, "b6">>, <<6, "imm">>, <<48, "0">>>>, B)

(* The element operations compute the exact result: averages without the   *)
(* carry they drop, rounding shifts without the sum they avoid, saturation *)
(* of the exact sum, difference or shifted value, the guarded quotients;   *)
(* the multiplications that gather the sign or zero bits of eight bytes    *)
(* get every byte and nothing else; the zero test of vsetanyeqz has no     *)
(* false positive from a borrow; vldi builds the layouts its comments draw.*)
ElemExact ==
    /\ arg.kind = "elem" =>
          /\ ArithExact(arg.a, arg.b)
          /\ arg.b < EW => ShiftedExact(arg.a, arg.b)
          /\ LET n == [k \in 0 .. 1 |-> IF k = 0 THEN arg.a ELSE arg.b]
             IN  do_match2(n, EW) = (arg.a = 0 \/ arg.b = 0)
    /\ arg.kind = "mask" =>
          /\ do_vmskltz_b(BytesOf(arg.a, arg.b)) = Bits(arg.a, 8)
          /\ do_vmskez_b(ZeroBytes(arg.a, arg.b)) = Bits(255 - arg.a, 8)
    /\ arg.kind = "vldi" =>
          vldi_get_value(arg.b, Bits(arg.a, 8)) = Layout(arg.b, Bits(arg.a, 8))
=============================================================================
