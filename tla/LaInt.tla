------------------------------- MODULE LaInt -------------------------------
(***************************************************************************)
(* The integer instructions of the LoongArch interpreter                   *)
(* (loongarch64/interpreter.c).  A register holds D bits (64), a word W    *)
(* bits (32), a half word H (16) and a byte Y (8); the ratios are those of *)
(* the code, so that every register value can be tried.  Registers are     *)
(* uint64_t, held here as their unsigned value; (int64_t)(int32_t) is SX.  *)
(***************************************************************************)
EXTENDS VecElem, HostUtils

CONSTANT YB          \* bits in a byte

ASSUME IntAssumption == YB \in Nat \ {0}

HB == 2 * YB
WB == 4 * YB
DB == 8 * YB
Regs == 0 .. 2^DB - 1
SX(x) == U(S(x, WB), DB)                 \* (int64_t)(int32_t)x
ZX(x) == U(x, WB)                        \* (uint64_t)(uint32_t)x
Reg(n) == U(n, DB)

AddSub(op, j, k) ==
    CASE op = "add_w" -> SX(j + k) [] op = "add_d" -> Reg(j + k)
      [] op = "sub_w" -> SX(j - k) [] op = "sub_d" -> Reg(j - k)
SetLess(op, j, k) ==
    Bool(CASE op \in {"slt", "slti"} -> S(j, DB) < S(k, DB) [] op \in {"sltu", "sltui"} -> j < k)
Logic(op, j, k) ==
    CASE op = "nor" -> Not(Or(j, k, DB), DB) [] op = "and" -> And(j, k, DB)
      [] op = "or" -> Or(j, k, DB) [] op = "xor" -> Xor(j, k, DB)
      [] op = "orn" -> Or(j, Not(k, DB), DB) [] op = "andn" -> And(j, Not(k, DB), DB)
      [] op = "xnor" -> Not(Xor(j, k, DB), DB)

(* The product of two words fits in a register.  mulh.wu shifts it as a    *)
(* signed number, which extends the sign of its upper word.                *)
\* Mutant: the unsigned product is shifted as an unsigned number.
MulUpperZero(op, j, k) ==
    CASE op = "mul_w" -> SX(S(j, WB) * S(k, WB))
      [] op = "mulh_w" -> Reg(R_SHIFT(S(j, WB) * S(k, WB), WB))
      [] op = "mulh_wu" -> (ZX(j) * ZX(k)) \div 2^WB
      [] op = "mul_d" -> Reg(S(j, DB) * S(k, DB))
      [] op = "mulh_d" -> Reg((S(j, DB) * S(k, DB)) \div 2^DB)
      [] op = "mulh_du" -> (j * k) \div 2^DB
      [] op = "mulw_d_w" -> Reg(S(j, WB) * S(k, WB))
      [] op = "mulw_d_wu" -> ZX(j) * ZX(k)
Mul(op, j, k) ==
    CASE op = "mul_w" -> SX(S(j, WB) * S(k, WB))
      [] op = "mulh_w" -> Reg(R_SHIFT(S(j, WB) * S(k, WB), WB))
      [] op = "mulh_wu" -> Reg(R_SHIFT(S(ZX(j) * ZX(k), DB), WB))
      [] op = "mul_d" -> Reg(S(j, DB) * S(k, DB))
      [] op = "mulh_d" -> Reg((S(j, DB) * S(k, DB)) \div 2^DB)     \* muls64, mulu64
      [] op = "mulh_du" -> (j * k) \div 2^DB
      [] op = "mulw_d_w" -> Reg(S(j, WB) * S(k, WB))
      [] op = "mulw_d_wu" -> ZX(j) * ZX(k)

(* SAFE_DIV_MOD only guards the zero divisor: INT_MIN / -1 is undefined.   *)
(* mod.wu is stored without the cast that div.wu has.                      *)
DivMod(op, j, k) ==
    LET div == op \in {"div_w", "div_wu", "div_d", "div_du"}
        Safe(a, b, w) == SAFE_DIV_MOD(a, b, w, div, TRUE)
        r == CASE op \in {"div_w", "mod_w"} -> Safe(S(j, WB), S(k, WB), WB)
               [] op \in {"div_wu", "mod_wu"} -> Safe(ZX(j), ZX(k), WB + 1)
               [] op \in {"div_d", "mod_d"} -> Safe(S(j, DB), S(k, DB), DB)
               [] op \in {"div_du", "mod_du"} -> Safe(j, k, DB + 1)
    IN  IF r = UNDEFINED THEN UNDEFINED ELSE IF op = "div_wu" THEN SX(r) ELSE Reg(r)

Alsl(op, j, k, sa) ==
    LET r == j * 2^sa + k
    IN  CASE op = "alsl_w" -> SX(r) [] op = "alsl_wu" -> ZX(r) [] op = "alsl_d" -> Reg(r)
(* Operations of a word with a register; RJU << sa is a uint32_t *)
WordWith(op, j, k, sa) ==
    CASE op = "add_wu" -> Reg(ZX(j) + k) [] op = "alsl_uw" -> Reg(ZX(j * 2^sa) + k)
      [] op = "slli_wu" -> Reg(ZX(j) * 2^sa)
      [] op \in {"bitinv", "bitinvi"} -> Xor(j, 2^(k % DB), DB)
MinMax(op, j, k) ==
    CASE op = "max" -> Reg(Max({S(j, DB), S(k, DB)})) [] op = "min" -> Reg(Min({S(j, DB), S(k, DB)}))
      [] op = "maxu" -> Max({j, k}) [] op = "minu" -> Min({j, k})
      [] op = "maxwu" -> Max({ZX(j), ZX(k)}) [] op = "minwu" -> Min({ZX(j), ZX(k)})

(* Immediates: I12 bits (12) and I20 bits (20) make up a word, the upper   *)
(* word likewise; I16 is half a word.  An immediate is a signed C int.     *)
I12 == WB \div 2
I20 == WB - I12
I16 == HB
UpperImm(op, d, j, imm, pc) ==
    CASE op = "lu12i_w" -> Reg(S(imm, I20) * 2^I12)
      [] op = "lu32i_d" -> Or(ZX(d), Reg(S(imm, I20) * 2^WB), DB)
      [] op = "lu52i_d" -> Reg((j % 2^(WB + I20)) + U(imm, I12) * 2^(WB + I20))
      [] op = "pcaddi" -> Reg(pc + S(imm, I20) * 4)
      [] op = "pcalau12i" -> LET r == Reg(pc + S(imm, I20) * 2^I12) IN r - (r % 2^I12)
      [] op = "pcaddu12i" -> Reg(pc + S(imm, I20) * 2^I12)
      [] op = "pcaddu18i" -> Reg(pc + S(imm, I20) * 2^(I16 + 2))
AddImm(op, j, imm) ==
    CASE op = "addi_w" -> SX(j + S(imm, I12)) [] op = "addi_d" -> Reg(j + S(imm, I12))
      [] op = "addu16i_d" -> Reg(j + S(imm, I16) * 2^I16)
LogicImm(op, j, imm) ==                  \* zero-extended by the decoder
    CASE op = "andi" -> And(j, U(imm, I12), DB) [] op = "ori" -> Or(j, U(imm, I12), DB)
      [] op = "xori" -> Xor(j, U(imm, I12), DB)

Shift(op, j, k) ==
    CASE op = "sll_w" -> SX(S(j, WB) * 2^(k % WB)) [] op = "srl_w" -> SX(ZX(j) \div 2^(k % WB))
      [] op = "sra_w" -> Reg(R_SHIFT(S(j, WB), k % WB))
      [] op = "sll_d" -> Reg(j * 2^(k % DB)) [] op = "srl_d" -> j \div 2^(k % DB)
      [] op = "sra_d" -> Reg(R_SHIFT(S(j, DB), k % DB))
(* x << w for a rotation by 0 is outside C; the rotate instruction it      *)
(* compiles to gives x | x.                                                *)
Rotate(op, j, k) ==
    LET Rot(x, w) == IF k % w = 0 THEN x ELSE Or(x \div 2^(k % w), U(x * 2^(w - (k % w)), w), w)
    IN  CASE op = "rotr_w" -> SX(Rot(ZX(j), WB)) [] op = "rotr_d" -> Rot(j, DB)
(* The immediate forms have no mask of their own: the field is that wide *)
ShiftInt(op, j, imm) ==
    CASE op = "slli_w" -> SX(S(j, WB) * 2^imm) [] op = "srli_w" -> SX(ZX(j) \div 2^imm)
      [] op = "srai_w" -> Reg(R_SHIFT(S(j, WB), imm))
      [] op = "slli_d" -> Reg(j * 2^imm) [] op = "srli_d" -> j \div 2^imm
      [] op = "srai_d" -> Reg(R_SHIFT(S(j, DB), imm))
      [] op = "rotri_w" -> Rotate("rotr_w", j, imm) [] op = "rotri_d" -> Rotate("rotr_d", j, imm)

Extend(op, j) == CASE op = "ext_w_h" -> Reg(S(j, HB)) [] op = "ext_w_b" -> Reg(S(j, YB))
(* The guard tests the whole register, the count is of its lower word *)
CountBits(op, j) ==
    CASE op = "clo_w" -> (IF j = 0 THEN 0 ELSE clz(Not(j, WB), WB))
      [] op = "clz_w" -> (IF j = 0 THEN WB ELSE clz(ZX(j), WB))
      [] op = "cto_w" -> (IF j = 0 THEN 0 ELSE ctz(Not(j, WB), WB))
      [] op = "ctz_w" -> (IF j = 0 THEN WB ELSE ctz(ZX(j), WB))
      [] op = "clo_d" -> (IF j = 0 THEN 0 ELSE clz(Not(j, DB), DB))
      [] op = "clz_d" -> (IF j = 0 THEN DB ELSE clz(j, DB))
      [] op = "cto_d" -> (IF j = 0 THEN 0 ELSE ctz(Not(j, DB), DB))
      [] op = "ctz_d" -> (IF j = 0 THEN DB ELSE ctz(j, DB))
      [] op = "pcnt_w" -> ctpop(j, WB) [] op = "pcnt_d" -> ctpop(j, DB)

(* ((x >> n) & m) | ((x & m) << n) with m the even fields of n bits *)
EvenFields(n, w) == OfBits({i \in 0 .. w - 1 : (i \div n) % 2 = 0})
SwapFields(x, n, w) ==
    LET m == EvenFields(n, w)
    IN  Or(And(x \div 2^n, m, w), U(And(x, m, w) * 2^n, w), w)
(* Each field of n bits is masked out and moved by its own distance, to    *)
(* the mirrored place among the w bits from base on.                       *)
Mirror(x, n, w, base) ==
    OfBits({base + w - n - (i - (i % n)) + (i % n) : i \in Bits(x \div 2^base, w)})
Reverse2(x, n) == Mirror(x, n, WB, 0) + Mirror(x, n, WB, WB)
RevBytes(op, j) ==
    CASE op = "revb_2h" -> SX(SwapFields(ZX(j), YB, WB)) [] op = "revb_4h" -> SwapFields(j, YB, DB)
      [] op = "revb_2w" -> Reverse2(j, YB) [] op = "revb_d" -> Mirror(j, YB, DB, 0)
      [] op = "revh_2w" -> Reverse2(j, HB)
      [] op = "revh_d" -> LET t == SwapFields(j, HB, DB) IN t \div 2^WB + (t % 2^WB) * 2^WB
(* The bits of every byte of yb bits, by swaps of ever larger fields *)
helper_bitswap(v, yb, w) ==
    LET s1 == SwapFields(v, 1, w)
        s2 == IF yb > 2 THEN SwapFields(s1, 2, w) ELSE s1
    IN  IF yb > 4 THEN SwapFields(s2, 4, w) ELSE s2

bytepick(op, j, k, sa) ==
    LET t == Reg(k * 2^WB) + ZX(j)
        high == Reg(k * 2^(sa * YB))
        low == IF sa = 0 THEN 0 ELSE j \div 2^(DB - sa * YB)
    IN  CASE op = "bytepick_w" -> SX(t \div 2^(WB - sa * YB)) [] op = "bytepick_d" -> Or(high, low, DB)
MaskOp(op, j, k) ==
    CASE op = "maskeqz" -> (IF k = 0 THEN 0 ELSE j) [] op = "masknez" -> (IF k # 0 THEN 0 ELSE j)
(* extract and deposit assert that the field lies in the word *)
FieldOk(ms, ls, w) == ls <= ms /\ ms < w
bstrins(op, d, j, ms, ls) ==
    LET w == IF op = "bstrins_w" THEN WB ELSE DB
        n == ms - ls + 1
        x == U(d, w)
        r == x + (U(j, n) - ((x \div 2^ls) % 2^n)) * 2^ls
    IN  IF ~FieldOk(ms, ls, w) THEN UNDEFINED ELSE IF op = "bstrins_w" THEN SX(r) ELSE r
ILLEGAL == 2^21                          \* trans_* returns false
bstrpick(op, j, ms, ls) ==
    LET f == (j \div 2^ls) % 2^(ms - ls + 1)
    IN  IF ls > ms THEN ILLEGAL ELSE IF op = "bstrpick_w" THEN SX(f) ELSE f
orc_b(j) == SumSet({(2^YB - 1) * 2^i : i \in {n * YB : n \in {b \in 0 .. 7 : (j \div 2^(b * YB)) % 2^YB # 0}}})

----------------------------------------------------------------------------
(* The operands: rj takes every value, rk those around the boundaries *)
Corners == {0, 1, 2, WB - 1, WB, 2^(WB - 1), 2^WB - 1, 2^WB, 2^(DB - 1) - 1, 2^(DB - 1), 2^DB - 2, 2^DB - 1}
Ints(a) == {[kind |-> "int", a |-> a, b |-> b] : b \in Corners}

(* The results that every program sees as words: they depend on the lower  *)
(* words of the operands only, and are words extended in one fixed way.    *)
WordResult(op, j, k) ==
    CASE op \in {"add_w", "sub_w"} -> AddSub(op, j, k)
      [] op \in {"mul_w", "mulh_w", "mulh_wu"} -> Mul(op, j, k)
      [] op \in {"div_w", "mod_w", "div_wu", "mod_wu"} -> DivMod(op, j, k)
      [] op \in {"sll_w", "srl_w", "sra_w"} -> Shift(op, j, k)
      [] op = "rotr_w" -> Rotate(op, j, k)
      [] op \in {"alsl_w", "alsl_wu"} -> Alsl(op, j, k, 1)
      [] op = "bytepick_w" -> bytepick(op, j, k, 1)
      [] op \in {"clo_w", "clz_w", "cto_w", "ctz_w", "pcnt_w"} -> CountBits(op, j)
      [] op \in {"maxwu", "minwu"} -> MinMax(op, j, k)
      [] op = "revb_2h" -> RevBytes(op, j)
SignExtended == {"add_w", "sub_w", "mul_w", "mulh_w", "mulh_wu", "div_w", "mod_w", "div_wu", "sll_w", "srl_w",
                 "sra_w", "rotr_w", "alsl_w", "bytepick_w", "revb_2h"}
ZeroExtended == {"mod_wu", "alsl_wu", "clo_w", "clz_w", "cto_w", "ctz_w", "pcnt_w", "maxwu", "minwu"}
WordsOnly(j, k) ==
    /\ \A op \in SignExtended \cup ZeroExtended :
          WordResult(op, j, k) = WordResult(op, ZX(j), ZX(k))
    /\ \A op \in SignExtended : LET r == WordResult(op, j, k) IN r # UNDEFINED => r = SX(r)
    /\ \A op \in ZeroExtended : LET r == WordResult(op, j, k) IN r = ZX(r)

(* Pairs of instructions that together give the exact result *)
Together(j, k) ==
    LET sj == S(j, DB)  sk == S(k, DB)
    IN  /\ S(Mul("mulh_d", j, k), DB) * 2^DB + Mul("mul_d", j, k) = sj * sk
        /\ Mul("mulh_du", j, k) * 2^DB + Mul("mul_d", j, k) = j * k
        /\ Mul("mulw_d_w", j, k) = Reg(Mul("mulh_w", j, k) * 2^WB + ZX(Mul("mul_w", j, k)))
        /\ Mul("mulw_d_wu", j, k) = Reg(Mul("mulh_wu", j, k) * 2^WB + ZX(Mul("mul_w", j, k)))
        /\ k # 0 => /\ DivMod("div_du", j, k) * k + DivMod("mod_du", j, k) = j
                    /\ LET q == DivMod("div_d", j, k)  r == DivMod("mod_d", j, k)
                       IN  IF sj = -(2^(DB - 1)) /\ sk = -1 THEN q = UNDEFINED /\ r = UNDEFINED
                           ELSE S(q, DB) * sk + S(r, DB) = sj /\ Abs(S(r, DB)) < Abs(sk)
        /\ Rotate("rotr_d", j, k) = ror(j, k % DB, DB)
        /\ \A sa \in 0 .. WB - 1 : ShiftInt("rotri_w", ShiftInt("rotri_w", j, sa), WB - 1 - sa) = Rotate("rotr_w", j, WB - 1)
        /\ Logic("or", MaskOp("maskeqz", j, k), MaskOp("masknez", j, k)) = j
        /\ Logic("andn", j, k) + Logic("and", j, k) = j
        /\ Logic("xnor", j, k) = Logic("orn", Logic("and", j, k), Logic("or", j, k))
        /\ Shift("sll_d", j, k) = ShiftInt("slli_d", j, k % DB) /\ Shift("sll_w", j, k) = ShiftInt("slli_w", j, k % WB)
        /\ Shift("srl_d", j, k) = ShiftInt("srli_d", j, k % DB) /\ Shift("srl_w", j, k) = ShiftInt("srli_w", j, k % WB)
        /\ Shift("sra_d", j, k) = ShiftInt("srai_d", j, k % DB) /\ Shift("sra_w", j, k) = ShiftInt("srai_w", j, k % WB)

(* Two ways to the same reversal, and a field put back where it came from *)
Reversals(j) ==
    /\ RevBytes("revb_4h", RevBytes("revh_d", j)) = RevBytes("revb_d", j)
    /\ RevBytes("revb_4h", RevBytes("revh_2w", j)) = RevBytes("revb_2w", j)
    /\ Extend("ext_w_h", j) = ShiftInt("srai_d", ShiftInt("slli_d", j, DB - HB), DB - HB)
    /\ Extend("ext_w_b", j) = ShiftInt("srai_d", ShiftInt("slli_d", j, DB - YB), DB - YB)
    /\ orc_b(RevBytes("revb_d", j)) = RevBytes("revb_d", orc_b(j)) /\ And(j, orc_b(j), DB) = j
    /\ helper_bitswap(j, 8, 8) = OfBits({7 - i : i \in Bits(j, 8)})
    /\ helper_bitswap(j, 4, 8) = Mirror(j, 1, 4, 0) + Mirror(j, 1, 4, 4)
Fields(d, j) ==
    \A ms \in 0 .. DB - 1, ls \in 0 .. DB - 1 :
        LET r == bstrins("bstrins_d", d, j, ms, ls)
            w == bstrins("bstrins_w", d, j, ms, ls)
        IN  IF ls > ms THEN bstrpick("bstrpick_d", j, ms, ls) = ILLEGAL
            ELSE /\ bstrpick("bstrpick_d", r, ms, ls) = U(j, ms - ls + 1)
                 /\ bstrins("bstrins_d", r, bstrpick("bstrpick_d", d, ms, ls), ms, ls) = d
                 /\ ms < WB => w = SX(r)

(* A constant in four instructions, an address in two *)
LoadConstant(c) ==
    LET Part(lo, n) == (c \div 2^lo) % 2^n
        r1 == UpperImm("lu12i_w", 0, 0, Part(I12, I20), 0)
        r2 == LogicImm("ori", r1, Part(0, I12))
        r3 == UpperImm("lu32i_d", r2, 0, Part(WB, I20), 0)
    IN  UpperImm("lu52i_d", 0, r3, Part(WB + I20, I12), 0)
Reaches(pc, t) ==
    LET hi == (t + 2^(I12 - 1)) \div 2^I12 - pc \div 2^I12
        far == (t - pc + 2^(I16 + 1)) \div 2^(I16 + 2)
        base == UpperImm("pcaddu18i", 0, 0, U(far, I20), pc)
    IN  /\ S(hi, I20) = hi =>
              AddImm("addi_d", UpperImm("pcalau12i", 0, 0, U(hi, I20), pc), t % 2^I12) = t
        /\ (S(far, I20) = far /\ (t - pc) % 4 = 0) =>
              Reg(base + S((t - base) \div 4, I16) * 4) = t

LaIntExact(j, k) ==
    /\ WordsOnly(j, k) /\ Together(j, k)
    /\ k = 0 => Reversals(j) /\ LoadConstant(j) = j
    /\ Fields(j, k)
    /\ k % 4 = 0 => Reaches(k, j)
=============================================================================
