-------------------------------- MODULE LaBt --------------------------------
(***************************************************************************)
(* The binary translation instructions (loongarch64/lbt_helper.c and the   *)
(* end of interpreter.c): the x86 flags computed for an operation without  *)
(* its result, the operations that consume the carry, the conditions, the  *)
(* transfers of flags, scratch registers and the x87 top of stack.         *)
(*                                                                         *)
(* The helpers are instances of macros in the operand width.  An operand   *)
(* has w bits, of which NB are the low nibble (4) that af looks at; pf     *)
(* looks at the lowest PB bits (8).  A flag is 0 or 1 (a C bool).          *)
(***************************************************************************)
EXTENDS Words, HostUtils, SequencesExt

NB == 2
PB == 4

FlagNames == {"cf", "pf", "af", "zf", "sf", "of"}
Top(x, w) == Bit(x, w - 1)
BXor(a, b) == (a + b) % 2
UNKNOWN == 2^20

(* Folding by shifts, as the code writes it; 1 for an even number of ones *)
parity1_b(v) ==
    LET c == Xor(Xor(v \div 2, v, PB), 1, PB)
    IN  BXor(Bit(c \div 4, 0), Bit(c, 0))

X86ConditionPassed(f, cond) ==
    CASE cond = 0 -> f.cf = 0 /\ f.zf = 0 [] cond = 1 -> f.cf = 0 [] cond = 2 -> f.cf = 1
      [] cond = 3 -> f.cf = 1 \/ f.zf = 1 [] cond = 4 -> f.zf = 1 [] cond = 5 -> f.zf = 0
      [] cond = 6 -> f.zf = 0 /\ f.sf = f.of [] cond = 7 -> f.sf = f.of [] cond = 8 -> f.sf # f.of
      [] cond = 9 -> f.zf = 1 \/ f.sf # f.of [] cond = 10 -> f.sf = 1 [] cond = 11 -> f.sf = 0
      [] cond = 12 -> f.of = 1 [] cond = 13 -> f.of = 0 [] cond = 14 -> f.pf = 1 [] cond = 15 -> f.pf = 0

(* add_wu, sub_wu: the sum in a wider type; of is cleared *)
AddWide(f, a0, a1, w, sgn) ==
    LET temp == a0 + sgn * a1
    IN  [cf |-> Bit(temp, w), of |-> 0, af |-> Bit((a0 % 2^NB) + sgn * (a1 % 2^NB), NB),
         sf |-> Bit(temp, w - 1), zf |-> Bool(temp % 2^w = 0), pf |-> parity1_b(temp % 2^PB)]
(* add_du, sub_du: there is no wider type, so nibble and rest are added    *)
(* apart, with af carried from one into the other.                         *)
SplitFlags(templo, temphi, w) ==
    [cf |-> Bit(temphi, w - NB), of |-> 0, af |-> Bit(templo, NB), sf |-> Bit(temphi, w - NB - 1),
     zf |-> Bool(U(temphi * 2^NB, w) = 0 /\ templo % 2^NB = 0),
     pf |-> parity1_b((temphi * 2^NB + (templo % 2^NB)) % 2^PB)]
WithNibble(templo, a0, a1, w, sgn) ==
    SplitFlags(templo, U(a0 \div 2^NB + sgn * (a1 \div 2^NB) + sgn * Bit(templo, NB), w), w)
AddSplit(a0, a1, carry, w, sgn) ==
    WithNibble(U((a0 % 2^NB) + sgn * (a1 % 2^NB) + sgn * carry, w), a0, a1, w, sgn)
(* HELPER_LBT_X86ADDSUB.  The sign of the second operand is taken of       *)
(* a1 + carry where carry, for adc and sbc, is flags->cf, which by then    *)
(* holds the carry out of this very operation.                             *)
WithOverflow(g, a0, a1c, w, sgn) ==
    [g EXCEPT !.of = Bool(4 * Top(a0, w) + 2 * (IF sgn = 1 THEN Top(a1c, w) ELSE 1 - Top(a1c, w)) + g.sf \in {1, 6})]
X86ADDSUB(f, a0, a1, w, sgn, useCarry) ==
    LET g == AddSplit(a0, a1, IF useCarry THEN f.cf ELSE 0, w, sgn)
    IN  WithOverflow(g, a0, U(a1 + (IF useCarry THEN g.cf ELSE 0), w), w, sgn)
(* HELPER_LBT_X86INCDEC: cf is left alone *)
X86INCDEC(f, a0, w, sgn) ==
    LET temp == U(a0 + sgn, w)
    IN  [f EXCEPT !.af = Bool(a0 % 2^NB = IF sgn = 1 THEN 2^NB - 1 ELSE 0),
                  !.of = Bool(a0 = IF sgn = 1 THEN 2^(w - 1) - 1 ELSE 2^(w - 1)),
                  !.sf = Bool(S(temp, w) < 0), !.pf = parity1_b(temp % 2^PB), !.zf = Bool(temp = 0)]

(* HELPER_LBT_X86SHIFT and SHIFTI.  s is the masked count: of bytes and    *)
(* half words the mask lets through counts beyond the width.               *)
ShiftBy(op, a0, s, w) ==
    CASE op = "sll" -> U(a0 * 2^s, w) [] op = "srl" -> a0 \div 2^s [] op = "sra" -> U(R_SHIFT(S(a0, w), s), w)
\* Mutant: a count of the full width is taken for one beyond it.
ShiftOutStrict(op, a0, s, w) ==
    CASE op = "sll" -> (IF s < w THEN Bit(a0, w - s) ELSE 0)
      [] op = "srl" -> (IF s < w THEN Bit(a0, s - 1) ELSE 0)
      [] op = "sra" -> (IF s < w THEN Bit(a0, s - 1) ELSE Top(a0, w))
ShiftOut(op, a0, s, w) ==
    CASE op = "sll" -> (IF s <= w THEN Bit(a0, w - s) ELSE 0)
      [] op = "srl" -> (IF s <= w THEN Bit(a0, s - 1) ELSE 0)
      [] op = "sra" -> (IF s <= w THEN Bit(a0, s - 1) ELSE Top(a0, w))
X86SHIFT(f, op, a0, s, w) ==
    LET temp == ShiftBy(op, a0, s, w)
        c == ShiftOut(op, a0, s, w)
        o == CASE op = "sll" -> BXor(c, Top(temp, w)) [] op = "srl" -> Top(a0, w) [] op = "sra" -> 0
    IN  IF s = 0 THEN f
        ELSE [f EXCEPT !.cf = c, !.of = IF s = 1 THEN o ELSE @, !.zf = Bool(temp = 0),
                       !.sf = Top(temp, w), !.pf = parity1_b(temp % 2^PB)]

(* HELPER_LBT_X86ROTATE and ROTATEI: a1 is the masked count, s = a1 mod w. *)
(* cf is written for a count of zero too, and before of is computed.       *)
X86ROTATE(f, op, a0, a1, w) ==
    LET s == a1 % w
        c == IF op = "rotr" THEN (IF s = 0 THEN Top(a0, w) ELSE Bit(a0, s - 1))
             ELSE (IF s = 0 THEN Bit(a0, 0) ELSE Bit(a0, w - s))
        o == BXor(c, IF op = "rotr" THEN Top(a0, w) ELSE Bit(a0, w - 2))
    IN  [f EXCEPT !.cf = c, !.of = IF a1 = 1 THEN o ELSE @]
(* HELPER_LBT_X86ROTATEC and ROTATECI: through the carry; s is the count   *)
(* modulo w + 1.  of is computed first, from the old carry.                *)
X86ROTATEC(f, op, a0, a1, w) ==
    LET s == a1 % (w + 1)
        o == IF op = "rcr" THEN BXor(f.cf, Top(a0, w)) ELSE BXor(Bit(a0, w - 2), Bit(a0, w - 1))
        c == IF op = "rcr" THEN Bit(a0, s - 1) ELSE Bit(a0, w - s)
    IN  [f EXCEPT !.of = IF a1 = 1 THEN o ELSE @, !.cf = IF s # 0 THEN c ELSE @]
X86LOGIC(op, a0, a1, w) ==
    LET temp == CASE op = "and" -> And(a0, a1, w) [] op = "or" -> Or(a0, a1, w) [] op = "xor" -> Xor(a0, a1, w)
    IN  [cf |-> 0, of |-> 0, af |-> 0, sf |-> Top(temp, w), zf |-> Bool(temp = 0), pf |-> parity1_b(temp % 2^PB)]
X86MUL(f, a0, a1, w, sgn) ==
    LET temp == As(sgn, a0, w) * As(sgn, a1, w)
        flag == Bool(IF sgn THEN -(temp \div 2^w) # Bit(temp, w - 1) ELSE temp \div 2^w # 0)
    IN  [f EXCEPT !.cf = flag, !.of = flag]

(* adc_*, sbc_*: the result that goes with the flags of X86ADDSUB *)
helper_lbt_adc(f, a0, a1, w, sgn) == U(a0 + sgn * a1 + sgn * f.cf, w)
(* rcr_*, rcri_*: the count is not masked but taken modulo w + 1 *)
helper_lbt_rcr(f, a0, count, w) ==
    LET s == count % (w + 1)
        hi == a0 % 2^(s - 1)
        lo == (a0 \div 2^s) % 2^(w - s)
    IN  IF s = 0 THEN a0 ELSE U(hi * 2^(w - s + 1) + f.cf * 2^(w - s) + lo, w)

(* rcr_d, rcri_d: the count is masked, but the length is that of a word.   *)
(* A negative shift is undefined; cf << 31 is a negative int.              *)
helper_lbt_rcr_d(f, a0, count, w) ==
    LET s == count % w
        L == w \div 2
        c == IF s = 1 THEN -(2^(L - 1)) ELSE 2^(L - s)
    IN  IF s = 0 THEN a0 ELSE IF s > L THEN UNKNOWN
        ELSE U((a0 % 2^(s - 1)) * 2^(L - s + 1), w) + U(f.cf * c, w) + ((a0 \div 2^s) % 2^(L - s))

(* rcri_*: the same with an immediate count *)
helper_lbt_rcri(f, a0, sa, w) == helper_lbt_rcr(f, a0, sa, w)
helper_lbt_rcri_d(f, a0, sa, w) == helper_lbt_rcr_d(f, a0, sa, w)

(* TRANS_X86, TRANS_X86MJ, TRANS_X86I and TRANS_ADC: nothing is done while *)
(* binary translation is disabled in EUEN.                                 *)
X86Flags(f, op, a0, a1, w) ==
    CASE op \in {"add", "sub"} -> X86ADDSUB(f, a0, a1, w, IF op = "add" THEN 1 ELSE -1, FALSE)
      [] op \in {"adc", "sbc"} -> X86ADDSUB(f, a0, a1, w, IF op = "adc" THEN 1 ELSE -1, TRUE)
      [] op \in {"add_du", "sub_du"} -> AddSplit(a0, a1, 0, w, IF op = "add_du" THEN 1 ELSE -1)
      [] op \in {"add_wu", "sub_wu"} -> AddWide(f, a0, a1, w, IF op = "add_wu" THEN 1 ELSE -1)
      [] op \in {"inc", "dec"} -> X86INCDEC(f, a0, w, IF op = "inc" THEN 1 ELSE -1)
      [] op \in {"sll", "srl", "sra"} -> X86SHIFT(f, op, a0, a1, w)
      [] op \in {"rotr", "rotl"} -> X86ROTATE(f, op, a0, a1, w)
      [] op \in {"rcr", "rcl"} -> X86ROTATEC(f, op, a0, a1, w)
      [] op \in {"and", "or", "xor"} -> X86LOGIC(op, a0, a1, w)
      [] op \in {"mul", "mulu"} -> X86MUL(f, a0, a1, w, op = "mul")
X86Ops == {"add", "sub", "adc", "sbc", "add_du", "sub_du", "add_wu", "sub_wu", "inc", "dec", "sll", "srl", "sra",
           "rotr", "rotl", "rcr", "rcl", "and", "or", "xor", "mul", "mulu"}
TRANS_X86(bte, f, op, a0, a1, w) ==
    IF ~bte THEN [exc |-> "BTD", flags |-> f] ELSE [exc |-> "none", flags |-> X86Flags(f, op, a0, a1, w)]
TRANS_ADC(bte, f, rd, op, a0, a1, w) ==
    CASE ~bte -> [exc |-> "BTD", rd |-> rd]
      [] bte /\ op = "adc" -> [exc |-> "none", rd |-> helper_lbt_adc(f, a0, a1, w, 1)]
      [] bte /\ op = "sbc" -> [exc |-> "none", rd |-> helper_lbt_adc(f, a0, a1, w, -1)]
      [] bte /\ op = "rcr" -> [exc |-> "none", rd |-> helper_lbt_rcr(f, a0, a1, w)]
      [] bte /\ op = "rcri" -> [exc |-> "none", rd |-> helper_lbt_rcri(f, a0, a1, w)]

(* The flags word of x86 and the flags it carries.  A C bool stores 1 for  *)
(* any nonzero number, so the masked bit needs no shift.                   *)
FlagBit == [cf |-> 0, pf |-> 2, af |-> 4, zf |-> 6, sf |-> 7, of |-> 11]
helper_lbt_x86mfflag(f, mask) == OfBits({FlagBit[n] : n \in {m \in mask : f[m] = 1}})
helper_lbt_x86mtflag(f, v, mask) == [n \in FlagNames |-> IF n \in mask THEN Bit(v, FlagBit[n]) ELSE f[n]]
EflagsOrder == <<"cf", "pf", "af", "zf", "sf", "of">>
eflags2int(f) == OfBits({i - 1 : i \in {k \in 1 .. 6 : f[EflagsOrder[k]] = 1}})
int2eflags(n) == [m \in FlagNames |-> Bit(n, (CHOOSE i \in 1 .. 6 : EflagsOrder[i] = m) - 1)]

(* loope and loopne write rd and then decrement rj: if they are the same   *)
(* register the answer is lost.                                            *)
x86loop(f, a0, ne) == Bool(a0 # 1 /\ (IF ne THEN f.zf = 0 ELSE f.zf = 1))
trans_x86loop(f, gpr, rd, rj, ne, w) ==
    LET g == [gpr EXCEPT ![rd] = x86loop(f, gpr[rj], ne)] IN [g EXCEPT ![rj] = U(@ - 1, w)]

(* Scratch registers and jumps through them; pc is that of the instruction *)
helper_lbt_grsel(f, gpr, rd, rj, cond) == IF X86ConditionPassed(f, cond) THEN [gpr EXCEPT ![rd] = gpr[rj]] ELSE gpr
trans_jiscr1(scr, pc, offs, w) == [scr |-> [scr EXCEPT ![0] = pc], pc |-> U(scr[1] + offs, w)]
trans_jiscr0(scr, offs, w) == U(scr[0] + offs, w)

(* The x87 stack: with the mode bit of fcsr0 set, registers 0 .. 7 are     *)
(* counted from the top.                                                   *)
x86inctop(top) == (top + 1) % 8
x86dectop(top) == (top + 8 - 1) % 8
FprIndex(tm, top, reg) == IF reg < 8 /\ tm THEN (reg + top) % 8 ELSE reg
----------------------------------------------------------------------------
BtW == 4             \* the operand width that is tried, with every count
Bts(a) == {[kind |-> "bt", a |-> a, b |-> b] : b \in 0 .. 2^BtW - 1}
FlagStates == {[n \in FlagNames |-> IF n = "cf" THEN c ELSE r] : c \in {0, 1}, r \in {0, 1}}

Flags(f, op, a, b) == TRANS_X86(TRUE, f, op, a, b, BtW).flags
(* The flags of x86 for a sum of exact integers *)
Even(v) == Bool(Cardinality(Bits(v, PB)) % 2 = 0)
SumFlags(a0, a1, cin, w, sgn) ==
    LET t == a0 + sgn * (a1 + cin)
        st == S(a0, w) + sgn * (S(a1, w) + cin)
        n == (a0 % 2^NB) + sgn * ((a1 % 2^NB) + cin)
    IN  [cf |-> Bool(t < 0 \/ t >= 2^w), of |-> Bool(st < -(2^(w - 1)) \/ st >= 2^(w - 1)),
         af |-> Bool(n < 0 \/ n >= 2^NB), zf |-> Bool(U(t, w) = 0), sf |-> Top(U(t, w), w), pf |-> Even(t)]
SumExact(f, a, b, sgn, want, carried, got) ==
    /\ Flags(f, IF sgn = 1 THEN "add_wu" ELSE "sub_wu", a, b) = [want EXCEPT !.of = 0]
    /\ Flags(f, IF sgn = 1 THEN "add_du" ELSE "sub_du", a, b) = [want EXCEPT !.of = 0]
    /\ Flags(f, IF sgn = 1 THEN "add" ELSE "sub", a, b) = want
    /\ got = [carried EXCEPT !.of = got.of]
    \* the carry out changes the sign that is looked at
    /\ got.of = carried.of \/ (got.cf = 1 /\ b \in {2^(BtW - 1) - 1, 2^BtW - 1})
    /\ TRANS_ADC(TRUE, f, 0, IF sgn = 1 THEN "adc" ELSE "sbc", a, b, BtW).rd = U(a + sgn * (b + f.cf), BtW)
SumsExact(f, a, b) ==
    /\ \A sgn \in {1, -1} :
          /\ SumExact(f, a, b, sgn, SumFlags(a, b, 0, BtW, sgn), SumFlags(a, b, f.cf, BtW, sgn),
                      Flags(f, IF sgn = 1 THEN "adc" ELSE "sbc", a, b))
          /\ Flags(f, IF sgn = 1 THEN "inc" ELSE "dec", a, b) = [SumFlags(a, 1, 0, BtW, sgn) EXCEPT !.cf = f.cf]
    /\ Flags(f, "xor", a, b) = [Flags(f, "or", U(a - b, BtW), 0) EXCEPT
                                        !.pf = Even(Xor(a, b, BtW)), !.sf = BXor(Top(a, BtW), Top(b, BtW))]
    /\ Flags(f, "and", a, Not(a, BtW)) = Flags(f, "xor", b, b)
    /\ Flags(f, "mulu", a, b).of = Bool(a * b >= 2^BtW)
    /\ LET p == S(a, BtW) * S(b, BtW)
       IN  Flags(f, "mul", a, b).cf = Bool(p < -(2^(BtW - 1)) \/ p >= 2^(BtW - 1))

(* The conditions after a comparison are the orders they are named for *)
Compared(a, b) ==
    LET f == Flags([n \in FlagNames |-> 0], "sub", a, b)
        sa == S(a, BtW)  sb == S(b, BtW)
    IN  \A c \in 0 .. 9 : X86ConditionPassed(f, c) =
            CASE c = 0 -> a > b [] c = 1 -> a >= b [] c = 2 -> a < b [] c = 3 -> a <= b
              [] c = 4 -> a = b [] c = 5 -> a # b
              [] c = 6 -> sa > sb [] c = 7 -> sa >= sb [] c = 8 -> sa < sb [] c = 9 -> sa <= sb

(* One bit at a time, n times *)
OneBit(op, v, c, w) ==
    CASE op = "sll" -> [v |-> U(2 * v, w), c |-> Top(v, w)]
      [] op = "srl" -> [v |-> v \div 2, c |-> Bit(v, 0)]
      [] op = "sra" -> [v |-> v \div 2 + Top(v, w) * 2^(w - 1), c |-> Bit(v, 0)]
      [] op = "rotr" -> [v |-> v \div 2 + Bit(v, 0) * 2^(w - 1), c |-> Bit(v, 0)]
      [] op = "rotl" -> [v |-> U(2 * v, w) + Top(v, w), c |-> Top(v, w)]
      [] op = "rcr" -> [v |-> v \div 2 + c * 2^(w - 1), c |-> Bit(v, 0)]
      [] op = "rcl" -> [v |-> U(2 * v, w) + c, c |-> Top(v, w)]
ByBits(op, a, c, n) ==
    FoldLeft(LAMBDA p, i : OneBit(op, p.v, p.c, BtW), [v |-> a, c |-> c], [i \in 1 .. n |-> i])
ShiftsExact(f, a, n) ==
    LET Sign(op) == Bool(Top(a, BtW) # Top(ByBits(op, a, f.cf, 1).v, BtW))
    IN  /\ \A op \in {"sll", "srl", "sra"} :
              LET w == ByBits(op, a, f.cf, n)
              IN  Flags(f, op, a, n) =
                    IF n = 0 THEN f
                    ELSE [f EXCEPT !.cf = w.c, !.zf = Bool(w.v = 0), !.sf = Top(w.v, BtW), !.pf = Even(w.v),
                                   !.of = IF n = 1 THEN Sign(op) ELSE @]
        /\ \A op \in {"rotr", "rotl"} :
              LET w == ByBits(op, a, f.cf, n)
                  end == IF op = "rotr" THEN Top(w.v, BtW) ELSE Bit(w.v, 0)
              IN  Flags(f, op, a, n) = [f EXCEPT !.cf = end, !.of = IF n = 1 THEN Sign(op) ELSE @]
        /\ \A op \in {"rcr", "rcl"} :
              Flags(f, op, a, n) = [f EXCEPT !.cf = ByBits(op, a, f.cf, n).c,
                                                       !.of = IF n = 1 THEN Sign(op) ELSE @]
        /\ \A op \in {"rcr", "rcri"} : TRANS_ADC(TRUE, f, 0, op, a, n, BtW).rd = ByBits("rcr", a, f.cf, n).v
        /\ n % BtW = 0 => {helper_lbt_rcr_d(f, a, n, BtW), helper_lbt_rcri_d(f, a, n, BtW)} = {a}

(* Of two opposite conditions exactly one is met *)
Opposites == {{0, 3}, {1, 2}, {4, 5}, {6, 9}, {7, 8}, {10, 11}, {12, 13}, {14, 15}}
(* Flags survive the way to a register or a checkpoint and back; the loop  *)
(* instructions work for two registers; the x87 stack is a rotation.       *)
Transfers(f, a, b) ==
    LET mask == {n \in FlagNames : Bit(b, CASE n = "cf" -> 0 [] n = "pf" -> 1 [] n \in {"af", "zf"} -> 2 [] OTHER -> 3) = 1}
        word == OfBits({FlagBit[n] : n \in {"cf", "zf", "of"}})
        moved == helper_lbt_x86mtflag(f, word, mask)
    IN  /\ helper_lbt_x86mfflag(moved, mask) = OfBits(Bits(word, 12) \cap {FlagBit[n] : n \in mask})
        /\ helper_lbt_x86mtflag(f, helper_lbt_x86mfflag(f, FlagNames), FlagNames) = f
        /\ int2eflags(eflags2int(f)) = f
        /\ \A p \in Opposites :
              {helper_lbt_grsel(f, <<2, a>>, 1, 2, c)[1] : c \in p} = {2, a}
        /\ LET j == trans_jiscr1([i \in 0 .. 3 |-> b], a, 1, BtW)
           IN  j.pc = U(b + 1, BtW) /\ trans_jiscr0(j.scr, 0, BtW) = a
        /\ \A ne \in BOOLEAN :
              LET g == trans_x86loop(f, <<a, b>>, 1, 2, ne, BtW)
              IN  g[2] = U(b - 1, BtW) /\ (g[1] = 1) = (g[2] # 0 /\ (f.zf = 1) # ne)
        /\ LET top == a % 8  reg == b % 8
           IN  /\ {FprIndex(TRUE, top, r) : r \in 0 .. 31} = 0 .. 31
               /\ x86dectop(x86inctop(top)) = top
               /\ FprIndex(TRUE, x86dectop(top), (reg + 1) % 8) = FprIndex(TRUE, top, reg)

(* The flags computed without the result are those of the exact x86        *)
(* operation, for every operand and count: sums, differences and products  *)
(* of integers, shifts and rotations one bit at a time; only the overflow  *)
(* of adc and sbc may differ, when the operation carries out and a1 + 1    *)
(* has another sign than a1.  The results that use the carry agree, those  *)
(* of rcr.d and rcri.d excepted: the code rotates a doubleword through 32  *)
(* bits, so of these two only a rotation by a multiple of the width is     *)
(* compared, which leaves the operand.  The conditions after a comparison  *)
(* and the transfers of flags agree; while binary translation is disabled  *)
(* no flag changes.                                                        *)
BtExact ==
    arg.kind = "bt" =>
        /\ Compared(arg.a, arg.b)
        /\ \A f \in FlagStates, op \in X86Ops : TRANS_X86(FALSE, f, op, arg.a, arg.b, BtW).flags = f
        /\ \A f \in FlagStates :
              SumsExact(f, arg.a, arg.b) /\ ShiftsExact(f, arg.a, arg.b) /\ Transfers(f, arg.a, arg.b)
=============================================================================
