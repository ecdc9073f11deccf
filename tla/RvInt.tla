-------------------------------- MODULE RvInt --------------------------------
(***************************************************************************)
(* The integer instructions of the RISC-V interpreter                      *)
(* (riscv64/interpreter.c), with the widths of LaInt.  xl is RV64, as      *)
(* cpu_reset leaves it; ol is the operation length, which interpreter()    *)
(* sets to DB and the word instructions to WB.  A division the host traps  *)
(* on, or a shift C does not define, is UNDEFINED.                         *)
(***************************************************************************)
EXTENDS LaInt, LaBt

(* A register is read as it is: no instruction that shortens ol asks       *)
(* get_gpr for an extension.                                               *)
gen_set_gpr(t, ol) == IF ol = WB THEN SX(t) ELSE Reg(t)

(* k is rs2, or an immediate as the target_long it is extended to *)
RvAdd(op, j, k) ==
    CASE op \in {"add", "addi"} -> gen_set_gpr(j + k, DB) [] op = "sub" -> gen_set_gpr(j - k, DB)
      [] op = "addiw" -> gen_set_gpr(j + k, WB)
      [] op = "addw" -> gen_set_gpr(S(j, WB) + S(k, WB), WB)
      [] op = "subw" -> gen_set_gpr(S(j, WB) - S(k, WB), WB)
RvLogic(op, j, k) ==
    CASE op \in {"and", "andi"} -> And(j, k, DB) [] op \in {"or", "ori"} -> Or(j, k, DB)
      [] op \in {"xor", "xori"} -> Xor(j, k, DB)

ShiftW(op, j, n) ==
    gen_set_gpr(CASE op = "sll" -> j * 2^n [] op = "srl" -> ZX(j) \div 2^n
                  [] op = "sra" -> R_SHIFT(S(j, WB), n), WB)
ShiftD(op, j, n) ==
    gen_set_gpr(CASE op = "sll" -> j * 2^n [] op = "srl" -> j \div 2^n
                  [] op = "sra" -> R_SHIFT(S(j, DB), n), DB)
RvShiftW(op, j, k) == ShiftW(op, j, k % WB)
RvShiftD(op, j, k) == ShiftD(op, j, k % DB)
RvShiftImmW(op, j, shamt) == ShiftW(op, j, shamt)      \* five bits of shamt
(* The decoder passes seven bits of shamt, and nothing refuses the upper half *)
RvShiftImmD(op, j, shamt) == IF shamt >= DB THEN UNDEFINED ELSE ShiftD(op, j, shamt)

RvMul(op, j, k) ==
    CASE op = "mul" -> gen_set_gpr(S(j, DB) * S(k, DB), DB)
      [] op = "mulh" -> gen_set_gpr((S(j, DB) * S(k, DB)) \div 2^DB, DB)
      [] op = "mulhu" -> gen_set_gpr((j * k) \div 2^DB, DB)
      [] op = "mulw" -> gen_set_gpr(S(j, WB) * S(k, WB), WB)
(* Only div looks for a zero divisor and for the overflow *)
trans_div(j, k) ==
    LET a == S(j, DB)  b == S(k, DB)
    IN  gen_set_gpr(IF b = 0 THEN -1 ELSE IF a = -(2^(DB - 1)) /\ b = -1 THEN a ELSE Quot(a, b), DB)
HostDiv(a, b, w, isDiv) ==
    IF b = 0 \/ (a = -(2^(w - 1)) /\ b = -1) THEN UNDEFINED ELSE IF isDiv THEN Quot(a, b) ELSE Rem(a, b)
SetDefined(r, ol) == IF r = UNDEFINED THEN UNDEFINED ELSE gen_set_gpr(r, ol)
RvDiv(op, j, k) ==
    CASE op = "rem" -> SetDefined(HostDiv(S(j, DB), S(k, DB), DB, FALSE), DB)
      [] op = "divu" -> SetDefined(HostDiv(j, k, DB, TRUE), DB)
      [] op = "remu" -> SetDefined(HostDiv(j, k, DB, FALSE), DB)
RvDivW(op, j, k) ==
    CASE op = "divw" -> SetDefined(HostDiv(S(j, WB), S(k, WB), WB, TRUE), WB)
      [] op = "divuw" -> SetDefined(HostDiv(ZX(j), ZX(k), WB, TRUE), WB)
      [] op = "remw" -> SetDefined(HostDiv(S(j, WB), S(k, WB), WB, FALSE), WB)
      [] op = "remuw" -> SetDefined(HostDiv(ZX(j), ZX(k), WB, FALSE), WB)

RvSetLess(op, j, k) ==
    Bool(CASE op \in {"slt", "slti"} -> S(j, DB) < S(k, DB) [] op \in {"sltu", "sltiu"} -> j < k)
RvTaken(op, j, k) ==
    CASE op = "beq" -> j = k [] op = "bne" -> j # k
      [] op = "blt" -> S(j, DB) < S(k, DB) [] op = "bge" -> S(j, DB) >= S(k, DB)
      [] op = "bltu" -> j < k [] op = "bgeu" -> j >= k
(* pc after the instruction: interpreter() adds cur_insn_len, which a jump *)
(* and a branch taken set to 0.                                            *)
RvBranchPc(op, j, k, pc, imm, len) == IF RvTaken(op, j, k) THEN Reg(pc + imm) ELSE Reg(pc + len)
RvJump(op, j, pc, imm, len) ==
    [rd |-> gen_set_gpr(pc + len, DB), pc |-> IF op = "jal" THEN Reg(pc + imm) ELSE Reg(j + imm)]
(* imm is a signed C int: the upper I20 bits of a word *)
RvUpper(op, imm, pc) ==
    CASE op = "lui" -> gen_set_gpr(S(imm, I20) * 2^I12, DB)
      [] op = "auipc" -> gen_set_gpr(pc + S(imm, I20) * 2^I12, DB)

(* An amo on memory of w bits: what it stores, and rd.  ld_w extends the   *)
(* sign; the extremes are taken in the type of the memory.                 *)
AmoStored(op, old, data, w) ==
    LET a == U(S(old, w), DB)
        r == CASE op = "add" -> a + data [] op = "and" -> And(a, data, DB) [] op = "or" -> Or(a, data, DB)
               [] op = "xor" -> Xor(a, data, DB) [] op = "swap" -> data
               [] op = "max" -> Max({S(a, w), S(data, w)}) [] op = "min" -> Min({S(a, w), S(data, w)})
               [] op = "maxu" -> Max({U(a, w), U(data, w)}) [] op = "minu" -> Min({U(a, w), U(data, w)})
    IN  U(r, w)
AmoRd(old, w) == gen_set_gpr(S(old, w), DB)
----------------------------------------------------------------------------
(* An instruction on words is a function of the lower words, and leaves a  *)
(* word extended by its sign.                                              *)
RvWord(op, j, k) ==
    CASE op \in {"addw", "subw"} -> RvAdd(op, j, k) [] op = "mulw" -> RvMul(op, j, k)
      [] op \in {"divw", "divuw", "remw", "remuw"} -> RvDivW(op, j, k)
      [] op \in {"sll", "srl", "sra"} -> RvShiftW(op, j, k)
RvWordsOnly(j, k) ==
    \A op \in {"addw", "subw", "mulw", "divw", "divuw", "remw", "remuw", "sll", "srl", "sra"} :
        LET r == RvWord(op, j, k)
        IN  /\ r = RvWord(op, ZX(j), ZX(k))
            /\ r # UNDEFINED => r = SX(r) /\ r \in Regs

(* The two instruction sets agree where they define the same operation *)
SameAsLoongArch(j, k) ==
    /\ RvAdd("addw", j, k) = AddSub("add_w", j, k) /\ RvAdd("subw", j, k) = AddSub("sub_w", j, k)
    /\ \A n \in {<<"mul", "mul_d">>, <<"mulh", "mulh_d">>, <<"mulhu", "mulh_du">>, <<"mulw", "mul_w">>} :
          RvMul(n[1], j, k) = Mul(n[2], j, k)
    /\ \A n \in {<<"sll", "sll_w", "sll_d">>, <<"srl", "srl_w", "srl_d">>, <<"sra", "sra_w", "sra_d">>} :
          RvShiftW(n[1], j, k) = Shift(n[2], j, k) /\ RvShiftD(n[1], j, k) = Shift(n[3], j, k)
    /\ \A op \in {"and", "or", "xor"} : RvLogic(op, j, k) = Logic(op, j, k)
    /\ RvSetLess("slt", j, k) = SetLess("slt", j, k) /\ RvSetLess("sltu", j, k) = SetLess("sltu", j, k)
    /\ U(k, WB) # 0 => /\ RvDivW("divw", j, k) = DivMod("div_w", j, k)
                       /\ RvDivW("remw", j, k) = DivMod("mod_w", j, k)
                       /\ RvDivW("divuw", j, k) = DivMod("div_wu", j, k)
                       /\ RvDivW("remuw", j, k) = SX(DivMod("mod_wu", j, k))

(* What the divisions leave undefined, and the exact results elsewhere *)
RvDivisions(j, k) ==
    LET sj == S(j, DB)  sk == S(k, DB)
        overflow == sj = -(2^(DB - 1)) /\ sk = -1
    IN  /\ S(trans_div(j, k), DB) = IF k = 0 THEN -1 ELSE IF overflow THEN sj ELSE Quot(sj, sk)
        /\ \A op \in {"divu", "remu"} : RvDiv(op, j, k) = UNDEFINED <=> k = 0
        /\ RvDiv("rem", j, k) = UNDEFINED <=> k = 0 \/ overflow
        /\ k # 0 => RvDiv("divu", j, k) * k + RvDiv("remu", j, k) = j
        /\ k # 0 /\ ~overflow => S(trans_div(j, k), DB) * sk + S(RvDiv("rem", j, k), DB) = sj

(* Each pair of branches takes exactly one way; a comparison and a branch  *)
(* on it, and an auipc or lui with its low part, arrive where one exact    *)
(* computation does.                                                       *)
RvControl(j, k) ==
    LET pc == 4
        lo == S(k, I12)
        hi == (S(k, WB) - lo) \div 2^I12
    IN  /\ \A n \in {<<"beq", "bne">>, <<"blt", "bge">>, <<"bltu", "bgeu">>} :
              RvTaken(n[1], j, k) # RvTaken(n[2], j, k)
        /\ RvBranchPc("blt", j, k, pc, 8, 4) = RvBranchPc("bne", RvSetLess("slt", j, k), 0, pc, 8, 4)
        /\ RvBranchPc("bgeu", j, k, pc, 8, 2) = RvBranchPc("beq", RvSetLess("sltu", j, k), 0, pc, 8, 2)
        /\ RvAdd("addiw", RvUpper("lui", U(hi, I20), pc), Reg(lo)) = SX(k)
        /\ S(hi, I20) = hi => RvAdd("addi", RvUpper("lui", U(hi, I20), pc), Reg(lo)) = SX(k)
        /\ LET far == RvUpper("auipc", U(hi, I20), j)
               jump == RvJump("jalr", far, Reg(j + 4), lo, 4)
           IN  S(hi, I20) = hi => jump.pc = Reg(j + S(k, WB)) /\ jump.rd = Reg(j + 8)

(* A word amo changes the word as its doubleword form would an extended    *)
(* word, and leaves rd as an lw would.                                     *)
RvAmos(j, k) ==
    /\ \A op \in {"add", "and", "or", "xor", "swap", "max", "min", "maxu", "minu"} :
          /\ AmoStored(op, j, SX(k), WB) = U(AmoStored(op, SX(j), SX(k), DB), WB)
          /\ AmoStored(op, j, k, WB) = AmoStored(op, ZX(j), ZX(k), WB)
    /\ AmoRd(j, WB) = SX(j) /\ AmoRd(j, DB) = j
    /\ AmoStored("max", j, k, DB) + AmoStored("min", j, k, DB) = j + k
    /\ AmoStored("maxu", j, k, DB) + AmoStored("minu", j, k, DB) = j + k

RvShiftCounts(j) ==
    \A op \in {"sll", "srl", "sra"}, n \in 0 .. 2 * DB - 1 :
        RvShiftImmD(op, j, n) = IF n < DB THEN RvShiftD(op, j, n) ELSE UNDEFINED
RvIntExact(j, k) ==
    /\ RvWordsOnly(j, k) /\ SameAsLoongArch(j, k) /\ RvDivisions(j, k) /\ RvControl(j, k) /\ RvAmos(j, k)
    /\ k = 0 => RvShiftCounts(j)

(* The integer instructions of both targets agree with each other and with *)
(* exact integers.  LoongArch: an instruction on words looks at the lower  *)
(* words alone and leaves a properly extended word; high and low products, *)
(* quotient and remainder make up the exact number, with the signed        *)
(* overflow of a division the only undefined case; the byte and bit        *)
(* reversals compose; inserting and picking a field are inverse; lu12i.w,  *)
(* ori, lu32i.d and lu52i.d load any constant, and the pc-relative pairs   *)
(* reach any address in range.  RISC-V: the same for words, products,      *)
(* constants and jumps; of the divisions div alone is defined for every    *)
(* operand, the others except for a zero divisor and the overflow; an amo  *)
(* on words acts as the one on doublewords.                                *)
IntExact ==
    arg.kind = "int" => LaIntExact(arg.a, arg.b) /\ RvIntExact(arg.a, arg.b)
=============================================================================
