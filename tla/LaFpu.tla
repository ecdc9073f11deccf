-------------------------------- MODULE LaFpu --------------------------------
(***************************************************************************)
(* The floating-point control and status of a LoongArch core: fcsr0, the   *)
(* softfloat status it drives, and what the scalar helpers of fpu_helper.c *)
(* and the vector helpers of vec_helper.c do to both.                      *)
(*                                                                         *)
(* An operand is the set of exceptions that softfloat raises on it; a      *)
(* result is the rounding mode that it was computed in.  do_raise_exception*)
(* is a longjmp: a step that raises leaves the rest of its helper undone.  *)
(***************************************************************************)
EXTENDS Words, TLC

CONSTANTS RMs,       \* values of the RM field that the program writes
          Enables,   \* values of the Enables field that it writes
          Operands   \* the operands, as sets of softfloat exceptions

ASSUME FpuAssumption == RMs \subseteq 0 .. 3

VARIABLES fcsr,      \* fcsr0: [rm, enables, cause, flags]
          fps,       \* fp_status: [mode, acc], the accrued exceptions
          fdest,     \* the four elements of the destination
          finsn,     \* the last instruction
          fprev,     \* fcsr and fps before it
          fout       \* "retire", "FPE", or "FPD" with the unit disabled

fpuVars == <<fcsr, fps, fdest, finsn, fprev, fout>>

NElem == 4           \* two lanes of two elements
PerLane == 2

ieee_rm == <<"ne", "tz", "up", "dn">>
Soft == {"invalid", "overflow", "underflow", "divbyzero", "inexact"}
ieee_ex_to_loongarch(xcpt) ==
    {CASE x = "invalid" -> "V" [] x = "overflow" -> "O" [] x = "underflow" -> "U"
       [] x = "divbyzero" -> "Z" [] x = "inexact" -> "I" : x \in xcpt}

(* The working state of a helper: fcsr, mode, acc, vd and whether it raised *)
Work == [rm |-> fcsr.rm, enables |-> fcsr.enables, cause |-> fcsr.cause, flags |-> fcsr.flags,
         mode |-> fps.mode, acc |-> fps.acc, vd |-> fdest, raised |-> FALSE]

(* SET_FP_CAUSE replaces, UPDATE_FP_CAUSE adds *)
Settle(s, fl) == IF fl \cap s.enables # {} THEN [s EXCEPT !.raised = TRUE]
                 ELSE [s EXCEPT !.flags = @ \cup fl]
update_fcsr0_mask(s, mask) ==
    LET fl == ieee_ex_to_loongarch(s.acc \ mask)
    IN  Settle([s EXCEPT !.acc = {}, !.cause = fl], fl)
update_fcsr0(s) == update_fcsr0_mask(s, {})
\* Mutant: the accrued exceptions are not cleared, and reach the next element.
AccruedKept(s, mask) ==
    LET fl == ieee_ex_to_loongarch(s.acc \ mask)
    IN  Settle([s EXCEPT !.cause = @ \cup fl], fl)
vec_update_fcsr0_mask(s, mask) ==
    LET fl == ieee_ex_to_loongarch(s.acc \ mask)
    IN  Settle([s EXCEPT !.acc = {}, !.cause = @ \cup fl], fl)
vec_update_fcsr0(s) == vec_update_fcsr0_mask(s, {})
vec_clear_cause(s) == [s EXCEPT !.cause = {}]

(* A softfloat operation; the assignment of its result to element i *)
Soften(s, x) == [s EXCEPT !.acc = @ \cup x]
Write(s, i) == IF s.raised THEN s ELSE [s EXCEPT !.vd[i] = s.mode]
WriteAs(s, i, mode) == IF s.raised THEN s ELSE [s EXCEPT !.vd[i] = mode]
SetMode(s, mode) == IF s.raised THEN s ELSE [s EXCEPT !.mode = mode]

----------------------------------------------------------------------------
(* fpu_helper.c: the helper settles the exceptions, then the caller writes *)
(* the destination.                                                        *)

helper_fff(s, x) == Write(update_fcsr0(Soften(s, x[0])), 0)
helper_ff(s, x) == Write(update_fcsr0(Soften(s, x[0])), 0)
helper_frsqrt(s, x) == Write(update_fcsr0(Soften(Soften(s, x[0]), x[1])), 0)
helper_fmuladd(s, x) == Write(update_fcsr0(Soften(s, x[0])), 0)
helper_fcvt(s, x) == Write(update_fcsr0(Soften(s, x[0])), 0)
helper_frint(s, x) == Write(update_fcsr0(Soften(s, x[0])), 0)
helper_ftint(s, x) == Write(update_fcsr0(Soften(s, x[0])), 0)
fcmp_common(s, x) == Write(update_fcsr0(Soften(s, x[0])), 0)
helper_fmaxn(s, x) == Write(update_fcsr0(Soften(s, x[0])), 0)
helper_flogb(s, x) ==
    LET t == SetMode(Soften(SetMode(s, "dn"), x[0]), s.mode)
    IN  WriteAs(update_fcsr0_mask(t, {"inexact"}), 0, "dn")
helper_ftintrm(s, x) ==
    WriteAs(update_fcsr0(SetMode(Soften(SetMode(s, "dn"), x[0]), s.mode)), 0, "dn")
helper_ftintrp(s, x) ==
    WriteAs(update_fcsr0(SetMode(Soften(SetMode(s, "up"), x[0]), s.mode)), 0, "up")
helper_ftintrne(s, x) ==
    WriteAs(update_fcsr0(SetMode(Soften(SetMode(s, "ne"), x[0]), s.mode)), 0, "ne")
(* float*_to_int*_round_to_zero does not look at the mode *)
helper_ftintrz(s, x) == WriteAs(update_fcsr0(SetMode(Soften(s, x[0]), s.mode)), 0, "tz")
FRINT_2OP(s, x) ==
    LET t == SetMode(Soften(SetMode(s, "up"), x[0]), s.mode)
    IN  WriteAs(update_fcsr0_mask(t, {"inexact"}), 0, "up")

----------------------------------------------------------------------------
(* vec_helper.c *)

(* The elements first .. last in turn, until one raises *)
Through(s, first, last, body(_, _)) ==
    LET after[k \in first - 1 .. last] ==
            IF k = first - 1 THEN s
            ELSE LET p == after[k - 1] IN IF p.raised THEN p ELSE body(p, k)
    IN  after[last]
Each(s, body(_, _)) == Through(vec_clear_cause(s), 0, NElem - 1, body)

(* The result is stored, then the exceptions are settled *)
DO_3OP_F(s, x) == Each(s, LAMBDA t, i : vec_update_fcsr0(Write(Soften(t, x[i]), i)))
DO_4OP_F(s, x) == Each(s, LAMBDA t, i : vec_update_fcsr0(Write(Soften(t, x[i]), i)))
DO_2OP_F2(s, x) == Each(s, LAMBDA t, i : vec_update_fcsr0(Write(Soften(t, x[i]), i)))
vfrint(s, x) == Each(s, LAMBDA t, i : vec_update_fcsr0(Write(Soften(t, x[i]), i)))
FCVT_2OP(s, x) ==
    Each(s, LAMBDA t, i :
        vec_update_fcsr0(SetMode(Write(Soften(SetMode(t, "up"), x[i]), i), t.mode)))
FCVT_2OP_INEXACT(s, x) ==
    Each(s, LAMBDA t, i :
        vec_update_fcsr0_mask(SetMode(Write(Soften(SetMode(t, "up"), x[i]), i), t.mode), {"inexact"}))

(* A function settles the exceptions of one element, then the loop stores  *)
\* Mutant: the mode is restored after the exceptions are settled.
RestoreLast(s, x) ==
    SetMode(vec_update_fcsr0_mask(Soften(SetMode(s, "dn"), x), {"inexact"}), s.mode)
do_flogb(s, x) ==
    vec_update_fcsr0_mask(SetMode(Soften(SetMode(s, "dn"), x), s.mode), {"inexact"})
do_fsqrt(s, x) == vec_update_fcsr0(Soften(s, x))
do_frecip(s, x) == vec_update_fcsr0(Soften(s, x))
do_ffint(s, x) == vec_update_fcsr0(Soften(s, x))
DO_FTINT(s, x) == vec_update_fcsr0(Soften(s, x))
(* The mode is restored after DO_FTINT, unless that raised *)
FTINT(s, x) == SetMode(DO_FTINT(SetMode(s, "dn"), x), s.mode)
ElemFn(op, s, x) ==
    CASE op = "vflogb" -> do_flogb(s, x) [] op = "vfsqrt" -> do_fsqrt(s, x)
      [] op = "vfrecip" -> do_frecip(s, x) [] op = "vffint" -> do_ffint(s, x)
      [] op = "vftint" -> DO_FTINT(s, x) [] op = "vftintr" -> FTINT(s, x)
DO_2OP_F(op, s, x) ==
    Each(s, LAMBDA t, i :
        WriteAs(ElemFn(op, t, x[i]), i, IF op \in {"vflogb", "vftintr"} THEN "dn" ELSE t.mode))

(* Into a temporary, copied when every element is done; the conversions    *)
(* settle once per lane, after all its elements.                           *)
CopyTemp(s, mode) == IF s.raised THEN s ELSE [s EXCEPT !.vd = [i \in 0 .. NElem - 1 |-> mode]]
LaneCvt(s, x) ==
    LET lane(t, l) == vec_update_fcsr0(Soften(t, UNION {x[PerLane * l + j] : j \in 0 .. PerLane - 1}))
    IN  CopyTemp(Through(vec_clear_cause(s), 0, NElem \div PerLane - 1, lane), s.mode)
vfcvtl(s, x) == LaneCvt(s, x)
vfcvt(s, x) == LaneCvt(s, x)
vffint(s, x) == LaneCvt(s, x)
FTINT_W_D(s, x) == CopyTemp(Each(s, LAMBDA t, i : FTINT(t, x[i])), "dn")
FTINTL_L_S(s, x) == CopyTemp(Each(s, LAMBDA t, i : FTINT(t, x[i])), "dn")
FTINTH_L_S(s, x) == CopyTemp(Each(s, LAMBDA t, i : FTINT(t, x[i])), "dn")
VFCMP(s, x) == CopyTemp(Each(s, LAMBDA t, i : vec_update_fcsr0(Soften(t, x[i]))), s.mode)

----------------------------------------------------------------------------
ScalarFp == {"fff", "ff", "frsqrt", "ffff", "fcvt", "frint", "ftint", "fcmp", "fmaxn", "flogb",
             "ftintrm", "ftintrp", "ftintrne", "ftintrz", "frintir"}
VectorFp == {"vfff", "vffff", "vfmaxn", "vfrint", "vfrintr", "vfrintir", "vflogb", "vfsqrt",
             "vfrecip", "vffint", "vftint", "vftintr", "vfcvtl", "vfcvt", "vffintl", "vftintr_w_d",
             "vftintrl", "vftintrh", "vfcmp"}
RunScalar(op, s, x) ==
    CASE op = "fff" -> helper_fff(s, x) [] op = "ff" -> helper_ff(s, x)
      [] op = "frsqrt" -> helper_frsqrt(s, x) [] op = "ffff" -> helper_fmuladd(s, x)
      [] op = "fcvt" -> helper_fcvt(s, x) [] op = "frint" -> helper_frint(s, x)
      [] op = "ftint" -> helper_ftint(s, x) [] op = "fcmp" -> fcmp_common(s, x)
      [] op = "fmaxn" -> helper_fmaxn(s, x) [] op = "flogb" -> helper_flogb(s, x)
      [] op = "ftintrm" -> helper_ftintrm(s, x) [] op = "ftintrp" -> helper_ftintrp(s, x)
      [] op = "ftintrne" -> helper_ftintrne(s, x) [] op = "ftintrz" -> helper_ftintrz(s, x)
      [] op = "frintir" -> FRINT_2OP(s, x)
RunVector(op, s, x) ==
    CASE op = "vfff" -> DO_3OP_F(s, x) [] op = "vffff" -> DO_4OP_F(s, x)
      [] op = "vfmaxn" -> DO_2OP_F2(s, x) [] op = "vfrint" -> vfrint(s, x)
      [] op = "vfrintr" -> FCVT_2OP(s, x) [] op = "vfrintir" -> FCVT_2OP_INEXACT(s, x)
      [] op \in {"vflogb", "vfsqrt", "vfrecip", "vffint", "vftint", "vftintr"} -> DO_2OP_F(op, s, x)
      [] op = "vfcvtl" -> vfcvtl(s, x) [] op = "vfcvt" -> vfcvt(s, x) [] op = "vffintl" -> vffint(s, x)
      [] op = "vftintr_w_d" -> FTINT_W_D(s, x) [] op = "vftintrl" -> FTINTL_L_S(s, x)
      [] op = "vftintrh" -> FTINTH_L_S(s, x) [] op = "vfcmp" -> VFCMP(s, x)
Run(op, s, x) == IF op \in ScalarFp THEN RunScalar(op, s, x) ELSE RunVector(op, s, x)

Fcsr(rm, enables) == [rm |-> rm, enables |-> enables, cause |-> {}, flags |-> {}]
NoDest == [i \in 0 .. NElem - 1 |-> "old"]
NoFpInsn == [op |-> "none", x |-> [i \in 0 .. NElem - 1 |-> {}]]
Prev == [fcsr |-> fcsr, fps |-> fps]
(* A vector of operands on which at most two elements raise anything; a    *)
(* scalar instruction has its operands in front.                           *)
Operand4 == {x \in [0 .. NElem - 1 -> Operands] : Cardinality({i \in DOMAIN x : x[i] # {}}) <= 2}
Operand1 == {x \in Operand4 : x[2] = {} /\ x[3] = {}}

(* cpu_reset sets fcsr0 and then the mode from it (restore_fp_status).     *)
(* Restoring a checkpoint then writes fcsr0 alone.                         *)
restore_checkpoint(rm, enables) == Fcsr(rm, enables)
FpuInit ==
    /\ \/ fcsr = Fcsr(0, {})
       \/ \E rm \in RMs, e \in Enables : fcsr = restore_checkpoint(rm, e)
    /\ fps = [mode |-> ieee_rm[1], acc |-> {}]
    /\ fdest = NoDest
    /\ finsn = NoFpInsn
    /\ fprev = Prev
    /\ fout = "none"

FpExec(op, x) ==
    LET s == Run(op, Work, x)
    IN  /\ finsn = NoFpInsn
        /\ finsn' = [op |-> op, x |-> x]
        /\ fcsr' = [rm |-> s.rm, enables |-> s.enables, cause |-> s.cause, flags |-> s.flags]
        /\ fps' = [mode |-> s.mode, acc |-> s.acc]
        /\ fdest' = s.vd
        /\ fprev' = Prev
        /\ fout' = IF s.raised THEN "FPE" ELSE "retire"
FpScalar == \E op \in ScalarFp, x \in Operand1 : FpExec(op, x)
FpVector == \E op \in VectorFp, x \in Operand4 : FpExec(op, x)

(* CHECK_FPE: with the unit off in EUEN the instruction does nothing else *)
FpDisabled ==
    /\ finsn = NoFpInsn
    /\ \E op \in ScalarFp \cup VectorFp : finsn' = [NoFpInsn EXCEPT !.op = op]
    /\ fprev' = Prev
    /\ fout' = "FPD"
    /\ UNCHANGED <<fcsr, fps, fdest>>

(* movgr2fcsr to fcsr0: the other three are not implemented *)
movgr2fcsr(rm, enables) ==
    /\ finsn = NoFpInsn
    /\ finsn' = [NoFpInsn EXCEPT !.op = "movgr2fcsr"]
    /\ fcsr' = Fcsr(rm, enables)
    /\ fps' = [fps EXCEPT !.mode = ieee_rm[rm + 1]]
    /\ fprev' = Prev
    /\ fout' = "retire"
    /\ UNCHANGED fdest

NextFpInsn ==
    /\ finsn # NoFpInsn
    /\ finsn' = NoFpInsn
    /\ fdest' = NoDest
    /\ fprev' = Prev
    /\ fout' = "none"
    /\ UNCHANGED <<fcsr, fps>>

FpuNext ==
    \/ FpScalar
    \/ FpVector
    \/ FpDisabled
    \/ \E rm \in RMs, e \in Enables : movgr2fcsr(rm, e)
    \/ NextFpInsn

----------------------------------------------------------------------------
(* How an instruction is to treat its elements: the operands settled       *)
(* together, the exceptions it never reports, and what it has stored when  *)
(* group k is the first to trap.                                           *)
Quiet1 == {"flogb", "frintir", "vflogb", "vfrintir"}
ByLane == {"vfcvtl", "vfcvt", "vffintl"}
Groups(i) ==
    LET fl(k) == ieee_ex_to_loongarch(i.x[k] \ (IF i.op \in Quiet1 THEN {"inexact"} ELSE {}))
    IN  IF i.op = "frsqrt" THEN <<fl(0) \cup fl(1)>>
        ELSE IF i.op \in ScalarFp THEN <<fl(0)>>
        ELSE IF i.op \in ByLane THEN <<fl(0) \cup fl(1), fl(2) \cup fl(3)>>
        ELSE <<fl(0), fl(1), fl(2), fl(3)>>
StoredAtTrap(op, k) ==
    CASE op \in {"vfff", "vffff", "vfmaxn", "vfrint", "vfrintr", "vfrintir"} -> 0 .. k - 1
      [] op \in {"vflogb", "vfsqrt", "vfrecip", "vffint", "vftint", "vftintr"} -> 0 .. k - 2
      [] OTHER -> {}
Rounding(op) ==
    CASE op \in {"flogb", "ftintrm", "vflogb", "vftintr", "vftintr_w_d", "vftintrl", "vftintrh"} -> "dn"
      [] op \in {"ftintrp", "frintir", "vfrintr", "vfrintir"} -> "up"
      [] op = "ftintrz" -> "tz" [] op = "ftintrne" -> "ne"
      [] OTHER -> fprev.fps.mode

(* An instruction traps exactly when an element raises an enabled          *)
(* exception, and then the first such element decides what is seen: Cause  *)
(* holds what the elements up to it raised, Flags only gained what the     *)
(* elements before it raised, and the destination holds the elements that  *)
(* were stored by then, none for a scalar or for a conversion into a       *)
(* temporary.  Otherwise all is recorded and every element is stored, each *)
(* rounded in the mode of the instruction.  Nothing softfloat accrued is   *)
(* left for the next instruction.                                          *)
FcsrExact ==
    finsn.op \in ScalarFp \cup VectorFp /\ fout # "FPD" =>
        LET g == Groups(finsn)
            hits == {k \in DOMAIN g : g[k] \cap fprev.fcsr.enables # {}}
            first == Min(hits)
            upto(n) == UNION {g[k] : k \in 1 .. n}
            stored == IF hits # {} THEN StoredAtTrap(finsn.op, first)
                      ELSE IF finsn.op \in ScalarFp THEN {0} ELSE 0 .. NElem - 1
        IN  /\ fout = IF hits # {} THEN "FPE" ELSE "retire"
            /\ fcsr.cause = upto(IF hits # {} THEN first ELSE Len(g))
            /\ fcsr.flags = fprev.fcsr.flags \cup upto(IF hits # {} THEN first - 1 ELSE Len(g))
            /\ fps.acc = {}
            /\ \A i \in 0 .. NElem - 1 : fdest[i] = IF i \in stored THEN Rounding(finsn.op) ELSE "old"

(* The rounding mode that softfloat uses changes in two ways only: to the  *)
(* one a write of fcsr0 selects, and, when a vector conversion to integer  *)
(* with a mode of its own traps, to that mode, which then stays.  The RM   *)
(* field changes only by a write.                                          *)
ModeStep ==
    /\ fps'.mode # fps.mode =>
          \/ finsn'.op = "movgr2fcsr" /\ fps'.mode = ieee_rm[fcsr'.rm + 1]
          \/ fout' = "FPE" /\ finsn'.op \in {"vftintr", "vftintr_w_d", "vftintrl", "vftintrh"}
    /\ fcsr'.rm # fcsr.rm => finsn'.op = "movgr2fcsr"
ModeKept == [][ModeStep]_fpuVars
=============================================================================
