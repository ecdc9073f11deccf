-------------------------------- MODULE RvFp --------------------------------
(***************************************************************************)
(* The floating-point instructions of the RISC-V interpreter               *)
(* (riscv64/interpreter.c, fpu_helper.c): the state of the unit in         *)
(* mstatus.FS, frm, the rounding mode and the exception flags of softfloat,*)
(* and the instruction cache they run from, which remembers a handler      *)
(* before it is known whether the handler accepts.  What softfloat         *)
(* computes is in FloatOps.                                                *)
(*                                                                         *)
(* A result is the rounding mode it was computed in.  The one flag stands  *)
(* for the five, which are handled alike.  The cache has one slot.         *)
(***************************************************************************)
EXTENDS RvInt

VARIABLES
    xfs,             \* mstatus.FS
    xfrm,            \* env->frm
    xmode,           \* the rounding mode of fp_status
    xflag,           \* the accrued exception flags of fp_status
    xreg,            \* the result in the floating-point registers
    xic,             \* the instruction in the cache
    xcode,           \* the instruction at pc
    xout,            \* how the last instruction ended
    xnew             \* history: frm, flags or registers changed since the kernel set FS

fpVars == <<xfs, xfrm, xmode, xflag, xreg, xic, xcode, xout, xnew>>

----------------------------------------------------------------------------
(* Values of registers: a word is boxed in ones *)
Ones == 2^DB - 2^WB
default_nan_s == 2^(WB - 1) - 2^(WB - 2 - YB)      \* an exponent of YB bits
nanbox_s(f) == U(f, WB) + Ones
check_nanbox_s(r) == IF r >= Ones THEN U(r, WB) ELSE default_nan_s
fmv_w_x(r) == Or(r, Ones, DB)
flw(w) == Or(SX(w), Ones, DB)
Deposit(r, n, v) == r - (r % 2^n) + (v % 2^n)
(* same: the two sources are one register *)
fsgnj_d(j, k, same) == IF same THEN j ELSE Deposit(k, DB - 1, j)
fsgnj_s(j, k, same) == IF same THEN j ELSE Deposit(k, WB - 1, j)
fsgnjx_d(j, k, same) == IF same THEN And(j, 2^(DB - 1) - 1, DB) ELSE Xor(j, And(k, 2^(DB - 1), DB), DB)

(* A word survives every way in and out of the registers; copying the sign *)
(* is one function whether or not the sources are one register; between    *)
(* boxed words fsgnj.s makes a boxed word of the magnitude of the one and  *)
(* the sign of the other.  It does not look at the box: a word that is not *)
(* boxed keeps its bits, where every other instruction sees the NaN.       *)
RvBoxExact(j, k) ==
    /\ check_nanbox_s(nanbox_s(j)) = ZX(j) /\ check_nanbox_s(fmv_w_x(j)) = ZX(j)
    /\ check_nanbox_s(flw(j)) = ZX(j)
    /\ nanbox_s(j) = fmv_w_x(j) /\ nanbox_s(j) = flw(j)
    /\ j < Ones => check_nanbox_s(j) = default_nan_s
    /\ fsgnj_d(j, j, TRUE) = fsgnj_d(j, j, FALSE) /\ fsgnj_s(j, j, TRUE) = fsgnj_s(j, j, FALSE)
    /\ fsgnjx_d(j, j, TRUE) = fsgnjx_d(j, j, FALSE)
    /\ fsgnj_d(j, k, FALSE) % 2^(DB - 1) = j % 2^(DB - 1)
    /\ fsgnj_d(j, k, FALSE) >= 2^(DB - 1) <=> k >= 2^(DB - 1)
    /\ LET r == fsgnj_s(nanbox_s(j), nanbox_s(k), FALSE)
           w == check_nanbox_s(r)
       IN  r >= Ones /\ w % 2^(WB - 1) = j % 2^(WB - 1) /\ (w >= 2^(WB - 1) <=> ZX(k) >= 2^(WB - 1))
    /\ \A n \in {j, k} : ZX(fsgnj_s(n, k, FALSE)) % 2^(WB - 1) = n % 2^(WB - 1)

----------------------------------------------------------------------------
(* The handlers, on a working state.  do_raise_exception is a longjmp; a   *)
(* handler that refuses returns false.                                     *)
RISCV_FRM_DYN == 7
NotRounded == -1
Going(s) == s.out = "retired"
Raise(s) == [s EXCEPT !.out = "trap"]
\* Mutant: the unit is marked dirty by instructions that write a register only.
DirtyByRegister(s) == IF s.fs = "off" THEN [s EXCEPT !.out = "refused"]
                      ELSE IF s.op = "compare" THEN s ELSE [s EXCEPT !.fs = "dirty"]
REQUIRE_FPU(s) == IF s.fs = "off" THEN [s EXCEPT !.out = "refused"] ELSE [s EXCEPT !.fs = "dirty"]
set_rounding_mode(s, rm) ==
    LET r == IF rm = RISCV_FRM_DYN THEN s.frm ELSE rm
    IN  IF ~Going(s) THEN s ELSE IF r > 4 THEN Raise(s) ELSE [s EXCEPT !.mode = r]
SoftFloat(s, x) == IF Going(s) THEN [s EXCEPT !.flag = @ \/ x] ELSE s
SetFpr(s, r) == IF Going(s) THEN [s EXCEPT !.reg = r] ELSE s

(* fadd .. fdiv, fmadd.d, and the conversions but those below *)
Arith(s, rm, x) ==
    LET t == SoftFloat(set_rounding_mode(REQUIRE_FPU(s), rm), x) IN SetFpr(t, t.mode)
(* The conversions to an integer register *)
ToInteger(s, rm, x) == SoftFloat(set_rounding_mode(REQUIRE_FPU(s), rm), x)
(* fcvt.s.d, fcvt.s.lu, fcvt.s.w and fcvt.s.wu do not set the mode of the  *)
(* instruction.  (fcvt.s.d converts the integer register of that number.)  *)
CvtToSingle(s, rm, x) == LET t == SoftFloat(REQUIRE_FPU(s), x) IN SetFpr(t, t.mode)
FpCompare(s, x) == SoftFloat(REQUIRE_FPU(s), x)
FMin(s, x) == SetFpr(SoftFloat(REQUIRE_FPU(s), x), NotRounded)
FpMove(s) == SetFpr(REQUIRE_FPU(s), NotRounded)
FromFpr(s) == REQUIRE_FPU(s)
FpLoad(s, fault) == LET t == REQUIRE_FPU(s) IN IF Going(t) /\ fault THEN Raise(t) ELSE SetFpr(t, NotRounded)
FpStore(s, fault) == LET t == REQUIRE_FPU(s) IN IF Going(t) /\ fault THEN Raise(t) ELSE t

(* The user floating-point CSRs: riscv_csrrw asks fs() before it reads *)
FpCsr(s) == IF s.fs = "off" THEN Raise(s) ELSE s
write_frm(s, v) == IF ~Going(s) THEN s ELSE [s EXCEPT !.fs = "dirty", !.frm = v % 8]
write_fflags(s, f) == IF ~Going(s) THEN s ELSE [s EXCEPT !.fs = "dirty", !.flag = f]
write_fcsr(s, v, f) == write_fflags(write_frm(s, v), f)

Op(op, rm) == [op |-> op, rm |-> rm]
FpOps == {"arith", "integer", "single", "compare", "min", "move", "from", "load", "store"}
FpInsns == {Op("arith", 1), Op("arith", RISCV_FRM_DYN), Op("integer", 5), Op("single", 1)}
           \cup {Op(op, 0) : op \in FpOps \ {"arith", "integer", "single"}}
           \cup {Op("fcsr", 0), Op("fcsr", 5), Op("frm", 0), Op("fflags", 0), Op("csrr", 0)}
Undecoded == Op("no pattern", 0)
IntInsn == Op("not floating point", 0)
Codes == FpInsns \cup {Undecoded, IntInsn}
NoCode == Op("empty", 0)

(* x: softfloat raises, or the flags written; fault: the access faults *)
Raises(i) == IF i.op \in {"arith", "integer", "single", "compare", "min", "fcsr", "fflags"} THEN BOOLEAN ELSE {FALSE}
MayFault(i) == IF i.op \in {"load", "store"} THEN BOOLEAN ELSE {FALSE}
Handler(s, i, x, fault) ==
    CASE i.op = "arith" -> Arith(s, i.rm, x) [] i.op = "integer" -> ToInteger(s, i.rm, x)
      [] i.op = "single" -> CvtToSingle(s, i.rm, x) [] i.op = "compare" -> FpCompare(s, x)
      [] i.op = "min" -> FMin(s, x) [] i.op = "move" -> FpMove(s) [] i.op = "from" -> FromFpr(s)
      [] i.op = "load" -> FpLoad(s, fault) [] i.op = "store" -> FpStore(s, fault)
      [] i.op = "fcsr" -> write_fcsr(FpCsr(s), i.rm, x) [] i.op = "frm" -> write_frm(FpCsr(s), i.rm)
      [] i.op = "fflags" -> write_fflags(FpCsr(s), x) [] i.op = "csrr" -> FpCsr(s)
      [] i = IntInsn -> s [] i = Undecoded -> [s EXCEPT !.out = "refused"]

----------------------------------------------------------------------------
FpInit ==
    /\ xfs = "off" /\ xfrm = 0 /\ xmode = 0 /\ xflag = FALSE /\ xreg = NotRounded
    /\ xic = NoCode /\ xcode \in Codes /\ xout = "none" /\ xnew = FALSE

(* fetch, interpreter and exec_env.  Decoding puts the handler into the    *)
(* cache before it calls it; a cached handler's refusal is not looked at,  *)
(* and pc moves on.  A refusal while decoding is logged and tried again.   *)
(* After a trap the kernel resumes at this instruction or another.         *)
FpStep ==
    \E x \in Raises(xcode), fault \in MayFault(xcode) :
        LET s == [fs |-> xfs, frm |-> xfrm, mode |-> xmode, flag |-> xflag, reg |-> xreg, op |-> xcode.op,
                  out |-> "retired"]
            t == Handler(s, xcode, x, fault)
            hit == xic = xcode
        IN  /\ xfs' = t.fs /\ xfrm' = t.frm /\ xmode' = t.mode /\ xflag' = t.flag /\ xreg' = t.reg
            /\ xic' = IF xcode = Undecoded THEN xic ELSE xcode
            /\ xout' = IF t.out = "refused" /\ hit THEN "skipped" ELSE t.out
            /\ IF t.out = "refused" /\ ~hit THEN xcode' = xcode ELSE xcode' \in Codes
            /\ xnew' = (xnew \/ <<t.frm, t.flag, t.reg>> # <<xfrm, xflag, xreg>>)
(* The kernel writes mstatus.FS, having saved or restored the registers    *)
KernelFs ==
    /\ xfs' \in {"off", "clean"} /\ xnew' = FALSE /\ xout' = "kernel"
    /\ UNCHANGED <<xfrm, xmode, xflag, xreg, xic, xcode>>
FpNext == FpStep \/ KernelFs
----------------------------------------------------------------------------
RoundsIn(i) == IF i.rm = RISCV_FRM_DYN THEN xfrm ELSE i.rm
FpEffect(i) ==
    /\ xout' = "retired" =>
          /\ i.op \in FpOps => xfs # "off" /\ xfs' = "dirty"
          /\ i.op = "arith" => xreg' = RoundsIn(i) /\ xreg' <= 4
          /\ i.op \in {"compare", "integer", "from", "store"} => xreg' = xreg
          /\ i.op # "fflags" /\ i.op # "fcsr" => (xflag => xflag')
    /\ xout' \in {"trap", "refused", "skipped"} =>
          UNCHANGED <<xfrm, xflag, xreg, xmode>> /\ (xfs = "off" => xfs' = "off")
    /\ xout' = "skipped" => xfs = "off" /\ i.op \in FpOps
    /\ xout' = "refused" => i = Undecoded \/ (xfs = "off" /\ i.op \in FpOps /\ xic' = i)

(* A kernel that saves the floating-point registers only when FS is dirty  *)
(* loses nothing: whatever changed frm, the flags or a register since it   *)
(* last wrote FS has left FS dirty, a CSR write and a compare that only    *)
(* raises a flag included.  A result is rounded in the mode its own        *)
(* instruction names, never in that of an earlier one (the four fcvt.s     *)
(* forms without a mode excepted); flags only go by a CSR write; an        *)
(* instruction that traps has changed none of it.  With the unit off no    *)
(* instruction changes anything, and it does not trap either: it is passed *)
(* over at the second attempt, when the cache hides that it was refused.   *)
(* A word moves in and out of its box unharmed.                            *)
RvFpOk ==
    /\ xnew' => xfs' = "dirty"
    /\ xout' # "kernel" => FpEffect(xcode)
    /\ arg'.kind = "int" => RvBoxExact(arg'.a, arg'.b)
RvFpExact == [][RvFpOk]_<<fpVars, arg>>
=============================================================================
