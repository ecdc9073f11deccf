------------------------------- MODULE MCUnits -------------------------------
(***************************************************************************)
(* Units of the emulator for TLC, one per behaviour: the vector            *)
(* instructions on small register files, the gvec helpers on small vectors,*)
(* the floating point environment, loads and stores across pages, the      *)
(* RISC-V core with its address translation, its memory protection, its    *)
(* atomic instructions and its floating point unit, the gdb server, and    *)
(* the integer, vector element and software floating point arithmetic on   *)
(* every operand of a small width.                                         *)
(***************************************************************************)
EXTENDS Gvec, VecRef, FloatRef, LaFpu, RvInt, LaAccess, RvCore, RvMmu, RvPmp, RvAtomic, RvFp, Gdb

VARIABLES
    unit,            \* the unit this behaviour is about
    modes            \* the modes of its RISC-V accesses

laVars == <<vecVars, gvecVars, fpuVars, accVars, arg>>
riscvVars == <<rvVars, mmuVars, pmpVars, modes, atomVars, fpVars>>
unitVars == <<unit, laVars, riscvVars, gdbVars>>

RegFile(a, b, c, d, e, f) == (0 :> (0 :> a @@ 1 :> b)) @@ (1 :> (0 :> c @@ 1 :> d)) @@ (2 :> (0 :> e @@ 1 :> f))
MCPatterns == {RegFile(12816, 30292, 47768, 65244, 9029, 26523),
               RegFile(39612, 8967, 33023, 43981, 65535, 32768)}

Fixed == CHOOSE p \in Patterns : TRUE
VecIdle == vreg = Fixed /\ old = Fixed /\ ins = NoVecIns /\ cf = FALSE /\ euen = {} /\ out = "none"
GvecIdle == gmem = GvecMem(Fixed) /\ gold = gmem /\ gcall = NoCall

MCEnables == {{}, {"V"}, {"I"}}
MCOperands == {{}, {"invalid"}, {"inexact"}}
FpuIdle == fcsr = Fcsr(0, {}) /\ fps = [mode |-> "ne", acc |-> {}] /\ fdest = NoDest
           /\ finsn = NoFpInsn /\ fprev = Prev /\ fout = "none"

AccIdle == amap = [p \in VPages |-> "none"] /\ amem = <<>> /\ areg = <<>> /\ aio = <<>>
           /\ ains = NoAccess /\ aout = "none"

(* Status words: interrupts on and back to a reserved mode; back to S with
   interrupts; and the traps of sret and of satp *)
MCStatusZero == [mie |-> FALSE, sie |-> FALSE, mpie |-> FALSE, spie |-> FALSE, mprv |-> FALSE,
                 tsr |-> FALSE, tvm |-> FALSE, mpp |-> PRV_U, spp |-> PRV_U]
MCStatus == {[MCStatusZero EXCEPT !.mpp = 2, !.sie = TRUE, !.spp = PRV_S, !.tsr = TRUE, !.tvm = TRUE],
             [MCStatusZero EXCEPT !.mpp = PRV_S, !.mpie = TRUE]}
MCIrqs == {{MTIP, SEIP}}
MCCauses == {{ILLEGAL_INST, U_ECALL, 14}}

Leaf4(r, w, x, u, ppn) == [NoPte EXCEPT !.v = TRUE, !.r = r, !.w = w, !.x = x, !.u = u, !.ppn = ppn]
MCInner == Leaf4(FALSE, FALSE, FALSE, FALSE, 1)
MCExec == Leaf4(FALSE, FALSE, TRUE, FALSE, 2)
MCUser == Leaf4(TRUE, TRUE, FALSE, TRUE, 2)
MCDirty == [Leaf4(TRUE, TRUE, FALSE, FALSE, 3) EXCEPT !.a = TRUE, !.d = TRUE]
MCPtes == (<<0, 0>> :> {MCInner, MCExec})
          @@ (<<1, 0>> :> {MCUser, MCDirty, [MCExec EXCEPT !.ppn = 1], [MCUser EXCEPT !.reserved = TRUE]})
MCSatps == {[sv |-> FALSE, ppn |-> 0], [sv |-> TRUE, ppn |-> 0], [sv |-> TRUE, ppn |-> 1]}
MCWritable == {<<0, 0>>, <<1, 0>>}
MCUserMode == [priv |-> 0, mprv |-> FALSE, mpp |-> 0, sum |-> FALSE]
MCSuper == [MCUserMode EXCEPT !.priv = 1]
MCSum == [MCSuper EXCEPT !.sum = TRUE]
MCMachine == [MCUserMode EXCEPT !.priv = 3, !.mprv = TRUE, !.mpp = 1]
MCModes == {MCUserMode, MCSuper, MCSum, MCMachine}

MCCfg(l, a, r, w, x) == [l |-> l, a |-> a, r |-> r, w |-> w, x |-> x]
MCCfgs == {MCCfg(FALSE, "off", FALSE, FALSE, FALSE), MCCfg(FALSE, "tor", TRUE, FALSE, FALSE),
           MCCfg(TRUE, "tor", TRUE, TRUE, FALSE), MCCfg(FALSE, "na4", TRUE, TRUE, TRUE),
           MCCfg(TRUE, "napot", FALSE, FALSE, TRUE), MCCfg(FALSE, "tor", FALSE, TRUE, FALSE)}

Fixed1 == CHOOSE t \in RvThreads : TRUE
UnitsInit ==
    /\ unit \in {"vec", "gvec", "fpu", "acc", "arg", "rv", "mmu", "pmp", "gdb", "atom", "fp"}
    /\ arg = NoArg /\ RvInit /\ MmuInit /\ PmpInit /\ GdbInit /\ (unit = "gdb" \/ dbg = NoRequest)
    /\ IF unit = "mmu" THEN modes \in {{MCUserMode, MCSuper, MCSum}, {MCMachine, MCUserMode}} ELSE modes = {}
    /\ AtomInit /\ (unit = "atom" \/ (rctx = Fixed1 /\ rwatch = "kernel"))
    /\ FpInit /\ (unit = "fp" \/ xcode = IntInsn)
    /\ IF unit = "vec" THEN VecInit ELSE VecIdle
    /\ IF unit = "gvec" THEN GvecInit ELSE GvecIdle
    /\ IF unit = "fpu" THEN FpuInit ELSE FpuIdle
    /\ IF unit = "acc" THEN AccInit ELSE AccIdle

VecStep == unit = "vec" /\ VecNext /\ UNCHANGED <<unit, gvecVars, fpuVars, accVars, arg, riscvVars, gdbVars>>
GvecStep == unit = "gvec" /\ GvecNext /\ UNCHANGED <<unit, vecVars, fpuVars, accVars, arg, riscvVars, gdbVars>>
FpuStep == unit = "fpu" /\ FpuNext /\ UNCHANGED <<unit, vecVars, gvecVars, accVars, arg, riscvVars, gdbVars>>
AccStep == unit = "acc" /\ AccNext /\ UNCHANGED <<unit, vecVars, gvecVars, fpuVars, arg, riscvVars, gdbVars>>
RvStep == unit = "rv" /\ RvNext /\ UNCHANGED <<unit, laVars, mmuVars, pmpVars, modes, atomVars, fpVars, gdbVars>>
MmuStep == unit = "mmu" /\ MmuNext(modes) /\ UNCHANGED <<unit, laVars, rvVars, pmpVars, modes, atomVars, fpVars, gdbVars>>
PmpStep == unit = "pmp" /\ PmpNext /\ UNCHANGED <<unit, laVars, rvVars, mmuVars, modes, atomVars, fpVars, gdbVars>>
AtomStep == unit = "atom" /\ AtomNext /\ UNCHANGED <<unit, laVars, rvVars, mmuVars, pmpVars, modes, fpVars, gdbVars>>
FpUnitStep == unit = "fp" /\ FpNext /\ UNCHANGED <<unit, laVars, rvVars, mmuVars, pmpVars, modes, atomVars, gdbVars>>
GdbStep == unit = "gdb" /\ GdbNext /\ UNCHANGED <<unit, laVars, riscvVars>>
(* The first operand, the other operands, and back *)
First(of, S0) == {[kind |-> "first", of |-> of, a |-> a] : a \in S0}
Firsts == First("wide", Words) \cup First("elem", Elems) \cup First("mask", 0 .. 255)
          \cup First("vldi", 0 .. 255) \cup First("fp1", Floats(F32)) \cup First("logb", Floats(F64))
          \cup First("fp2", Floats(F32)) \cup First("fp3", Floats(F16))
          \cup First("int", Regs) \cup First("bt", 0 .. 2^BtW - 1)
Rest(of, a) ==
    CASE of = "wide" -> Wides(a) [] of = "elem" -> Pairs(a) [] of = "mask" -> Masks(a)
      [] of = "vldi" -> Vldis(a) [] of = "fp1" -> FpUnaries(a) [] of = "logb" -> FpLogs(a)
      [] of = "fp2" -> FpPairs(a) [] of = "fp3" -> FpTriples(a)
      [] of = "int" -> Ints(a) [] of = "bt" -> Bts(a)
PickFirst == arg = NoArg /\ arg' \in Firsts
PickRest == arg.kind = "first" /\ arg' \in Rest(arg.of, arg.a)
PickAgain == arg.kind \notin {"none", "first"} /\ arg' = NoArg
ArgStep ==
    /\ unit = "arg"
    /\ PickFirst \/ PickRest \/ PickAgain
    /\ UNCHANGED <<unit, vecVars, gvecVars, fpuVars, accVars, riscvVars, gdbVars>>

UnitsNext == VecStep \/ GvecStep \/ FpuStep \/ AccStep \/ ArgStep \/ RvStep \/ MmuStep \/ PmpStep
             \/ AtomStep \/ FpUnitStep \/ GdbStep
UnitsSpec == UnitsInit /\ [][UnitsNext]_unitVars
=============================================================================
