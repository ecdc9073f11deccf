------------------------------- MODULE RvCore -------------------------------
(***************************************************************************)
(* The privileged RISC-V core: traps and their delegation, sret and mret,  *)
(* the choice of the pending interrupt, the status and interrupt CSRs with *)
(* the supervisor's views of them, and the machine timer of the CLINT.     *)
(* One turn of the execution loop is Poll and then one instruction.        *)
(*                                                                         *)
(* The core is the one cpu_reset builds: RV64 with M, S and U mode, without*)
(* hypervisor, AIA or Sstc, and with priv_ver left at 1.10. Addresses and  *)
(* trap values are abstracted; time is "before", "at or after" mtimecmp.   *)
(***************************************************************************)
EXTENDS Integers, FiniteSets

CONSTANTS
    Determined,      \* the -z switch: guest time is the instruction count
    StatusVals,      \* values written to mstatus and sstatus
    IrqVals,         \* sets of interrupts written to mie, mip, mideleg ...
    CauseVals        \* sets of causes written to medeleg

VARIABLES
    priv, mstatus, mip, mie, mideleg, medeleg,
    external_seip,   \* level of the PLIC's line to the supervisor
    software_seip,   \* SEIP as machine mode wrote it
    has_rules,       \* whether a PMP rule is active (see RvPmp)
    mtimecmp,        \* "never", "future" or "past", seen from mtime
    armed,           \* the host timer is running
    timer_int,       \* the host timer has fired
    turn             \* "poll", "insn" or "wfi"

trapVars == <<priv, mstatus, mip, mie, mideleg, medeleg, software_seip>>
timerVars == <<mtimecmp, armed, timer_int>>
rvVars == <<trapVars, external_seip, has_rules, timerVars, turn>>

PRV_U == 0
PRV_S == 1
PRV_M == 3
Privs == {PRV_U, PRV_S, PRV_M}

SSIP == 1
MTIP == 7
SEIP == 9
S_MODE_INTERRUPTS == {1, 5, 9}
M_MODE_INTERRUPTS == {3, 7, 11}
all_ints == S_MODE_INTERRUPTS \cup M_MODE_INTERRUPTS
delegable_ints == S_MODE_INTERRUPTS
sip_writable_mask == {SSIP}

INST_ACCESS_FAULT == 1
ILLEGAL_INST == 2
BREAKPOINT == 3
PAGE_FAULTS == {12, 13, 15}
U_ECALL == 8
S_ECALL == 9
M_ECALL == 11
DELEGABLE_EXCPS == (0 .. 13) \cup {15}

RvStatus == [mie : BOOLEAN, sie : BOOLEAN, mpie : BOOLEAN, spie : BOOLEAN, mprv : BOOLEAN,
           tsr : BOOLEAN, tvm : BOOLEAN, mpp : Privs, spp : {PRV_U, PRV_S}]
(* What a guest may try to store: MPP = 2 is reserved *)
RawStatus == [mie : BOOLEAN, sie : BOOLEAN, mpie : BOOLEAN, spie : BOOLEAN, mprv : BOOLEAN,
              tsr : BOOLEAN, tvm : BOOLEAN, mpp : 0 .. 3, spp : {PRV_U, PRV_S}]

ASSUME RvAssumption ==
    /\ Determined \in BOOLEAN
    /\ StatusVals \subseteq RawStatus
    /\ IrqVals \subseteq SUBSET all_ints
    /\ CauseVals \subseteq SUBSET (0 .. 15)

(* cpu_reset; the rest of the state is zero *)
RvInit ==
    /\ priv = PRV_M
    /\ mstatus = [mie |-> FALSE, sie |-> FALSE, mpie |-> FALSE, spie |-> FALSE, mprv |-> FALSE,
                  tsr |-> FALSE, tvm |-> FALSE, mpp |-> PRV_U, spp |-> PRV_U]
    /\ mip = {} /\ mie = {} /\ mideleg = {} /\ medeleg = {}
    /\ external_seip = FALSE /\ software_seip = FALSE
    /\ has_rules = FALSE
    /\ mtimecmp = "never" /\ armed = FALSE /\ timer_int = FALSE
    /\ turn = "poll"

-----------------------------------------------------------------------------
(* Traps *)

(* loongarch_cpu_do_interrupt, by the delegation register that applies *)
do_interrupt(cause, deleg) ==
    IF priv <= PRV_S /\ cause \in deleg
    THEN /\ mstatus' = [mstatus EXCEPT !.spie = mstatus.sie, !.spp = priv, !.sie = FALSE]
         /\ priv' = PRV_S
    ELSE /\ mstatus' = [mstatus EXCEPT !.mpie = mstatus.mie, !.mpp = priv, !.mie = FALSE]
         /\ priv' = PRV_M

(* riscv_raise_exception: the instruction is abandoned for its trap *)
raise_exception(cause) ==
    /\ do_interrupt(cause, medeleg)
    /\ UNCHANGED <<mip, mie, mideleg, medeleg, software_seip, has_rules, timerVars>>

(* riscv_cpu_pending_to_irq without AIA: the lowest number *)
pending_to_irq(irqs) == CHOOSE i \in irqs : \A j \in irqs : i <= j

(* riscv_cpu_local_irq_pending: what may interrupt the core, given mip = p *)
MachineIrqs(p) == IF priv < PRV_M \/ mstatus.mie THEN (p \cap mie) \ mideleg ELSE {}
SupervisorIrqs(p) ==
    IF priv < PRV_S \/ (priv = PRV_S /\ mstatus.sie) THEN p \cap mie \cap mideleg ELSE {}
local_irq_pending(p) == IF MachineIrqs(p) # {} THEN MachineIrqs(p) ELSE SupervisorIrqs(p)

-----------------------------------------------------------------------------
(* The execution loop *)

(* loongarch_cpu_check_irq *)
check_irq ==
    IF Determined
    THEN IF mtimecmp = "past" THEN mip \cup {MTIP} ELSE mip
    ELSE IF timer_int THEN mip \cup {MTIP} ELSE mip

(* check_irq, has_irq and riscv_cpu_exec_interrupt at the top of the loop *)
Poll ==
    /\ turn = "poll"
    /\ mip' = check_irq
    /\ timer_int' = (Determined /\ timer_int)
    /\ IF local_irq_pending(check_irq) # {}
       THEN do_interrupt(pending_to_irq(local_irq_pending(check_irq)), mideleg)
       ELSE UNCHANGED <<priv, mstatus>>
    /\ turn' = "insn"
    /\ UNCHANGED <<mie, mideleg, medeleg, external_seip, software_seip, has_rules, mtimecmp, armed>>

(* An instruction that leaves the privileged state alone *)
PlainInsn == UNCHANGED <<trapVars, has_rules, timerVars>>

trans_ecall ==
    raise_exception(CASE priv = PRV_M -> M_ECALL [] priv = PRV_S -> S_ECALL [] priv = PRV_U -> U_ECALL)

(* An instruction whose access (see RvMmu) or decoding fails, or ebreak *)
Synchronous == {ILLEGAL_INST, BREAKPOINT} \cup PAGE_FAULTS
Abandoned == \E cause \in Synchronous : raise_exception(cause)

helper_sret ==
    IF priv < PRV_S \/ (mstatus.tsr /\ priv < PRV_M)
    THEN raise_exception(ILLEGAL_INST)
    ELSE /\ mstatus' = [mstatus EXCEPT !.sie = mstatus.spie, !.spie = TRUE, !.spp = PRV_U]
         /\ priv' = mstatus.spp
         /\ UNCHANGED <<mip, mie, mideleg, medeleg, software_seip, has_rules, timerVars>>

helper_mret ==
    IF priv < PRV_M THEN raise_exception(ILLEGAL_INST)
    ELSE IF ~has_rules /\ mstatus.mpp # PRV_M THEN raise_exception(INST_ACCESS_FAULT)
    ELSE /\ mstatus' = [mstatus EXCEPT !.mie = mstatus.mpie, !.mpie = TRUE, !.mpp = PRV_U]
         /\ priv' = mstatus.mpp
         /\ UNCHANGED <<mip, mie, mideleg, medeleg, software_seip, has_rules, timerVars>>

-----------------------------------------------------------------------------
(* Control and status registers *)

MachineCsrs == {"mstatus", "mie", "mip", "mideleg", "medeleg", "pmpcfg0", "mhartid"}
SupervisorCsrs == {"sstatus", "sie", "sip", "satp"}
csr_priv(csr) == IF csr \in MachineCsrs THEN PRV_M ELSE PRV_S
ReadOnly(csr) == csr = "mhartid"

(* riscv_csrrw_check, with the predicate of satp *)
csrrw_check(csr, write) ==
    /\ ~(write /\ ReadOnly(csr))
    /\ ~(csr = "satp" /\ priv = PRV_S /\ mstatus.tvm)
    /\ priv >= csr_priv(csr)

(* new under the mask, old elsewhere *)
Merge(old0, new, mask) == (old0 \ mask) \cup (new \cap mask)

legalize_mpp(new) == IF new \in Privs THEN new ELSE mstatus.mpp

write_mstatus(v) ==
    /\ mstatus' = [v EXCEPT !.mpp = legalize_mpp(v.mpp)]
    /\ UNCHANGED <<priv, mip, mie, mideleg, medeleg, software_seip, has_rules, timerVars>>
(* Only the fields of sstatus_v1_10_mask reach mstatus *)
\* Mutant: the supervisor's view passes every field through.
SstatusUnmasked(v) == write_mstatus(v)
write_sstatus(v) == write_mstatus([mstatus EXCEPT !.sie = v.sie, !.spie = v.spie, !.spp = v.spp])

rmw_mie(new, mask) ==
    /\ mie' = Merge(mie, new, mask \cap all_ints)
    /\ UNCHANGED <<priv, mstatus, mip, mideleg, medeleg, software_seip, has_rules, timerVars>>
rmw_sie(new, mask) == rmw_mie(new, mask \cap S_MODE_INTERRUPTS \cap mideleg)

rmw_mideleg(new, mask) ==
    /\ mideleg' = Merge(mideleg, new, mask \cap delegable_ints)
    /\ UNCHANGED <<priv, mstatus, mip, mie, medeleg, software_seip, has_rules, timerVars>>

(* SEIP is the PLIC's line or what machine mode last wrote *)
WithLine(new, mask) == IF SEIP \in mask /\ external_seip THEN new \cup {SEIP} ELSE new
rmw_mip64(new, mask) ==
    /\ software_seip' = IF SEIP \in mask THEN SEIP \in new ELSE software_seip
    /\ mip' = Merge(mip, WithLine(new, mask), mask)
    /\ UNCHANGED <<priv, mstatus, mie, mideleg, medeleg, has_rules, timerVars>>
rmw_mip(new, mask) == rmw_mip64(new, mask \cap delegable_ints)
(* rmw_sip64 and, mvien being zero, the aliases of rmw_mvip64 *)
rmw_sip(new, mask) == rmw_mip(new, mask \cap mideleg \cap sip_writable_mask)

write_medeleg(v) ==
    /\ medeleg' = v \cap DELEGABLE_EXCPS
    /\ UNCHANGED <<priv, mstatus, mip, mie, mideleg, software_seip, has_rules, timerVars>>
(* Whether a rule is active after the write; the rules are those of RvPmp *)
write_pmpcfg(on) == has_rules' = on /\ UNCHANGED <<trapVars, timerVars>>

(* csrrw, csrrs and csrrc as the pair of a value and a mask *)
Updates(vals) == {<<v, all_ints>> : v \in vals} \cup {<<all_ints, v>> : v \in vals} \cup {<<{}, v>> : v \in vals}
Csr(csr, action) == IF csrrw_check(csr, TRUE) THEN action ELSE raise_exception(ILLEGAL_INST)

CsrStatus == \E v \in StatusVals : Csr("mstatus", write_mstatus(v)) \/ Csr("sstatus", write_sstatus(v))
CsrMachineIrq ==
    \E u \in Updates(IrqVals) :
        \/ Csr("mie", rmw_mie(u[1], u[2]))
        \/ Csr("mip", rmw_mip(u[1], u[2]))
        \/ Csr("mideleg", rmw_mideleg(u[1], u[2]))
CsrSupervisorIrq ==
    \E u \in Updates(IrqVals) : Csr("sie", rmw_sie(u[1], u[2])) \/ Csr("sip", rmw_sip(u[1], u[2]))
CsrOther ==
    \/ \E v \in CauseVals : Csr("medeleg", write_medeleg(v))
    \/ \E on \in BOOLEAN : Csr("pmpcfg0", write_pmpcfg(on))
    \/ \E csr \in {"satp", "mhartid"} : Csr(csr, PlainInsn)
    \/ \E csr \in MachineCsrs \cup SupervisorCsrs :
           IF csrrw_check(csr, FALSE) THEN PlainInsn ELSE raise_exception(ILLEGAL_INST)

-----------------------------------------------------------------------------
(* The CLINT and the interrupt lines *)

(* clint_ioport_write to mtimecmp, with the new deadline in the past or not; a
   deadline in the future need not come *)
clint_ioport_write(cmp) ==
    /\ mtimecmp' = cmp
    /\ mip' = IF cmp = "future" THEN mip \ {MTIP}
              ELSE IF Determined THEN mip ELSE mip \cup {MTIP}
    /\ armed' = (~Determined /\ (armed \/ cmp = "future"))
    /\ UNCHANGED <<priv, mstatus, mie, mideleg, medeleg, software_seip, has_rules, timer_int>>

RvExecute ==
    \/ PlainInsn \/ trans_ecall \/ Abandoned \/ helper_sret \/ helper_mret
    \/ CsrStatus \/ CsrMachineIrq \/ CsrSupervisorIrq \/ CsrOther
    \/ \E cmp \in {"future", "past"} : clint_ioport_write(cmp)

Insn == turn = "insn" /\ RvExecute /\ turn' = "poll" /\ UNCHANGED external_seip

(* trans_wfi: polls until something is pending, once a second *)
trans_wfi ==
    /\ turn = "wfi" \/ turn = "insn"
    /\ IF Determined THEN UNCHANGED <<mip, timer_int>> ELSE mip' = check_irq /\ timer_int' = FALSE
    /\ turn' = IF Determined \/ check_irq # {} THEN "poll" ELSE "wfi"
    /\ UNCHANGED <<priv, mstatus, mie, mideleg, medeleg, software_seip, external_seip, has_rules, mtimecmp, armed>>

(* loongarch_cpu_set_irq(IRQ_S_EXT), the PLIC's line; riscv_cpu_update_mip *)
\* Mutant: a falling line also takes away what machine mode wrote.
SetIrqForgetful(level) ==
    /\ external_seip' = level
    /\ mip' = IF level THEN mip \cup {SEIP} ELSE mip \ {SEIP}
    /\ UNCHANGED <<priv, mstatus, mie, mideleg, medeleg, software_seip, has_rules, timerVars, turn>>
set_irq(level) ==
    /\ external_seip' = level
    /\ mip' = IF level \/ software_seip THEN mip \cup {SEIP} ELSE mip \ {SEIP}
    /\ UNCHANGED <<priv, mstatus, mie, mideleg, medeleg, software_seip, has_rules, timerVars, turn>>
SetIrq == \E level \in BOOLEAN : set_irq(level)

Deadline ==
    /\ mtimecmp = "future" /\ mtimecmp' = "past"
    /\ UNCHANGED <<trapVars, external_seip, has_rules, armed, timer_int, turn>>
(* The host timer's signal handler, no earlier than the deadline *)
HostTimer ==
    /\ armed /\ mtimecmp = "past"
    /\ armed' = FALSE /\ timer_int' = TRUE
    /\ UNCHANGED <<trapVars, external_seip, has_rules, mtimecmp, turn>>

RvNext == Poll \/ Insn \/ trans_wfi \/ SetIrq \/ Deadline \/ HostTimer
RvSpec == RvInit /\ [][RvNext]_rvVars

-----------------------------------------------------------------------------
(* Properties *)

RvTypeOK ==
    /\ priv \in Privs /\ mstatus \in RvStatus
    /\ mip \subseteq all_ints /\ mie \subseteq all_ints
    /\ mideleg \subseteq delegable_ints /\ medeleg \subseteq DELEGABLE_EXCPS
    /\ external_seip \in BOOLEAN /\ software_seip \in BOOLEAN /\ has_rules \in BOOLEAN
    /\ mtimecmp \in {"never", "future", "past"} /\ armed \in BOOLEAN /\ timer_int \in BOOLEAN
    /\ turn \in {"poll", "insn", "wfi"}

(* mip tells the truth about its two shared sources: SEIP is pending exactly
   while the PLIC's line is up or machine mode holds it, however the line's
   edges interleave with csrs and csrc on mip, and a deadline that has passed
   is pending, or noted by the signal handler, or still owed by the host timer
   (clint_ioport_write, loongarch_cpu_set_irq, rmw_mip64 and check_irq). *)
RvPending ==
    /\ SEIP \in mip <=> external_seip \/ software_seip
    /\ mtimecmp = "past" /\ ~Determined => MTIP \in mip \/ timer_int \/ armed

(* What belongs to machine mode: the fields and enables no supervisor access
   reaches *)
MachineFields == <<mstatus.mie, mstatus.mpie, mstatus.mpp, mstatus.mprv, mstatus.tsr, mstatus.tvm>>
MachineOwned == <<MachineFields, mie \ mideleg, mideleg, medeleg, software_seip, has_rules>>
SupervisorFields == <<mstatus.sie, mstatus.spie, mstatus.spp>>

(* The saved state of a trap from priv into S or into M *)
EntersS == mstatus' = [mstatus EXCEPT !.spp = priv, !.spie = mstatus.sie, !.sie = FALSE]
EntersM == mstatus' = [mstatus EXCEPT !.mpp = priv, !.mpie = mstatus.mie, !.mie = FALSE]

(* An interrupt of the level that takes it, and that level open to it *)
Taken(level) ==
    \E i \in mip' \cap mie :
        /\ level = IF i \in mideleg THEN PRV_S ELSE PRV_M
        /\ priv < level \/ (level = PRV_S /\ mstatus.sie) \/ (level = PRV_M /\ mstatus.mie)

(* Privilege is only ever gained through a trap: a step that ends in a higher
   mode has saved the old one and closed the new one's interrupts; a step that
   stays below machine mode leaves all that machine mode owns alone, and one
   that stays in user mode all that the supervisor owns; and the poll only
   interrupts a level that is open, never one that has masked the interrupt
   (do_interrupt, helper_sret, helper_mret, csrrw_check and the masks of the
   supervisor's CSRs, riscv_cpu_local_irq_pending). *)
RvGuarded ==
    /\ priv' > priv => IF priv' = PRV_M THEN EntersM ELSE EntersS
    /\ priv < PRV_M /\ priv' < PRV_M => UNCHANGED MachineOwned
    /\ priv = PRV_U /\ priv' = PRV_U => UNCHANGED <<SupervisorFields, mie>>
    /\ turn = "poll" /\ turn' = "insn" /\ mstatus' # mstatus => priv' >= priv /\ Taken(priv')
RvGuard == [][RvGuarded]_rvVars
=============================================================================
