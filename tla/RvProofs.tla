------------------------------ MODULE RvProofs ------------------------------
(***************************************************************************)
(* Proofs about the privileged RISC-V core and its memory protection, for  *)
(* every set of written values, in real and in determined time.            *)
(***************************************************************************)
EXTENDS RvCore, RvPmp, FiniteSetTheorems, TLAPS

(* A deadline that is still to come has its host timer running: what makes
   the second half of RvPending inductive *)
Armed == mtimecmp = "future" /\ ~Determined => armed
RvInv == RvTypeOK /\ RvPending /\ Armed

-----------------------------------------------------------------------------
(* Traps *)

(* A trap keeps the status word well formed and ends in S or M *)
LEMMA TrapType ==
    ASSUME RvTypeOK, NEW cause, NEW deleg, do_interrupt(cause, deleg)
    PROVE  priv' \in Privs /\ mstatus' \in RvStatus
<1>1. priv \in {0, 1, 3} /\ mstatus \in RvStatus
  BY DEF RvTypeOK, Privs, PRV_U, PRV_S, PRV_M
<1>2. CASE priv <= PRV_S /\ cause \in deleg
  <2>1. priv \in {0, 1}
    BY <1>1, <1>2 DEF PRV_S
  <2>2. priv' = PRV_S /\ EntersS
    BY <1>2, Zenon DEF do_interrupt, EntersS
  <2>3. QED
    BY <1>1, <2>1, <2>2, Zenon DEF EntersS, RvStatus, Privs, PRV_U, PRV_S
<1>3. CASE ~(priv <= PRV_S /\ cause \in deleg)
  <2>1. priv' = PRV_M /\ EntersM
    BY <1>3, Zenon DEF do_interrupt, EntersM
  <2>2. QED
    BY <1>1, <2>1, Zenon DEF EntersM, RvStatus, Privs, PRV_U, PRV_S, PRV_M
<1>4. QED
  BY <1>2, <1>3

(* What a trap does to the modes, from any mode: it never lowers the
   privilege, saves and closes the level it enters, and from below machine
   mode ends in S only by delegation *)
LEMMA TrapEnters ==
    ASSUME RvTypeOK, NEW cause, NEW deleg, do_interrupt(cause, deleg)
    PROVE  /\ priv' >= priv
           /\ \/ priv' = PRV_S /\ EntersS /\ cause \in deleg /\ priv <= PRV_S
              \/ priv' = PRV_M /\ EntersM /\ ~(priv <= PRV_S /\ cause \in deleg)
<1>1. priv \in {0, 1, 3}
  BY DEF RvTypeOK, Privs, PRV_U, PRV_S, PRV_M
<1>2. CASE priv <= PRV_S /\ cause \in deleg
  <2>1. priv' = PRV_S /\ EntersS
    BY <1>2, Zenon DEF do_interrupt, EntersS
  <2>2. QED
    BY <1>1, <1>2, <2>1 DEF PRV_S
<1>3. CASE ~(priv <= PRV_S /\ cause \in deleg)
  <2>1. priv' = PRV_M /\ EntersM
    BY <1>3, Zenon DEF do_interrupt, EntersM
  <2>2. QED
    BY <1>1, <1>3, <2>1 DEF PRV_M
<1>4. QED
  BY <1>2, <1>3

(* The status words machine mode and the supervisor may write *)
LEMMA MstatusType ==
    ASSUME RvTypeOK, NEW v \in RawStatus
    PROVE  [v EXCEPT !.mpp = legalize_mpp(v.mpp)] \in RvStatus
<1>1. legalize_mpp(v.mpp) \in Privs
  BY DEF legalize_mpp, RvTypeOK, RvStatus
<1>2. QED
  BY <1>1 DEF RawStatus, RvStatus, Privs, PRV_U, PRV_S, PRV_M

LEMMA SstatusRaw ==
    ASSUME RvTypeOK, NEW v \in RawStatus
    PROVE  [mstatus EXCEPT !.sie = v.sie, !.spie = v.spie, !.spp = v.spp] \in RvStatus
BY Zenon DEF RvTypeOK, RawStatus, RvStatus

LEMMA StatusRaw == RvStatus \subseteq RawStatus
BY DEF RvStatus, RawStatus, Privs, PRV_U, PRV_S, PRV_M

-----------------------------------------------------------------------------
(* Each kind of instruction keeps the invariant *)

(* An instruction abandoned for its trap *)
LEMMA RaiseInv ==
    ASSUME RvInv, NEW cause, raise_exception(cause), UNCHANGED external_seip, turn' = "poll"
    PROVE  RvInv'
<1>1. priv' \in Privs /\ mstatus' \in RvStatus
  BY TrapType DEF RvInv, raise_exception
<1>2. UNCHANGED <<mip, mie, mideleg, medeleg, software_seip, has_rules, mtimecmp, armed, timer_int>>
  BY DEF raise_exception, timerVars
<1>3. QED
  BY <1>1, <1>2 DEF RvInv, RvTypeOK, RvPending, Armed

(* An instruction that leaves mip and the timer alone and keeps its own
   registers well formed *)
LEMMA QuietInv ==
    ASSUME RvInv, UNCHANGED <<mip, software_seip, external_seip, timerVars>>, turn' = "poll",
           priv' \in Privs, mstatus' \in RvStatus, mie' \subseteq all_ints,
           mideleg' \subseteq delegable_ints, medeleg' \subseteq DELEGABLE_EXCPS, has_rules' \in BOOLEAN
    PROVE  RvInv'
BY DEF RvInv, RvTypeOK, RvPending, Armed, timerVars

(* sret and mret *)
LEMMA ReturnInv ==
    ASSUME RvInv, helper_sret \/ helper_mret, UNCHANGED external_seip, turn' = "poll"
    PROVE  RvInv'
<1>1. CASE \E cause \in {ILLEGAL_INST, INST_ACCESS_FAULT} : raise_exception(cause)
  BY <1>1, RaiseInv
<1>2. CASE ~\E cause \in {ILLEGAL_INST, INST_ACCESS_FAULT} : raise_exception(cause)
  <2>1. UNCHANGED <<mip, mie, mideleg, medeleg, software_seip, has_rules, timerVars>>
    BY <1>2 DEF helper_sret, helper_mret
  <2>2. priv' \in Privs /\ mstatus' \in RvStatus
    BY <1>2, ZenonT(40) DEF helper_sret, helper_mret, RvInv, RvTypeOK, RvStatus, Privs, PRV_U, PRV_S, PRV_M
  <2>3. QED
    BY <2>1, <2>2, QuietInv DEF RvInv, RvTypeOK
<1>3. QED
  BY <1>1, <1>2

(* A write of mip, by machine mode or through sip: SEIP follows the line and
   the written bit *)
LEMMA MipInv ==
    ASSUME RvInv, NEW new, NEW mask, rmw_mip(new, mask), new \subseteq all_ints,
           UNCHANGED external_seip, turn' = "poll"
    PROVE  RvInv'
<1> DEFINE m == mask \cap delegable_ints
<1>1. /\ software_seip' = IF SEIP \in m THEN SEIP \in new ELSE software_seip
      /\ mip' = Merge(mip, WithLine(new, m), m)
      /\ UNCHANGED <<priv, mstatus, mie, mideleg, medeleg, has_rules, mtimecmp, armed, timer_int>>
  BY DEF rmw_mip, rmw_mip64, timerVars
<1>2. mip' \subseteq all_ints
  BY <1>1, Zenon DEF Merge, WithLine, RvInv, RvTypeOK, SEIP, all_ints, S_MODE_INTERRUPTS
<1>3. software_seip' \in BOOLEAN
  <2>1. CASE SEIP \in m
    <3>1. software_seip' = (SEIP \in new)
      BY <1>1, <2>1, Zenon
    <3>2. (SEIP \in new) \in BOOLEAN
      OBVIOUS
    <3>3. QED
      BY <3>1, <3>2, Zenon
  <2>2. CASE SEIP \notin m
    BY <1>1, <2>2 DEF RvInv, RvTypeOK
  <2>3. QED
    BY <2>1, <2>2
<1>4. MTIP \in mip' <=> MTIP \in mip
  BY <1>1 DEF Merge, WithLine, MTIP, SEIP, delegable_ints, S_MODE_INTERRUPTS
<1>5. SEIP \in mip' <=> external_seip' \/ software_seip'
  <2>1. CASE SEIP \in m
    BY <1>1, <2>1, Zenon DEF Merge, WithLine
  <2>2. CASE SEIP \notin m
    BY <1>1, <2>2 DEF Merge, WithLine, RvInv, RvPending
  <2>3. QED
    BY <2>1, <2>2
<1>6. QED
  BY <1>1, <1>2, <1>3, <1>4, <1>5 DEF RvInv, RvTypeOK, RvPending, Armed

(* CSR instructions *)
LEMMA UpdatesType ==
    ASSUME RvAssumption, NEW u \in Updates(IrqVals)
    PROVE  u[1] \subseteq all_ints /\ u[2] \subseteq all_ints
BY DEF RvAssumption, Updates

LEMMA StatusInv ==
    ASSUME RvInv, CsrStatus, UNCHANGED external_seip, turn' = "poll"
    PROVE  RvInv'
<1>1. PICK v \in StatusVals : Csr("mstatus", write_mstatus(v)) \/ Csr("sstatus", write_sstatus(v))
  BY DEF CsrStatus
<1>2. CASE raise_exception(ILLEGAL_INST)
  BY <1>2, RaiseInv
<1>3. CASE write_mstatus(v) \/ write_sstatus(v)
  <2>1. v \in RawStatus
    BY RvAssumption DEF RvAssumption
  <2>2. mstatus' \in RvStatus
    <3>1. CASE write_mstatus(v)
      BY <2>1, <3>1, MstatusType DEF write_mstatus, RvInv
    <3>2. CASE write_sstatus(v)
      BY <2>1, <3>2, MstatusType, SstatusRaw, StatusRaw, Zenon DEF write_sstatus, write_mstatus, RvInv
    <3>3. QED
      BY <1>3, <3>1, <3>2
  <2>3. UNCHANGED <<priv, mip, mie, mideleg, medeleg, software_seip, has_rules, timerVars>>
    BY <1>3 DEF write_mstatus, write_sstatus
  <2>4. QED
    BY <2>2, <2>3, QuietInv DEF RvInv, RvTypeOK
<1>4. QED
  BY <1>1, <1>2, <1>3, Zenon DEF Csr

LEMMA IrqInv ==
    ASSUME RvInv, CsrMachineIrq \/ CsrSupervisorIrq, UNCHANGED external_seip, turn' = "poll"
    PROVE  RvInv'
<1>1. PICK u \in Updates(IrqVals) :
          \/ raise_exception(ILLEGAL_INST)
          \/ rmw_mie(u[1], u[2]) \/ rmw_sie(u[1], u[2])
          \/ rmw_mip(u[1], u[2]) \/ rmw_sip(u[1], u[2])
          \/ rmw_mideleg(u[1], u[2])
  BY Zenon DEF CsrMachineIrq, CsrSupervisorIrq, Csr
<1>2. u[1] \subseteq all_ints /\ u[2] \subseteq all_ints
  BY UpdatesType, RvAssumption
<1>3. CASE raise_exception(ILLEGAL_INST)
  BY <1>3, RaiseInv
<1>4. CASE rmw_mie(u[1], u[2]) \/ rmw_sie(u[1], u[2])
  <2>1. UNCHANGED <<priv, mstatus, mip, mideleg, medeleg, software_seip, has_rules, timerVars>>
    BY <1>4 DEF rmw_mie, rmw_sie
  <2>2. mie' \subseteq all_ints
    BY <1>2, <1>4 DEF rmw_mie, rmw_sie, Merge, RvInv, RvTypeOK
  <2>3. QED
    BY <2>1, <2>2, QuietInv DEF RvInv, RvTypeOK
<1>5. CASE rmw_mip(u[1], u[2]) \/ rmw_sip(u[1], u[2])
  BY <1>2, <1>5, MipInv DEF rmw_sip
<1>6. CASE rmw_mideleg(u[1], u[2])
  <2>1. UNCHANGED <<priv, mstatus, mip, mie, medeleg, software_seip, has_rules, timerVars>>
    BY <1>6 DEF rmw_mideleg
  <2>2. mideleg' \subseteq delegable_ints
    BY <1>6 DEF rmw_mideleg, Merge, RvInv, RvTypeOK
  <2>3. QED
    BY <2>1, <2>2, QuietInv DEF RvInv, RvTypeOK
<1>7. QED
  BY <1>1, <1>3, <1>4, <1>5, <1>6

LEMMA OtherInv ==
    ASSUME RvInv, CsrOther \/ PlainInsn, UNCHANGED external_seip, turn' = "poll"
    PROVE  RvInv'
<1>1. CASE raise_exception(ILLEGAL_INST)
  BY <1>1, RaiseInv
<1>2. CASE \E v \in CauseVals : write_medeleg(v)
  <2>1. UNCHANGED <<priv, mstatus, mip, mie, mideleg, software_seip, has_rules, timerVars>>
    BY <1>2 DEF write_medeleg
  <2>2. medeleg' \subseteq DELEGABLE_EXCPS
    BY <1>2 DEF write_medeleg
  <2>3. QED
    BY <2>1, <2>2, QuietInv DEF RvInv, RvTypeOK
<1>3. CASE PlainInsn \/ \E on \in BOOLEAN : write_pmpcfg(on)
  <2>1. UNCHANGED <<priv, mstatus, mip, mie, mideleg, medeleg, software_seip, timerVars>>
    BY <1>3 DEF PlainInsn, write_pmpcfg, trapVars
  <2>2. has_rules' \in BOOLEAN
    BY <1>3 DEF PlainInsn, write_pmpcfg, RvInv, RvTypeOK
  <2>3. QED
    BY <2>1, <2>2, QuietInv DEF RvInv, RvTypeOK
<1>4. QED
  BY <1>1, <1>2, <1>3, Zenon DEF CsrOther, Csr

LEMMA ClintInv ==
    ASSUME RvInv, NEW cmp \in {"future", "past"}, clint_ioport_write(cmp),
           UNCHANGED external_seip, turn' = "poll"
    PROVE  RvInv'
<1>1. Determined \in BOOLEAN
  BY RvAssumption DEF RvAssumption
<1>2. /\ mip' \subseteq all_ints
      /\ SEIP \in mip' <=> SEIP \in mip
      /\ cmp = "past" /\ ~Determined => MTIP \in mip'
  BY DEF clint_ioport_write, RvInv, RvTypeOK, MTIP, SEIP, all_ints, M_MODE_INTERRUPTS
<1>3. /\ mtimecmp' = cmp /\ armed' \in BOOLEAN
      /\ cmp = "future" /\ ~Determined => armed'
      /\ UNCHANGED <<priv, mstatus, mie, mideleg, medeleg, software_seip, has_rules, timer_int>>
  BY <1>1, Zenon DEF clint_ioport_write
<1>4. QED
  BY <1>2, <1>3 DEF RvInv, RvTypeOK, RvPending, Armed

-----------------------------------------------------------------------------
(* The loop and its surroundings *)

LEMMA CheckIrq ==
    ASSUME RvInv
    PROVE  /\ check_irq \subseteq all_ints
           /\ SEIP \in check_irq <=> SEIP \in mip
           /\ MTIP \in mip => MTIP \in check_irq
           /\ ~Determined /\ timer_int => MTIP \in check_irq
BY DEF check_irq, RvInv, RvTypeOK, MTIP, SEIP, all_ints, M_MODE_INTERRUPTS

LEMMA PollInv ==
    ASSUME RvInv, Poll
    PROVE  RvInv'
<1>1. priv' \in Privs /\ mstatus' \in RvStatus
  <2>1. CASE local_irq_pending(check_irq) # {}
    BY <2>1, TrapType DEF Poll, RvInv
  <2>2. CASE local_irq_pending(check_irq) = {}
    BY <2>2 DEF Poll, RvInv, RvTypeOK
  <2>3. QED
    BY <2>1, <2>2
<1>2. timer_int' \in BOOLEAN /\ (Determined \/ ~timer_int')
  BY RvAssumption, Zenon DEF RvAssumption, Poll, RvInv, RvTypeOK
<1>3. /\ mip' = check_irq /\ turn' = "insn"
      /\ UNCHANGED <<mie, mideleg, medeleg, external_seip, software_seip, has_rules, mtimecmp, armed>>
  BY DEF Poll
<1>4. QED
  BY <1>1, <1>2, <1>3, CheckIrq DEF RvInv, RvTypeOK, RvPending, Armed

LEMMA WfiInv ==
    ASSUME RvInv, trans_wfi
    PROVE  RvInv'
<1>1. UNCHANGED <<priv, mstatus, mie, mideleg, medeleg, software_seip, external_seip, has_rules, mtimecmp, armed>>
      /\ turn' \in {"poll", "insn", "wfi"}
  BY DEF trans_wfi
<1>2. CASE Determined
  BY <1>1, <1>2 DEF trans_wfi, RvInv, RvTypeOK, RvPending, Armed
<1>3. CASE ~Determined
  <2>1. mip' = check_irq /\ timer_int' = FALSE
    BY <1>3 DEF trans_wfi
  <2>2. QED
    BY <1>1, <1>3, <2>1, CheckIrq, Zenon DEF RvInv, RvTypeOK, RvPending, Armed
<1>4. QED
  BY <1>2, <1>3

LEMMA OutsideInv ==
    ASSUME RvInv, SetIrq \/ Deadline \/ HostTimer
    PROVE  RvInv'
<1>1. CASE SetIrq
  <2>1. PICK level \in BOOLEAN : set_irq(level)
    BY <1>1 DEF SetIrq
  <2>2. /\ mip' \subseteq all_ints
        /\ MTIP \in mip' <=> MTIP \in mip
        /\ SEIP \in mip' <=> level \/ software_seip
    BY <2>1 DEF set_irq, RvInv, RvTypeOK, MTIP, SEIP, all_ints, S_MODE_INTERRUPTS
  <2>3. external_seip' = level
        /\ UNCHANGED <<priv, mstatus, mie, mideleg, medeleg, software_seip, has_rules, mtimecmp, armed, timer_int, turn>>
    BY <2>1 DEF set_irq, timerVars
  <2>4. QED
    BY <2>2, <2>3 DEF RvInv, RvTypeOK, RvPending, Armed
<1>2. CASE Deadline
  BY <1>2 DEF Deadline, trapVars, RvInv, RvTypeOK, RvPending, Armed
<1>3. CASE HostTimer
  BY <1>3, Zenon DEF HostTimer, trapVars, RvInv, RvTypeOK, RvPending, Armed
<1>4. QED
  BY <1>1, <1>2, <1>3

LEMMA InsnInv ==
    ASSUME RvInv, Insn
    PROVE  RvInv'
<1>1. UNCHANGED external_seip /\ turn' = "poll" /\ RvExecute
  BY DEF Insn
<1>2. CASE trans_ecall \/ Abandoned
  BY <1>1, <1>2, RaiseInv DEF trans_ecall, Abandoned
<1>3. CASE helper_sret \/ helper_mret
  BY <1>1, <1>3, ReturnInv
<1>4. CASE CsrStatus
  BY <1>1, <1>4, StatusInv
<1>5. CASE CsrMachineIrq \/ CsrSupervisorIrq
  BY <1>1, <1>5, IrqInv
<1>6. CASE CsrOther \/ PlainInsn
  BY <1>1, <1>6, OtherInv
<1>7. CASE \E cmp \in {"future", "past"} : clint_ioport_write(cmp)
  BY <1>1, <1>7, ClintInv
<1>8. QED
  BY <1>1, <1>2, <1>3, <1>4, <1>5, <1>6, <1>7 DEF RvExecute

LEMMA RvStepInv ==
    ASSUME RvInv, [RvNext]_rvVars
    PROVE  RvInv'
<1>1. CASE UNCHANGED rvVars
  BY <1>1 DEF rvVars, trapVars, timerVars, RvInv, RvTypeOK, RvPending, Armed
<1>2. QED
  BY <1>1, PollInv, InsnInv, WfiInv, OutsideInv DEF RvNext

LEMMA RvInitInv ==
    ASSUME RvInit
    PROVE  RvInv
BY Zenon DEF RvInit, RvInv, RvTypeOK, RvPending, Armed, RvStatus, Privs, PRV_U, PRV_S, PRV_M, SEIP

(* At every moment mip agrees with the PLIC's line, with what machine mode
   wrote and with the passed deadline: no order of line edges, CSR writes,
   signals and polls loses or invents a supervisor interrupt, or loses a tick
   (loongarch_cpu_set_irq, rmw_mip64, clint_ioport_write, check_irq). *)
THEOREM RvPendingAlways == RvSpec => [](RvTypeOK /\ RvPending)
<1>1. RvInit => RvInv
  BY RvInitInv
<1>2. RvInv /\ [RvNext]_rvVars => RvInv'
  BY RvStepInv
<1>3. RvInv => RvTypeOK /\ RvPending
  BY DEF RvInv
<1>4. QED
  BY <1>1, <1>2, <1>3, PTL DEF RvSpec
-----------------------------------------------------------------------------
(* Confinement, step by step *)

(* A trap is always allowed from below; in machine mode nothing is at stake
   but the poll, which has its own lemma *)
LEMMA RaiseGuarded ==
    ASSUME RvTypeOK, NEW cause, raise_exception(cause), turn = "insn"
    PROVE  RvGuarded
<1>1. do_interrupt(cause, medeleg)
      /\ UNCHANGED <<mie, mideleg, medeleg, software_seip, has_rules>>
  BY DEF raise_exception
<1>2. priv \in {0, 1, 3} /\ mstatus \in RvStatus
  BY DEF RvTypeOK, Privs, PRV_U, PRV_S, PRV_M
<1>3. CASE priv' = PRV_S /\ EntersS /\ priv <= PRV_S
  BY <1>1, <1>2, <1>3 DEF RvGuarded, EntersS, RvStatus, MachineOwned, MachineFields, PRV_U, PRV_S, PRV_M
<1>4. CASE priv' = PRV_M /\ EntersM
  BY <1>2, <1>4 DEF RvGuarded, PRV_U, PRV_M
<1>5. QED
  BY <1>1, <1>3, <1>4, TrapEnters

(* A step in machine mode that is not a poll, and one that leaves the mode
   and the registers of the modes alone, need no permission *)
LEMMA MachineGuarded ==
    ASSUME RvTypeOK, priv = PRV_M, priv' \in Privs, turn # "poll"
    PROVE  RvGuarded
BY DEF RvGuarded, Privs, PRV_U, PRV_S, PRV_M

LEMMA IdleGuarded ==
    ASSUME RvTypeOK, UNCHANGED <<priv, mstatus, mie, mideleg, medeleg, software_seip, has_rules>>
    PROVE  RvGuarded
BY DEF RvTypeOK, Privs, RvGuarded, MachineOwned, MachineFields, SupervisorFields, PRV_U, PRV_S, PRV_M

LEMMA ReturnGuarded ==
    ASSUME RvTypeOK, helper_sret \/ helper_mret, turn = "insn"
    PROVE  RvGuarded
<1>1. CASE \E cause \in {ILLEGAL_INST, INST_ACCESS_FAULT} : raise_exception(cause)
  BY <1>1, RaiseGuarded
<1>2. CASE ~\E cause \in {ILLEGAL_INST, INST_ACCESS_FAULT} : raise_exception(cause)
  <2>1. priv \in {0, 1, 3} /\ mstatus \in RvStatus /\ mstatus.spp \in {0, 1} /\ mstatus.mpp \in {0, 1, 3}
    BY DEF RvTypeOK, RvStatus, Privs, PRV_U, PRV_S, PRV_M
  <2>2. CASE priv = PRV_M
    <3>1. priv' \in Privs
      BY <1>2, <2>1 DEF helper_sret, helper_mret, Privs, PRV_U, PRV_S, PRV_M
    <3>2. QED
      BY <2>2, <3>1, MachineGuarded
  <2>3. CASE priv # PRV_M
    <3>1. priv = PRV_S /\ priv' \in {0, 1}
          /\ mstatus' = [mstatus EXCEPT !.sie = mstatus.spie, !.spie = TRUE, !.spp = PRV_U]
          /\ UNCHANGED <<mie, mideleg, medeleg, software_seip, has_rules>>
      BY <1>2, <2>1, <2>3 DEF helper_sret, helper_mret, PRV_U, PRV_S, PRV_M
    <3>2. QED
      BY <2>1, <3>1 DEF RvGuarded, MachineOwned, MachineFields, RvStatus, PRV_U, PRV_S, PRV_M
  <2>4. QED
    BY <2>2, <2>3
<1>3. QED
  BY <1>1, <1>2

(* The supervisor's status view reaches its own fields only *)
LEMMA StatusGuarded ==
    ASSUME RvTypeOK, CsrStatus, turn = "insn"
    PROVE  RvGuarded
<1>1. PICK v \in StatusVals : Csr("mstatus", write_mstatus(v)) \/ Csr("sstatus", write_sstatus(v))
  BY DEF CsrStatus
<1>2. CASE raise_exception(ILLEGAL_INST)
  BY <1>2, RaiseGuarded
<1>3. CASE priv = PRV_M /\ UNCHANGED priv
  BY <1>3, MachineGuarded DEF RvTypeOK
<1>4. CASE priv >= PRV_S /\ priv # PRV_M /\ write_sstatus(v)
  <2>1. priv = 1 /\ mstatus \in RvStatus
    BY <1>4 DEF RvTypeOK, Privs, PRV_U, PRV_S, PRV_M
  <2>2. mstatus.mpp \in Privs
    BY <2>1 DEF RvStatus
  <2> DEFINE w == [mstatus EXCEPT !.sie = v.sie, !.spie = v.spie, !.spp = v.spp]
  <2>3. w.mpp = mstatus.mpp /\ legalize_mpp(w.mpp) = mstatus.mpp
    BY <2>1, <2>2 DEF legalize_mpp, RvStatus
  <2>4. mstatus' = [w EXCEPT !.mpp = legalize_mpp(w.mpp)]
        /\ UNCHANGED <<priv, mie, mideleg, medeleg, software_seip, has_rules>>
    BY <1>4 DEF write_sstatus, write_mstatus
  <2>5. UNCHANGED MachineOwned
    BY <2>1, <2>3, <2>4 DEF MachineOwned, MachineFields, RvStatus
  <2>6. QED
    BY <2>1, <2>4, <2>5 DEF RvGuarded, PRV_U, PRV_S, PRV_M
<1>5. QED
  BY <1>1, <1>2, <1>3, <1>4 DEF Csr, csrrw_check, csr_priv, MachineCsrs, write_mstatus, write_sstatus,
     RvTypeOK, Privs, PRV_U, PRV_S, PRV_M

LEMMA IrqGuarded ==
    ASSUME RvTypeOK, CsrMachineIrq \/ CsrSupervisorIrq, turn = "insn"
    PROVE  RvGuarded
<1>1. priv \in {0, 1, 3}
  BY DEF RvTypeOK, Privs, PRV_U, PRV_S, PRV_M
<1>2. CASE raise_exception(ILLEGAL_INST)
  BY <1>2, RaiseGuarded
<1>3. CASE priv = PRV_M /\ UNCHANGED priv
  BY <1>3, MachineGuarded DEF RvTypeOK
<1>4. CASE priv = PRV_S /\ \E u \in Updates(IrqVals) : rmw_sie(u[1], u[2])
  <2>1. PICK u \in Updates(IrqVals) : rmw_sie(u[1], u[2])
    BY <1>4
  <2>2. UNCHANGED <<priv, mstatus, mideleg, medeleg, software_seip, has_rules>>
    BY <2>1 DEF rmw_sie, rmw_mie
  <2>3. mie' \ mideleg' = mie \ mideleg
    BY <2>1 DEF rmw_sie, rmw_mie, Merge
  <2>4. QED
    BY <1>4, <2>2, <2>3 DEF RvGuarded, MachineOwned, MachineFields, PRV_U, PRV_S, PRV_M
<1>5. CASE priv = PRV_S /\ \E u \in Updates(IrqVals) : rmw_sip(u[1], u[2])
  <2>1. PICK u \in Updates(IrqVals) : rmw_sip(u[1], u[2])
    BY <1>5
  <2>2. UNCHANGED <<priv, mstatus, mie, mideleg, medeleg, has_rules>>
    BY <2>1 DEF rmw_sip, rmw_mip, rmw_mip64
  <2>3. SEIP \notin (u[2] \cap mideleg \cap sip_writable_mask) \cap delegable_ints
    BY DEF SEIP, SSIP, sip_writable_mask
  <2>4. software_seip' = software_seip
    BY <2>1, <2>3 DEF rmw_sip, rmw_mip, rmw_mip64
  <2>5. QED
    BY <2>2, <2>4, IdleGuarded
<1>6. CASE CsrMachineIrq
  <2>1. PICK u \in Updates(IrqVals) :
            \/ Csr("mie", rmw_mie(u[1], u[2]))
            \/ Csr("mip", rmw_mip(u[1], u[2]))
            \/ Csr("mideleg", rmw_mideleg(u[1], u[2]))
    BY <1>6 DEF CsrMachineIrq
  <2>2. csrrw_check("mie", TRUE) \/ csrrw_check("mip", TRUE) \/ csrrw_check("mideleg", TRUE) => priv = PRV_M
    BY <1>1 DEF csrrw_check, csr_priv, MachineCsrs, PRV_M
  <2>3. rmw_mie(u[1], u[2]) \/ rmw_mip(u[1], u[2]) \/ rmw_mideleg(u[1], u[2]) => UNCHANGED priv
    BY DEF rmw_mie, rmw_mip, rmw_mip64, rmw_mideleg
  <2>4. QED
    BY <1>2, <1>3, <2>1, <2>2, <2>3, Zenon DEF Csr
<1>7. CASE CsrSupervisorIrq
  <2>1. PICK u \in Updates(IrqVals) : Csr("sie", rmw_sie(u[1], u[2])) \/ Csr("sip", rmw_sip(u[1], u[2]))
    BY <1>7 DEF CsrSupervisorIrq
  <2>2. csrrw_check("sie", TRUE) \/ csrrw_check("sip", TRUE) => priv = PRV_S \/ priv = PRV_M
    BY <1>1 DEF csrrw_check, csr_priv, MachineCsrs, PRV_S, PRV_M
  <2>3. rmw_sie(u[1], u[2]) \/ rmw_sip(u[1], u[2]) => UNCHANGED priv
    BY DEF rmw_sie, rmw_mie, rmw_sip, rmw_mip, rmw_mip64
  <2>4. QED
    BY <1>2, <1>3, <1>4, <1>5, <2>1, <2>2, <2>3, Zenon DEF Csr
<1>8. QED
  BY <1>6, <1>7

LEMMA OtherGuarded ==
    ASSUME RvTypeOK, CsrOther \/ PlainInsn, turn = "insn"
    PROVE  RvGuarded
<1>1. priv \in {0, 1, 3}
  BY DEF RvTypeOK, Privs, PRV_U, PRV_S, PRV_M
<1>2. CASE raise_exception(ILLEGAL_INST)
  BY <1>2, RaiseGuarded
<1>3. CASE PlainInsn
  BY <1>3, IdleGuarded DEF PlainInsn, trapVars
<1>4. CASE priv = PRV_M /\ UNCHANGED priv
  BY <1>4, MachineGuarded DEF RvTypeOK
<1>5. QED
  BY <1>1, <1>2, <1>3, <1>4 DEF CsrOther, Csr, csrrw_check, csr_priv, MachineCsrs, write_medeleg, write_pmpcfg,
     trapVars, PRV_U, PRV_S, PRV_M

LEMMA InsnGuarded ==
    ASSUME RvTypeOK, Insn
    PROVE  RvGuarded
<1>1. turn = "insn" /\ RvExecute
  BY DEF Insn
<1>2. CASE trans_ecall \/ Abandoned
  BY <1>1, <1>2, RaiseGuarded DEF trans_ecall, Abandoned
<1>3. CASE helper_sret \/ helper_mret
  BY <1>1, <1>3, ReturnGuarded
<1>4. CASE CsrStatus
  BY <1>1, <1>4, StatusGuarded
<1>5. CASE CsrMachineIrq \/ CsrSupervisorIrq
  BY <1>1, <1>5, IrqGuarded
<1>6. CASE CsrOther \/ PlainInsn
  BY <1>1, <1>6, OtherGuarded
<1>7. CASE \E cmp \in {"future", "past"} : clint_ioport_write(cmp)
  BY <1>7, IdleGuarded DEF clint_ioport_write
<1>8. QED
  BY <1>1, <1>2, <1>3, <1>4, <1>5, <1>6, <1>7 DEF RvExecute

(* The lowest pending number is a member of what is pending *)
LEMMA LowestPending ==
    ASSUME NEW irqs \in SUBSET all_ints, irqs # {}
    PROVE  pending_to_irq(irqs) \in irqs
<1>1. \A j \in irqs : j \in {1, 3, 5, 7, 9, 11}
  BY DEF all_ints, S_MODE_INTERRUPTS, M_MODE_INTERRUPTS
<1>2. \E i \in irqs : \A j \in irqs : i <= j
  <2>1. CASE 1 \in irqs
    BY <1>1, <2>1
  <2>2. CASE 1 \notin irqs /\ 3 \in irqs
    BY <1>1, <2>2
  <2>3. CASE 1 \notin irqs /\ 3 \notin irqs /\ 5 \in irqs
    BY <1>1, <2>3
  <2>4. CASE 1 \notin irqs /\ 3 \notin irqs /\ 5 \notin irqs /\ 7 \in irqs
    BY <1>1, <2>4
  <2>5. CASE 1 \notin irqs /\ 3 \notin irqs /\ 5 \notin irqs /\ 7 \notin irqs
    BY <1>1, <2>5
  <2>6. QED
    BY <2>1, <2>2, <2>3, <2>4, <2>5
<1>3. QED
  BY <1>2, Zenon DEF pending_to_irq

(* The poll takes an interrupt only into a level that is open to it *)
LEMMA PollGuarded ==
    ASSUME RvTypeOK, Poll
    PROVE  RvGuarded
<1> DEFINE irqs == local_irq_pending(check_irq)
<1>1. priv \in {0, 1, 3} /\ mstatus \in RvStatus
  BY DEF RvTypeOK, Privs, PRV_U, PRV_S, PRV_M
<1>2. UNCHANGED <<mie, mideleg, medeleg, software_seip, has_rules>> /\ mip' = check_irq
  BY DEF Poll
<1>3. CASE irqs = {}
  BY <1>2, <1>3, IdleGuarded DEF Poll
<1>4. CASE irqs # {}
  <2>1. irqs \subseteq check_irq \cap mie /\ irqs \in SUBSET all_ints
    BY DEF local_irq_pending, MachineIrqs, SupervisorIrqs, RvTypeOK
  <2>2. PICK i \in irqs : do_interrupt(i, mideleg)
    BY <1>4, <2>1, LowestPending DEF Poll
  <2>3. i \in mip' \cap mie
    BY <1>2, <2>1, <2>2
  <2>4. CASE i \in mideleg
    <3>1. i \in SupervisorIrqs(check_irq)
      BY <2>2, <2>4 DEF local_irq_pending, MachineIrqs
    <3>2. priv < PRV_S \/ (priv = PRV_S /\ mstatus.sie)
      BY <3>1 DEF SupervisorIrqs
    <3>3. priv' = PRV_S /\ EntersS /\ priv <= PRV_S
      BY <1>1, <2>2, <2>4, <3>2, TrapEnters DEF PRV_S
    <3>4. Taken(priv')
      BY <2>3, <2>4, <3>2, <3>3 DEF Taken
    <3>5. QED
      BY <1>1, <1>2, <3>3, <3>4 DEF RvGuarded, EntersS, RvStatus, MachineOwned, MachineFields, PRV_U, PRV_S, PRV_M
  <2>5. CASE i \notin mideleg
    <3>1. i \in MachineIrqs(check_irq)
      BY <2>2, <2>5 DEF local_irq_pending, SupervisorIrqs
    <3>2. priv < PRV_M \/ mstatus.mie
      BY <3>1 DEF MachineIrqs
    <3>3. priv' = PRV_M /\ EntersM
      BY <2>2, <2>5, TrapEnters
    <3>4. Taken(priv')
      BY <2>3, <2>5, <3>2, <3>3 DEF Taken
    <3>5. QED
      BY <1>1, <3>3, <3>4 DEF RvGuarded, PRV_U, PRV_S, PRV_M
  <2>6. QED
    BY <2>4, <2>5
<1>5. QED
  BY <1>3, <1>4

(* Privilege is gained only through a trap that saves the old mode and closes
   the new one; the steps of lower modes leave what machine mode and the
   supervisor own alone; a masked level is never interrupted. For every set of
   CSR values, in real and in determined time. *)
THEOREM RvGuardAlways == RvSpec => RvGuard
<1>1. RvTypeOK /\ [RvNext]_rvVars => [RvGuarded]_rvVars
  <2>1. ASSUME RvTypeOK, RvNext PROVE RvGuarded
    <3>1. CASE trans_wfi \/ SetIrq \/ Deadline \/ HostTimer
      BY <2>1, <3>1, IdleGuarded DEF trans_wfi, SetIrq, set_irq, Deadline, HostTimer, trapVars
    <3>2. QED
      BY <2>1, <3>1, PollGuarded, InsnGuarded DEF RvNext
  <2>2. QED
    BY <2>1
<1>2. QED
  BY <1>1, RvPendingAlways, PTL DEF RvSpec, RvGuard
-----------------------------------------------------------------------------
(* Physical memory protection *)

PmpTypeOK ==
    /\ cfg_reg \in [PmpIndex -> PmpCfg]
    /\ addr_reg \in [PmpIndex -> Int]

(* A write of pmpcfg stores well formed values, and only in unlocked entries *)
LEMMA CfgAfterFacts ==
    ASSUME PmpTypeOK, NEW first \in PmpIndex, NEW val \in [0 .. PerCfg - 1 -> PmpCfgs]
    PROVE  /\ CfgAfter(first, val) \in [PmpIndex -> PmpCfg]
           /\ \A i \in PmpIndex : is_locked(i) => CfgAfter(first, val)[i] = cfg_reg[i]
BY PmpAssumption DEF PmpAssumption, PmpTypeOK, CfgAfter, Changes

LEMMA WriteCfgStep ==
    ASSUME PmpTypeOK, RvPmpCached, WriteCfg
    PROVE  /\ PmpTypeOK' /\ RvPmpCached'
           /\ \A i \in PmpIndex : is_locked(i) => cfg_reg'[i] = cfg_reg[i] /\ rules'[i] = rules[i]
<1>1. PICK first \in PmpIndex, val \in [0 .. PerCfg - 1 -> PmpCfgs] : pmpcfg_csr_write(first, val)
  BY DEF WriteCfg
<1> DEFINE after == CfgAfter(first, val)
<1>2. after \in [PmpIndex -> PmpCfg] /\ \A i \in PmpIndex : is_locked(i) => after[i] = cfg_reg[i]
  BY CfgAfterFacts
<1>3. /\ cfg_reg' = after /\ addr_reg' = addr_reg
      /\ rules' = [i \in PmpIndex |-> IF after[i] # cfg_reg[i] THEN update_rule_addr(after, addr_reg, i)
                                      ELSE rules[i]]
      /\ num_rules' = IF after # cfg_reg THEN update_rule_nums(after) ELSE num_rules
  BY <1>1 DEF pmpcfg_csr_write
<1>4. PmpTypeOK'
  BY <1>2, <1>3 DEF PmpTypeOK
<1> HIDE DEF after
<1>5. ASSUME NEW i \in PmpIndex, after[i].a # "off"
      PROVE  rules'[i] = update_rule_addr(after, addr_reg, i)
  <2>1. CASE after[i] # cfg_reg[i]
    BY <1>3, <2>1
  <2>2. CASE after[i] = cfg_reg[i]
    <3>1. rules'[i] = update_rule_addr(cfg_reg, addr_reg, i)
      BY <1>3, <1>5, <2>2 DEF RvPmpCached
    <3>2. QED
      BY <2>2, <3>1 DEF update_rule_addr
  <2>3. QED
    BY <2>1, <2>2
<1>6. num_rules' = update_rule_nums(after)
  BY <1>3 DEF RvPmpCached
<1>7. RvPmpCached'
  BY <1>3, <1>5, <1>6 DEF RvPmpCached, update_rule_addr, update_rule_nums, PrevAddr
<1>8. QED
  BY <1>2, <1>3, <1>4, <1>7

LEMMA WriteAddrStep ==
    ASSUME PmpTypeOK, RvPmpCached, WriteAddr
    PROVE  /\ PmpTypeOK' /\ RvPmpCached'
           /\ \A i \in PmpIndex : is_locked(i) => cfg_reg'[i] = cfg_reg[i] /\ rules'[i] = rules[i]
<1>1. PICK k \in PmpIndex, val \in PmpAddrs : pmpaddr_csr_write(k, val)
  BY DEF WriteAddr
<1> DEFINE addrs == AddrsWith(k, val)
<1>2. /\ ~is_locked(k) /\ ~(NextTor(k) /\ cfg_reg[k + 1].l)
      /\ addr_reg' = addrs /\ cfg_reg' = cfg_reg /\ num_rules' = num_rules
      /\ rules' = [j \in PmpIndex |-> IF j = k \/ (j = k + 1 /\ NextTor(k))
                                      THEN update_rule_addr(cfg_reg, addrs, j) ELSE rules[j]]
  BY <1>1 DEF pmpaddr_csr_write
<1>3. addrs \in [PmpIndex -> Int] /\ \A j \in PmpIndex : j # k => addrs[j] = addr_reg[j]
  BY PmpAssumption DEF PmpAssumption, PmpTypeOK, AddrsWith, PmpWord
<1>4. PmpTypeOK'
  BY <1>2, <1>3 DEF PmpTypeOK
<1> HIDE DEF addrs
<1>5. ASSUME NEW j \in PmpIndex, cfg_reg[j].a # "off"
      PROVE  rules'[j] = update_rule_addr(cfg_reg, addrs, j)
  <2>1. CASE j = k \/ (j = k + 1 /\ NextTor(k))
    BY <1>2, <2>1
  <2>2. CASE j # k /\ j # k + 1
    <3>1. rules'[j] = update_rule_addr(cfg_reg, addr_reg, j)
      BY <1>2, <1>5, <2>2 DEF RvPmpCached
    <3>2. addrs[j] = addr_reg[j] /\ PrevAddr(addrs, j) = PrevAddr(addr_reg, j)
      BY <1>3, <2>2, PmpAssumption DEF PrevAddr, PmpIndex, PmpAssumption
    <3>3. QED
      BY <3>1, <3>2 DEF update_rule_addr
  <2>3. CASE j = k + 1 /\ ~NextTor(k)
    <3>1. rules'[j] = update_rule_addr(cfg_reg, addr_reg, j)
      BY <1>2, <1>5, <2>3, PmpAssumption DEF RvPmpCached, PmpIndex, PmpAssumption
    <3>2. addrs[j] = addr_reg[j] /\ cfg_reg[j].a # "tor"
      BY <1>3, <2>3, PmpAssumption DEF NextTor, PmpIndex, PmpAssumption
    <3>3. QED
      BY <1>5, <3>1, <3>2 DEF update_rule_addr, RuleOf
  <2>4. QED
    BY <2>1, <2>2, <2>3
<1>6. RvPmpCached'
  BY <1>2, <1>5 DEF RvPmpCached, update_rule_addr, update_rule_nums, PrevAddr
<1>7. ASSUME NEW i \in PmpIndex, is_locked(i)
      PROVE  rules'[i] = rules[i]
  BY <1>2, <1>7 DEF is_locked
<1>8. QED
  BY <1>2, <1>4, <1>6, <1>7

LEMMA PmpInitInv ==
    ASSUME PmpInit
    PROVE  PmpTypeOK /\ RvPmpCached
<1>1. PmpTypeOK
  BY DEF PmpInit, PmpTypeOK, PmpCfg, Matches
<1>2. {i \in PmpIndex : cfg_reg[i].a # "off"} = {}
  BY DEF PmpInit
<1>3. QED
  BY <1>1, <1>2, FS_EmptySet, Zenon DEF PmpInit, RvPmpCached, update_rule_nums

(* The cached range of every entry in force and the number of those entries
   always follow the registers, for any number of entries and any widths
   (pmp_update_rule_addr is called for every register a range depends on). *)
THEOREM RvPmpCachedAlways == PmpSpec => [](PmpTypeOK /\ RvPmpCached)
<1>1. PmpInit => PmpTypeOK /\ RvPmpCached
  BY PmpInitInv
<1>2. PmpTypeOK /\ RvPmpCached /\ [PmpNext]_pmpVars => (PmpTypeOK /\ RvPmpCached)'
  <2>1. CASE UNCHANGED pmpVars
    BY <2>1 DEF pmpVars, PmpTypeOK, RvPmpCached, update_rule_addr, update_rule_nums, PrevAddr
  <2>2. QED
    BY <2>1, WriteCfgStep, WriteAddrStep DEF PmpNext
<1>3. QED
  BY <1>1, <1>2, PTL DEF PmpSpec

(* A locked entry keeps its permissions and both ends of its range through
   every later write, for any number of entries (pmp_write_cfg and the two
   lock checks of pmpaddr_csr_write). *)
THEOREM RvPmpLockedAlways == PmpSpec => RvPmpLocked
<1>1. PmpTypeOK /\ RvPmpCached /\ [PmpNext]_pmpVars =>
          [\A i \in PmpIndex : is_locked(i) => cfg_reg'[i] = cfg_reg[i] /\ rules'[i] = rules[i]]_pmpVars
  BY WriteCfgStep, WriteAddrStep DEF PmpNext
<1>2. QED
  BY <1>1, RvPmpCachedAlways, PTL DEF PmpSpec, RvPmpLocked
=============================================================================
