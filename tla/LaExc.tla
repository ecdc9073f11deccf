-------------------------------- MODULE LaExc --------------------------------
(***************************************************************************)
(* Exceptions and interrupts of the LoongArch core: the iteration of       *)
(* exec_env (check_irq, has_irq, fetch and execute, longjmp to             *)
(* cpu_do_interrupt), loongarch_cpu_do_interrupt, ertn, idle, and the CSR  *)
(* writes that touch the saved contexts.  The guest is arbitrary code.     *)
(*                                                                         *)
(* An address is a pair; guest code lives at <<"code", n>>, the exception  *)
(* vectors at <<"eentry", offset>> and <<"tlbrentry", 0>>.  ERA and PRMD   *)
(* are one saved context, TLBRERA.PC and TLBRPRMD the other.               *)
(***************************************************************************)
EXTENDS Integers

CONSTANTS
  CodeAddrs,  \* addresses the guest can branch to
  Hw,         \* interrupt lines driven by devices and timers
  Soft,       \* the software interrupt bits of ESTAT, 0 and 1
  Excs,       \* exceptions the guest runs into
  VS,         \* values of ECFG.VS
  log_int     \* the CPU_LOG_INT mask of the option -d

Mcode ==
  [PIL |-> 1, PIS |-> 2, PIF |-> 3, PME |-> 4, PNR |-> 5, PNX |-> 6, PPI |-> 7,
   ADEF |-> 8, ADEM |-> 8, BCE |-> 10, SYS |-> 11, BRK |-> 12, IPE |-> 14,
   FPD |-> 15, SXD |-> 16, ASXD |-> 17, FPE |-> 18, BTD |-> 20]

MmuExcs == {"PIL", "PIS", "PIF", "PME", "PNR", "PNX", "PPI", "ADEF", "ADEM"}
RefillExcs == {"PIL", "PIS", "PIF"}
NamedExcs == DOMAIN Mcode \ {"BTD"}

ASSUME ThereIsCode == CodeAddrs # {}
ASSUME LinesAreSmall == Hw \subseteq 2..12 /\ Soft \subseteq 0..1
ASSUME ExcsAreKnown == Excs \subseteq DOMAIN Mcode /\ "IPE" \in Excs
ASSUME LogIsBoolean == log_int \in BOOLEAN
ASSUME VSIsNatural == VS \subseteq Nat /\ 0 \in VS

VARIABLES
  pc,
  mode,             \* CRMD: plv, ie, da, pg
  main,             \* ERA, PRMD.PPLV and PRMD.PIE: pc, plv, ie
  refill,           \* TLBRERA.PC, TLBRPRMD.PPLV and .PIE
  istlbr,           \* TLBRERA.ISTLBR
  is,               \* ESTAT.IS, the set of pending lines
  lie,              \* ECFG.LIE, the set of enabled lines
  vs,               \* ECFG.VS
  ecode,            \* ESTAT.ECODE
  exception_index,
  phase             \* where exec_env stands

ctl  == <<pc, mode, main, refill, istlbr>>
irqs == <<is, lie, vs>>
vars == <<pc, mode, main, refill, istlbr, is, lie, vs, ecode, exception_index,
          phase>>

Lines == Hw \union Soft
INT == "INT"
None == "none"

EXCCODE_EXTERNAL_INT == 64

Code == {"code"} \X CodeAddrs
Tlbrentry == <<"tlbrentry", 0>>
Offsets == {0} \union {Mcode[e] : e \in Excs}
               \union {EXCCODE_EXTERNAL_INT + l : l \in Lines}
Vectors == {Tlbrentry} \union ({"eentry"} \X Offsets)
Pc == Code \union Vectors

Mode == [plv : {0, 3}, ie : BOOLEAN, da : BOOLEAN, pg : BOOLEAN]
Context == [pc : Pc, plv : {0, 3}, ie : BOOLEAN]
Phases == {"loop", "exec", "trap", "idle", "exited", "aborted"}

TypeOK ==
  /\ pc \in Pc
  /\ mode \in Mode
  /\ main \in Context
  /\ refill \in Context
  /\ istlbr \in BOOLEAN
  /\ is \subseteq Lines
  /\ lie \subseteq Lines
  /\ vs \in VS
  /\ ecode \in Excs \union {INT}
  /\ phase \in Phases
  /\ exception_index \in IF phase = "trap" THEN Excs ELSE {None}

(* cpu_reset: direct addressing, highest privilege, interrupts off.  The   *)
(* saved contexts hold addresses nobody has saved yet.                     *)
Init ==
  /\ pc \in Code
  /\ mode = [plv |-> 0, ie |-> FALSE, da |-> TRUE, pg |-> FALSE]
  /\ main = [pc |-> pc, plv |-> 0, ie |-> FALSE]
  /\ refill = main
  /\ istlbr = FALSE
  /\ is = {}
  /\ lie = {}
  /\ vs = 0
  /\ ecode = INT
  /\ exception_index = None
  /\ phase = "loop"
-----------------------------------------------------------------------------
(* loongarch_cpu_do_interrupt.  It takes a refill from any other exception *)
(* by ISTLBR alone, which raise_mmu_exception has set.                     *)

Saved == [pc |-> pc, plv |-> mode.plv, ie |-> mode.ie]

(* The address EENTRY + code * vec_size; with VS = 0 all vectors coincide. *)
Eentry(code) == <<"eentry", IF vs = 0 THEN 0 ELSE code>>

Highest(pending) == CHOOSE l \in pending : \A k \in pending : k <= l

\* Mutant: a refill saves its context in ERA and PRMD like the others.
SaveContextInMain(cause) ==
  /\ main' = Saved
  /\ ecode' = IF cause # INT \/ vs = 0 THEN cause ELSE ecode
  /\ UNCHANGED refill

SaveContext(cause) ==
  IF istlbr
  THEN refill' = Saved /\ UNCHANGED <<main, ecode>>
  ELSE /\ main' = Saved
       /\ ecode' = IF cause # INT \/ vs = 0 THEN cause ELSE ecode
       /\ UNCHANGED refill

\* Mutant: the handler starts with the interrupt enable it came from.
HandlerModeIeKept ==
  [plv |-> 0, ie |-> mode.ie,
   da |-> istlbr \/ mode.da, pg |-> ~istlbr /\ mode.pg]

HandlerMode ==
  [plv |-> 0, ie |-> FALSE,
   da |-> istlbr \/ mode.da, pg |-> ~istlbr /\ mode.pg]

\* Mutant: exception_index is not set back to -1.
DoInterruptStale(cause, target) ==
  /\ SaveContext(cause)
  /\ mode' = HandlerMode
  /\ pc' = target
  /\ exception_index' = cause
  /\ UNCHANGED istlbr

DoInterrupt(cause, target) ==
  /\ SaveContext(cause)
  /\ mode' = HandlerMode
  /\ pc' = target
  /\ exception_index' = None
  /\ UNCHANGED istlbr

-----------------------------------------------------------------------------
(* The top of the loop: check_irq leaves the device lines at any level,    *)
(* has_irq decides, and the vector is that of the highest enabled line.    *)

HasIrq(pending) == mode.ie /\ pending \intersect lie # {}

LoopTop ==
  /\ phase = "loop"
  /\ \E hw \in SUBSET Hw :
       LET now == (is \intersect Soft) \union hw
       IN  /\ is' = now
           /\ IF HasIrq(now)
              THEN DoInterrupt(INT, Eentry(EXCCODE_EXTERNAL_INT
                                             + Highest(now \intersect lie)))
              ELSE UNCHANGED <<ctl, ecode, exception_index>>
  /\ phase' = "exec"
  /\ UNCHANGED <<lie, vs>>

(* The second return of sigsetjmp.                                         *)
Trap ==
  /\ phase = "trap"
  /\ DoInterrupt(exception_index,
                 IF istlbr THEN Tlbrentry ELSE Eentry(Mcode[exception_index]))
  /\ phase' = "loop"
  /\ UNCHANGED <<is, lie, vs>>

-----------------------------------------------------------------------------
(* Fetch and execution of one instruction that raises.                     *)

(* do_raise_exception names the exception when it is logged, and asserts   *)
(* that it has a name.                                                     *)
Raise(exc) ==
  /\ IF log_int /\ exc \notin NamedExcs
     THEN phase' = "aborted" /\ UNCHANGED exception_index
     ELSE phase' = "trap" /\ exception_index' = exc
  /\ UNCHANGED <<ctl, irqs, ecode>>

InsnRaises(exc) ==
  /\ phase = "exec"
  /\ exc \notin MmuExcs
  /\ Raise(exc)

(* get_physical_address translates unless DA is set and PG is clear;       *)
(* raise_mmu_exception marks a miss in the TLB as a refill.                *)
MmuFault(exc, nomatch) ==
  /\ phase = "exec"
  /\ ~(mode.da /\ ~mode.pg)
  /\ exc \in MmuExcs
  /\ nomatch => exc \in RefillExcs
  /\ istlbr' = (istlbr \/ nomatch)
  /\ exception_index' = exc
  /\ phase' = "trap"
  /\ UNCHANGED <<pc, mode, main, refill, irqs, ecode>>

-----------------------------------------------------------------------------
(* Instructions that complete.  CHECK_PLV(0) makes the privileged ones     *)
(* raise IPE at PLV 3, which is an instance of InsnRaises.                 *)

Insn(next) ==
  /\ phase = "exec"
  /\ pc' = next
  /\ phase' = "loop"
  /\ UNCHANGED <<exception_index, ecode>>

OtherInsn(next) ==
  /\ Insn(next)
  /\ UNCHANGED <<mode, main, refill, istlbr, irqs>>

Privileged(next) == mode.plv = 0 /\ Insn(next)

(* An instruction word that decodes to nothing is logged and tried again.  *)
IllegalInsn == OtherInsn(pc)

WriteCrmd(next, new) ==
  /\ Privileged(next)
  /\ mode' = new
  /\ UNCHANGED <<main, refill, istlbr, irqs>>

WritePrmd(next, plv, ie) ==
  /\ Privileged(next)
  /\ main' = [main EXCEPT !.plv = plv, !.ie = ie]
  /\ UNCHANGED <<mode, refill, istlbr, irqs>>

WriteEra(next, new) ==
  /\ Privileged(next)
  /\ main' = [main EXCEPT !.pc = new]
  /\ UNCHANGED <<mode, refill, istlbr, irqs>>

WriteTlbrera(next, new, bit) ==
  /\ Privileged(next)
  /\ refill' = [refill EXCEPT !.pc = new]
  /\ istlbr' = bit
  /\ UNCHANGED <<mode, main, irqs>>

WriteTlbrprmd(next, plv, ie) ==
  /\ Privileged(next)
  /\ refill' = [refill EXCEPT !.plv = plv, !.ie = ie]
  /\ UNCHANGED <<mode, main, istlbr, irqs>>

WriteEcfg(next, lines, size) ==
  /\ Privileged(next)
  /\ lie' = lines
  /\ vs' = size
  /\ UNCHANGED <<mode, main, refill, istlbr, is>>

(* Only the software bits of ESTAT are writable.                           *)
WriteEstat(next, soft) ==
  /\ Privileged(next)
  /\ is' = (is \ Soft) \union soft
  /\ UNCHANGED <<mode, main, refill, istlbr, lie, vs>>

(* helper_ertn: the refill context first; it also ends direct addressing.  *)
Ertn ==
  LET saved == IF istlbr THEN refill ELSE main
  IN  /\ Privileged(saved.pc)
      /\ mode' = [plv |-> saved.plv, ie |-> saved.ie,
                  da |-> ~istlbr /\ mode.da, pg |-> istlbr \/ mode.pg]
      /\ istlbr' = FALSE
      /\ UNCHANGED <<main, refill, irqs>>

(* idle with interrupts off ends the emulator.  With them on it polls      *)
(* check_irq; under -z it completes like any other instruction.            *)
Idle ==
  /\ phase = "exec"
  /\ mode.plv = 0
  /\ phase' = IF mode.ie THEN "idle" ELSE "exited"
  /\ UNCHANGED <<ctl, irqs, ecode, exception_index>>

IdlePoll(next) ==
  /\ phase = "idle"
  /\ \E hw \in SUBSET Hw :
       LET now == (is \intersect Soft) \union hw
       IN  /\ is' = now
           /\ IF HasIrq(now)
              THEN pc' = next /\ phase' = "loop"
              ELSE UNCHANGED <<pc, phase>>
  /\ UNCHANGED <<mode, main, refill, istlbr, lie, vs, ecode, exception_index>>

Raising ==
  \E exc \in Excs :
    InsnRaises(exc) \/ \E nomatch \in BOOLEAN : MmuFault(exc, nomatch)

CsrWrite(next) ==
  \/ \E new \in Mode : WriteCrmd(next, new)
  \/ \E new \in Code : WriteEra(next, new)
  \/ \E new \in Code, bit \in BOOLEAN : WriteTlbrera(next, new, bit)
  \/ \E plv \in {0, 3}, ie \in BOOLEAN :
       WritePrmd(next, plv, ie) \/ WriteTlbrprmd(next, plv, ie)
  \/ \E lines \in SUBSET Lines, size \in VS : WriteEcfg(next, lines, size)
  \/ \E soft \in SUBSET Soft : WriteEstat(next, soft)

Next ==
  \/ LoopTop
  \/ Trap
  \/ Raising
  \/ \E next \in Code : OtherInsn(next) \/ CsrWrite(next) \/ IdlePoll(next)
  \/ IllegalInsn
  \/ Ertn
  \/ Idle

Spec == Init /\ [][Next]_vars

-----------------------------------------------------------------------------
(* Code at PLV 3 changes nothing privileged by itself.  Whatever it does,  *)
(* whichever line or fault arrives, either CRMD, ECFG, the software bits   *)
(* and both saved contexts stay, or it enters a handler: PLV 0, interrupts *)
(* off, at a vector, with exactly its own context saved, in the set that   *)
(* ertn will read (do_interrupt, CHECK_PLV, helper_ertn).                  *)
EnterHandler ==
  /\ pc' \in Vectors
  /\ mode'.plv = 0
  /\ ~mode'.ie
  /\ istlbr' = istlbr
  /\ IF istlbr' THEN refill' = Saved /\ main' = main
                ELSE main' = Saved /\ refill' = refill

UserConfined ==
  [][mode.plv = 3 =>
       /\ <<lie, vs, is \intersect Soft>>' = <<lie, vs, is \intersect Soft>>
       /\ UNCHANGED <<mode, main, refill>> \/ EnterHandler]_vars

(* do_raise_exception logs an exception by its name and asserts that it    *)
(* has one: an exception the guest raises never ends the emulator.         *)
RaisedIsNamed == phase # "aborted"
=============================================================================
