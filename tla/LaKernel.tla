------------------------------- MODULE LaKernel -------------------------------
(***************************************************************************)
(* The exception machinery of LaExc under a guest kernel that follows the  *)
(* calling sequence of the architecture: a general handler saves ERA and   *)
(* PRMD before it enables interrupts or touches memory that may fault, and *)
(* restores them before ertn; a refill handler runs to its ertn.  User     *)
(* code is arbitrary.  Refills may strike a general handler anywhere, also *)
(* before it has saved and after it has restored ERA and PRMD.             *)
(*                                                                         *)
(* The emulator's part of every step is an action of LaExc.  The kernel is *)
(* guest software; `frames' records, for each handler that has not yet     *)
(* returned, how far it is, what it saved in memory and what it has to     *)
(* return to.                                                              *)
(***************************************************************************)
EXTENDS LaExc

CONSTANT MaxNest  \* handlers nested at most

ASSUME MaxNestIsPositive == MaxNest \in Nat \ {0}

VARIABLES
  frames,
  depth

kvars == <<vars, frames, depth>>

(* "open": ERA and PRMD are saved and interrupts enabled; "era": ERA is    *)
(* restored and PRMD is not.                                               *)
Stages == {"entered", "saved", "open", "era", "restored"}

Frame == [kind  : {"refill", "general"},
          stage : Stages,
          ctx   : [pc : Pc, mode : Mode],
          mem   : Context]

UserMode == [plv |-> 3, ie |-> TRUE, da |-> FALSE, pg |-> TRUE]

NoFrame ==
  LET at == CHOOSE p \in Code : TRUE
  IN  [kind |-> "general", stage |-> "entered",
       ctx |-> [pc |-> at, mode |-> UserMode],
       mem |-> [pc |-> at, plv |-> 3, ie |-> TRUE]]

top == frames[depth]

KernelTypeOK ==
  /\ TypeOK
  /\ depth \in 0..MaxNest
  /\ frames \in [1..MaxNest -> Frame]

(* The first return to user code after boot.                               *)
KernelInit ==
  /\ pc \in Code
  /\ mode = UserMode
  /\ main = [pc |-> pc, plv |-> 3, ie |-> TRUE]
  /\ refill = main
  /\ istlbr = FALSE
  /\ is = {}
  /\ lie \in SUBSET Lines
  /\ vs \in VS
  /\ ecode = INT
  /\ exception_index = None
  /\ phase = "loop"
  /\ depth = 0
  /\ frames = [i \in 1..MaxNest |-> NoFrame]
-----------------------------------------------------------------------------
(* Entry of a handler, by an exception or by an interrupt.                 *)

Push ==
  /\ depth' = depth + 1
  /\ frames' = [frames EXCEPT ![depth + 1] =
                  [kind  |-> IF istlbr THEN "refill" ELSE "general",
                   stage |-> "entered",
                   ctx   |-> [pc |-> pc, mode |-> mode],
                   mem   |-> main]]

HandlerFaults == Trap /\ Push

(* The two outcomes of has_irq at the top of the loop.                     *)
Interrupted == LoopTop /\ HasIrq(is') /\ Push

NotInterrupted == LoopTop /\ ~HasIrq(is') /\ UNCHANGED <<frames, depth>>

-----------------------------------------------------------------------------
(* User code: any instruction, any exception.                              *)

User ==
  /\ depth = 0
  /\ Raising \/ \E next \in Code : OtherInsn(next)
  /\ UNCHANGED <<frames, depth>>

-----------------------------------------------------------------------------
(* Handlers.                                                               *)

Handling(kind, stages) ==
  /\ depth > 0
  /\ top.kind = kind
  /\ top.stage \in stages

Advance(stage) ==
  /\ frames' = [frames EXCEPT ![depth].stage = stage]
  /\ UNCHANGED depth

(* Any instruction that leaves the saved contexts alone.                   *)
Work ==
  /\ depth > 0
  /\ \E next \in Code : OtherInsn(next)
  /\ UNCHANGED <<frames, depth>>

ReadContext ==
  /\ Handling("general", {"entered"})
  /\ \E next \in Code : OtherInsn(next)
  /\ mode.plv = 0
  /\ frames' = [frames EXCEPT ![depth].stage = "saved", ![depth].mem = main]
  /\ UNCHANGED depth

EnableInterrupts ==
  /\ Handling("general", {"saved"})
  /\ depth < MaxNest
  /\ \E next \in Code : WriteCrmd(next, [mode EXCEPT !.ie = TRUE])
  /\ Advance("open")

DisableInterrupts ==
  /\ Handling("general", {"open"})
  /\ \E next \in Code : WriteCrmd(next, [mode EXCEPT !.ie = FALSE])
  /\ Advance("saved")

RestoreEra ==
  /\ Handling("general", {"saved"})
  /\ \E next \in Code : WriteEra(next, top.mem.pc)
  /\ Advance("era")

RestorePrmd ==
  /\ Handling("general", {"era"})
  /\ \E next \in Code : WritePrmd(next, top.mem.plv, top.mem.ie)
  /\ Advance("restored")

(* A handler that touches only registers returns without saving anything.  *)
Return ==
  /\ Handling("refill", Stages) \/ Handling("general", {"entered", "restored"})
  /\ Ertn
  /\ depth' = depth - 1
  /\ frames' = [frames EXCEPT ![depth] = NoFrame]

(* A general handler misses the TLB anywhere; it runs into other           *)
(* exceptions only while ERA and PRMD are saved.                           *)
MissInHandler ==
  /\ Handling("general", Stages)
  /\ depth < MaxNest
  /\ \E exc \in Excs : MmuFault(exc, TRUE)
  /\ UNCHANGED <<frames, depth>>

RaiseInHandler ==
  /\ Handling("general", {"saved", "open"})
  /\ depth < MaxNest
  /\ Raising
  /\ UNCHANGED <<frames, depth>>

KernelNext ==
  \/ HandlerFaults
  \/ Interrupted
  \/ NotInterrupted
  \/ User
  \/ Work
  \/ ReadContext
  \/ EnableInterrupts
  \/ DisableInterrupts
  \/ RestoreEra
  \/ RestorePrmd
  \/ Return
  \/ MissInHandler
  \/ RaiseInHandler

KernelSpec == KernelInit /\ [][KernelNext]_kvars
-----------------------------------------------------------------------------
(* Every ertn returns to exactly the instruction, privilege, interrupt     *)
(* enable and addressing mode that the matching exception or interrupt     *)
(* left, however refills, faults and interrupts nest in between            *)
(* (do_interrupt and helper_ertn choose between ERA/PRMD and               *)
(* TLBRERA/TLBRPRMD by ISTLBR alone).                                      *)
RoundTrip ==
  [][depth' < depth => pc' = top.ctx.pc /\ mode' = top.ctx.mode]_kvars

(* The state of the core agrees with the handlers that have not returned.  *)
(* The mode is that of the innermost one; only the innermost can be a      *)
(* refill handler, TLBRERA and TLBRPRMD then hold what it returns to and   *)
(* no exception is under way; ERA and PRMD hold what the innermost general *)
(* handler returns to until it saves them and after it restores them, and  *)
(* memory holds it in between.                                             *)
RefillMode  == [plv |-> 0, ie |-> FALSE, da |-> TRUE, pg |-> FALSE]
ClosedMode  == [plv |-> 0, ie |-> FALSE, da |-> FALSE, pg |-> TRUE]
OpenMode    == [plv |-> 0, ie |-> TRUE, da |-> FALSE, pg |-> TRUE]

ModeOf(f) == IF f.kind = "refill" THEN RefillMode
             ELSE IF f.stage = "open" THEN OpenMode ELSE ClosedMode

ModeAt(i) == IF i = 0 THEN UserMode ELSE ModeOf(frames[i])

Target(f) == [pc |-> f.ctx.pc, plv |-> f.ctx.mode.plv, ie |-> f.ctx.mode.ie]

InRefill == depth > 0 /\ top.kind = "refill"

Innermost == IF InRefill THEN depth - 1 ELSE depth

Modes ==
  /\ mode = ModeAt(depth)
  /\ \A i \in 1..depth : frames[i].ctx.mode = ModeAt(i - 1)

Refills ==
  /\ \A i \in 1..depth : frames[i].kind = "refill" => i = depth
  /\ InRefill => istlbr
  /\ istlbr => InRefill \/ phase = "trap"
  /\ InRefill => refill = Target(top) /\ phase # "trap"

Generals ==
  \A i \in 1..Innermost :
    LET f == frames[i]
    IN  /\ f.stage # "entered" => f.mem = Target(f)
        /\ f.stage \in {"entered", "restored"} => i = Innermost /\ main = Target(f)
        /\ f.stage = "era" => i = Innermost /\ main.pc = f.ctx.pc
        /\ f.stage = "open" => i < MaxNest

Pending ==
  phase = "trap" =>
    /\ depth < MaxNest
    /\ depth = 0 \/ istlbr \/ top.stage \in {"saved", "open"}

Balanced == Modes /\ Refills /\ Generals /\ Pending
=============================================================================
