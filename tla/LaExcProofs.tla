----------------------------- MODULE LaExcProofs -----------------------------
(***************************************************************************)
(* Type correctness and confinement of user code, for every set of code    *)
(* addresses, interrupt lines, exceptions and vector sizes.                *)
(***************************************************************************)
EXTENDS LaExc, TLAPS

(* A set of lines has a highest one.                                       *)
LEMMA HighestExists ==
  ASSUME NEW S, S \subseteq 0..12, S # {}
  PROVE  \E l \in S : \A k \in S : k <= l
<1> SUFFICES ASSUME \A l \in S : \E k \in S : ~(k <= l) PROVE S = {}
  BY Zenon
<1>1. \A l \in S : l \in 0..12 /\ \E k \in S : k \in 0..12 /\ l < k
  OBVIOUS
<1>2. \A l \in S : l < 9
  BY <1>1
<1>3. \A l \in S : l < 5
  BY <1>1, <1>2
<1>4. \A l \in S : l < 1
  BY <1>1, <1>3
<1> QED
  BY <1>1, <1>4

(* clz32 finds a highest line whenever do_interrupt has a pending one.     *)
LEMMA HighestIsPending ==
  ASSUME NEW S, S \subseteq Lines, S # {}
  PROVE  Highest(S) \in S
<1>1. S \subseteq 0..12
  BY LinesAreSmall DEF Lines
<1>2. \E l \in S : \A k \in S : k <= l
  BY <1>1, HighestExists, Zenon
<1> QED
  BY <1>2 DEF Highest

(* The vector of a pending interrupt, and that of an exception.            *)
LEMMA IntVector ==
  ASSUME NEW S, S \subseteq Lines, S # {}
  PROVE  Eentry(EXCCODE_EXTERNAL_INT + Highest(S)) \in Vectors
<1>1. Highest(S) \in Lines
  BY HighestIsPending
<1>2. EXCCODE_EXTERNAL_INT + Highest(S) \in Offsets /\ 0 \in Offsets
  BY <1>1 DEF Offsets
<1> QED
  BY <1>2 DEF Eentry, Vectors

LEMMA ExcVector ==
  ASSUME NEW exc \in Excs
  PROVE  (IF istlbr THEN Tlbrentry ELSE Eentry(Mcode[exc])) \in Vectors
<1>1. Mcode[exc] \in Offsets /\ 0 \in Offsets
  BY DEF Offsets
<1> QED
  BY <1>1 DEF Eentry, Vectors

(* The reset state has the right types.                                    *)
LEMMA InitType == Init => TypeOK
<1> SUFFICES ASSUME Init PROVE TypeOK
  OBVIOUS
<1>1. pc \in Pc
  BY DEF Init, Pc
<1>2. mode \in Mode /\ main \in Context /\ refill \in Context
  BY <1>1 DEF Init, Mode, Context
<1> QED
  BY <1>1, <1>2, VSIsNatural, Zenon DEF Init, TypeOK, Phases

(* do_interrupt keeps the types when it is given a vector.                 *)
LEMMA DoInterruptType ==
  ASSUME TypeOK, NEW cause \in Excs \union {INT}, NEW target \in Vectors,
         DoInterrupt(cause, target)
  PROVE  /\ pc' \in Pc /\ mode' \in Mode /\ main' \in Context
         /\ refill' \in Context /\ istlbr' \in BOOLEAN
         /\ ecode' \in Excs \union {INT} /\ exception_index' = None
<1>1. Saved \in Context
  BY DEF TypeOK, Saved, Context, Mode
<1>2. HandlerMode \in Mode
  BY DEF TypeOK, HandlerMode, Mode
<1> QED
  BY <1>1, <1>2 DEF TypeOK, DoInterrupt, SaveContext, Pc

(* An instruction that completes leaves the loop state well typed.         *)
LEMMA InsnType ==
  ASSUME TypeOK, NEW next \in Pc, Insn(next)
  PROVE  /\ pc' \in Pc /\ ecode' \in Excs \union {INT}
         /\ phase' \in Phases
         /\ exception_index' \in IF phase' = "trap" THEN Excs ELSE {None}
  BY DEF TypeOK, Insn, Phases

(* A write to ERA stores any address.                                      *)
LEMMA WriteEraType ==
  ASSUME TypeOK, NEW next \in Code, NEW new \in Pc, WriteEra(next, new)
  PROVE  TypeOK'
<1>1. next \in Pc
  BY DEF Pc
<1> QED
  BY <1>1, InsnType DEF WriteEra, Privileged, TypeOK, Context, irqs

(* Every variable keeps its type.                                          *)
LEMMA StepType == TypeOK /\ [Next]_vars => TypeOK'
<1> SUFFICES ASSUME TypeOK, [Next]_vars PROVE TypeOK'
  OBVIOUS
<1>1. CASE LoopTop
  <2> PICK hw \in SUBSET Hw :
        LET now == (is \intersect Soft) \union hw
        IN  /\ is' = now
            /\ IF HasIrq(now)
               THEN DoInterrupt(INT, Eentry(EXCCODE_EXTERNAL_INT
                                              + Highest(now \intersect lie)))
               ELSE UNCHANGED <<ctl, ecode, exception_index>>
    BY <1>1, Zenon DEF LoopTop
  <2> DEFINE now == (is \intersect Soft) \union hw
  <2>1. is' \subseteq Lines /\ lie' \subseteq Lines /\ vs' \in VS
        /\ phase' = "exec" /\ phase = "loop"
    BY <1>1 DEF LoopTop, TypeOK, Lines
  <2>2. CASE HasIrq(now)
    <3>1. now \intersect lie \subseteq Lines /\ now \intersect lie # {}
      BY <2>2 DEF HasIrq, TypeOK
    <3>2. Eentry(EXCCODE_EXTERNAL_INT + Highest(now \intersect lie)) \in Vectors
      BY <3>1, IntVector
    <3> QED
      BY <2>1, <2>2, <3>2, DoInterruptType DEF TypeOK, Phases
  <2>3. CASE ~HasIrq(now)
    BY <2>1, <2>3 DEF TypeOK, Phases, ctl
  <2> QED
    BY <2>2, <2>3
<1>2. CASE Trap
  <2>1. exception_index \in Excs
    BY <1>2 DEF Trap, TypeOK
  <2> QED
    BY <1>2, <2>1, ExcVector, DoInterruptType DEF Trap, TypeOK, Phases
<1>3. CASE Raising
  <2> PICK exc \in Excs :
        InsnRaises(exc) \/ \E nomatch \in BOOLEAN : MmuFault(exc, nomatch)
    BY <1>3 DEF Raising
  <2>1. CASE InsnRaises(exc)
    BY <2>1 DEF InsnRaises, Raise, TypeOK, Phases, ctl, irqs
  <2>2. CASE \E nomatch \in BOOLEAN : MmuFault(exc, nomatch)
    BY <2>2 DEF MmuFault, TypeOK, Phases, irqs
  <2> QED
    BY <2>1, <2>2
<1>4. ASSUME NEW next \in Code, OtherInsn(next) PROVE TypeOK'
  <2>1. next \in Pc
    BY DEF Pc
  <2> QED
    BY <1>4, <2>1, InsnType DEF OtherInsn, TypeOK, irqs
<1>5. ASSUME NEW next \in Code, CsrWrite(next) PROVE TypeOK'
  <2>1. next \in Pc /\ Code \subseteq Pc
    BY DEF Pc
  <2>2. ASSUME NEW new \in Mode, WriteCrmd(next, new) PROVE TypeOK'
    BY <2>1, <2>2, InsnType DEF WriteCrmd, Privileged, TypeOK, irqs
  <2>3. ASSUME NEW new \in Code, WriteEra(next, new) PROVE TypeOK'
    BY <2>1, <2>3, WriteEraType
  <2>4. ASSUME NEW new \in Code, NEW bit \in BOOLEAN,
               WriteTlbrera(next, new, bit) PROVE TypeOK'
    BY <2>1, <2>4, InsnType DEF WriteTlbrera, Privileged, TypeOK, Context, irqs
  <2>5. ASSUME NEW plv \in {0, 3}, NEW ie \in BOOLEAN,
               WritePrmd(next, plv, ie) PROVE TypeOK'
    BY <2>1, <2>5, InsnType, Zenon DEF WritePrmd, Privileged, TypeOK, Context, irqs
  <2>6. ASSUME NEW plv \in {0, 3}, NEW ie \in BOOLEAN,
               WriteTlbrprmd(next, plv, ie) PROVE TypeOK'
    BY <2>1, <2>6, InsnType, Zenon DEF WriteTlbrprmd, Privileged, TypeOK, Context, irqs
  <2>7. ASSUME NEW lines \in SUBSET Lines, NEW size \in VS,
               WriteEcfg(next, lines, size) PROVE TypeOK'
    BY <2>1, <2>7, InsnType DEF WriteEcfg, Privileged, TypeOK
  <2>8. ASSUME NEW soft \in SUBSET Soft, WriteEstat(next, soft) PROVE TypeOK'
    BY <2>1, <2>8, InsnType DEF WriteEstat, Privileged, TypeOK, Lines
  <2> QED
    BY <1>5, <2>2, <2>3, <2>4, <2>5, <2>6, <2>7, <2>8 DEF CsrWrite
<1>6. ASSUME NEW next \in Code, IdlePoll(next) PROVE TypeOK'
  BY <1>6 DEF IdlePoll, TypeOK, Phases, Lines, Pc
<1>7. CASE IllegalInsn
  <2>1. pc \in Pc
    BY DEF TypeOK
  <2> QED
    BY <1>7, <2>1, InsnType DEF IllegalInsn, OtherInsn, TypeOK, irqs
<1>8. CASE Ertn
  <2> DEFINE saved == IF istlbr THEN refill ELSE main
  <2>1. saved \in Context /\ saved.pc \in Pc
    BY DEF TypeOK, Context
  <2>2. mode' \in Mode
    BY <1>8, <2>1 DEF Ertn, Mode, Context, TypeOK
  <2> QED
    BY <1>8, <2>1, <2>2, InsnType, Zenon DEF Ertn, Privileged, TypeOK, irqs
<1>9. CASE Idle
  BY <1>9 DEF Idle, TypeOK, Phases, ctl, irqs
<1>10. CASE UNCHANGED vars
  BY <1>10 DEF vars, TypeOK
<1> QED
  BY <1>1, <1>2, <1>3, <1>4, <1>5, <1>6, <1>7, <1>8, <1>9, <1>10 DEF Next

(* Every reachable state of the exception machinery is well typed: the     *)
(* vector is always one the hardware defines, and exception_index is set   *)
(* exactly while a longjmp is under way.                                   *)
THEOREM TypeCorrect == Spec => []TypeOK
  BY InitType, StepType, PTL DEF Spec

(* do_interrupt at a vector is the entry of a handler.                     *)
LEMMA DoInterruptEnters ==
  ASSUME NEW cause, NEW target \in Vectors, DoInterrupt(cause, target)
  PROVE  EnterHandler
  BY DEF DoInterrupt, SaveContext, HandlerMode, EnterHandler

(* User code, whatever it executes and whatever interrupts it, leaves the  *)
(* privileged state alone or enters a handler with its own context saved.  *)
THEOREM UserIsConfined == Spec => UserConfined
<1> DEFINE Confined ==
      mode.plv = 3 =>
        /\ <<lie, vs, is \intersect Soft>>' = <<lie, vs, is \intersect Soft>>
        /\ UNCHANGED <<mode, main, refill>> \/ EnterHandler
<1>1. TypeOK /\ [Next]_vars => [Confined]_vars
  <2> SUFFICES ASSUME TypeOK, Next, mode.plv = 3
               PROVE  /\ lie' = lie /\ vs' = vs
                      /\ is' \intersect Soft = is \intersect Soft
                      /\ UNCHANGED <<mode, main, refill>> \/ EnterHandler
    OBVIOUS
  <2>1. Soft \intersect Hw = {}
    BY LinesAreSmall
  <2>2. CASE LoopTop
    <3> PICK hw \in SUBSET Hw :
          LET now == (is \intersect Soft) \union hw
          IN  /\ is' = now
              /\ IF HasIrq(now)
                 THEN DoInterrupt(INT, Eentry(EXCCODE_EXTERNAL_INT
                                                + Highest(now \intersect lie)))
                 ELSE UNCHANGED <<ctl, ecode, exception_index>>
      BY <2>2, Zenon DEF LoopTop
    <3> DEFINE now == (is \intersect Soft) \union hw
    <3>1. lie' = lie /\ vs' = vs /\ is' \intersect Soft = is \intersect Soft
      BY <2>1, <2>2 DEF LoopTop
    <3>2. CASE HasIrq(now)
      <4>1. now \intersect lie \subseteq Lines /\ now \intersect lie # {}
        BY <3>2 DEF HasIrq, TypeOK
      <4> QED
        BY <3>1, <3>2, <4>1, IntVector, DoInterruptEnters
    <3>3. CASE ~HasIrq(now)
      BY <3>1, <3>3 DEF ctl
    <3> QED
      BY <3>2, <3>3
  <2>3. CASE Trap
    <3>1. exception_index \in Excs
      BY <2>3 DEF Trap, TypeOK
    <3> QED
      BY <2>3, <3>1, ExcVector, DoInterruptEnters DEF Trap
  <2>4. CASE Raising
    BY <2>4 DEF Raising, InsnRaises, Raise, MmuFault, ctl, irqs
  <2>5. ASSUME NEW next \in Code, OtherInsn(next)
        PROVE  UNCHANGED <<lie, vs, is, mode, main, refill>>
    BY <2>5 DEF OtherInsn, irqs
  <2>6. ASSUME NEW next \in Code, CsrWrite(next) PROVE FALSE
    BY <2>6 DEF CsrWrite, WriteCrmd, WriteEra, WriteTlbrera, WritePrmd,
                WriteTlbrprmd, WriteEcfg, WriteEstat, Privileged
  <2>7. ASSUME NEW next \in Code, IdlePoll(next)
        PROVE  /\ UNCHANGED <<lie, vs, mode, main, refill>>
               /\ is' \intersect Soft = is \intersect Soft
    BY <2>1, <2>7 DEF IdlePoll
  <2>8. CASE IllegalInsn
    BY <2>8 DEF IllegalInsn, OtherInsn, irqs
  <2>9. ~Ertn /\ ~Idle
    BY DEF Ertn, Idle, Privileged
  <2> QED
    BY <2>2, <2>3, <2>4, <2>5, <2>6, <2>7, <2>8, <2>9 DEF Next
<1> QED
  BY <1>1, TypeCorrect, PTL DEF Spec, UserConfined
=============================================================================
