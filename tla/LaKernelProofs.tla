---------------------------- MODULE LaKernelProofs ----------------------------
(***************************************************************************)
(* The round trip of nested exceptions, for every nesting depth.           *)
(***************************************************************************)
EXTENDS LaKernel, LaExcProofs

Inv == KernelTypeOK /\ Balanced

(* Users of a frame by its fields.                                         *)
LEMMA FrameType ==
  ASSUME NEW f \in Frame
  PROVE  /\ f.kind \in {"refill", "general"} /\ f.stage \in Stages
         /\ f.ctx.pc \in Pc /\ f.ctx.mode \in Mode /\ f.mem \in Context
         /\ f.mem.pc \in Pc /\ f.mem.plv \in {0, 3} /\ f.mem.ie \in BOOLEAN
  BY DEF Frame, Context

LEMMA NoFrameType == NoFrame \in Frame
<1> DEFINE at == CHOOSE p \in Code : TRUE
<1>1. at \in Pc
  <2> PICK a \in CodeAddrs : TRUE
    BY ThereIsCode
  <2>1. <<"code", a>> \in Code
    BY DEF Code
  <2> QED
    BY <2>1 DEF Pc
<1>2. UserMode \in Mode
  BY DEF UserMode, Mode
<1> HIDE DEF at
<1> QED
  BY <1>1, <1>2 DEF NoFrame, Frame, Stages, Context, at

(* CRMD with another interrupt enable.                                     *)
LEMMA SetIe ==
  ASSUME NEW m \in Mode, NEW b \in BOOLEAN
  PROVE  [m EXCEPT !.ie = b] = [plv |-> m.plv, ie |-> b, da |-> m.da, pg |-> m.pg]
  BY DEF Mode

(* User code runs when no handler is open.                                 *)
LEMMA InitInv == KernelInit => Inv
<1> SUFFICES ASSUME KernelInit PROVE Inv
  OBVIOUS
<1>1. TypeOK
  <2>1. pc \in Pc
    BY DEF KernelInit, Pc
  <2>2. mode \in Mode /\ main \in Context /\ refill \in Context
    BY <2>1 DEF KernelInit, UserMode, Mode, Context
  <2> QED
    BY <2>1, <2>2, Zenon DEF KernelInit, TypeOK, Phases
<1>2. KernelTypeOK
  BY <1>1, NoFrameType, MaxNestIsPositive DEF KernelInit, KernelTypeOK
<1>3. Balanced
  BY DEF KernelInit, Balanced, Modes, Refills, Generals, Pending, ModeAt,
         InRefill, Innermost
<1> QED
  BY <1>2, <1>3 DEF Inv

(* The variables of the core keep their types: every step of the kernel is *)
(* a step of LaExc.                                                        *)
LEMMA CoreType ==
  ASSUME KernelTypeOK, KernelNext
  PROVE  TypeOK'
<1>1. CASE Next
  BY <1>1, StepType DEF KernelTypeOK
<1>2. CASE RestoreEra
  <2>1. depth \in 1..MaxNest
    BY <1>2 DEF RestoreEra, Handling, KernelTypeOK
  <2>2. top.mem.pc \in Pc
    BY <2>1, FrameType DEF KernelTypeOK, top
  <2> QED
    BY <1>2, <2>2, WriteEraType DEF RestoreEra, KernelTypeOK
<1>3. CASE EnableInterrupts \/ DisableInterrupts
  <2>1. [mode EXCEPT !.ie = TRUE] \in Mode /\ [mode EXCEPT !.ie = FALSE] \in Mode
    BY Zenon DEF KernelTypeOK, TypeOK, Mode
  <2>2. \E next \in Code, new \in Mode : WriteCrmd(next, new)
    BY <1>3, <2>1 DEF EnableInterrupts, DisableInterrupts
  <2> QED
    BY <2>2, <1>1 DEF Next, CsrWrite
<1>4. CASE RestorePrmd
  <2>1. depth \in 1..MaxNest
    BY <1>4 DEF RestorePrmd, Handling, KernelTypeOK
  <2>2. top.mem.plv \in {0, 3} /\ top.mem.ie \in BOOLEAN
    BY <2>1, FrameType DEF KernelTypeOK, top
  <2> QED
    BY <1>1, <1>4, <2>2 DEF RestorePrmd, Next, CsrWrite
<1>5. MissInHandler => Next
  BY Zenon DEF MissInHandler, Next, Raising
<1>6. HandlerFaults \/ Interrupted \/ NotInterrupted \/ User \/ Work
      \/ ReadContext \/ Return \/ RaiseInHandler => Next
  BY DEF HandlerFaults, Interrupted, NotInterrupted, User, Work, ReadContext,
         Return, RaiseInHandler, Next
<1> QED
  BY <1>1, <1>2, <1>3, <1>4, <1>5, <1>6 DEF KernelNext

(* An interrupt finds user code, or a handler that has enabled them.       *)
LEMMA InterruptRoom ==
  ASSUME Inv, LoopTop, HasIrq(is')
  PROVE  /\ depth < MaxNest /\ ~InRefill /\ ~istlbr
         /\ depth = 0 \/ top.stage = "open"
<1>1. mode.ie
  BY DEF HasIrq
<1>2. mode = ModeAt(depth)
  BY DEF Inv, Balanced, Modes
<1>3. depth > 0 => top.kind # "refill" /\ top.stage = "open"
  BY <1>1, <1>2 DEF ModeAt, ModeOf, RefillMode, ClosedMode, top
<1>4. ~InRefill /\ ~istlbr
  BY <1>3 DEF InRefill, LoopTop, Inv, Balanced, Refills
<1>5. depth < MaxNest
  <2>1. CASE depth = 0
    BY <2>1, MaxNestIsPositive
  <2>2. CASE depth > 0
    <3>1. depth \in 1..Innermost
      BY <1>4, <2>2 DEF Innermost, Inv, KernelTypeOK
    <3> QED
      BY <1>3, <2>2, <3>1 DEF Inv, Balanced, Generals, top
  <2> QED
    BY <2>1, <2>2 DEF Inv, KernelTypeOK
<1> QED
  BY <1>3, <1>4, <1>5 DEF Inv, KernelTypeOK

(* The delivery of a refill or of any other exception.                     *)
LEMMA PushInv ==
  ASSUME Inv, Push, NEW cause, NEW target, DoInterrupt(cause, target),
         depth < MaxNest, ~InRefill,
         depth = 0 \/ istlbr \/ top.stage \in {"saved", "open"},
         phase' # "trap"
  PROVE  /\ depth' \in 0..MaxNest /\ frames' \in [1..MaxNest -> Frame]
         /\ Balanced'
<1>0. /\ depth \in 0..MaxNest /\ frames \in [1..MaxNest -> Frame]
      /\ TypeOK /\ Modes /\ Refills /\ Generals /\ MaxNest \in Nat
  BY MaxNestIsPositive DEF Inv, KernelTypeOK, Balanced
<1> DEFINE f == [kind  |-> IF istlbr THEN "refill" ELSE "general",
                 stage |-> "entered",
                 ctx   |-> [pc |-> pc, mode |-> mode],
                 mem   |-> main]
<1>1. f \in Frame
  BY <1>0 DEF TypeOK, Frame, Stages
<1>2. /\ f.kind = IF istlbr THEN "refill" ELSE "general"
      /\ f.stage = "entered" /\ f.ctx.mode = mode /\ f.ctx.pc = pc
  OBVIOUS
<1>3. frames' = [frames EXCEPT ![depth + 1] = f] /\ depth' = depth + 1
  BY DEF Push
<1> HIDE DEF f
<1>4. depth + 1 \in 1..MaxNest
  BY <1>0
<1>5. frames'[depth + 1] = f /\ \A i \in 1..depth : frames'[i] = frames[i]
  BY <1>0, <1>3, <1>4
<1>6. frames' \in [1..MaxNest -> Frame]
  BY <1>0, <1>1, <1>3, <1>4
<1>7. istlbr' = istlbr /\ mode' = HandlerMode
  BY DEF DoInterrupt
<1>8. \A i \in 1..depth : frames[i].kind # "refill"
  BY <1>0 DEF InRefill, Refills, top
<1>9. mode.da = FALSE /\ mode.pg = TRUE
  BY <1>0, <1>8 DEF Modes, ModeAt, ModeOf, UserMode, OpenMode, ClosedMode
<1>10. Modes'
  <2>1. mode' = ModeOf(f)
    <3>1. CASE istlbr
      BY <1>2, <1>7, <1>9, <3>1, Zenon DEF HandlerMode, ModeOf, RefillMode
    <3>2. CASE ~istlbr
      BY <1>2, <1>7, <1>9, <3>2, Zenon DEF HandlerMode, ModeOf, ClosedMode
    <3> QED
      BY <3>1, <3>2
  <2>2. depth' # 0 /\ frames'[depth'] = f
    BY <1>0, <1>3, <1>5
  <2>3. f.ctx.mode = ModeAt(depth)
    BY <1>0, <1>2 DEF Modes
  <2>4. \A i \in 1..depth' :
          frames'[i].ctx.mode = IF i - 1 = 0 THEN UserMode
                                ELSE ModeOf(frames'[i - 1])
    BY <1>0, <1>3, <1>5, <2>3 DEF Modes, ModeAt
  <2> QED
    BY <2>1, <2>2, <2>4 DEF Modes, ModeAt
<1>11. top' = f /\ depth' > 0
  BY <1>0, <1>3, <1>5 DEF top
<1>12. InRefill' <=> istlbr
  BY <1>2, <1>11 DEF InRefill
<1>13. Target(f) = Saved
  BY <1>2 DEF Target, Saved
<1>14. Refills'
  <2>1. InRefill' => refill' = Target(top')
    BY <1>11, <1>12, <1>13 DEF DoInterrupt, SaveContext
  <2>2. \A i \in 1..depth' : frames'[i].kind = "refill" => i = depth'
    BY <1>0, <1>3, <1>5, <1>8
  <2> QED
    BY <1>7, <1>12, <2>1, <2>2 DEF Refills
<1>15. Innermost = depth
  BY DEF Innermost
<1>16. Generals'
  <2>1. CASE istlbr
    <3>1. Innermost' = depth
      BY <1>0, <1>3, <1>12, <2>1 DEF Innermost
    <3>2. main' = main
      BY <2>1 DEF DoInterrupt, SaveContext
    <3> QED
      BY <1>0, <1>5, <1>15, <3>1, <3>2 DEF Generals
  <2>2. CASE ~istlbr
    <3>1. Innermost' = depth + 1
      BY <1>3, <1>12, <2>2 DEF Innermost
    <3>2. main' = Target(f)
      BY <1>13, <2>2 DEF DoInterrupt, SaveContext
    <3>3. \A i \in 1..depth : frames[i].stage \in {"saved", "open"}
      <4> SUFFICES ASSUME NEW i \in 1..depth
                   PROVE  frames[i].stage \in {"saved", "open"}
        OBVIOUS
      <4>1. frames[i].stage \in Stages
        BY <1>0, FrameType
      <4>2. i = depth => frames[i].stage \in {"saved", "open"}
        BY <1>0, <2>2 DEF top
      <4> QED
        BY <1>0, <1>15, <4>1, <4>2 DEF Generals, Stages
    <3>4. \A i \in 1..depth :
            /\ frames'[i].mem = Target(frames'[i])
            /\ frames'[i].stage \in {"saved", "open"}
            /\ i < MaxNest
      BY <1>0, <1>5, <1>15, <3>3 DEF Generals
    <3> QED
      BY <1>0, <1>2, <1>5, <3>1, <3>2, <3>4 DEF Generals
  <2> QED
    BY <2>1, <2>2
<1>17. Pending'
  BY DEF Pending
<1> QED
  BY <1>0, <1>3, <1>4, <1>6, <1>10, <1>14, <1>16, <1>17 DEF Balanced

(* A step that leaves the contexts alone and raises nothing.               *)
LEMMA QuietInv ==
  ASSUME Inv, UNCHANGED <<frames, depth, mode, main, refill, istlbr>>,
         phase # "trap", phase' # "trap"
  PROVE  Balanced'
<1>1. Modes'
  BY DEF Inv, Balanced, Modes, ModeAt
<1>2. Refills' /\ Generals'
  BY DEF Inv, Balanced, Refills, Generals, InRefill, Innermost, top
<1> QED
  BY <1>1, <1>2 DEF Balanced, Pending

(* An instruction that raises where the kernel allows it.                  *)
LEMMA FaultInv ==
  ASSUME Inv, UNCHANGED <<frames, depth, mode, main, refill>>,
         phase # "trap", ~InRefill, depth < MaxNest,
         istlbr' # istlbr => istlbr' /\ phase' = "trap",
         istlbr' \in BOOLEAN,
         depth = 0 \/ istlbr' \/ top.stage \in {"saved", "open"}
  PROVE  Balanced'
<1>1. Modes'
  BY DEF Inv, Balanced, Modes, ModeAt
<1>2. Refills'
  BY DEF Inv, Balanced, Refills, InRefill, top, KernelTypeOK, TypeOK
<1>3. Generals'
  BY DEF Inv, Balanced, Generals, InRefill, Innermost, top
<1>4. Pending'
  BY DEF Pending, top
<1> QED
  BY <1>1, <1>2, <1>3, <1>4 DEF Balanced

(* A general handler moves from one stage to another.                      *)
LEMMA StageInv ==
  ASSUME Inv, depth > 0, top.kind = "general", NEW g \in Frame,
         frames' = [frames EXCEPT ![depth] = g],
         g.kind = "general", g.ctx = top.ctx,
         UNCHANGED <<depth, istlbr>>,
         phase # "trap", phase' # "trap",
         mode' = ModeOf(g),
         g.stage # "entered" => g.mem = Target(g),
         g.stage \in {"entered", "restored"} => main' = Target(g),
         g.stage = "era" => main'.pc = g.ctx.pc,
         g.stage = "open" => depth < MaxNest
  PROVE  frames' \in [1..MaxNest -> Frame] /\ Balanced'
<1>0. /\ depth \in 1..MaxNest /\ frames \in [1..MaxNest -> Frame]
      /\ Modes /\ Refills /\ Generals /\ MaxNest \in Nat
  BY MaxNestIsPositive DEF Inv, KernelTypeOK, Balanced
<1>1. /\ frames'[depth] = g
      /\ \A i \in 1..depth : i # depth => frames'[i] = frames[i]
  BY <1>0
<1>2. Modes'
  <2>1. \A i \in 1..depth :
          frames'[i].ctx.mode = IF i - 1 = 0 THEN UserMode
                                ELSE ModeOf(frames'[i - 1])
    BY <1>0, <1>1 DEF Modes, ModeAt, top
  <2>2. mode' = ModeOf(frames'[depth'])
    BY <1>1
  <2> QED
    BY <1>0, <2>1, <2>2 DEF Modes, ModeAt
<1>3. ~InRefill /\ ~InRefill'
  BY <1>1 DEF InRefill, top
<1>4. Refills'
  BY <1>0, <1>1, <1>3 DEF Refills
<1>5. Innermost = depth /\ Innermost' = depth
  BY <1>3 DEF Innermost
<1>6. Generals'
  <2>1. \A i \in 1..depth : i # depth =>
          /\ frames'[i].stage \notin {"entered", "restored", "era"}
          /\ frames'[i].stage # "entered" => frames'[i].mem = Target(frames'[i])
          /\ frames'[i].stage = "open" => i < MaxNest
    BY <1>0, <1>1, <1>5 DEF Generals
  <2> QED
    BY <1>1, <1>5, <2>1 DEF Generals
<1>7. Pending'
  BY DEF Pending
<1> QED
  BY <1>0, <1>2, <1>4, <1>6, <1>7 DEF Balanced

(* The return from a handler.                                              *)
LEMMA ReturnTarget ==
  ASSUME Inv, Return
  PROVE  pc' = top.ctx.pc /\ mode' = top.ctx.mode
<1>0. /\ depth \in 1..MaxNest /\ frames \in [1..MaxNest -> Frame]
      /\ Modes /\ Refills /\ Generals /\ phase = "exec"
  BY MaxNestIsPositive DEF Inv, KernelTypeOK, Balanced, Return, Handling, Ertn,
     Privileged, Insn
<1> DEFINE saved == IF istlbr THEN refill ELSE main
<1>1. saved = Target(top)
  <2>1. CASE top.kind = "refill"
    BY <1>0, <2>1 DEF Refills, InRefill
  <2>2. CASE top.kind # "refill"
    <3>1. ~istlbr /\ Innermost = depth
      BY <1>0, <2>2 DEF Refills, InRefill, Innermost
    <3>2. top.stage \in {"entered", "restored"}
      BY <2>2 DEF Return, Handling
    <3> QED
      BY <1>0, <3>1, <3>2 DEF Generals, top
  <2> QED
    BY <2>1, <2>2
<1>2. pc' = top.ctx.pc
  BY <1>1 DEF Return, Ertn, Privileged, Insn, Target
<1>3. mode' = top.ctx.mode
  <2>1. /\ mode'.plv = top.ctx.mode.plv /\ mode'.ie = top.ctx.mode.ie
        /\ mode'.da = (~istlbr /\ mode.da) /\ mode'.pg = (istlbr \/ mode.pg)
        /\ mode' = [plv |-> mode'.plv, ie |-> mode'.ie, da |-> mode'.da,
                    pg |-> mode'.pg]
    BY <1>1 DEF Return, Ertn, Target
  <2>2. top.ctx.mode \in {UserMode, OpenMode, ClosedMode}
    BY <1>0 DEF Modes, ModeAt, ModeOf, top, Refills
  <2>3. mode'.da = FALSE /\ mode'.pg = TRUE
    <3>1. CASE istlbr
      BY <2>1, <3>1, Zenon
    <3>2. CASE ~istlbr
      <4>1. mode \in {OpenMode, ClosedMode}
        BY <1>0, <3>2 DEF Modes, ModeAt, ModeOf, Refills, InRefill, top
      <4>2. mode.da = FALSE /\ mode.pg = TRUE
        BY <4>1 DEF OpenMode, ClosedMode
      <4> QED
        BY <2>1, <3>2, <4>2, Zenon
    <3> QED
      BY <3>1, <3>2, Zenon
  <2>4. top.ctx.mode = [plv |-> top.ctx.mode.plv, ie |-> top.ctx.mode.ie,
                        da |-> FALSE, pg |-> TRUE]
    <3>1. CASE top.ctx.mode = UserMode
      BY <3>1 DEF UserMode
    <3>2. CASE top.ctx.mode = OpenMode
      BY <3>2 DEF OpenMode
    <3>3. CASE top.ctx.mode = ClosedMode
      BY <3>3 DEF ClosedMode
    <3> QED
      BY <2>2, <3>1, <3>2, <3>3
  <2>5. mode' = [plv |-> top.ctx.mode.plv, ie |-> top.ctx.mode.ie,
                 da |-> FALSE, pg |-> TRUE]
    BY ONLY <2>1, <2>3
  <2> QED
    BY <2>4, <2>5
<1> QED
  BY <1>2, <1>3

LEMMA ReturnInv ==
  ASSUME Inv, Return
  PROVE  /\ depth' \in 0..MaxNest /\ frames' \in [1..MaxNest -> Frame]
         /\ Balanced'
<1>0. /\ depth \in 1..MaxNest /\ frames \in [1..MaxNest -> Frame]
      /\ Modes /\ Refills /\ Generals /\ MaxNest \in Nat
      /\ phase = "exec" /\ phase' = "loop"
      /\ depth' = depth - 1 /\ frames' = [frames EXCEPT ![depth] = NoFrame]
      /\ main' = main /\ istlbr' = FALSE
  BY MaxNestIsPositive DEF Inv, KernelTypeOK, Balanced, Return, Handling, Ertn,
     Privileged, Insn
<1>1. depth' \in 0..MaxNest /\ \A i \in 1..depth' : frames'[i] = frames[i]
  BY <1>0
<1>2. frames' \in [1..MaxNest -> Frame]
  BY <1>0, NoFrameType
<1>3. Modes'
  <2>1. mode' = frames[depth].ctx.mode
    BY ReturnTarget DEF top
  <2>2. mode' = IF depth' = 0 THEN UserMode ELSE ModeOf(frames'[depth'])
    BY <1>0, <1>1, <2>1 DEF Modes, ModeAt
  <2>3. \A i \in 1..depth' :
          frames'[i].ctx.mode = IF i - 1 = 0 THEN UserMode
                                ELSE ModeOf(frames'[i - 1])
    BY <1>0, <1>1 DEF Modes, ModeAt
  <2> QED
    BY <2>2, <2>3 DEF Modes, ModeAt
<1>4. \A i \in 1..depth' : frames'[i].kind # "refill"
  BY <1>0, <1>1 DEF Refills
<1>5. ~InRefill'
  BY <1>1, <1>4 DEF InRefill, top
<1>6. Refills'
  BY <1>0, <1>4, <1>5 DEF Refills
<1>7. Innermost' = depth - 1
  BY <1>0, <1>5 DEF Innermost
<1>8. Generals'
  <2>1. CASE InRefill
    <3>1. Innermost = depth - 1
      BY <2>1 DEF Innermost
    <3> QED
      BY <1>0, <1>1, <1>7, <3>1 DEF Generals
  <2>2. CASE ~InRefill
    <3>1. Innermost = depth
      BY <2>2 DEF Innermost
    <3>2. \A i \in 1..(depth - 1) :
            /\ frames'[i].stage \notin {"entered", "restored", "era"}
            /\ frames'[i].mem = Target(frames'[i])
            /\ frames'[i].stage = "open" => i < MaxNest
      BY <1>0, <1>1, <3>1 DEF Generals
    <3> QED
      BY <1>7, <3>2 DEF Generals
  <2> QED
    BY <2>1, <2>2
<1>9. Pending'
  BY <1>0 DEF Pending
<1> QED
  BY <1>1, <1>2, <1>3, <1>6, <1>8, <1>9 DEF Balanced

(* Every step of the kernel keeps the stack of handlers and the core in    *)
(* agreement.                                                              *)
LEMMA StepInv == Inv /\ [KernelNext]_kvars => Inv'
<1> SUFFICES ASSUME Inv, KernelNext PROVE Inv'
  <2> SUFFICES ASSUME Inv, UNCHANGED kvars PROVE Inv'
    OBVIOUS
  <2>1. KernelTypeOK'
    BY DEF Inv, KernelTypeOK, TypeOK, kvars, vars
  <2>2. Modes' /\ Refills' /\ Generals' /\ Pending'
    BY Zenon DEF Inv, Balanced, Modes, ModeAt, Refills, Generals, Pending, InRefill,
           Innermost, top, kvars, vars
  <2> QED
    BY <2>1, <2>2 DEF Inv, Balanced
<1>0. TypeOK /\ TypeOK' /\ depth \in 0..MaxNest
      /\ frames \in [1..MaxNest -> Frame] /\ MaxNest \in Nat
  BY CoreType, MaxNestIsPositive DEF Inv, KernelTypeOK
<1> SUFFICES /\ depth' \in 0..MaxNest
             /\ frames' \in [1..MaxNest -> Frame]
             /\ Balanced'
  BY <1>0 DEF Inv, KernelTypeOK
<1>1. CASE HandlerFaults
  <2>1. ~InRefill /\ depth < MaxNest /\ phase' # "trap"
        /\ (depth = 0 \/ istlbr \/ top.stage \in {"saved", "open"})
    BY <1>1 DEF HandlerFaults, Trap, Inv, Balanced, Refills, Pending
  <2> QED
    BY <1>1, <2>1, PushInv DEF HandlerFaults, Trap
<1>2. CASE Interrupted
  <2>1. ~InRefill /\ depth < MaxNest /\ phase' # "trap"
        /\ (depth = 0 \/ istlbr \/ top.stage \in {"saved", "open"})
    BY <1>2, InterruptRoom, Zenon DEF Interrupted, LoopTop
  <2>2. \E target : DoInterrupt(INT, target)
    BY <1>2 DEF Interrupted, LoopTop
  <2> QED
    BY <1>2, <2>1, <2>2, PushInv DEF Interrupted
<1>3. CASE NotInterrupted
  BY <1>0, <1>3, QuietInv DEF NotInterrupted, LoopTop, ctl
<1>4. CASE User
  <2>1. CASE Raising
    <3>1. ~InRefill /\ depth < MaxNest
      BY <1>4, MaxNestIsPositive DEF User, InRefill
    <3>2. /\ UNCHANGED <<frames, depth, mode, main, refill>> /\ phase # "trap"
          /\ istlbr' # istlbr => istlbr' /\ phase' = "trap"
      BY <1>0, <1>4, <2>1 DEF User, Raising, InsnRaises, Raise, MmuFault, ctl, TypeOK
    <3> QED
      BY <1>0, <1>4, <3>1, <3>2, FaultInv DEF User, TypeOK
  <2>2. CASE \E next \in Code : OtherInsn(next)
    BY <1>0, <1>4, <2>2, QuietInv DEF User, OtherInsn, Insn
  <2> QED
    BY <1>4, <2>1, <2>2 DEF User
<1>5. CASE Work
  BY <1>0, <1>5, QuietInv DEF Work, OtherInsn, Insn
<1>13. CASE MissInHandler \/ RaiseInHandler
  <2>1. ~InRefill /\ depth < MaxNest
    BY <1>13, Zenon DEF MissInHandler, RaiseInHandler, Handling, InRefill
  <2>2. /\ UNCHANGED <<frames, depth, mode, main, refill>> /\ phase # "trap"
        /\ istlbr' # istlbr => istlbr' /\ phase' = "trap"
    BY <1>0, <1>13 DEF MissInHandler, RaiseInHandler, Raising, InsnRaises, Raise,
                       MmuFault, ctl, TypeOK
  <2>3. istlbr' \/ top.stage \in {"saved", "open"}
    BY <1>13, Zenon DEF MissInHandler, RaiseInHandler, Handling, MmuFault
  <2> QED
    BY <1>0, <2>1, <2>2, <2>3, FaultInv DEF TypeOK
<1>14. CASE Return
  BY <1>14, ReturnInv
<1>15. depth > 0 => top \in Frame /\ mode = ModeOf(top)
  BY <1>0 DEF Inv, Balanced, Modes, ModeAt, top
<1>16. ASSUME Handling("general", Stages)
       PROVE  /\ depth \in 1..MaxNest /\ Innermost = depth
              /\ top.stage # "entered" => top.mem = Target(top)
              /\ top.stage \in {"entered", "restored"} => main = Target(top)
              /\ top.stage = "era" => main.pc = top.ctx.pc
  <2>1. depth \in 1..MaxNest /\ Innermost = depth
    BY <1>0, <1>16 DEF Handling, Innermost, InRefill
  <2> QED
    BY <2>1 DEF Inv, Balanced, Generals, top
<1>17. ASSUME NEW s \in Stages, Handling("general", Stages), Advance(s)
       PROVE  \E g \in Frame :
                /\ frames' = [frames EXCEPT ![depth] = g]
                /\ g.kind = "general" /\ g.ctx = top.ctx /\ g.mem = top.mem
                /\ g.stage = s /\ Target(g) = Target(top) /\ depth' = depth
  <2> DEFINE g == [top EXCEPT !.stage = s]
  <2>1. top \in Frame /\ top.kind = "general"
    BY <1>15, <1>17 DEF Handling
  <2>2. /\ g \in Frame /\ g.kind = "general" /\ g.ctx = top.ctx
        /\ g.mem = top.mem /\ g.stage = s
    BY <2>1 DEF Frame
  <2>3. frames' = [frames EXCEPT ![depth] = g] /\ depth' = depth
    BY <1>17 DEF Advance, top
  <2> HIDE DEF g
  <2> QED
    BY <2>2, <2>3, Zenon DEF Target
<1>6. CASE ReadContext
  <2> DEFINE g == [top EXCEPT !.stage = "saved", !.mem = main]
  <2>1. /\ Handling("general", Stages) /\ top.stage = "entered"
        /\ top.kind = "general" /\ depth > 0 /\ depth' = depth
    BY <1>6 DEF ReadContext, Handling, Stages
  <2>2. main = Target(top) /\ depth \in 1..MaxNest
    BY <1>16, <2>1
  <2>3. /\ g \in Frame /\ g.kind = "general" /\ g.ctx = top.ctx
        /\ g.mem = main /\ g.stage = "saved"
    BY <1>0, <1>15, <2>1, Zenon DEF Frame, Stages, TypeOK
  <2>4. frames' = [frames EXCEPT ![depth] = g]
    BY <1>6, Zenon DEF ReadContext, top
  <2> HIDE DEF g
  <2>5. Target(g) = Target(top) /\ ModeOf(g) = ModeOf(top)
    BY <2>1, <2>3 DEF Target, ModeOf
  <2>6. UNCHANGED <<mode, istlbr>> /\ phase # "trap" /\ phase' # "trap"
    BY <1>6 DEF ReadContext, OtherInsn, Insn
  <2> QED
    BY <1>0, <1>15, <2>1, <2>2, <2>3, <2>4, <2>5, <2>6, StageInv, Zenon
<1>7. CASE EnableInterrupts
  <2>1. /\ Handling("general", Stages) /\ top.stage = "saved"
        /\ top.kind = "general" /\ depth > 0 /\ depth < MaxNest
        /\ Advance("open") /\ "open" \in Stages
    BY <1>7 DEF EnableInterrupts, Handling, Stages
  <2>2. PICK g \in Frame :
          /\ frames' = [frames EXCEPT ![depth] = g]
          /\ g.kind = "general" /\ g.ctx = top.ctx /\ g.mem = top.mem
          /\ g.stage = "open" /\ Target(g) = Target(top) /\ depth' = depth
    BY <1>17, <2>1
  <2>3. /\ mode' = [mode EXCEPT !.ie = TRUE] /\ UNCHANGED <<istlbr, main>>
        /\ phase # "trap" /\ phase' # "trap"
    BY <1>7 DEF EnableInterrupts, WriteCrmd, Privileged, Insn
  <2>4. mode = ClosedMode
    BY <1>15, <2>1 DEF ModeOf
  <2>5. mode' = ModeOf(g)
    <3>1. [mode EXCEPT !.ie = TRUE] =
            [plv |-> mode.plv, ie |-> TRUE, da |-> mode.da, pg |-> mode.pg]
      BY <1>0, SetIe, Zenon DEF TypeOK
    <3>3. mode.plv = 0 /\ mode.da = FALSE /\ mode.pg = TRUE
      BY <2>4 DEF ClosedMode
    <3>2. ModeOf(g) = OpenMode
      BY <2>2 DEF ModeOf
    <3> QED
      BY <2>3, <3>1, <3>2, <3>3, Zenon DEF OpenMode
  <2>6. g.mem = Target(g)
    BY <1>16, <2>1, <2>2
  <2> QED
    BY <1>0, <2>1, <2>2, <2>3, <2>5, <2>6, StageInv, Zenon
<1>8. CASE DisableInterrupts
  <2>1. /\ Handling("general", Stages) /\ top.stage = "open"
        /\ top.kind = "general" /\ depth > 0
        /\ Advance("saved") /\ "saved" \in Stages
    BY <1>8 DEF DisableInterrupts, Handling, Stages
  <2>2. PICK g \in Frame :
          /\ frames' = [frames EXCEPT ![depth] = g]
          /\ g.kind = "general" /\ g.ctx = top.ctx /\ g.mem = top.mem
          /\ g.stage = "saved" /\ Target(g) = Target(top) /\ depth' = depth
    BY <1>17, <2>1
  <2>3. /\ mode' = [mode EXCEPT !.ie = FALSE] /\ UNCHANGED <<istlbr, main>>
        /\ phase # "trap" /\ phase' # "trap"
    BY <1>8 DEF DisableInterrupts, WriteCrmd, Privileged, Insn
  <2>4. mode = OpenMode
    BY <1>15, <2>1 DEF ModeOf
  <2>5. mode' = ModeOf(g)
    <3>1. [mode EXCEPT !.ie = FALSE] =
            [plv |-> mode.plv, ie |-> FALSE, da |-> mode.da, pg |-> mode.pg]
      BY <1>0, SetIe, Zenon DEF TypeOK
    <3>3. mode.plv = 0 /\ mode.da = FALSE /\ mode.pg = TRUE
      BY <2>4 DEF OpenMode
    <3>2. ModeOf(g) = ClosedMode
      BY <2>2 DEF ModeOf
    <3> QED
      BY <2>3, <3>1, <3>2, <3>3, Zenon DEF ClosedMode
  <2>6. g.mem = Target(g)
    BY <1>16, <2>1, <2>2
  <2> QED
    BY <1>0, <2>1, <2>2, <2>3, <2>5, <2>6, StageInv, Zenon
<1>9. CASE RestoreEra
  <2>1. /\ Handling("general", Stages) /\ top.stage = "saved"
        /\ top.kind = "general" /\ depth > 0
        /\ Advance("era") /\ "era" \in Stages
    BY <1>9 DEF RestoreEra, Handling, Stages
  <2>2. PICK g \in Frame :
          /\ frames' = [frames EXCEPT ![depth] = g]
          /\ g.kind = "general" /\ g.ctx = top.ctx /\ g.mem = top.mem
          /\ g.stage = "era" /\ Target(g) = Target(top) /\ depth' = depth
    BY <1>17, <2>1
  <2>3. /\ main' = [main EXCEPT !.pc = top.mem.pc] /\ UNCHANGED <<istlbr, mode>>
        /\ phase # "trap" /\ phase' # "trap"
    BY <1>9 DEF RestoreEra, WriteEra, Privileged, Insn
  <2>4. g.mem = Target(g) /\ mode' = ModeOf(g)
    BY <1>15, <1>16, <2>1, <2>2, <2>3 DEF ModeOf
  <2>5. main'.pc = g.ctx.pc
    BY <1>0, <2>2, <2>3, <2>4 DEF Target, TypeOK, Context
  <2> QED
    BY <1>0, <2>1, <2>2, <2>3, <2>4, <2>5, StageInv, Zenon
<1>10. CASE RestorePrmd
  <2>1. /\ Handling("general", Stages) /\ top.stage = "era"
        /\ top.kind = "general" /\ depth > 0
        /\ Advance("restored") /\ "restored" \in Stages
    BY <1>10 DEF RestorePrmd, Handling, Stages
  <2>2. PICK g \in Frame :
          /\ frames' = [frames EXCEPT ![depth] = g]
          /\ g.kind = "general" /\ g.ctx = top.ctx /\ g.mem = top.mem
          /\ g.stage = "restored" /\ Target(g) = Target(top) /\ depth' = depth
    BY <1>17, <2>1
  <2>3. /\ main' = [main EXCEPT !.plv = top.mem.plv, !.ie = top.mem.ie]
        /\ UNCHANGED <<istlbr, mode>> /\ phase # "trap" /\ phase' # "trap"
    BY <1>10 DEF RestorePrmd, WritePrmd, Privileged, Insn
  <2>4. g.mem = Target(g) /\ mode' = ModeOf(g) /\ main.pc = g.ctx.pc
    BY <1>15, <1>16, <2>1, <2>2, <2>3 DEF ModeOf
  <2>5. main' = [pc |-> main.pc, plv |-> top.mem.plv, ie |-> top.mem.ie]
    BY <1>0, <2>3, Zenon DEF TypeOK, Context
  <2>6. main' = Target(g)
    <3>1. main' = [pc |-> Target(g).pc, plv |-> Target(g).plv, ie |-> Target(g).ie]
      BY <2>2, <2>4, <2>5, Zenon DEF Target
    <3> QED
      BY <3>1 DEF Target
  <2> QED
    BY <1>0, <2>1, <2>2, <2>3, <2>4, <2>6, StageInv, Zenon
<1> QED
  BY <1>1, <1>2, <1>3, <1>4, <1>5, <1>6, <1>7, <1>8, <1>9, <1>10, <1>13, <1>14
     DEF KernelNext

(* The core and the handlers that have not returned agree, at every depth. *)
THEOREM StackIsBalanced == KernelSpec => []Balanced
<1>1. KernelSpec => []Inv
  BY InitInv, StepInv, PTL DEF KernelSpec
<1> QED
  BY <1>1, PTL DEF Inv

(* Every ertn returns to what its exception or interrupt left, whatever    *)
(* nests in between.                                                       *)
THEOREM ErtnReturns == KernelSpec => RoundTrip
<1>1. KernelSpec => []Inv
  BY InitInv, StepInv, PTL DEF KernelSpec
<1>2. Inv /\ [KernelNext]_kvars =>
        [depth' < depth => pc' = top.ctx.pc /\ mode' = top.ctx.mode]_kvars
  <2> SUFFICES ASSUME Inv, KernelNext, depth' < depth
               PROVE  pc' = top.ctx.pc /\ mode' = top.ctx.mode
    OBVIOUS
  <2>1. depth \in Nat
    BY DEF Inv, KernelTypeOK
  <2>2. ~HandlerFaults /\ ~Interrupted
    <3>1. depth' # depth + 1
      BY <2>1
    <3> QED
      BY <3>1, Zenon DEF HandlerFaults, Interrupted, Push
  <2>3. ~NotInterrupted /\ ~User /\ ~Work /\ ~MissInHandler /\ ~RaiseInHandler
    <3>1. depth' # depth
      BY <2>1
    <3> QED
      BY <3>1, Zenon DEF NotInterrupted, User, Work, MissInHandler, RaiseInHandler
  <2>4. ~ReadContext /\ ~EnableInterrupts /\ ~DisableInterrupts /\ ~RestoreEra
        /\ ~RestorePrmd
    BY <2>1 DEF ReadContext, EnableInterrupts, DisableInterrupts, RestoreEra,
                RestorePrmd, Advance
  <2>5. Return
    BY <2>2, <2>3, <2>4 DEF KernelNext
  <2> QED
    BY <2>5, ReturnTarget
<1> QED
  BY <1>1, <1>2, PTL DEF KernelSpec, RoundTrip
=============================================================================
