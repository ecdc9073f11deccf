-------------------------- MODULE ConstTimerProofs --------------------------
(***************************************************************************)
(* The safety properties of the constant timer, for every set of tick      *)
(* values and every INT64_MAX above them.                                  *)
(***************************************************************************)
EXTENDS ConstTimer, TLAPS

(* What a counter that is not running may hold: a disabled timer never     *)
(* stands at zero, so check_irq does not fire it; an enabled timer of zero *)
(* ticks starts at zero and is decremented below it before the test.       *)
Parked ==
  determined =>
    /\ ~tcfg.en => timer_counter # 0
    /\ tcfg.en /\ tcfg.ticks = 0 => timer_counter <= 0

(* A determined check_irq is a single step of the loop.                    *)
OneStep == determined => loop \in {"test", "exec"}

Inv == TypeOK /\ OneStep /\ ExactDeadline /\ Parked /\ NoSilentLoss

(* The tick values and INT64_MAX are naturals, in that order.              *)
LEMMA Sizes ==
  Int64Max \in Nat /\ 0 < Int64Max /\ \A t \in Ticks : t \in Nat /\ t < Int64Max
  BY TicksAreSmall

(* The reset state: counter at INT64_MAX, timer disabled.                  *)
LEMMA InitInv == Init => Inv
<1> SUFFICES ASSUME Init PROVE Inv
  OBVIOUS
<1>1. TypeOK
  <2>1. timer_counter \in -1..Int64Max
    BY Sizes DEF Init
  <2>2. tcfg \in TcfgType
    BY TicksAreSmall DEF Init, TcfgType
  <2> QED
    BY <2>1, <2>2, Zenon DEF Init, TypeOK, LoopPoints
<1>2. OneStep /\ ExactDeadline /\ NoSilentLoss
  BY DEF Init, OneStep, ExactDeadline, NoSilentLoss, Running
<1>3. Parked
  BY Sizes DEF Init, Parked
<1> QED
  BY <1>1, <1>2, <1>3 DEF Inv

(* Every variable keeps its type.                                          *)
LEMMA StepType == TypeOK /\ [Next]_vars => TypeOK'
<1> SUFFICES ASSUME TypeOK, [Next]_vars PROVE TypeOK'
  OBVIOUS
<1> USE DEF TypeOK, LoopPoints
<1>1. CASE HostExpire
  BY <1>1 DEF HostExpire
<1>2. CASE sigaction_entry_timer
  BY <1>2, Zenon DEF sigaction_entry_timer
<1>3. CASE CheckIrqDetermined
  <2>1. timer_counter' \in -1..Int64Max
    BY <1>3, Sizes DEF CheckIrqDetermined, Decrement, Reload, TcfgType
  <2>2. tcfg' \in TcfgType
    BY <1>3, Zenon DEF CheckIrqDetermined, TcfgType
  <2>3. elapsed' \in Nat /\ irq_timer' \in BOOLEAN
    BY <1>3 DEF CheckIrqDetermined
  <2> QED
    BY <1>3, <2>1, <2>2, <2>3 DEF CheckIrqDetermined
<1>4. CASE CheckIrqTest
  BY <1>4 DEF CheckIrqTest
<1>5. CASE CheckIrqClear
  BY <1>5, Zenon DEF CheckIrqClear
<1>6. CASE CheckIrqRaise
  <2>1. tcfg' \in TcfgType
    BY <1>6, Zenon DEF CheckIrqRaise, Rearm, TcfgType
  <2>2. host' \in {"off", "armed"} /\ sig' \in BOOLEAN
    BY <1>6, Zenon DEF CheckIrqRaise, Rearm, SetHostTimer
  <2> QED
    BY <1>6, <2>1, <2>2 DEF CheckIrqRaise
<1>7. CASE OtherInsn
  BY <1>7 DEF OtherInsn
<1>8. CASE WriteTiclr
  BY <1>8, Zenon DEF WriteTiclr
<1>9. ASSUME NEW new \in TcfgType, WriteTcfg(new) PROVE TypeOK'
  <2>1. timer_counter' \in -1..Int64Max
    BY <1>9, Sizes DEF WriteTcfg, CounterFor, TcfgType
  <2>2. host' \in {"off", "armed"} /\ sig' \in BOOLEAN
    BY <1>9, Zenon DEF WriteTcfg, SetHostTimer
  <2> QED
    BY <1>9, <2>1, <2>2, Zenon DEF WriteTcfg
<1>10. CASE UNCHANGED vars
  BY <1>10 DEF vars
<1> QED
  BY <1>1, <1>2, <1>3, <1>4, <1>5, <1>6, <1>7, <1>8, <1>9, <1>10
  DEF Next, CheckIrq, GuestInsn, HostTimer

(* The counter of a determined timer: only the determined check_irq and a  *)
(* TCFG write move it; the host-timer steps do not happen then.            *)
LEMMA StepCounter ==
  Inv /\ [Next]_vars => (ExactDeadline /\ Parked)'
<1> SUFFICES ASSUME Inv, [Next]_vars PROVE (ExactDeadline /\ Parked)'
  OBVIOUS
<1> USE DEF Inv, ExactDeadline, Parked, Running
<1>1. CASE UNCHANGED <<determined, tcfg, timer_counter, elapsed>>
  BY <1>1
<1>2. CASE CheckIrqDetermined
  <2>1. /\ timer_counter \in Int /\ elapsed \in Nat
        /\ tcfg.ticks \in Nat /\ tcfg.ticks < Int64Max /\ Int64Max \in Nat
        /\ tcfg.en \in BOOLEAN /\ tcfg.periodic \in BOOLEAN /\ tcfg \in TcfgType
    BY Sizes DEF TypeOK, TcfgType
  <2>2. CASE tcfg.en
    <3>1. CASE tcfg.ticks = 0
      BY <1>2, <2>1, <2>2, <3>1 DEF CheckIrqDetermined, Decrement
    <3>2. CASE tcfg.ticks > 0 /\ timer_counter = 1
      <4>1. timer_counter' = Reload(tcfg) /\ elapsed' = 0
        BY <1>2, <2>1, <2>2, <3>2 DEF CheckIrqDetermined, Decrement
      <4>2. CASE tcfg.periodic
        BY <1>2, <2>1, <2>2, <3>2, <4>1, <4>2
        DEF CheckIrqDetermined, Decrement, Reload
      <4>3. CASE ~tcfg.periodic
        <5>1. tcfg'.en = FALSE
          BY <1>2, <2>1, <2>2, <3>2, <4>3
          DEF CheckIrqDetermined, Decrement, TcfgType
        <5> QED
          BY <2>1, <4>1, <4>3, <5>1 DEF Reload
      <4> QED
        BY <4>2, <4>3
    <3>3. CASE tcfg.ticks > 0 /\ timer_counter # 1
      BY <1>2, <2>1, <2>2, <3>3 DEF CheckIrqDetermined, Decrement
    <3> QED
      BY <2>1, <3>1, <3>2, <3>3
  <2>3. CASE ~tcfg.en
    BY <1>2, <2>1, <2>3 DEF CheckIrqDetermined
  <2> QED
    BY <2>2, <2>3
<1>3. CASE CheckIrqRaise
  <2>1. ~determined
    BY <1>3 DEF CheckIrqRaise, OneStep
  <2> QED
    BY <1>3, <2>1 DEF CheckIrqRaise
<1>4. ASSUME NEW new \in TcfgType, WriteTcfg(new)
      PROVE (ExactDeadline /\ Parked)'
  <2>1. new.ticks \in Nat /\ new.en \in BOOLEAN
    BY Sizes DEF TcfgType
  <2> QED
    BY <1>4, <2>1 DEF WriteTcfg, CounterFor
<1> QED
  BY <1>1, <1>2, <1>3, <1>4
  DEF Next, CheckIrq, GuestInsn, HostTimer, HostExpire, sigaction_entry_timer,
      CheckIrqTest, CheckIrqClear, OtherInsn, WriteTiclr, vars

(* The host-timer statements of check_irq run only without -z, and no      *)
(* step but a TICLR write takes a running timer off its way to the tick.   *)
LEMMA StepHost ==
  Inv /\ [Next]_vars => (OneStep /\ NoSilentLoss)'
<1> SUFFICES ASSUME Inv, [Next]_vars PROVE (OneStep /\ NoSilentLoss)'
  OBVIOUS
<1> USE DEF Inv, OneStep, NoSilentLoss, OnItsWay, Running
<1>1. CASE HostExpire
  BY <1>1 DEF HostExpire
<1>2. CASE sigaction_entry_timer
  BY <1>2 DEF sigaction_entry_timer
<1>3. CASE CheckIrqDetermined
  BY <1>3 DEF CheckIrqDetermined
<1>4. CASE CheckIrqTest
  BY <1>4 DEF CheckIrqTest
<1>5. CASE CheckIrqClear
  BY <1>5 DEF CheckIrqClear
<1>6. CASE CheckIrqRaise
  <2>1. tcfg \in TcfgType /\ tcfg.ticks \in Nat
    BY Sizes DEF TypeOK, TcfgType
  <2>2. CASE tcfg.periodic
    BY <1>6, <2>1, <2>2 DEF CheckIrqRaise, Rearm, SetHostTimer
  <2>3. CASE ~tcfg.periodic
    <3>1. tcfg'.en = FALSE
      BY <1>6, <2>1, <2>3 DEF CheckIrqRaise, Rearm, TcfgType
    <3> QED
      BY <1>6, <3>1 DEF CheckIrqRaise
  <2> QED
    BY <2>2, <2>3
<1>7. CASE OtherInsn
  BY <1>7 DEF OtherInsn
<1>8. CASE WriteTiclr
  BY <1>8, Zenon DEF WriteTiclr
<1>9. ASSUME NEW new \in TcfgType, WriteTcfg(new)
      PROVE (OneStep /\ NoSilentLoss)'
  <2>1. new.ticks \in Nat /\ new.en \in BOOLEAN
    BY Sizes DEF TcfgType
  <2>2. CASE ~determined /\ new.en /\ new.ticks > 0
    <3>1. host' = "armed"
      BY <1>9, <2>1, <2>2 DEF WriteTcfg, SetHostTimer
    <3> QED
      BY <1>9, <2>2, <3>1 DEF WriteTcfg
  <2>3. CASE ~(~determined /\ new.en /\ new.ticks > 0)
    BY <1>9, <2>3 DEF WriteTcfg
  <2> QED
    BY <2>2, <2>3
<1>10. CASE UNCHANGED vars
  BY <1>10 DEF vars
<1> QED
  BY <1>1, <1>2, <1>3, <1>4, <1>5, <1>6, <1>7, <1>8, <1>9, <1>10
  DEF Next, CheckIrq, GuestInsn, HostTimer

-----------------------------------------------------------------------------
(* Inv holds in every reachable state of the timer.                        *)
THEOREM Invariance == Spec => []Inv
<1>1. Inv /\ [Next]_vars => Inv'
  BY StepType, StepCounter, StepHost DEF Inv
<1> QED
  BY <1>1, InitInv, PTL DEF Spec

(* The variables of the timer code keep their types.                       *)
THEOREM TypeCorrect == Spec => []TypeOK
  BY Invariance, PTL DEF Inv

(* In determined mode the tick comes after exactly TCFG.ticks check_irq    *)
(* calls: TVAL and the elapsed calls always add up to the interval.        *)
THEOREM DeadlineIsExact == Spec => []ExactDeadline
  BY Invariance, PTL DEF Inv

(* With the host timer, a running timer is always on its way to a tick     *)
(* unless a TICLR write has erased one.                                    *)
THEOREM TickIsNotLost == Spec => []NoSilentLoss
  BY Invariance, PTL DEF Inv

(* In determined mode the interrupt is raised at the deadline of a running *)
(* timer and at no other moment.                                           *)
THEOREM TickIsNotEarly == Spec => NoSpuriousTick
<1> DEFINE Tick == determined /\ ~irq_timer /\ irq_timer' =>
                     Running /\ elapsed + 1 = tcfg.ticks
<1>1. Inv /\ [Next]_vars => [Tick]_vars
  <2> SUFFICES ASSUME Inv, Next, determined, ~irq_timer, irq_timer'
               PROVE Running /\ elapsed + 1 = tcfg.ticks
    BY DEF vars
  <2>1. CheckIrqDetermined
    BY Zenon DEF Next, CheckIrq, GuestInsn, HostTimer, HostExpire, OtherInsn,
           sigaction_entry_timer, CheckIrqTest, CheckIrqClear, CheckIrqRaise,
           WriteTiclr, WriteTcfg, Inv, OneStep
  <2>2. /\ timer_counter \in Int /\ elapsed \in Nat
        /\ tcfg.ticks \in Nat /\ tcfg.en \in BOOLEAN
    BY Sizes DEF Inv, TypeOK, TcfgType
  <2>3. CASE tcfg.en
    <3>1. Decrement(timer_counter) = 0
      BY <2>1, <2>2, <2>3 DEF CheckIrqDetermined, Inv, TypeOK
    <3>2. timer_counter = 1
      BY <2>2, <3>1 DEF Decrement
    <3>3. tcfg.ticks > 0
      BY <2>2, <2>3, <3>2 DEF Inv, Parked
    <3> QED
      BY <2>2, <2>3, <3>2, <3>3 DEF Inv, ExactDeadline, Running
  <2>4. CASE ~tcfg.en
    BY <2>1, <2>2, <2>4 DEF CheckIrqDetermined, Inv, Parked
  <2> QED
    BY <2>3, <2>4
<1> QED
  BY <1>1, Invariance, PTL DEF Spec, NoSpuriousTick
=============================================================================
