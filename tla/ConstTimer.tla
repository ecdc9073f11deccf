----------------------------- MODULE ConstTimer -----------------------------
(***************************************************************************)
(* The LoongArch constant timer of LA_EMU: TCFG and TICLR writes, the      *)
(* timer part of loongarch_cpu_check_irq, which the execution loop calls   *)
(* before every instruction, and, when events are not "determined", the    *)
(* one-shot host timer whose signal handler sets the flag timer_int.       *)
(*                                                                         *)
(* The option -z fixes determined for the whole run: with it, time is the  *)
(* number of check_irq calls; without it, time is the host's, and the      *)
(* signal may land between any two statements.                             *)
(***************************************************************************)
EXTENDS Integers

CONSTANTS
  Ticks,       \* values of (TCFG & CONSTANT_TIMER_TICK_MASK) / TIME_SCALE
  Int64Max     \* INT64_MAX, the counter of a timer that has fired

ASSUME TicksAreSmall ==
  /\ Int64Max \in Nat
  /\ Ticks \subseteq Nat
  /\ 0 \in Ticks
  /\ \A t \in Ticks : t < Int64Max

VARIABLES
  determined,     \* the option -z
  tcfg,           \* CSR_TCFG: en, periodic, ticks
  timer_counter,  \* env->timer_counter, what TVAL reads
  host,           \* the POSIX timer: armed or off
  sig,            \* its signal has been generated and not yet delivered
  timer_int,      \* env->timer_int, set by the signal handler
  irq_timer,      \* ESTAT.IS[IRQ_TIMER]
  loop,           \* where check_irq stands in the loop iteration
  elapsed,        \* history: enabled check_irq calls since arming or reload
  dropped         \* history: a TICLR write has erased a timer_int

vars == <<determined, tcfg, timer_counter, host, sig, timer_int, irq_timer,
          loop, elapsed, dropped>>

TcfgType == [en : BOOLEAN, periodic : BOOLEAN, ticks : Ticks]

(* check_irq tests timer_int, clears it and raises the interrupt in three  *)
(* statements; the signal handler may run before each of them.  "exec" is  *)
(* the rest of the iteration: one guest instruction.                       *)
LoopPoints == {"test", "clear", "raise", "exec"}

TypeOK ==
  /\ determined \in BOOLEAN
  /\ tcfg \in TcfgType
  /\ timer_counter \in -1..Int64Max
  /\ host \in {"off", "armed"}
  /\ sig \in BOOLEAN
  /\ timer_int \in BOOLEAN
  /\ irq_timer \in BOOLEAN
  /\ loop \in LoopPoints
  /\ elapsed \in Nat
  /\ dropped \in BOOLEAN

Init ==
  /\ determined \in BOOLEAN
  /\ tcfg = [en |-> FALSE, periodic |-> FALSE, ticks |-> 0]
  /\ timer_counter = Int64Max
  /\ host = "off"
  /\ sig = FALSE
  /\ timer_int = FALSE
  /\ irq_timer = FALSE
  /\ loop = "test"
  /\ elapsed = 0
  /\ dropped = FALSE

-----------------------------------------------------------------------------
(* The host timer.  Setting it to zero disarms it.  Whether a signal that  *)
(* was already generated survives timer_settime is up to the host kernel.  *)

SetHostTimer(ticks) ==
  /\ host' = IF ticks = 0 THEN "off" ELSE "armed"
  /\ sig' \in {sig, FALSE}

HostExpire ==
  /\ host = "armed"
  /\ host' = "off"
  /\ sig' = TRUE
  /\ UNCHANGED <<determined, tcfg, timer_counter, timer_int, irq_timer, loop,
                 elapsed, dropped>>

sigaction_entry_timer ==
  /\ sig
  /\ sig' = FALSE
  /\ timer_int' = TRUE
  /\ UNCHANGED <<determined, tcfg, timer_counter, host, irq_timer, loop, elapsed,
                 dropped>>

-----------------------------------------------------------------------------
(* loongarch_cpu_check_irq.  The counter of a timer enabled with zero      *)
(* ticks goes below zero and stays there for 2^63 calls; every negative    *)
(* value is represented by -1.                                             *)

Decrement(c) == IF c < 0 THEN c ELSE c - 1

\* Mutant: the periodic reload is one tick short.
ReloadShort(cfg) == IF cfg.periodic THEN cfg.ticks - 1 ELSE Int64Max

Reload(cfg) == IF cfg.periodic THEN cfg.ticks ELSE Int64Max

CheckIrqDetermined ==
  /\ determined
  /\ loop = "test"
  /\ LET c     == IF tcfg.en THEN Decrement(timer_counter) ELSE timer_counter
         fires == c = 0
     IN  /\ timer_counter' = IF fires THEN Reload(tcfg) ELSE c
         /\ irq_timer' = (irq_timer \/ fires)
         /\ tcfg' = IF fires /\ ~tcfg.periodic
                    THEN [tcfg EXCEPT !.en = FALSE] ELSE tcfg
         /\ elapsed' = IF fires THEN 0
                       ELSE IF tcfg.en /\ c > 0 THEN elapsed + 1
                       ELSE elapsed
  /\ loop' = "exec"
  /\ UNCHANGED <<determined, host, sig, timer_int, dropped>>

CheckIrqTest ==
  /\ ~determined
  /\ loop = "test"
  /\ loop' = IF timer_int THEN "clear" ELSE "exec"
  /\ UNCHANGED <<determined, tcfg, timer_counter, host, sig, timer_int, irq_timer,
                 elapsed, dropped>>

CheckIrqClear ==
  /\ loop = "clear"
  /\ timer_int' = FALSE
  /\ loop' = "raise"
  /\ UNCHANGED <<determined, tcfg, timer_counter, host, sig, irq_timer, elapsed,
                 dropped>>

\* Mutant: a periodic host timer, one-shot as it is, is not armed again.
NoRearm ==
  /\ tcfg' = IF tcfg.periodic THEN tcfg ELSE [tcfg EXCEPT !.en = FALSE]
  /\ UNCHANGED <<host, sig>>

Rearm ==
  IF tcfg.periodic
  THEN SetHostTimer(tcfg.ticks) /\ UNCHANGED tcfg
  ELSE /\ tcfg' = [tcfg EXCEPT !.en = FALSE]
       /\ UNCHANGED <<host, sig>>

CheckIrqRaise ==
  /\ loop = "raise"
  /\ irq_timer' = TRUE
  /\ Rearm
  /\ loop' = "exec"
  /\ UNCHANGED <<determined, timer_counter, timer_int, elapsed, dropped>>

-----------------------------------------------------------------------------
(* The guest instruction of the iteration: a write of TCFG, a write of     *)
(* TICLR with bit 0 set, or anything else.                                 *)

\* Mutant: disabling the timer zeroes the counter instead of parking it.
CounterZeroed(new) == IF new.en THEN new.ticks ELSE 0

CounterFor(new) == IF new.en THEN new.ticks ELSE -1

WriteTcfg(new) ==
  /\ loop = "exec"
  /\ tcfg' = new
  /\ IF determined
     THEN timer_counter' = CounterFor(new) /\ UNCHANGED <<host, sig>>
     ELSE /\ SetHostTimer(IF new.en THEN new.ticks ELSE 0)
          /\ UNCHANGED timer_counter
  /\ elapsed' = 0
  /\ dropped' = FALSE
  /\ loop' = "test"
  /\ UNCHANGED <<determined, timer_int, irq_timer>>

WriteTiclr ==
  /\ loop = "exec"
  /\ timer_int' = FALSE
  /\ irq_timer' = FALSE
  /\ dropped' = (dropped \/ timer_int)
  /\ loop' = "test"
  /\ UNCHANGED <<determined, tcfg, timer_counter, host, sig, elapsed>>

OtherInsn ==
  /\ loop = "exec"
  /\ loop' = "test"
  /\ UNCHANGED <<determined, tcfg, timer_counter, host, sig, timer_int, irq_timer,
                 elapsed, dropped>>

CheckIrq == CheckIrqDetermined \/ CheckIrqTest \/ CheckIrqClear \/ CheckIrqRaise

GuestInsn == OtherInsn \/ WriteTiclr \/ \E new \in TcfgType : WriteTcfg(new)

HostTimer == HostExpire \/ sigaction_entry_timer

Next == CheckIrq \/ GuestInsn \/ HostTimer

Spec == Init /\ [][Next]_vars

(* The loop never stops executing instructions, the host timer expires and *)
(* its signal is delivered.  Nothing obliges the guest to touch the timer. *)
Fairness ==
  /\ WF_vars(CheckIrq)
  /\ WF_vars(GuestInsn)
  /\ WF_vars(HostExpire)
  /\ WF_vars(sigaction_entry_timer)

FairSpec == Spec /\ Fairness

-----------------------------------------------------------------------------
Running == tcfg.en /\ tcfg.ticks > 0

(* In determined mode a running timer fires after exactly TCFG.ticks calls *)
(* of check_irq, counted from the write of TCFG or from the last reload:   *)
(* what TVAL shows and what has elapsed always add up to the interval.     *)
ExactDeadline ==
  determined /\ Running =>
    /\ timer_counter + elapsed = tcfg.ticks
    /\ timer_counter > 0

(* In determined mode the interrupt is raised at the deadline of an        *)
(* enabled timer and at no other moment: never early, never by a disabled  *)
(* timer, never by a counter that was left at INT64_MAX or -1.             *)
NoSpuriousTick ==
  [][determined /\ ~irq_timer /\ irq_timer' =>
       Running /\ elapsed + 1 = tcfg.ticks]_vars

(* With the host timer, an enabled timer is on its way to an interrupt at  *)
(* every moment: armed, or its signal generated, or the flag set, or       *)
(* check_irq about to raise.  The only step that loses it is a TICLR write *)
(* that lands between the signal and the next check_irq.                   *)
OnItsWay ==
  host = "armed" \/ sig \/ timer_int \/ loop = "raise"

NoSilentLoss == ~determined /\ Running => OnItsWay \/ dropped

(* A periodic timer keeps running whatever the guest does short of         *)
(* rewriting TCFG: acknowledging a tick with TICLR must not stop the next. *)
PeriodicKeepsRunning == ~determined /\ Running /\ tcfg.periodic => OnItsWay

(* Once the guest leaves TCFG alone, a running timer raises its interrupt, *)
(* unless a TICLR write erased the tick (check_irq, signal handler).       *)
TickArrives ==
  <>[][~(\E new \in TcfgType : WriteTcfg(new))]_vars
    => (Running ~> (irq_timer \/ dropped \/ ~Running))
=============================================================================
