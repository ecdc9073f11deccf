--------------------------------- MODULE Uart ---------------------------------
(***************************************************************************)
(* The 16550A UART of serial_plus.c, as the guest and the execution loop   *)
(* use it: register reads and writes, the transmitter, which empties its   *)
(* FIFO before the write of THR returns, and the poll of the host's        *)
(* terminal, which the loop starts when the serial timer has fired.        *)
(*                                                                         *)
(* Registers are sets of the bits that matter.  The modem lines never      *)
(* change: there is no ioctl behind them, and reset has seen them drop.    *)
(***************************************************************************)
EXTENDS Fifo8

CONSTANTS
  Sent,      \* characters the guest writes to THR
  Itls,      \* receive trigger levels
  Garbage,   \* recv_fifo_itl before the first write of FCR
  Iers       \* values the guest writes to IER

Bits == {"RDI", "THRI", "RLSI"}
Ids == {"NO_INT", "RLSI", "CTI", "RDI", "THRI"}

ASSUME LevelsAreSmall == Itls \subseteq 1..Capacity /\ Garbage \subseteq 0..255
ASSUME IersAreBits == Iers \subseteq SUBSET Bits
ASSUME ThereAreChars == Chars # {} /\ Sent \subseteq Chars

VARIABLES
  s,                 \* SerialState, its interrupt line included
  busy,              \* "idle", in serial_xmit, in serial_check_io, or aborted
  serial_timer_int,  \* set by the signal handler of the serial timer
  expect,            \* history: characters received and not yet read
  acked              \* history: the guest was told that THR is empty

vars == <<s, busy, serial_timer_int, expect, acked>>

SerialState ==
  [ier : SUBSET Bits, iir : Ids, lsr : SUBSET {"TEMT", "THRE", "OE", "DR"},
   fe : BOOLEAN, recv_fifo_itl : Itls \union Garbage, dlab : BOOLEAN, loop : BOOLEAN,
   rbr : Chars, thr : Chars, thr_ipending : BOOLEAN, timeout_ipending : BOOLEAN,
   recv_fifo : Fifo, xmit_fifo : Fifo, irq : BOOLEAN]

TypeOK ==
  /\ s \in SerialState
  /\ busy \in {"idle", "xmit", "poll", "aborted"}
  /\ serial_timer_int \in BOOLEAN
  /\ expect \in Seq(Chars)
  /\ acked \in BOOLEAN

SomeChar == CHOOSE c \in Chars : TRUE
EmptyFifo == [data |-> [i \in 0..(Capacity - 1) |-> SomeChar], head |-> 0, num |-> 0]

(* simple_serial_init: the state comes from malloc, and serial_reset does  *)
(* not set FCR and the trigger level.                                      *)
Init ==
  /\ \E fe \in BOOLEAN, itl \in Garbage :
       s = [ier |-> {}, iir |-> "NO_INT", lsr |-> {"TEMT", "THRE"},
            fe |-> fe, recv_fifo_itl |-> itl, dlab |-> FALSE, loop |-> FALSE,
            rbr |-> SomeChar, thr |-> SomeChar, thr_ipending |-> FALSE,
            timeout_ipending |-> FALSE, recv_fifo |-> EmptyFifo, xmit_fifo |-> EmptyFifo,
            irq |-> FALSE]
  /\ busy = "idle"
  /\ serial_timer_int = FALSE
  /\ expect = <<>>
  /\ acked = FALSE

-----------------------------------------------------------------------------
(* Steps of the handlers, as functions of the state.                       *)

\* The interrupt with the highest priority among the enabled ones.
Iir(u) ==
  IF "RLSI" \in u.ier /\ "OE" \in u.lsr THEN "RLSI"
  ELSE IF "RDI" \in u.ier /\ u.timeout_ipending THEN "CTI"
  ELSE IF /\ "RDI" \in u.ier /\ "DR" \in u.lsr
          /\ ~u.fe \/ u.recv_fifo.num >= u.recv_fifo_itl THEN "RDI"
  ELSE IF "THRI" \in u.ier /\ u.thr_ipending THEN "THRI"
  ELSE "NO_INT"

\* serial_update_irq: IIR and the line follow the state.
serial_update_irq(u) == [u EXCEPT !.iir = Iir(u), !.irq = Iir(u) # "NO_INT"]

\* Mutant: a full FIFO takes one more.
PutAlways(u, c) == [u EXCEPT !.recv_fifo = fifo8_push(@, c)]

recv_fifo_put(u, c) ==
  IF fifo8_is_full(u.recv_fifo) THEN [u EXCEPT !.lsr = @ \union {"OE"}]
  ELSE [u EXCEPT !.recv_fifo = fifo8_push(@, c)]

serial_receive1(u, c) ==
  serial_update_irq(
    IF u.fe
    THEN [recv_fifo_put(u, c) EXCEPT !.lsr = @ \union {"DR"}]
    ELSE [u EXCEPT !.rbr = c,
                   !.lsr = @ \union {"DR"} \union (IF "DR" \in @ THEN {"OE"} ELSE {})])

\* Mutant: a full FIFO is offered one more character.
CanReceiveOne(u) == IF u.fe THEN u.recv_fifo.num <= Capacity ELSE "DR" \notin u.lsr

serial_can_receive(u) ==
  IF u.fe
  THEN u.recv_fifo.num < Capacity /\ u.recv_fifo.num # u.recv_fifo_itl
  ELSE "DR" \notin u.lsr

\* Mutant: the line is left as it is.
TimeoutQuiet(u) == [u EXCEPT !.timeout_ipending = @ \/ u.recv_fifo.num > 0]

fifo_timeout_int(u) ==
  IF u.recv_fifo.num > 0 THEN serial_update_irq([u EXCEPT !.timeout_ipending = TRUE]) ELSE u

-----------------------------------------------------------------------------
(* The transmitter: serial_xmit, one iteration of its loop at a time.      *)

\* The character leaves the FIFO or the holding register.
Shifted(u) ==
  IF u.fe
  THEN [u EXCEPT !.xmit_fifo = fifo8_pop(@),
                 !.lsr = @ \union (IF u.xmit_fifo.num = 1 THEN {"THRE"} ELSE {})]
  ELSE [u EXCEPT !.lsr = @ \union {"THRE"}]

Tsr(u) == IF u.fe THEN fifo8_front(u.xmit_fifo) ELSE u.thr

\* An empty transmitter asks for more, once.
ThrEmpty(u) ==
  IF "THRE" \in u.lsr /\ ~u.thr_ipending
  THEN serial_update_irq([u EXCEPT !.thr_ipending = TRUE]) ELSE u

XmitStep ==
  /\ busy = "xmit"
  /\ LET c    == Tsr(s)
         out  == ThrEmpty(Shifted(s))
         sent == IF s.loop THEN serial_receive1(out, c) ELSE out
     IN  IF "THRE" \in sent.lsr
         THEN s' = [sent EXCEPT !.lsr = @ \union {"TEMT"}] /\ busy' = "idle"
         ELSE s' = sent /\ UNCHANGED busy
  /\ expect' = IF ~s.loop \/ (s.fe /\ fifo8_is_full(s.recv_fifo)) THEN expect
               ELSE IF s.fe THEN Append(expect, Tsr(s)) ELSE <<Tsr(s)>>
  /\ UNCHANGED <<serial_timer_int, acked>>

-----------------------------------------------------------------------------
(* The poll of the terminal, from loongarch_cpu_check_irq.                 *)

sigaction_entry_serial_timer ==
  /\ busy # "aborted"
  /\ serial_timer_int' = TRUE
  /\ UNCHANGED <<s, busy, expect, acked>>

CheckIrq ==
  /\ busy = "idle"
  /\ serial_timer_int
  /\ serial_timer_int' = FALSE
  /\ busy' = "poll"
  /\ UNCHANGED <<s, expect, acked>>

\* One iteration of serial_check_io: the terminal has a character.
PollChar(c) ==
  /\ busy = "poll"
  /\ serial_can_receive(s)
  /\ s' = fifo_timeout_int(serial_receive1(s, c))
  /\ expect' = Append(expect, c)
  /\ UNCHANGED <<busy, serial_timer_int, acked>>

\* It has none, or the UART takes none.
PollEnd ==
  /\ busy = "poll"
  /\ busy' = "idle"
  /\ UNCHANGED <<s, serial_timer_int, expect, acked>>

\* End of file on the terminal.
PollEof ==
  /\ busy = "poll"
  /\ serial_can_receive(s)
  /\ busy' = "aborted"
  /\ UNCHANGED <<s, serial_timer_int, expect, acked>>

-----------------------------------------------------------------------------
(* The guest's register accesses: serial_plus_ioport_write and _read.      *)

\* Mutant: a write of THR does not withdraw the request for more.
LoadedStill(u, c) ==
  LET f == u.xmit_fifo
  IN  [u EXCEPT !.thr = c, !.lsr = @ \ {"THRE"},
                !.xmit_fifo = IF ~u.fe THEN f
                              ELSE fifo8_push(IF fifo8_is_full(f) THEN fifo8_pop(f) ELSE f, c)]

\* A character in the holding register or, with room made for it, the FIFO.
Loaded(u, c) ==
  LET f == u.xmit_fifo
  IN  [u EXCEPT !.thr = c, !.thr_ipending = FALSE, !.lsr = @ \ {"THRE", "TEMT"},
                !.xmit_fifo = IF ~u.fe THEN f
                              ELSE fifo8_push(IF fifo8_is_full(f) THEN fifo8_pop(f) ELSE f, c)]

\* What every access has in common.
Access(u, q, a) ==
  /\ busy = "idle"
  /\ s' = u
  /\ expect' = q
  /\ acked' = a
  /\ UNCHANGED serial_timer_int

WriteThr(c) ==
  /\ ~s.dlab
  /\ Access(serial_update_irq(Loaded(s, c)), expect, FALSE)
  /\ busy' = "xmit"

\* Mutant: THRI is not sampled when it is enabled.
EnabledOnly(u, v) ==
  serial_update_irq([u EXCEPT !.ier = v])

\* THRI is sampled when it is switched.
Enabled(u, v) ==
  LET switched == ("THRI" \in u.ier) # ("THRI" \in v)
      e == [u EXCEPT !.ier = v,
                     !.thr_ipending = IF switched THEN "THRI" \in v /\ "THRE" \in u.lsr ELSE @]
  IN  IF v # u.ier THEN serial_update_irq(e) ELSE e

WriteIer(v) ==
  /\ ~s.dlab
  /\ Access(Enabled(s, v), expect, acked /\ ("THRI" \in s.ier \/ "THRI" \notin v))
  /\ UNCHANGED busy

\* Mutant: the receive FIFO is emptied and DR stays.
RecvResetDr(u) == [u EXCEPT !.timeout_ipending = FALSE, !.recv_fifo = fifo8_reset(@)]

RecvReset(u) ==
  [u EXCEPT !.lsr = @ \ {"DR"}, !.timeout_ipending = FALSE, !.recv_fifo = fifo8_reset(@)]

XmitReset(u) ==
  [u EXCEPT !.lsr = @ \union {"THRE"}, !.thr_ipending = TRUE, !.xmit_fifo = fifo8_reset(@)]

\* FCR: switching the FIFOs on or off clears both.
WriteFcr(fe, rfr, xfr, itl) ==
  LET flip == fe # s.fe
      r == IF flip \/ rfr THEN RecvReset(s) ELSE s
      x == IF flip \/ xfr THEN XmitReset(r) ELSE r
  IN  /\ Access(serial_update_irq([x EXCEPT !.fe = fe,
                                            !.recv_fifo_itl = IF fe THEN itl ELSE @]),
                IF flip \/ rfr THEN <<>> ELSE expect,
                acked /\ ~(flip \/ xfr))
      /\ UNCHANGED busy

WriteLcr(dlab) ==
  /\ Access([s EXCEPT !.dlab = dlab], expect, acked)
  /\ UNCHANGED busy

WriteMcr(loop) ==
  /\ Access([s EXCEPT !.loop = loop], expect, acked)
  /\ UNCHANGED busy

Popped(u) ==
  [u EXCEPT !.recv_fifo = IF @.num = 0 THEN @ ELSE fifo8_pop(@),
            !.lsr = IF u.recv_fifo.num <= 1 THEN @ \ {"DR"} ELSE @,
            !.timeout_ipending = FALSE]

ReadRbr ==
  /\ ~s.dlab
  /\ Access(serial_update_irq(IF s.fe THEN Popped(s) ELSE [s EXCEPT !.lsr = @ \ {"DR"}]),
            IF expect = <<>> THEN expect ELSE Tail(expect), acked)
  /\ UNCHANGED busy

\* Reading IIR acknowledges the interrupt it reports, if that is THRI.
ReadIir ==
  /\ s.iir = "THRI"
  /\ Access(serial_update_irq([s EXCEPT !.thr_ipending = FALSE]), expect, TRUE)
  /\ UNCHANGED busy

ReadLsr ==
  /\ "OE" \in s.lsr
  /\ Access(serial_update_irq([s EXCEPT !.lsr = @ \ {"OE"}]), expect, acked)
  /\ UNCHANGED busy

Guest ==
  \/ \E c \in Sent : WriteThr(c)
  \/ \E v \in Iers : WriteIer(v)
  \/ \E fe, rfr, xfr \in BOOLEAN, itl \in Itls : WriteFcr(fe, rfr, xfr, itl)
  \/ \E b \in BOOLEAN : WriteLcr(b) \/ WriteMcr(b)
  \/ ReadRbr \/ ReadIir \/ ReadLsr

Emulator ==
  \/ XmitStep \/ CheckIrq \/ PollEnd \/ PollEof
  \/ \E c \in Chars : PollChar(c)

Next == Guest \/ Emulator \/ sigaction_entry_serial_timer

Spec == Init /\ [][Next]_vars

\* The loop runs on, and the periodic timer keeps firing.
FairSpec ==
  Spec /\ WF_vars(XmitStep) /\ WF_vars(CheckIrq) /\ WF_vars(PollEnd)
       /\ WF_vars(sigaction_entry_serial_timer)

-----------------------------------------------------------------------------
(* What the UART promises.                                                 *)

(* The interrupt line, which serial_update_irq sets from inside each       *)
(* handler, is never stale: it is up exactly when an enabled cause holds.  *)
IrqExact ==
  s.irq <=> \/ "RLSI" \in s.ier /\ "OE" \in s.lsr
            \/ "RDI" \in s.ier /\ s.timeout_ipending
            \/ "RDI" \in s.ier /\ "DR" \in s.lsr /\ (s.fe => s.recv_fifo.num >= s.recv_fifo_itl)
            \/ "THRI" \in s.ier /\ s.thr_ipending

(* What RBR reads return is what was received, in order: no character that *)
(* serial_check_io takes from the terminal is overwritten or dropped,      *)
(* across the wrap of the ring, a new trigger level, and loopback.         *)
InOrder ==
  IF s.fe THEN Contents(s.recv_fifo) = expect
  ELSE expect = IF "DR" \in s.lsr THEN <<s.rbr>> ELSE <<>>

(* A driver that reads RBR until LSR.DR drops has read everything, and     *)
(* reads nothing that is not there.                                        *)
DrExact == "DR" \in s.lsr <=> expect # <<>>

(* The assertions of serial_xmit hold whenever its loop comes round, and   *)
(* it returns with the transmitter empty.                                  *)
XmitAsserts ==
  /\ busy = "xmit" => /\ s.lsr \intersect {"THRE", "TEMT"} = {}
                      /\ s.fe => s.xmit_fifo.num > 0
  /\ busy # "xmit" => {"THRE", "TEMT"} \subseteq s.lsr /\ s.xmit_fifo.num = 0

(* A driver with THRI enabled that has not yet been told of the empty      *)
(* transmitter, by an IIR that read THRI, has the interrupt pending.       *)
ThrSignalled ==
  busy # "xmit" /\ "THRI" \in s.ier /\ ~acked => s.thr_ipending

(* "There's data in recv_fifo and s->rbr has not been read for 4 char      *)
(* transmit times" raises the timeout interrupt: data left below the       *)
(* trigger level is signalled, unless the guest takes it or turns off RDI. *)
(* The timer that would do so is commented out; fifo_timeout_int runs only *)
(* as a character comes in, and the next read of RBR cancels it.           *)
Waiting == s.fe /\ s.recv_fifo.num > 0 /\ "RDI" \in s.ier /\ ~s.loop /\ busy # "aborted"
DataSignalled == Waiting ~> (s.irq \/ ~Waiting)
=============================================================================
