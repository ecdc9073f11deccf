------------------------------ MODULE VirtioBlk ------------------------------
(***************************************************************************)
(* The virtio block device of simple_virtio_blk.c, its interrupt on either *)
(* machine, and a guest driver.  On LoongArch the device drives a line of  *)
(* the core; on RISC-V it drives source 2 of the PLIC of riscv_plic.c,     *)
(* whose S-mode context drives the core.                                   *)
(*                                                                         *)
(* A request is a chain of three descriptors: header, data, status.  Ring  *)
(* slots and chains that are not in flight are written before they are     *)
(* read again, and hold a fixed value here.                                *)
(***************************************************************************)
EXTENDS Integers, Sequences, FiniteSets

CONSTANTS
  QueueNum,   \* descriptors, and slots of each ring; a power of two
  IdxRange,   \* 2^16: ring indices are uint16_t
  Sectors,
  Values,
  Heads,      \* descriptors a chain may start at
  Requests,   \* chains the driver makes available
  Sources     \* sources of the PLIC

Blk == 2

ASSUME QueueAssumption ==
  /\ QueueNum \in Nat \ {0} /\ IdxRange \in Nat /\ IdxRange % QueueNum = 0
  /\ QueueNum < IdxRange
  /\ Heads \subseteq 0..(QueueNum - 1) /\ Heads # {}
ASSUME SourcesAssumption == Sources \subseteq 0..31 /\ Blk \in Sources
ASSUME DataAssumption == Sectors # {} /\ Values # {}

VARIABLES
  board,      \* "la" or "rv"
  req,        \* guest memory: the chain starting at each descriptor
  avail,      \* guest memory: avail ring, its idx and its slots
  used,       \* guest memory: used ring
  vq_avail_currect,
  disk,
  phase,      \* "guest" runs, the device is "serving", or "exited"
  pending,    \* PLIC: pending[0]
  enable,     \* PLIC: enable[1][0]
  line,       \* what the core sees
  last_used,  \* the driver's place in the used ring
  isr         \* the interrupt handler: "out", "entered", or "collecting"

plic == <<pending, enable, line>>
driver == <<last_used, isr>>
vars == <<board, req, avail, used, vq_avail_currect, disk, phase, plic, driver>>

Slots == 0..(QueueNum - 1)
Indices == 0..(IdxRange - 1)
Ops == {"IN", "OUT", "OTHER"}

Chain ==
  [op : Ops, sector : Sectors, val : Values, status : {"none", "sent", "ok"}, linked : BOOLEAN]

\* A chain that is not in flight.
NoChain == [op |-> "OTHER", sector |-> CHOOSE x \in Sectors : TRUE,
            val |-> CHOOSE v \in Values : TRUE, status |-> "none", linked |-> FALSE]

ASSUME RequestsAssumption == \A r \in Requests : r \in Chain /\ r.status = "sent"

SomeHead == CHOOSE h \in Heads : TRUE

Ring == [idx : Indices, ring : [Slots -> Heads]]
EmptyRing == [idx |-> 0, ring |-> [i \in Slots |-> SomeHead]]

TypeOK ==
  /\ board \in {"la", "rv"}
  /\ req \in [Heads -> Chain]
  /\ avail \in Ring /\ used \in Ring
  /\ vq_avail_currect \in Indices /\ last_used \in Indices
  /\ disk \in [Sectors -> Values]
  /\ phase \in {"guest", "serving", "exited"}
  /\ pending \subseteq Sources /\ enable \subseteq Sources
  /\ line \in BOOLEAN
  /\ isr \in {"out", "entered", "collecting"}

(* simple_virtio_blk_init and the driver's set-up of the queue.            *)
(* riscv_plic_init leaves what malloc returned.                            *)
Init ==
  /\ board \in {"la", "rv"}
  /\ req = [h \in Heads |-> NoChain]
  /\ avail = EmptyRing /\ used = EmptyRing
  /\ vq_avail_currect = 0 /\ last_used = 0
  /\ disk \in [Sectors -> Values]
  /\ phase = "guest"
  /\ pending \in SUBSET Sources /\ enable \in SUBSET Sources
  /\ board = "la" => pending = {} /\ enable = {}
  /\ line = FALSE /\ isr = "out"

-----------------------------------------------------------------------------
(* The PLIC.                                                               *)

\* riscv_plic_update
Update(p, e) == p \intersect e # {}

\* Mutant: the line is not updated.
IrqLatched(irq) ==
  /\ pending' = pending \union {irq}
  /\ UNCHANGED <<enable, line>>

\* riscv_plic_irq_request: a source is latched when raised; lowering it does nothing.
irq_request(irq) ==
  /\ pending' = pending \union {irq}
  /\ line' = Update(pending', enable)
  /\ UNCHANGED enable

\* qemu_set_irq of the device's line, as main.c wired it.
set_irq(level) ==
  \/ board = "la" /\ line' = level /\ UNCHANGED <<pending, enable>>
  \/ board = "rv" /\ level /\ irq_request(Blk)
  \/ board = "rv" /\ ~level /\ UNCHANGED plic

Least(S) == CHOOSE i \in S : \A j \in S : i <= j

-----------------------------------------------------------------------------
(* The device.                                                             *)

QUEUE_NUM_MASKED(x) == x % QueueNum

\* Mutant: the index does not wrap.
NoWrap(i) == i + 1

\* An index is a uint16_t.
Succ(i) == (i + 1) % IdxRange

\* A write of QUEUE_NOTIFY starts handle_request.
Notify ==
  /\ phase = "guest"
  /\ phase' = "serving"
  /\ UNCHANGED <<board, req, avail, used, vq_avail_currect, disk, plic, driver>>

\* blk_file_read and blk_file_write.
Transferred(r) ==
  [r EXCEPT !.status = "ok", !.val = IF r.op = "IN" THEN disk[r.sector] ELSE @]

Written(r) == IF r.op = "OUT" THEN [disk EXCEPT ![r.sector] = r.val] ELSE disk

\* Mutant: the used ring is written at the slot of the index that is published.
UsedAhead(slot, h, next) ==
  [idx |-> next, ring |-> [used.ring EXCEPT ![QUEUE_NUM_MASKED(next)] = h]]

UsedAfter(slot, h, next) == [idx |-> next, ring |-> [used.ring EXCEPT ![slot] = h]]

\* One iteration of handle_request.
Serve ==
  LET slot == QUEUE_NUM_MASKED(vq_avail_currect)
      h    == avail.ring[slot]
      next == Succ(vq_avail_currect)
  IN  /\ phase = "serving"
      /\ vq_avail_currect # avail.idx
      /\ req[h].linked
      /\ used' = UsedAfter(slot, h, next)
      /\ vq_avail_currect' = next
      /\ req' = [req EXCEPT ![h] = Transferred(@)]
      /\ disk' = Written(req[h])
      /\ UNCHANGED <<board, avail, phase, plic, driver>>

\* The chain is not three neighbours, or the image file fails: exit.  Guest memory, where
\* a request whose transfer fails is already marked as used, is gone with the emulator.
Exit ==
  LET r == req[avail.ring[QUEUE_NUM_MASKED(vq_avail_currect)]]
  IN  /\ phase = "serving"
      /\ vq_avail_currect # avail.idx
      /\ ~r.linked \/ r.op # "OTHER"
      /\ phase' = "exited"
      /\ UNCHANGED <<board, req, avail, used, vq_avail_currect, disk, plic, driver>>

\* handle_request has caught up: the interrupt is raised.
Served ==
  /\ phase = "serving"
  /\ vq_avail_currect = avail.idx
  /\ phase' = "guest"
  /\ set_irq(TRUE)
  /\ UNCHANGED <<board, req, avail, used, vq_avail_currect, disk, driver>>

-----------------------------------------------------------------------------
(* The guest: its driver, and its accesses to the PLIC.                    *)

\* The descriptors of the chain that starts at h.
Descs(h) == {QUEUE_NUM_MASKED(h + k) : k \in 0..2}

InFlight == {h \in Heads : req[h].status # "none"}

\* The driver fills a free chain and makes it available.
Submit(h, r) ==
  /\ phase = "guest"
  /\ \A g \in InFlight : Descs(g) \intersect Descs(h) = {}
  /\ req' = [req EXCEPT ![h] = r]
  /\ avail' = [idx |-> (avail.idx + 1) % IdxRange,
               ring |-> [avail.ring EXCEPT ![QUEUE_NUM_MASKED(avail.idx)] = h]]
  /\ UNCHANGED <<board, used, vq_avail_currect, disk, phase, plic, driver>>

\* LoongArch: the core takes the interrupt.
Interrupt ==
  /\ phase = "guest" /\ board = "la" /\ line /\ isr = "out"
  /\ isr' = "entered"
  /\ UNCHANGED <<board, req, avail, used, vq_avail_currect, disk, phase, plic, last_used>>

\* RISC-V: the handler reads the claim register.
Claim ==
  LET active == pending \intersect enable
      id     == IF active = {} THEN 0 ELSE Least(active)
  IN  /\ phase = "guest" /\ board = "rv" /\ isr = "out"
      /\ pending' = IF active = {} THEN pending ELSE pending \ {id}
      /\ line' = Update(pending', enable)
      /\ isr' = IF active # {} /\ id = Blk THEN "entered" ELSE "out"
      /\ UNCHANGED <<board, req, avail, used, vq_avail_currect, disk, phase, enable, last_used>>

\* The handler acknowledges: a write of INTERRUPT_ACK.
Ack ==
  /\ phase = "guest" /\ isr = "entered"
  /\ isr' = "collecting"
  /\ set_irq(FALSE)
  /\ UNCHANGED <<board, req, avail, used, vq_avail_currect, disk, phase, last_used>>

\* The handler takes one completion from the used ring and frees the chain.
Collect ==
  LET slot == QUEUE_NUM_MASKED(last_used)
  IN  /\ phase = "guest" /\ isr = "collecting" /\ used.idx # last_used
      /\ req' = [req EXCEPT ![used.ring[slot]] = NoChain]
      /\ avail' = [avail EXCEPT !.ring[slot] = SomeHead]
      /\ used' = [used EXCEPT !.ring[slot] = SomeHead]
      /\ last_used' = (last_used + 1) % IdxRange
      /\ UNCHANGED <<board, vq_avail_currect, disk, phase, plic, isr>>

\* It returns when there is no more.  The completion the PLIC is told of updates the line.
Return ==
  /\ phase = "guest" /\ isr = "collecting" /\ used.idx = last_used
  /\ isr' = "out"
  /\ line' = IF board = "rv" THEN Update(pending, enable) ELSE line
  /\ UNCHANGED <<board, req, avail, used, vq_avail_currect, disk, phase, pending, enable, last_used>>

WriteEnable(e) ==
  /\ phase = "guest" /\ board = "rv"
  /\ enable' = e
  /\ line' = Update(pending, e)
  /\ UNCHANGED <<board, req, avail, used, vq_avail_currect, disk, phase, pending, driver>>

\* riscv_plic_check_io, and the accesses that end in an update and change nothing else here:
\* reads of a threshold, writes of priorities, thresholds and the enables of other contexts.
CheckIo ==
  /\ phase = "guest" /\ board = "rv"
  /\ line' = Update(pending, enable)
  /\ UNCHANGED <<board, req, avail, used, vq_avail_currect, disk, phase, pending, enable, driver>>

\* Another device raises its source.
OtherSource(irq) ==
  /\ phase = "guest" /\ board = "rv"
  /\ irq_request(irq)
  /\ UNCHANGED <<board, req, avail, used, vq_avail_currect, disk, phase, driver>>

Next ==
  \/ Notify \/ Serve \/ Exit \/ Served
  \/ \E h \in Heads, r \in Requests : Submit(h, r)
  \/ Interrupt \/ Claim \/ Ack \/ Collect \/ Return \/ CheckIo
  \/ \E e \in SUBSET Sources : WriteEnable(e)
  \/ \E irq \in Sources \ {Blk} : OtherSource(irq)

Spec == Init /\ [][Next]_vars

-----------------------------------------------------------------------------
(* What the device promises.                                               *)

Waiting == (avail.idx - vq_avail_currect) % IdxRange
Finished == (used.idx - last_used) % IdxRange

Shown(h) == [tag |-> h, op |-> req[h].op, sector |-> req[h].sector, val |-> req[h].val,
             status |-> req[h].status]

todoBar == [i \in 1..Waiting |-> Shown(avail.ring[QUEUE_NUM_MASKED(vq_avail_currect + i - 1)])]
doneBar == [i \in 1..Finished |-> Shown(used.ring[QUEUE_NUM_MASKED(last_used + i - 1)])]

Service == INSTANCE BlkService WITH Tags <- Heads, todo <- todoBar, done <- doneBar

(* The rings implement a queue of requests: handle_request serves each     *)
(* request once, in order, with the disk as it is then, across the wrap of *)
(* the rings and of the 16-bit indices.                                    *)
Implements == Service!SSpec

(* No completion is left without an interrupt: when the handler has        *)
(* returned and the used ring holds answers, the line is up, unless the    *)
(* guest has disabled the source.  The PLIC forgets the request as the     *)
(* handler claims it, and a QUEUE_NOTIFY may come while the handler runs.  *)
Notified ==
  phase = "guest" /\ isr = "out" /\ used.idx # last_used /\ (board = "rv" => Blk \in enable) => line
=============================================================================
