# A verification project for LA_EMU

LA_EMU is an interpreter for LoongArch and RISC-V machines. One thread runs
`exec_env`: poll for interrupts, fetch, decode, execute, and come back by
`longjmp` when an instruction raises an exception. POSIX timers interrupt that
thread with signals, whose handlers set flags. Devices are called from the
load and store instructions. What is hard about it is the state that lives
between two instructions: saved contexts, translation caches, reservations,
pending flags, interrupt lines.

## Inventory

| part | state | operations | interacts with | hard behaviour | what is correct |
|---|---|---|---|---|---|
| execution loop (`main.c`) | `exception_index`, program counter | `exec_env`, `check_irq`, `has_irq` | all | signals between any two steps | an interrupt is taken between instructions, once |
| constant timer (`main.c`, `cpu.h`, `interpreter.c`) | TCFG, `timer_counter`, host timer, `timer_int` | TCFG, TICLR, the signal handler, `check_irq` | loop, ESTAT | expiry racing with reprogramming | ticks on time, not otherwise, not lost |
| exceptions (`cpu.c`, `tlb_helper.c`) | CRMD, PRMD/ERA, TLBRPRMD/TLBRERA, ESTAT, ECFG | raise, deliver, `ertn`, CSR writes, `idle` | loop, MMU | refills and interrupts nested in handlers | user code is confined; `ertn` goes back |
| MMU (`cpu_helper.c`, `tlb_helper.c`, `cpu.h`) | TLB, `tc_*` caches, page tables | search, walk, refill, `tlbwr`, `tlbfill`, `invtlb`, faults, CRMD | exceptions, guest kernel | three copies of each translation | copies allow no more than the table |
| LL/SC (`interpreter.c`) | `lladdr`, `llval*`, LLBCTL | `ll`, `sc`, `sc.q`, `ertn` | exceptions | thread switches, KLO | `sc` is atomic, and succeeds when it may |
| UART and FIFO (`serial_plus.c`, `fifo.c`) | registers, two rings, pending bits | register accesses, poll of the terminal | loop, interrupt line | ring limits, loopback, FIFO switches | the line is exact, no character lost |
| RISC-V core (`riscv64/`) | mstatus, mip, mie, delegation, `timer_int` | traps, `sret`, `mret`, CSR accesses, CLINT, the PLIC's line | loop, PLIC | delegation; a bit of mip with two owners | privilege is gained by traps only; no interrupt is lost or made up |
| RISC-V MMU (`cpu_helper.c`, `cpu.h`) | page tables, satp, MXR, software TLB | walk, fill, flush, accesses in any mode | core, guest kernel | a TLB indexed by mode, filled under one MXR or satp | a hit is what a walk would answer |
| RISC-V PMP (`pmp.c`) | registers, cached ranges, rule count | CSR writes, check, page size | core, TLB | an entry whose range another register bounds | locks hold; a cached page is uniform |
| RISC-V lr, sc and amo (`riscv64/interpreter.c`) | `load_res`, `load_val` | `lr`, `sc`, amo, stores, changes of mode | traps, guest kernel | a trap and a switch between the pair | `sc` succeeds only undisturbed, and does when undisturbed |
| RISC-V floating point (`riscv64/interpreter.c`, `fpu_helper.c`) | FS, frm, softfloat's mode and flags, one instruction cache slot | handlers, FP CSRs | guest kernel, instruction cache | lazy saving; a handler refused and then cached | FS is dirty when anything changed; each result in its own mode |
| PLIC, virtio block (`device/`) | pending and enable bits, queue indices | claim, complete, notify, reset | UART, guest driver | reset in mid-use, wrap of indices | each request is answered once |
| gdb server (`gdbserver.c`) | receive buffer, flag, breakpoints, `cpu_can_run` | SIGIO, read, packets, stop and continue | loop | bytes and signals in any order, an interrupt that meets a breakpoint | the debugger is heard; one reply per packet |
| command line | breakpoints, step count | prompt between instructions | loop | - | - |
| checkpoint | file image of the core | save, restore | core, devices | state that is not in the image | a restored run continues the saved one |
| loads and stores (`interpreter.c`) | registers, memory, device accesses | every width, scalar and vector | MMU, devices | a page boundary, a fault in mid-access | the bytes of the addresses; each device access once |
| instruction set, vectors, binary translation | registers, flags | some 2000 instructions | gvec helpers | carries, lanes, destinations that are sources | each equals its reference |
| floating point (`fpu_helper.c`, `vec_helper.c`) | FCSR, rounding mode, softfloat flags | arithmetic, exceptions in mid-vector | softfloat, exceptions | status of several lanes, a jump out of a helper | FCSR is exact; the mode is kept |
| softfloat, host utilities, gvec | - | IEEE operations, wide arithmetic, lane loops | - | rounding, digit estimates, tails | correctly rounded; exact |
| system calls (user mode), plugins, difftest | `brk` | passed to the host | - | - | `brk` stays in its range |

## Modules

`ConstTimer` - the constant timer in both of its modes. `determined` counts
instructions: `check_irq` decrements `timer_counter`, raises the interrupt on
zero and reloads or disables. In real time a one-shot host timer sends a
signal, the handler sets `timer_int`, `check_irq` tests it, clears it, raises
the interrupt and re-arms; the signal may arrive between any two of those
steps, so they are actions of their own. `WriteTcfg` and `WriteTiclr` are the
guest's register writes.

`LaExc` - the registers that decide where execution goes and with which
rights. `LoopTop` is the interrupt check of `exec_env`, `InsnRaises` and
`MmuFault` are `do_raise_exception` and `raise_mmu_exception`, `Trap` is the
delivery by `do_interrupt`, `Ertn`, `Idle` and the CSR writes are the guest's
privileged instructions. The guest is arbitrary.

`LaKernel` - `LaExc` composed with a guest kernel that saves and restores ERA
and PRMD as kernels do. Only the discipline of the handlers is added (marked
external in the map); the core's actions are those of `LaExc`.

`LaMmu` (instance `MCLaMmu`) - page tables, TLB, hardware walker and the
`tc_*` caches, with and without the walker and its write-back of V and D.
Accesses, faults, refills, changes of mode and of address space, and the
kernel's maintenance are actions. `mode` stands for PLV, DA and PG: the core
starts at direct addresses, and exceptions, `ertn` and `csrwr` of CRMD
(`WriteCrmd`) change it. The kernel keeps the architecture's rule:
after taking a right away it executes `invtlb`; until then the entry is
`stale` and nothing is promised of it. Apart from the entry of the refill handler
(run `mmu_refill`), `csrwr` of CRMD is the one change of mode
that leaves the `tc_*` caches filled, and a cache answers before the mode is looked
at: a kernel that switches paging on or off, or drops to PLV 3, by `csrwr` goes on
with the translations cached before, until something else clears the caches. The
history variable `crmd_written` marks that time. During it `TcCoherent` still says
that a cached translation is the page table's, but not that it fits the mode.

`LlSc` - the reservation of `ll`, the three store conditionals, LLBCTL and the
part of `helper_ertn` that ends a reservation. A history follows one chosen
thread or handler.

`Fifo8` - the ring buffer of `fifo.c` as operators, with its abstract value,
the sequence `Contents`.

`Uart` - the 16550A. Handlers are functions from a state to a state, composed
as the code composes its calls; `serial_xmit` and `serial_check_io` are loops,
one action per iteration, during which the guest does not run. `expect` is the
abstract queue of what was received and not read.

`BlkService` - what a guest is promised of its disk: a queue of requests, each
served once, in order, on the disk as it is then.

`VirtioBlk` (instance `MCVirtioBlk`) - the virtio block device with its driver,
on either machine. `Notify`, `Serve` and `Served` are a write of QUEUE_NOTIFY:
its start, an iteration of `handle_request`, and the interrupt at its end; `Exit`
is an exit on a malformed chain or a failing file. `Ack` is INTERRUPT_ACK. On
LoongArch the device drives a line of the core; on RISC-V `irq_request`, `Claim`,
`Return` (the completion), `WriteEnable` and `CheckIo` are the PLIC's. The driver
(`Submit`, `Interrupt`, `Collect`; external) fills free chains and, in its
handler, acknowledges first and then collects. `Implements` maps the slots between
the indices of the two rings to the two queues of `BlkService`.

`RvCore` - the privileged RISC-V core. A turn of the loop is `Poll` (`check_irq`,
`has_irq`, `riscv_cpu_exec_interrupt`) and then `Insn`, one instruction: a trap,
`sret`, `mret`, a CSR access as a value and a mask, a write of the CLINT's
mtimecmp, or one that leaves this state alone. `trans_wfi` polls, `SetIrq` is the
PLIC's line, `Deadline` the passing of time and `HostTimer` the signal.

`RvMmu` - the page walk of `get_physical_address` with its updates of A and D, the
software TLB of `trans_pa`, one table per MMU index, and what flushes it. The
mode is an input of each access, because no change of mode touches the TLB. The
guest stores to page tables; until its `sfence.vma` the entries it rewrote are
`stale` and nothing is promised of them.

`RvPmp` - the PMP registers under their locks, the ranges cached for each entry,
the permission check and `pmp_get_tlb_size`. Addresses wrap at `PmpWidth` bits.

`Gdb` - the gdb server. `Arrive` and `io_handler` bring bytes and the signal;
`TestMessage`, `ReadMessage`, the three `Handle*` actions (nothing to act on, an
exit, a packet) and the two returns of `exec_env` are `gdbserver_loop`, with the
signal between any two of them. The debugger (external) waits for the reply to
a packet before the next one, and sends an interrupt while it believes the core
runs.

`LaAccess` - loads and stores over two pages, each mapped to memory, to a device or
to nothing: `ld` and `st` byte by byte in the code's order, the wide forms, the
ones that go by doublewords, with the registers and the device accesses they
leave behind. The accesses of `riscv64/interpreter.c` are the same code up to a
doubleword and are instructions of their own (`lx`, `lxu`, `sx`).

`RvInt` - the integer instructions of the RISC-V interpreter as functions, on the
widths of `LaInt`. A division the host traps on, or a shift C leaves undefined, is
`UNDEFINED`.

`RvAtomic` - `lr`, `sc` and the amo instructions of several threads and a kernel
on one doubleword of two words: `set_mode` is the part of `riscv_cpu_set_mode` that
ends the reservation, `RvTrap` and `RvReturn` are its callers; `RvSwitch` and
`RvRemap` (external) are the kernel choosing a thread and changing the page. The
history follows one chosen thread, or the kernel.

`RvFp` - the floating-point handlers by what they do to mstatus.FS, frm, the mode and
flags of softfloat and the registers; `FpStep` is fetch, `interpreter` and `exec_env`
with one slot of the instruction cache, which is filled before the handler is called
and whose hits ignore what it returns. `KernelFs` (external) is the guest kernel
saving or restoring the registers and writing FS. The boxing of words and the
instructions that copy signs are functions, checked on every operand.

`LaFpu` - FCSR, softfloat's status and the destination over one floating-point
instruction at a time: scalar and vector operations that update the cause
element by element and may raise at any of them, the ones that set the rounding mode for themselves,
and the moves to FCSR.

`LaVec` - the LSX and LASX instructions on a register file of three registers, as
loops that write their destination (`For`) or a copy of it (`Temp`). `Gvec` - the
helpers of `tcg-runtime-gvec.c` with their descriptor, on overlapping vectors.

`Words`, `VecElem`, `LaInt`, `LaBt`, `HostUtils` - functions: C integers of any width,
the element operations of the vector unit, the integer instructions, the x86
flags of binary translation, double-width arithmetic. `Float` and `FloatOps` -
softfloat with its hardware shortcuts. `VecRef`, `Ieee`, `FloatRef` - what they
are compared with: exact arithmetic on integers and the correctly rounded value.

`MCUnits` - the instance of all of these. A behaviour is about one `unit`; the
others stay at their initial state. The functions are units whose state is the
operand: `PickFirst` and `PickRest` enumerate all of them.

`*Proofs` - the theorems about the module they are named after (`RvProofs`: `RvCore`
and `RvPmp`).

## Runs

| run | what it checks |
|---|---|
| `timer` | determined: the deadline is exact, and there is no tick without it; real time: an enabled timer has its next tick under way unless a write of TICLR erased a noted expiry; a tick arrives, with the same exception |
| `timer_periodic` | violated: TICLR clears `timer_int`, and with it the only thing that would re-arm a periodic timer |
| `exc` | code at PLV 3 changes nothing privileged except by entering a handler with its own context saved |
| `exc_named` | violated: `EXCCODE_BTD` has no name, and the log asserts one |
| `kernel` | saved contexts are where the handlers expect them; each `ertn` returns to what was interrupted |
| `mmu` | no double hit; caches coherent with tables and, until a write of CRMD, with the mode; dirty pages recorded; a fault heals |
| `mmu_refill` | violated: the refill handler's first fetch can use a stale `tc_fetch` |
| `llsc` | `sc` is atomic; `sc` is honoured |
| `uart` | the line is exact; characters in order and none lost; DR exact; assertions of `serial_xmit`; THRI not missed |
| `uart_timeout` | violated: characters left after a read below the trigger level are not signalled |
| `blk` | the rings implement `BlkService`; no completion without an interrupt |
| `units` | RISC-V: `RvPending`, `RvGuard` (privilege), `RvTlbExact`, `RvPmpPage`, `RvPmpLocked`, `RvScExact`, `RvFpExact`; gdb: `GdbHears`; memory: `AccessExact`; floating point: `FcsrExact`, `ModeKept`; vectors: `VecAliasFree`, `VecLaneWise`, `GvecExact`; arithmetic: `ElemExact`, `IntExact`, `BtExact`, `WideExact`, `FloatExact` |

What the properties of `units` say. `RvPending`: SEIP is pending exactly while the
PLIC's line or machine mode holds it up, and a deadline that has passed is pending,
noted, or still owed by the host timer. `RvGuard`: a step that gains privilege saved
the old one and closed the new one's interrupts; a step below machine mode leaves
all that machine mode owns alone; the poll never interrupts a masked level.
`RvTlbExact`: every hit is what a walk would answer now, with A and D already
recorded. `RvPmpPage`: a page cached whole has the same permissions in every byte.
`RvPmpLocked`: a locked entry keeps range and permissions. `RvScExact`: an `sc`
succeeds only where its own thread, or its own run of the kernel, placed the reservation
and nobody else has stored there since, whatever the values; and one that follows its
`lr` undisturbed succeeds. `RvFpExact`: a kernel that saves the floating-point state only
when FS is dirty loses nothing; an arithmetic result is rounded in its own instruction's mode;
an instruction that traps, is refused or is passed over has changed nothing. `GdbHears`: the server
exits only when killed, bytes that have arrived are announced to the loop, the core
never runs while the buffer holds something to act on, a debugger that waits has an
answer coming, and between requests both sides agree on the breakpoints.
`AccessExact`: a load or store of RAM that succeeds, at once or after a fault,
moved exactly its bytes; a fault leaves a general register untouched and a vector with
whole bytes in their final places; a device sees an access once (the
indexed LASX forms excepted, see below). `FcsrExact`: cause, accrued flags and the
destination are those of the elements executed, also when one in the middle raises.
`ModeKept`: the rounding mode changes by a write of FCSR only, or when a vector
conversion with a mode of its own traps, whose mode then stays. `VecAliasFree`: the result is
the same when the destination is also a source. `VecLaneWise`: a LASX instruction
does in each lane what its LSX form does. `GvecExact`: a helper equals its
element function below the operation size and zeroes the tail. The `*Exact`
properties of arithmetic compare the code with exact integers or with IEEE 754, and
`IntExact` also the two instruction sets with each other where both define an operation.

### Bounds

`ConstTimer`: three tick values, zero included, in units of TIME_SCALE; the
counter's INT64_MAX is any number above them. `LaExc`: one device line, two
exceptions (one plain, one refill), both vector modes; the code addresses only
tell places apart. `LaKernel`: three nested handlers, which is one more than the
pair refill-in-general, so that an interrupt nests in between. `LaMmu`: a user
page and a kernel page, two spaces, two ways, three forms of page table entry at
each place (absent, dirty, and read-only for the user or not yet marked for the kernel),
at most one stale entry (all four forms at every place, 5.4 million states, pass as
well, but take 12 minutes); spaces and slots are
interchangeable, and nothing in `LaMmu` chooses among them. `LlSc`: two threads
and both handlers, two quads, two values. `Uart`: a ring of three, so that it
wraps, fills, and can hold more than a lowered trigger level without being full;
two characters, so that order shows; the guest sends one character, since the
transmit ring never holds two. `uart_timeout` leaves loopback out and has one
trigger level. `VirtioBlk`: eight descriptors and indices modulo sixteen, so that
the indices wrap after the slots do; chains at descriptors 1 and 6, the second of
which wraps round the table; one sector with two values; reads, writes, an unknown
request and a malformed chain; the device's source of the PLIC and one that is
claimed before it. The proofs hold for all values of these constants.

`RvCore`: two status words (one with the reserved MPP and the traps of `sret` and
satp, one that returns to S with interrupts), one set of interrupts from each level,
written, set and cleared, and a set of causes with a delegable and a fixed one;
real time (`Determined` is covered by the proofs). `RvMmu`: two levels of one bit,
two tables, a TLB of one entry per index so that pages evict each other, leaves that
are executable, user, dirty, misaligned and reserved, three pages and four modes, in
two groups that share the indices which matter. `RvPmp`: three entries, two per
pmpcfg, pages of eight bytes in sixteen, so that ranges cut, cover and wrap. `Gdb`:
two breakpoint slots and two addresses, so that a duplicate fills the table; a
receive buffer of ten bytes, one more than a waiting debugger can fill, for the 64
KiB of the code. `RvAtomic`: two threads, accesses of one and of two words, words of one
bit, so that every value is soon changed and changed back; a page that is writable,
read-only or absent. `RvFp`: an instruction of each kind, with a mode of its own, the
dynamic and a reserved one; two values of frm, one reserved; one flag for the five. `LaAccess`: pages of sixteen bytes, every offset near the
boundary. `LaVec`: lanes of four bytes of four bits, two patterns of contents in
which all bytes differ. Arithmetic: every operand of four-bit elements, two-bit
digits, eight-bit registers against the corners of the other operand, and formats
with up to four exponent and two fraction bits; a fraction word of six bits leaves
room for the guard and sticky bits.

Deadlock is not checked where the program may stop: `LaExc` (idle with
interrupts off exits, an unnamed exception aborts), `Uart` (end of file on the
terminal aborts) and `VirtioBlk` (`Exit`).

### Fairness

`ConstTimer`: weak fairness of the loop's own steps (it never blocks), of the
host timer (an armed timer expires) and of signal delivery. `Uart`: weak
fairness of the loops in `serial_xmit` and `serial_check_io`, of `check_irq`,
and of the periodic serial timer. Nothing is assumed of the guest or of the
terminal.

## Proofs

The theorems have the form `Spec => []Inv`, `Spec => [][A]_vars` or, for the
block device, `Spec => Implements`, and hold for every value of the constants
that satisfies the named assumptions, which the runs evaluate.

- `ConstTimerProofs`: `ExactDeadline` and `NoSilentLoss` are inductive once it
  is known that a disabled counter never stands at zero (`Parked`) and that a
  determined check is one step (`OneStep`).
- `LaExcProofs`: `UserConfined` is an action property; its proof needs the types
  and that a pending interrupt has a highest line.
- `LaKernelProofs`: `Balanced` is itself the inductive invariant: it says, for
  each nested handler and stage, whether ERA and PRMD or memory hold the context.
  `RoundTrip` follows from it.
- `LaMmuProofs`: the properties speak of the caches; the invariant says the same
  of every TLB entry (`TlbOK`: it allows no more than the table), because caches
  are filled from entries. `TcOK` says of every cached page what it may be in each
  mode, before and after a write of CRMD. `HealOK` says of a page whose fault was taken that any
  entry for it serves what the table allows.
- `LlScProofs`: the reservation in the core belongs to whoever can use it next
  (`Owned`), and an intact one agrees with memory (`InCore`).
- `UartProofs`: the types are only proved, not a run's property. First, that the ring is a bounded queue (`PushAppends`,
  `PopTakesHead`, `ResetEmpties`: the index arithmetic wraps at most once). Then
  each handler, as a function of the state, keeps two relations: the line is
  exact, and the receiver holds the abstract queue. The invariant `Sound` adds
  what the transmitter's phase implies, and that with the FIFOs off both rings
  are empty, without which switching them on would resurrect old characters.
- `VirtioBlkProofs`: the types, too, are only proved. The invariant `Rings` says that from the driver's place on,
  the rings hold `f` finished and then `w` waiting requests (`Flight`), their
  chains all different, and that `f + w` is at most the size of the queue (`Room`,
  by the pigeonhole principle: chains in flight start at different descriptors).
  Lemmas about index arithmetic show that a slot found from a wrapped index is the
  right one, because the size of the queue divides the range of the indices, and
  that the distance of two indices counts what is between them. `FlightSubmit`,
  `FlightServe` and `FlightCollect` then give, for each of the three steps, the new
  `Flight` and what it does to the two mapped queues, from which both the invariant
  and the refinement follow. `Raised` strengthens `Notified`: the PLIC's request
  stands until the handler has been entered.
- `RvProofs`: `RvPending` and the type of the state are inductive together with
  `Armed`: in real time, a deadline that is ahead has a host timer armed for it.
  `RvGuard` is then an action property with one step per kind of instruction. For the
  PMP, the cached range and the count of every entry follow the registers
  (`RvPmpCached`) because a write updates the entry and, for TOR, its neighbour; that
  a locked entry never moves (`RvPmpLocked`) follows from it, for any number of
  entries, width and configuration.

### Only model-checked

The liveness properties (`TickArrives` of `ConstTimer`, `DataSignalled` of
`Uart`) are checked by TLC: the prover has no ENABLED and no fairness. `RvTlbExact`,
the part of `RvPmpPage` about pages, `RvScExact`, `RvFpExact`, `GdbHears`, `AccessExact`, `FcsrExact`,
`ModeKept` and the comparisons of arithmetic with a reference are checked on their instances:
the functions are recursive or work on bits, which is out of the prover's reach. The
violated properties are shown by their traces.

## What the models leave out

- `ConstTimer`: in real time an expiry the host has already signalled is taken after
  TCFG was rewritten or disabled. The model does the same; `NoSpuriousTick` is
  about determined mode only.
- `LaExc`: `ertn` also clears LLBCTL; that part is in `LlSc`. Logging is left out
  except for the assertion that `exc_named` is about.
- `LaMmu`: one page size and no second set of ways of another size, so no huge
  pages; an entry is an even/odd pair, and G is the same in both halves; NR, NX, RPLV and the direct-mapped windows are left out. Fetches and
  loads are both reads. `prev_pc_vpage` is folded into the fetch cache, whose hit
  it shortens. The kernel writes ASID and PGDL together. Code at PLV 3 runs paged,
  never at direct addresses.
- `LlSc`: a reservation made by `ll.w` is not used by `sc.d`. The guest's kernel
  is assumed to save no reservation.
- `Uart`: the modem lines are constant after reset, the divisor and the scratch
  register hold data only, and the FIFO bits of IIR repeat FCR. `malloc` leaves
  FCR and the trigger level undefined; both are chosen freely in `Init`.
  Restoring a checkpoint is not modelled.
- `VirtioBlk`: the queue is set up once, its size a power of two (the mask of
  QUEUE_NUM_MASKED is then a remainder), and a request is a header, one piece of
  data and a status. A free chain and a slot not in use hold a fixed value, since
  they are written before they are read again. The PLIC has one context;
  priorities, thresholds and `claimed` are stored and never used by the code. Its
  state comes from `malloc`, so `Init` chooses it freely.
- `RvCore`: the hypervisor and AIA state is absent (the CPUs built here have neither).
  `priv_ver` is 0, so `mret` and `sret` leave MPRV. A write of mtimecmp does
  not cancel an expiry already noted, so that a reprogrammed timer may still raise MTIP
  once; `RvPending` asks only that no deadline is lost. The multiplication that turns ticks
  into a host interval (`cpu.c:381`) can wrap for deadlines centuries away and is not modelled.
- `RvMmu`: small pages and one kind of superpage; satp holds a mode that
  the walk supports (the code accepts a reserved one and then asserts). The check named
  `get_physical_address_pmp` always grants, so the walk does not depend on the PMP.
- `RvPmp`: a check of one byte; the accesses of several bytes are not split. A page only
  partly covered gets a TLB size of 1, which `tlb_set_page` asserts against; the model
  ends at the size.
- `Gdb`: a debugger that waits for its reply and sends right checksums. With two packets in
  one read, the second longer than the first, the code moves too few bytes to the front;
  a read of memory that faults is answered twice; bytes left behind a `c` wait for the
  next signal. The model's debugger meets none of the three: it never pipelines and
  reads mapped memory. To continue at an address of one digit, the code goes on at the
  current one; a longer address it refuses. A free slot is address 0, which is not a breakpoint.
- `LaAccess`: the indexed LASX forms go by doublewords without looking at the second
  page first, so a device in the first page sees its accesses again after
  the fault; `vld` and `vst` assert that they do not meet a device. The property names both.
- `RvInt`: the code is followed where it departs from the manual. `rem`, `divu`, `remu` and
  the word forms test neither for a zero divisor nor for the overflow, as `div` does, and the
  host traps; the seven bits of shamt of `slli`, `srli` and `srai` are not tested; `jalr` keeps
  bit 0 of its target. The compressed forms are decoded to these.
- `RvAtomic`: after reset `load_res` is 0, where no RAM is, and -1 stands for no
  reservation; an `sc` to either address before an `lr` is not modelled. Unaligned
  addresses are not.
- `RvFp`: `fcvt.s.d`, `fcvt.s.lu`, `fcvt.s.w` and `fcvt.s.wu` do not set their mode and round in
  the one left over, and `fcvt.s.d` converts the integer register of that number; the
  property excepts them. `fsgnj.s` does not look at the box. With FS off an instruction does not
  raise: it is logged and tried again, and the second attempt, a hit, passes over it; a
  word no pattern matches is tried for ever. An empty slot holds the word 0 and no
  handler, so the word 0, which is no instruction, is outside the model. The handlers of
  fsqrt, fmax, fclass, fmadd.s and others end the emulator.
- `LaVec`, `LaInt`, `LaBt`: the code is followed where it departs from the manual: `adc` and
  `sbc` compute OF from the new carry, `rcr.d` rotates through 32 bits, `x86loope` and
  `x86loopne` lose their answer when rd is rj, `alsl.wu` adds 32 bits.
- `Float`, `FloatOps`: three formats; the detail of an invalid flag, flush to zero, rebiasing,
  default NaNs, tininess before rounding, rounding to odd and the x87 format, which neither
  target selects, are left out.

## Not modelled

- Checkpoints: files of register and memory contents. Restoring does not arm the host
  timer or set softfloat's mode from FCSR; a model would need the composition of all
  the devices.
- A device reset: `vq_avail_currect` of the block device keeps its value over a write of 0 to
  the status register, so that a second driver must start where the first one ended. The
  model's driver sets the queue up once.
- The command line of the debugger, the simple UART, the table of MMIO ranges, system
  calls of user mode, `brk` and difftest: input and output, or one store each.
- The decoders: generated tables. The cached arguments are a function of the instruction word,
  which a hit compares; that a hit ignores the handler's refusal is in `RvFp`.
- The hypervisor and AIA CSRs, which no CPU built here has, and the counter CSRs and CRC:
  definitions that a model would only repeat. The RISC-V vector, bit manipulation and cryptography handlers
  end the emulator.
- softfloat's quad and x87 formats: the same code at a width that enumeration does not reach.
- Option parsing, ELF loading, plugins: input and output.

## Plan

1. A checkpoint taken and restored between any two steps of the timer and the UART.
2. A device reset and a second driver of the block device.
3. The RISC-V core composed with its MMU, so that traps of a walk meet delegation.
