------------------------------ MODULE LaAccess ------------------------------
(***************************************************************************)
(* Loads and stores of the LoongArch interpreter (ld_b .. ld_256, st_b ..  *)
(* st_256 and the instructions that call them), and of the RISC-V one      *)
(* (ld_b .. ld_d, st_b .. st_d, lb .. sd), across a page boundary:         *)
(* which bytes and registers an access that faults half way has changed    *)
(* already, and what the instruction does when it is run again after the   *)
(* handler has mapped the page.                                            *)
(*                                                                         *)
(* A byte is a token: <<"m", f, o>> was in frame f at offset o when the    *)
(* instruction was first tried, <<"r", i>> is byte i of its register.      *)
(* Translation is the map from virtual pages to frames (see LaMmu).        *)
(***************************************************************************)
EXTENDS Integers, Sequences, SequencesExt, TLC

CONSTANTS
    DW,              \* bytes in a doubleword (8)
    PG,              \* bytes in a page
    Frames           \* frames of RAM

ASSUME AccessAssumption == DW \in Nat \ {0} /\ PG \in Nat /\ PG >= 4 * DW

VARIABLES
    amap,            \* virtual page -> frame, "io" or "none"
    amem,            \* frame -> offset -> byte
    areg,            \* the destination register, 4 * DW bytes
    aio,             \* accesses that reached a device
    ains,            \* the instruction
    aout             \* "ready", "ok", "fault" or "abort"

accVars == <<amap, amem, areg, aio, ains, aout>>

VPages == {0, 1}
Offs == 0 .. PG - 1
OldByte(f, o) == <<"m", f, o>>
Data(i) == <<"r", i>>
Old(i) == <<"d", i>>                     \* what the destination held

(* The state an access works on; a fault leaves it by longjmp *)
Ok(s) == s.out = "ok"
Frame(s, va) == s.map[va \div PG]
Faults(s, va) == Frame(s, va) = "none"
IsIo(s, va) == Frame(s, va) = "io"
Fault(s) == [s EXCEPT !.out = "fault"]
Abort(s) == [s EXCEPT !.out = "abort"]
is_one_page(va, n) == va \div PG = (va + n - 1) \div PG
do_io(s, va, n) == [s EXCEPT !.io = Append(@, <<va % PG, n>>)]

(* Bytes data(from) .. of the register to n bytes from va on, in one page *)
ram_st(s, va, n, from) ==
    [s EXCEPT !.mem[Frame(s, va)] =
        [o \in Offs |-> IF o \in (va % PG) .. ((va % PG) + n - 1) THEN Data(from + o - (va % PG)) ELSE @[o]]]
st_b(s, va, from) ==
    IF ~Ok(s) THEN s
    ELSE IF Faults(s, va) THEN Fault(s)
    ELSE IF IsIo(s, va) THEN do_io(s, va, 1)
    ELSE ram_st(s, va, 1, from)
(* st_h, st_w, st_d: across a page, byte by byte from the last one down *)
\* Mutant: the bytes are stored from the first one up.
StoreUpwards(s, va, n, from) ==
    IF ~Ok(s) THEN s
    ELSE IF Faults(s, va) THEN Fault(s)
    ELSE IF IsIo(s, va) THEN do_io(s, va, n)
    ELSE IF is_one_page(va, n) THEN ram_st(s, va, n, from)
    ELSE FoldLeft(LAMBDA t, i : st_b(t, va + i, from + i), s, [k \in 1 .. n |-> k - 1])
st(s, va, n, from) ==
    IF ~Ok(s) THEN s
    ELSE IF Faults(s, va) THEN Fault(s)
    ELSE IF IsIo(s, va) THEN do_io(s, va, n)
    ELSE IF is_one_page(va, n) THEN ram_st(s, va, n, from)
    ELSE FoldLeft(LAMBDA t, i : st_b(t, va + i, from + i), s, [k \in 1 .. n |-> n - k])
StoreDoublewords(s, va, k) ==
    FoldLeft(LAMBDA t, i : st(t, va + i * DW, DW, i * DW), s, [j \in 1 .. k |-> j - 1])
(* st_128, st_256 *)
st_wide(s, va, k) ==
    IF Faults(s, va) THEN Fault(s)
    ELSE IF IsIo(s, va) THEN Abort(s)
    ELSE IF is_one_page(va, k * DW) THEN ram_st(s, va, k * DW, 0)
    ELSE StoreDoublewords(s, va, k)

(* A load of n bytes: their tokens, as a function from 0 .. n - 1 *)
ram_ld(s, va, n) == [i \in 0 .. n - 1 |-> s.mem[Frame(s, va)][(va % PG) + i]]
IoBytes(va, n) == [i \in 0 .. n - 1 |-> <<"io", (va % PG) + i>>]
ld_b(s, va, i) ==
    IF ~Ok(s) THEN s
    ELSE IF Faults(s, va) THEN Fault(s)
    ELSE IF IsIo(s, va) THEN [do_io(s, va, 1) EXCEPT !.val[i] = <<"io", va % PG>>]
    ELSE [s EXCEPT !.val[i] = ram_ld(s, va, 1)[0]]
ld(s, va, n) ==
    IF ~Ok(s) THEN s
    ELSE IF Faults(s, va) THEN Fault(s)
    ELSE IF IsIo(s, va) THEN [do_io(s, va, n) EXCEPT !.val = IoBytes(va, n)]
    ELSE IF is_one_page(va, n) THEN [s EXCEPT !.val = ram_ld(s, va, n)]
    ELSE FoldLeft(LAMBDA t, i : ld_b(t, va + i, i), [s EXCEPT !.val = [i \in 0 .. n - 1 |-> <<"d", 0>>]],
                  [k \in 1 .. n |-> n - k])
(* The value reaches the register only after the whole load *)
Into(s, at) == IF ~Ok(s) THEN s
               ELSE [s EXCEPT !.reg = [i \in DOMAIN @ |-> IF i - at \in DOMAIN s.val THEN s.val[i - at] ELSE @[i]]]
(* A general or floating-point register gets the value extended: every     *)
(* byte above it repeats the sign of the last one, or is zero.             *)
Extended(s, n, u) ==
    IF ~Ok(s) THEN s
    ELSE [s EXCEPT !.reg = [i \in DOMAIN @ |-> IF i < n THEN s.val[i] ELSE IF i >= DW THEN @[i]
                                               ELSE IF u THEN <<"zero">> ELSE <<"sign", s.val[n - 1]>>]]
(* ld_128, ld_256: straight into the vector register, a doubleword a time *)
LoadDoublewords(s, va, k) ==
    FoldLeft(LAMBDA t, i : Into(ld(t, va + i * DW, DW), i * DW), s, [j \in 1 .. k |-> j - 1])
ld_wide(s, va, k) ==
    IF Faults(s, va) THEN Fault(s)
    ELSE IF IsIo(s, va) THEN Abort(s)
    ELSE IF is_one_page(va, k * DW) THEN Into([s EXCEPT !.val = ram_ld(s, va, k * DW)], 0)
    ELSE LoadDoublewords(s, va, k)
(* riscv64/interpreter.c has the accesses up to a doubleword in the same   *)
(* words; its lb .. ld extend the value in a general register, too.        *)
RvLd(s, va, n) == ld(s, va, n)
RvSt(s, va, n, from) == st(s, va, n, from)
RvLoad(s, va, n, u) == Extended(RvLd(s, va, n), n, u)
(* vldrepl, xvldrepl: one element in every place *)
Replicate(s, n, k) == IF ~Ok(s) THEN s
                      ELSE [s EXCEPT !.reg = [i \in DOMAIN @ |-> IF i < k * DW THEN s.val[i % n] ELSE @[i]]]

----------------------------------------------------------------------------
(* The instructions.  n is the size of a scalar access, k the doublewords  *)
(* of a vector.                                                            *)
RvOps == {"lx", "lxu", "sx"}
ScalarOp(op) == op \in {"ld", "ldu", "st", "ldrepl", "xldrepl"} \cup RvOps
Insns == [op : {"ld", "st", "ldrepl", "xldrepl", "lx", "sx"}, n : {1, 2, DW}, va : Offs]
         \cup [op : {"ldu", "lxu"}, n : {1, 2}, va : Offs]
         \cup [op : {"vld", "vst", "vldx", "vstx"}, n : {2}, va : Offs]
         \cup [op : {"xvld", "xvst", "xvldx", "xvstx"}, n : {4}, va : Offs]
BytesOfInsn(ins) == IF ScalarOp(ins.op) THEN ins.n ELSE ins.n * DW
IsStore(ins) == ins.op \in {"st", "sx", "vst", "vstx", "xvst", "xvstx"}

(* The indexed forms of LSX assert that the first byte is not I/O; those   *)
(* of LASX do not.                                                         *)
NotIo(s, va) == IF Faults(s, va) THEN Fault(s) ELSE IF IsIo(s, va) THEN Abort(s) ELSE s
Perform(s, ins) ==
    CASE ins.op = "st" -> st(s, ins.va, ins.n, 0)
      [] ins.op \in {"ld", "ldu"} -> Extended(ld(s, ins.va, ins.n), ins.n, ins.op = "ldu")
      [] ins.op = "sx" -> RvSt(s, ins.va, ins.n, 0)
      [] ins.op \in {"lx", "lxu"} -> RvLoad(s, ins.va, ins.n, ins.op = "lxu")
      [] ins.op \in {"ldrepl", "xldrepl"} ->
            Replicate(ld(s, ins.va, ins.n), ins.n, IF ins.op = "ldrepl" THEN 2 ELSE 4)
      [] ins.op \in {"vst", "xvst"} -> st_wide(s, ins.va, ins.n)
      [] ins.op \in {"vld", "xvld"} -> ld_wide(s, ins.va, ins.n)
      [] ins.op = "vstx" -> StoreDoublewords(NotIo(s, ins.va), ins.va, ins.n)
      [] ins.op = "vldx" -> LoadDoublewords(NotIo(s, ins.va), ins.va, ins.n)
      [] ins.op = "xvstx" -> StoreDoublewords(s, ins.va, ins.n)
      [] ins.op = "xvldx" -> LoadDoublewords(s, ins.va, ins.n)

FreshMem == [f \in Frames |-> [o \in Offs |-> OldByte(f, o)]]
FreshReg == [i \in 0 .. 4 * DW - 1 |-> Old(i)]
NoAccess == [op |-> "none", n |-> 0, va |-> 0]
AccInit ==
    /\ amap \in [VPages -> Frames \cup {"io", "none"}]
    /\ amem = FreshMem /\ areg = FreshReg /\ aio = <<>> /\ ains = NoAccess /\ aout = "ready"

Attempt(ins) ==
    LET s == [map |-> amap, mem |-> amem, reg |-> areg, io |-> aio, val |-> <<>>, out |-> "ok"]
        t == Perform(s, ins)
    IN  /\ amem' = t.mem /\ areg' = t.reg /\ aio' = t.io /\ aout' = t.out
        /\ ains' = ins /\ UNCHANGED amap
Access == aout = "ready" /\ \E ins \in Insns : Attempt(ins)
(* The handler maps the page that faulted and returns to the instruction *)
MapAndRetry ==
    /\ aout = "fault"
    /\ \E p \in VPages, f \in Frames \cup {"io"} :
          /\ amap[p] = "none"
          /\ p = IF amap[0] = "none" THEN 0 ELSE 1
          /\ amap' = [amap EXCEPT ![p] = f]
    /\ aout' = "retry" /\ UNCHANGED <<amem, areg, aio, ains>>
Retry == aout = "retry" /\ Attempt(ains)
NextAccess ==
    /\ aout \in {"ok", "abort"}
    /\ amem' = FreshMem /\ areg' = FreshReg /\ aio' = <<>> /\ ains' = NoAccess /\ aout' = "ready"
    /\ UNCHANGED amap
AccNext == Access \/ MapAndRetry \/ Retry \/ NextAccess
----------------------------------------------------------------------------
Size == BytesOfInsn(ains)
Where(i) == <<amap[(ains.va + i) \div PG], (ains.va + i) % PG>>
Device == \E i \in 0 .. Size - 1 : Where(i)[1] = "io"
Unchecked == ains.op \in {"xvldx", "xvstx"}
Stored == [f \in Frames |-> [o \in Offs |->
              IF \E i \in 0 .. Size - 1 : Where(i) = <<f, o>>
              THEN Data(CHOOSE i \in 0 .. Size - 1 : Where(i) = <<f, o>>) ELSE OldByte(f, o)]]
Byte(i) == OldByte(Where(i)[1], Where(i)[2])
Loaded == [i \in DOMAIN FreshReg |->
              IF ains.op \in {"ldrepl", "xldrepl"} /\ i < (IF ains.op = "ldrepl" THEN 2 ELSE 4) * DW THEN Byte(i % Size)
              ELSE IF ains.op \notin {"ldrepl", "xldrepl"} /\ i < Size THEN Byte(i)
              ELSE IF ains.op \in {"ld", "ldu", "lx", "lxu"} /\ i < DW
                   THEN (IF ains.op \in {"ldu", "lxu"} THEN <<"zero">> ELSE <<"sign", Byte(Size - 1)>>)
              ELSE Old(i)]

(* A load or store of RAM gives exactly the bytes of its addresses, also   *)
(* when it crosses into a page that another frame holds or that had to be  *)
(* mapped first: what a faulting attempt left behind (nothing at all for a *)
(* general register or a store of up to a doubleword, whole bytes in their *)
(* final places for a vector) is overwritten by the second one.  A device  *)
(* sees no access before the fault and none twice, except from the indexed *)
(* LASX forms, which do not look at the page before the first doubleword.  *)
AccessExact ==
    /\ aout = "ok" /\ ~Device =>
          /\ amem = IF IsStore(ains) THEN Stored ELSE FreshMem
          /\ areg = IF IsStore(ains) THEN FreshReg ELSE Loaded
    /\ aout = "fault" =>
          /\ ScalarOp(ains.op) => amem = FreshMem /\ areg = FreshReg
          /\ \A f \in Frames, o \in Offs : amem[f][o] = OldByte(f, o)
                \/ \E i \in 0 .. Size - 1 : Where(i) = <<f, o>> /\ amem[f][o] = Data(i)
          /\ ~Unchecked => aio = <<>>
    /\ aout = "ok" /\ ~Unchecked =>
          \A i, j \in DOMAIN aio : aio[i][1] = aio[j][1] => i = j
=============================================================================
