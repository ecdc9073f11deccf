------------------------------- MODULE RvMmu -------------------------------
(***************************************************************************)
(* Address translation of the RISC-V core: the page table walk with its    *)
(* updates of the accessed and dirty bits, the software TLB that caches    *)
(* its results per MMU index, and what flushes that TLB. Addresses are page*)
(* numbers; a table has 2 ^ PtBits entries. The privilege is an input of each*)
(* access, since no change of it touches the TLB (riscv_cpu_set_mode).     *)
(* PMP rules cover whole pages (see RvPmp for the rest).                   *)
(***************************************************************************)
EXTENDS Integers, Sequences, SequencesExt

CONSTANTS
    Levels, PtBits,    \* depth of the tables, log of their entries
    XBits,           \* bits of a virtual page number, sign extension included
    TC_NUM,          \* entries of the software TLB per MMU index
    Tables,          \* physical pages that hold page tables
    Writable,        \* the table entries the guest stores to
    PteVals,         \* what it stores there
    Satps,           \* the values it gives satp
    RvModes,           \* the modes accesses are made in
    Vpns             \* the virtual pages accessed

VARIABLES
    mem,             \* the page table entries, by <<table, index>>
    satp, mxr,
    tlb,             \* per MMU index and TC_INDEX
    stale            \* entries stored to since the last flush (history)
mmuVars == <<mem, satp, mxr, tlb, stale>>

Accesses == {"fetch", "load", "store"}
Permission == [fetch |-> "x", load |-> "r", store |-> "w"]
Pte == [v : BOOLEAN, r : BOOLEAN, w : BOOLEAN, x : BOOLEAN, u : BOOLEAN, a : BOOLEAN,
        d : BOOLEAN, reserved : BOOLEAN, ppn : 0 .. 2 ^ XBits - 1]
Slots == Tables \X (0 .. 2 ^ PtBits - 1)

ASSUME MmuAssumption ==
    /\ Levels \in Nat \ {0} /\ PtBits \in Nat \ {0} /\ TC_NUM \in Nat \ {0}
    /\ XBits \in Nat /\ XBits >= Levels * PtBits
    /\ Writable \subseteq Slots /\ PteVals \in [Writable -> SUBSET Pte]
    /\ Satps \subseteq [sv : BOOLEAN, ppn : Tables] /\ Vpns \subseteq 0 .. 2 ^ XBits - 1
    /\ RvModes \subseteq [priv : {0, 1, 3}, mprv : BOOLEAN, mpp : {0, 1, 3}, sum : BOOLEAN]

NoPte == [v |-> FALSE, r |-> FALSE, w |-> FALSE, x |-> FALSE, u |-> FALSE, a |-> FALSE,
            d |-> FALSE, reserved |-> FALSE, ppn |-> 0]
NoEntry == [vpn |-> -1, pa |-> 0, prot |-> {}]

-----------------------------------------------------------------------------
(* MMU indices *)

MMUIdx_U == 0
MMUIdx_S == 1
MMUIdx_S_SUM == 2
MMUIdx_M == 3
MMUIdx == 0 .. 3
mmuidx_priv(i) == IF i = MMUIdx_S_SUM THEN 1 ELSE i
mmuidx_sum(i) == i = MMUIdx_S_SUM

DataPriv(m) == IF m.priv = 3 /\ m.mprv THEN m.mpp ELSE m.priv
riscv_env_mmu_index(m, access) ==
    IF access = "fetch" THEN m.priv
    ELSE IF DataPriv(m) = 1 /\ m.sum THEN MMUIdx_S_SUM ELSE DataPriv(m)

-----------------------------------------------------------------------------
(* The walk: get_physical_address. Its state is the table to read next, the
   leaf it found, the entries it read, and whether it failed. *)

Canonical(vpn) ==
    \/ vpn < 2 ^ (Levels * PtBits - 1)
    \/ vpn >= 2 ^ XBits - 2 ^ (Levels * PtBits - 1)
ptshift(level) == (Levels - level) * PtBits
Index(vpn, level) == (vpn \div 2 ^ ptshift(level)) % 2 ^ PtBits

Start == [base |-> satp.ppn, seen |-> {}, done |-> FALSE, ok |-> FALSE, slot |-> <<0, 0>>, level |-> 0]
Descend(walk, slot, level, pte) ==
    IF pte.reserved \/ ~pte.v THEN [walk EXCEPT !.seen = @ \cup {slot}, !.done = TRUE]
    ELSE IF pte.r \/ pte.w \/ pte.x
    THEN [walk EXCEPT !.seen = @ \cup {slot}, !.done = TRUE, !.ok = TRUE, !.slot = slot, !.level = level]
    ELSE IF pte.d \/ pte.a \/ pte.u THEN [walk EXCEPT !.seen = @ \cup {slot}, !.done = TRUE]
    ELSE [walk EXCEPT !.seen = @ \cup {slot}, !.base = pte.ppn]
ReadPte(walk, slot, level) == Descend(walk, slot, level, mem[slot])
WalkTables(vpn) ==
    FoldLeft(LAMBDA walk, level : IF walk.done THEN walk
                                  ELSE ReadPte(walk, <<walk.base, Index(vpn, level)>>, level),
             Start, [level \in 1 .. Levels |-> level])

(* The permissions a leaf grants in MMU index i; none when it is refused *)
LeafProt(pte, i) ==
    {p \in {"r", "w", "x"} :
        /\ IF p = "r" THEN pte.r \/ (pte.x /\ mxr) ELSE pte[p]
        /\ ~(pte.w /\ ~pte.r)
        /\ IF pte.u THEN mmuidx_priv(i) = 0 \/ (mmuidx_sum(i) /\ p # "x") ELSE mmuidx_priv(i) = 1}

Failed == [ok |-> FALSE, pa |-> 0, prot |-> {}, slot |-> <<>>, seen |-> {}, pte |-> NoPte]
Identity(vpn) == [Failed EXCEPT !.ok = TRUE, !.pa = vpn, !.prot = {"r", "w", "x"}]
WithSeen(seen) == [Failed EXCEPT !.seen = seen]

Accessed(pte, access) == [pte EXCEPT !.a = TRUE, !.d = @ \/ access = "store"]
(* Without the dirty bit only a store may write through the entry *)
Writes(prot, pte, access) == IF access # "store" /\ ~pte.d THEN prot \ {"w"} ELSE prot

Leaf(walk, vpn, access, i, pte, shift) ==
    IF pte.ppn % 2 ^ shift = 0 /\ Permission[access] \in LeafProt(pte, i)
    THEN [ok |-> TRUE, pa |-> pte.ppn + (vpn % 2 ^ shift),
          prot |-> Writes(LeafProt(pte, i), pte, access),
          slot |-> walk.slot, seen |-> walk.seen, pte |-> Accessed(pte, access)]
    ELSE WithSeen(walk.seen)
LeafOf(walk, vpn, access, i) ==
    IF walk.ok THEN Leaf(walk, vpn, access, i, mem[walk.slot], ptshift(walk.level))
    ELSE WithSeen(walk.seen)
get_physical_address(vpn, access, i) ==
    IF mmuidx_priv(i) = 3 \/ ~satp.sv THEN Identity(vpn)
    ELSE IF ~Canonical(vpn) THEN Failed
    ELSE LeafOf(WalkTables(vpn), vpn, access, i)

-----------------------------------------------------------------------------
(* The software TLB *)

tlb_get_page(vpn, access, i) ==
    tlb[i][vpn % TC_NUM].vpn = vpn /\ Permission[access] \in tlb[i][vpn % TC_NUM].prot
Flushed == [i \in MMUIdx |-> [k \in 0 .. TC_NUM - 1 |-> NoEntry]]
tlb_flush == tlb' = Flushed /\ stale' = {}

MmuInit ==
    /\ mem = [s \in Slots |-> NoPte]
    /\ satp = [sv |-> FALSE, ppn |-> CHOOSE t \in Tables : \A o \in Tables : t <= o]
    /\ mxr = FALSE /\ tlb = Flushed /\ stale = {}

(* riscv_cpu_tlb_fill and tlb_set_page: the entry, and the bits set in the PTE *)
Fill(vpn, i, walk) ==
    /\ walk.ok
    /\ tlb' = [tlb EXCEPT ![i][vpn % TC_NUM] = [vpn |-> vpn, pa |-> walk.pa, prot |-> walk.prot]]
    /\ mem' = IF walk.slot = <<>> THEN mem ELSE [mem EXCEPT ![walk.slot] = walk.pte]
    /\ UNCHANGED <<satp, mxr, stale>>

(* trans_pa on a miss; a walk that fails raises the fault and changes nothing *)
trans_pa(m, vpn, access) ==
    /\ ~tlb_get_page(vpn, access, riscv_env_mmu_index(m, access))
    /\ Fill(vpn, riscv_env_mmu_index(m, access),
            get_physical_address(vpn, access, riscv_env_mmu_index(m, access)))
MmuAccess(modes) == \E m \in modes, vpn \in Vpns, access \in Accesses : trans_pa(m, vpn, access)

(* write_satp and legalize_xatp *)
write_satp(val) ==
    /\ val # satp /\ satp' = val
    /\ tlb_flush /\ UNCHANGED <<mem, mxr>>
WriteSatp == \E val \in Satps : write_satp(val)

(* MXR by a write of mstatus or sstatus *)
\* Mutant: the entries filled under the old MXR stay.
MxrKeepsTlb == mxr' = ~mxr /\ UNCHANGED <<mem, satp, tlb, stale>>
write_mxr == mxr' = ~mxr /\ tlb_flush /\ UNCHANGED <<mem, satp>>

trans_sfence_vma == tlb_flush /\ UNCHANGED <<mem, satp, mxr>>

(* A guest store to a page table entry *)
StorePte ==
    \E slot \in Writable : \E pte \in PteVals[slot] :
        /\ pte # mem[slot]
        /\ mem' = [mem EXCEPT ![slot] = pte]
        /\ stale' = stale \cup {slot}
        /\ UNCHANGED <<satp, mxr, tlb>>

(* The accesses of one behaviour are made in the given modes *)
MmuNext(modes) == MmuAccess(modes) \/ WriteSatp \/ write_mxr \/ trans_sfence_vma \/ StorePte

-----------------------------------------------------------------------------
(* A hit must be what a fresh walk would answer, now *)
HitExact(entry, walk) == walk.ok /\ walk.pa = entry.pa
(* ... and leaves nothing to be recorded in the page table *)
Recorded(walk) == walk.slot = <<>> \/ mem[walk.slot] = walk.pte

(* Every hit in the software TLB is the translation a fresh walk of the page
   tables gives at that moment, in the mode of that access and with the
   accessed and dirty bits already set, whatever accesses, modes, writes of
   satp and MXR and walks for other pages came in between; only an entry the
   guest rewrote without an sfence.vma may differ (the check that is commented
   out in trans_pa; write_mstatus flushes for MXR alone, SUM, MPRV and the
   privilege select another index). *)
RvTlbExact ==
    \A m \in RvModes, vpn \in Vpns, access \in Accesses :
        LET i == riscv_env_mmu_index(m, access)
        IN tlb_get_page(vpn, access, i) =>
               LET walk == get_physical_address(vpn, access, i)
               IN walk.seen \cap stale = {} =>
                      HitExact(tlb[i][vpn % TC_NUM], walk) /\ Recorded(walk)
=============================================================================
