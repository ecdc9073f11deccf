------------------------------- MODULE RvPmp -------------------------------
(***************************************************************************)
(* The physical memory protection registers of the RISC-V core: writes to  *)
(* the pmpcfg and pmpaddr CSRs under the lock bits, the address ranges the *)
(* emulator caches for each entry, the permission check, and the decision  *)
(* whether a page may be cached in the software TLB. Smepmp is absent, so  *)
(* mseccfg is zero throughout.                                             *)
(***************************************************************************)
EXTENDS Integers, FiniteSets

CONSTANTS
    PmpEntries,      \* MAX_RISCV_PMPS
    PerCfg,          \* entries of one pmpcfg CSR
    PmpWidth,        \* bits of an address register and of a physical address
    PmpPage,         \* bytes of a page
    PmpCfgs,         \* the values written to a byte of pmpcfg
    PmpAddrs         \* the values written to pmpaddr

VARIABLES cfg_reg, addr_reg, rules, num_rules
pmpVars == <<cfg_reg, addr_reg, rules, num_rules>>

Matches == {"off", "tor", "na4", "napot"}
PmpCfg == [l : BOOLEAN, a : Matches, r : BOOLEAN, w : BOOLEAN, x : BOOLEAN]
PmpIndex == 0 .. PmpEntries - 1
PmpWord == 0 .. 2 ^ PmpWidth - 1

ASSUME PmpAssumption ==
    /\ PmpEntries \in Nat \ {0} /\ PerCfg \in Nat \ {0} /\ PmpWidth \in Nat
    /\ PmpCfgs \subseteq PmpCfg /\ PmpAddrs \subseteq PmpWord

-----------------------------------------------------------------------------
(* The range of an entry; hwaddr arithmetic wraps *)

PmpWrap(n) == n % 2 ^ PmpWidth
(* The largest power of two that divides a + 1, at most 2 ^ PmpWidth *)
LowZero(a) == CHOOSE p \in {2 ^ k : k \in 0 .. PmpWidth} :
                  (a + 1) % p = 0 /\ (2 * p > 2 ^ PmpWidth \/ (a + 1) % (2 * p) # 0)
decode_napot(a) == <<a + 1 - LowZero(a), IF LowZero(a) = 2 ^ PmpWidth THEN a ELSE a + LowZero(a)>>
Ordered(sa, ea) == IF sa > ea THEN <<0, 0>> ELSE <<sa, ea>>

(* pmp_update_rule_addr, given the entry's a field and the two registers *)
RuleOf(a, this_addr, prev_addr) ==
    CASE a = "off" -> <<0, 2 ^ PmpWidth - 1>>
      [] a = "tor" -> Ordered(PmpWrap(4 * prev_addr), PmpWrap(4 * this_addr - 1))
      [] a = "na4" -> <<PmpWrap(4 * this_addr), PmpWrap(PmpWrap(4 * this_addr) + 3)>>
      [] a = "napot" -> decode_napot(PmpWrap(4 * this_addr) + 3)

PrevAddr(addrs, i) == IF i >= 1 THEN addrs[i - 1] ELSE 0
update_rule_addr(cfgs, addrs, i) == RuleOf(cfgs[i].a, addrs[i], PrevAddr(addrs, i))
update_rule_nums(cfgs) == Cardinality({i \in PmpIndex : cfgs[i].a # "off"})

-----------------------------------------------------------------------------
(* pmp_unlock_entries finds no rule at reset *)
PmpInit ==
    /\ cfg_reg = [i \in PmpIndex |-> [l |-> FALSE, a |-> "off", r |-> FALSE, w |-> FALSE, x |-> FALSE]]
    /\ addr_reg = [i \in PmpIndex |-> 0]
    /\ rules = [i \in PmpIndex |-> <<0, 0>>]
    /\ num_rules = 0

is_locked(i) == cfg_reg[i].l

(* pmp_write_cfg: the entries of the CSR the value really changes *)
Changes(i, val) == ~is_locked(i) /\ cfg_reg[i] # val /\ ~(val.w /\ ~val.r)

(* pmpcfg_csr_write for the CSR that begins at entry first; entries past the
   last are ignored *)
CfgAfter(first, val) ==
    [i \in PmpIndex |-> IF i - first \in 0 .. PerCfg - 1 /\ Changes(i, val[i - first])
                        THEN val[i - first] ELSE cfg_reg[i]]
pmpcfg_csr_write(first, val) ==
    /\ cfg_reg' = CfgAfter(first, val)
    /\ rules' = [i \in PmpIndex |-> IF CfgAfter(first, val)[i] # cfg_reg[i]
                                    THEN update_rule_addr(CfgAfter(first, val), addr_reg, i)
                                    ELSE rules[i]]
    /\ num_rules' = IF CfgAfter(first, val) # cfg_reg
                    THEN update_rule_nums(CfgAfter(first, val)) ELSE num_rules
    /\ UNCHANGED addr_reg

NextTor(i) == i + 1 \in PmpIndex /\ cfg_reg[i + 1].a = "tor"
AddrsWith(i, val) == [addr_reg EXCEPT ![i] = val]

\* Mutant: the lock of the entry above, which ends at this register, is ignored.
AddrWriteUnlocked(i, val) ==
    /\ ~is_locked(i)
    /\ addr_reg' = AddrsWith(i, val)
    /\ rules' = [j \in PmpIndex |-> IF j = i \/ (j = i + 1 /\ NextTor(i))
                                    THEN update_rule_addr(cfg_reg, AddrsWith(i, val), j) ELSE rules[j]]
    /\ UNCHANGED <<cfg_reg, num_rules>>
\* Mutant: the entry above keeps the range of the old base.
AddrWriteOwn(i, val) ==
    /\ ~is_locked(i) /\ ~(NextTor(i) /\ cfg_reg[i + 1].l)
    /\ addr_reg' = AddrsWith(i, val)
    /\ rules' = [rules EXCEPT ![i] = update_rule_addr(cfg_reg, AddrsWith(i, val), i)]
    /\ UNCHANGED <<cfg_reg, num_rules>>
(* pmpaddr_csr_write; a refused write changes nothing *)
pmpaddr_csr_write(i, val) ==
    /\ ~is_locked(i) /\ ~(NextTor(i) /\ cfg_reg[i + 1].l)
    /\ addr_reg' = AddrsWith(i, val)
    /\ rules' = [j \in PmpIndex |-> IF j = i \/ (j = i + 1 /\ NextTor(i))
                                    THEN update_rule_addr(cfg_reg, AddrsWith(i, val), j) ELSE rules[j]]
    /\ UNCHANGED <<cfg_reg, num_rules>>

WriteCfg == \E first \in PmpIndex, val \in [0 .. PerCfg - 1 -> PmpCfgs] :
                first % PerCfg = 0 /\ pmpcfg_csr_write(first, val)
WriteAddr == \E i \in PmpIndex, val \in PmpAddrs : val # addr_reg[i] /\ pmpaddr_csr_write(i, val)
PmpNext == WriteCfg \/ WriteAddr
PmpSpec == PmpInit /\ [][PmpNext]_pmpVars

-----------------------------------------------------------------------------
(* The check and the decision to cache *)

is_in_range(i, addr) == addr >= rules[i][1] /\ addr <= rules[i][2]
has_privs_default(m) == IF m THEN {"r", "w", "x"} ELSE {}
CfgPrivs(c) == {p \in {"r", "w", "x"} : c[p]}

(* pmp_hart_has_privs for one byte: the first entry in force decides, for
   machine mode only when it is locked *)
Deciding(addr) == {i \in PmpIndex : cfg_reg[i].a # "off" /\ is_in_range(i, addr)}
FirstOf(S) == CHOOSE i \in S : \A j \in S : i <= j
EntryPrivs(i, m) == IF m /\ ~is_locked(i) THEN {"r", "w", "x"} ELSE CfgPrivs(cfg_reg[i])
allowed_privs(addr, m) ==
    IF num_rules = 0 \/ Deciding(addr) = {} THEN has_privs_default(m)
    ELSE EntryPrivs(FirstOf(Deciding(addr)), m)

Covers(i, tlb_sa) == rules[i][1] <= tlb_sa /\ rules[i][2] >= tlb_sa + PmpPage - 1
Cuts(i, tlb_sa) ==
    \/ rules[i][1] >= tlb_sa /\ rules[i][1] <= tlb_sa + PmpPage - 1
    \/ rules[i][2] >= tlb_sa /\ rules[i][2] <= tlb_sa + PmpPage - 1
Touching(tlb_sa) ==
    {i \in PmpIndex : cfg_reg[i].a # "off" /\ (Covers(i, tlb_sa) \/ Cuts(i, tlb_sa))}
(* pmp_get_tlb_size: the first entry that touches the page decides *)
pmp_get_tlb_size(tlb_sa) ==
    IF num_rules = 0 \/ Touching(tlb_sa) = {} \/ Covers(FirstOf(Touching(tlb_sa)), tlb_sa)
    THEN PmpPage ELSE 1

PmpPages == {p \in PmpWord : p % PmpPage = 0}

-----------------------------------------------------------------------------
(* The cached range of every entry in force, and the count of those entries,
   are what the registers say (pmp_update_rule_addr, pmp_update_rule_nums). *)
RvPmpCached ==
    /\ \A i \in PmpIndex : cfg_reg[i].a # "off" => rules[i] = update_rule_addr(cfg_reg, addr_reg, i)
    /\ num_rules = update_rule_nums(cfg_reg)

(* Once locked, an entry protects the same range with the same permissions
   for good: no later sequence of CSR writes moves either end of it, the lower
   end of a TOR range included, which another entry's register holds
   (pmp_write_cfg, pmpaddr_csr_write). *)
RvPmpLocked ==
    [][\A i \in PmpIndex : is_locked(i) => cfg_reg'[i] = cfg_reg[i] /\ rules'[i] = rules[i]]_pmpVars

(* The software TLB may hold a whole page only when every byte of it has the
   same permissions in every mode, by the ranges the registers name and not
   only by the cached ones (the promise of the comment on pmp_get_tlb_size). *)
RvPmpPage ==
    /\ RvPmpCached
    /\ \A p \in PmpPages : pmp_get_tlb_size(p) = PmpPage =>
           \A o \in 0 .. PmpPage - 1, m \in BOOLEAN : allowed_privs(p + o, m) = allowed_privs(p, m)
=============================================================================
