-------------------------------- MODULE LaMmu --------------------------------
(***************************************************************************)
(* Address translation of the LoongArch core: the translation caches in    *)
(* front of it (tc_load, tc_store, tc_fetch and prev_pc_vpage), the TLB,   *)
(* the hardware page table walker (-w or PWCH.HPTW_EN), software refill,   *)
(* and the instructions that maintain them.                                *)
(*                                                                         *)
(* One page size, the one of STLBPS; the pages are of pairs that share an  *)
(* STLB index, so an entry may be filled into any slot.  A page is a       *)
(* <<pair, half>>.  Low pages are the user's, one table per address space  *)
(* (PGDL); global pages are the kernel's (PGDH, G = 1, PLV = 0).           *)
(*                                                                         *)
(* The guest kernel starts at direct addresses (CRMD.DA) and then runs     *)
(* from a direct map window.  It follows the rules of the architecture: an *)
(* address space has one ASID, and after it has taken a right away from a  *)
(* page table entry it executes invtlb before it relies on it.  It may     *)
(* change PLV, DA and PG by a csrwr of CRMD at any time; it runs user code *)
(* only with PG set.                                                       *)
(***************************************************************************)
EXTENDS Integers, FiniteSets

CONSTANTS
  Asids,     \* address spaces
  Low,       \* user pages
  Global,    \* kernel pages
  Ppns,      \* physical pages
  Slots,     \* ways of the STLB
  Ptes,      \* the entries the kernel writes, for each place in the tables
  Handler,   \* the page with the number of the physical page of the code
             \* that runs at direct addresses (TLBRENTRY)
  MaxStale   \* entries changed and not yet invalidated, at most

Kernel == 0
None == 0
Ident == -1
NoPage == <<0, 0>>

ASSUME NumbersAreApart ==
  /\ Kernel \notin Asids /\ None \notin Ppns /\ Ident \notin Ppns
  /\ Slots # {}
ASSUME PagesAreApart ==
  /\ Low \subseteq Nat \X {0, 1} /\ Global \subseteq Nat \X {0, 1}
  /\ \A p \in Low, q \in Global : p[1] # q[1]
  /\ Handler \in Low \union Global

Halves == {0, 1}
Pages == Low \union Global
Kinds == {"read", "store"}  \* tc_fetch and tc_load; tc_store

Key(a, page) == IF page \in Global THEN <<Kernel, page>> ELSE <<a, page>>
Keys == (Asids \X Low) \union ({Kernel} \X Global)

Lo == [p : BOOLEAN, v : BOOLEAN, w : BOOLEAN, d : BOOLEAN, ppn : Ppns \union {None}]
Absent == [p |-> FALSE, v |-> FALSE, w |-> FALSE, d |-> FALSE, ppn |-> None]
ASSUME PtesAreEntries == Ptes \in [Keys -> SUBSET Lo]

VARIABLES
  hw_ptw,        \* the walker is enabled
  ptw_hw_setVD,  \* it writes V and D back to the page table
  mode,          \* "user", "kernel", or at direct addresses: "direct", "refill"
  ret,           \* the mode a refill returns to
  badv,          \* the page that missed, during a refill
  asid,
  pt,            \* page tables in memory
  tlb,
  tc,            \* the cached physical page, or None
  crmd_written,  \* history: csrwr changed the mode and left the caches filled
  stale,         \* history: entries changed and not yet invalidated
  written,       \* history: the entry of a page stored to
  healed,        \* history: an access that faulted though the table allows it
  refault        \* history: it faulted again

config == <<hw_ptw, ptw_hw_setVD>>
history == <<stale, written, healed, refault>>
vars == <<hw_ptw, ptw_hw_setVD, mode, ret, badv, asid, pt, tlb, tc,
          crmd_written, stale, written, healed, refault>>

Pairs == {page[1] : page \in Pages}
Entry == [e : {TRUE}, pair : Pairs, asid : Asids, g : BOOLEAN, lo : [Halves -> Lo]]
Invalid == [e |-> FALSE]

TypeOK ==
  /\ hw_ptw \in BOOLEAN /\ ptw_hw_setVD \in BOOLEAN
  /\ mode \in {"user", "kernel", "direct", "refill"} /\ ret \in {"user", "kernel"}
  /\ badv \in Pages \union {NoPage}
  /\ asid \in Asids
  /\ pt \in [Keys -> Lo]
  /\ tlb \in [Slots -> Entry \union {Invalid}]
  /\ tc \in [Kinds -> [Pages -> Ppns \union {None, Ident}]]
  /\ crmd_written \in BOOLEAN
  /\ stale \subseteq Keys
  /\ written \subseteq Keys
  /\ healed \subseteq Keys \X Kinds
  /\ refault \in BOOLEAN

Init ==
  /\ hw_ptw \in BOOLEAN
  /\ ptw_hw_setVD \in BOOLEAN
  /\ ~hw_ptw => ptw_hw_setVD
  /\ mode = "direct" /\ ret = "kernel"
  /\ badv = NoPage
  /\ asid \in Asids
  /\ pt = [k \in Keys |-> Absent]
  /\ tlb = [s \in Slots |-> Invalid]
  /\ tc = [k \in Kinds |-> [page \in Pages |-> None]]
  /\ crmd_written = FALSE
  /\ stale = {} /\ written = {} /\ healed = {} /\ refault = FALSE

-----------------------------------------------------------------------------
(* The TLB *)

cpu_clear_tc == [k \in Kinds |-> [page \in Pages |-> None]]

IsGlobal(pair) == \E page \in Global : page[1] = pair

\* tlb_search: a global entry is found under every ASID.
Matches(entry, a, pair) ==
  /\ entry.e
  /\ entry.pair = pair
  /\ entry.g \/ entry.asid = a

Hits(t, a, pair) == {s \in Slots : Matches(t[s], a, pair)}
\* The slot that answers; the first one, were there several.
Hit(t, a, pair) == CHOOSE s \in Slots : Matches(t[s], a, pair)

invtlb_page_asid_or_g(t, a, pair) ==
  [s \in Slots |-> IF Matches(t[s], a, pair) THEN Invalid ELSE t[s]]

\* What ldpte reads for a page.
TableLo(p, a, page) == IF page \in Pages THEN p[Key(a, page)] ELSE Absent

\* The entry of a pair: both halves, as the tables p have them.
fill_tlb_entry(p, a, pair) ==
  [e |-> TRUE, pair |-> pair, asid |-> a, g |-> IsGlobal(pair),
   lo |-> [h \in Halves |-> TableLo(p, a, <<pair, h>>)]]

Privileged(page) == page \in Global

SetsVD == hw_ptw /\ ptw_hw_setVD

\* Mutant: a store does not look at D.
MapWithoutD(lo, kind, page) ==
  IF ~lo.v THEN "INVALID"
  ELSE IF mode = "user" /\ Privileged(page) THEN "PE"
  ELSE "MATCH"

map_tlb_entry(lo, kind, page) ==
  IF SetsVD /\ kind = "store" /\ lo.w /\ ~lo.d THEN "SET_D"
  ELSE IF ~lo.v THEN "INVALID"
  ELSE IF mode = "user" /\ Privileged(page) THEN "PE"
  ELSE IF kind = "store" /\ ~lo.d THEN "DIRTY"
  ELSE "MATCH"

Faults == {"INVALID", "PE", "DIRTY"}

HalfOf(t, page) == t[Hit(t, asid, page[1])].lo[page[2]]

\* What the TLB says of an access.
Lookup(t, kind, page) ==
  IF Hits(t, asid, page[1]) = {} THEN "NOMATCH"
  ELSE map_tlb_entry(HalfOf(t, page), kind, page)

\* hw_ptw_setVD: V of an entry is P of the page table.
VFromP(entry) ==
  [entry EXCEPT !.lo = [h \in Halves |-> [@[h] EXCEPT !.v = entry.lo[h].p]]]

\* The page tables after a walk.
WalkedTable(kind, page) ==
  LET k == Key(asid, page)
  IN  IF ptw_hw_setVD
      THEN [pt EXCEPT ![k].v = @ \/ pt[k].p,
                      ![k].d = @ \/ (kind = "store" /\ pt[k].w)]
      ELSE pt

\* Mutant: the entry is added beside the one it replaces.
WalkedTlbTwice(s, kind, page) ==
  IF ptw_hw_setVD
  THEN [tlb EXCEPT ![s] = VFromP(fill_tlb_entry(WalkedTable(kind, page), asid, page[1]))]
  ELSE [tlb EXCEPT ![s] = fill_tlb_entry(pt, asid, page[1])]

\* The TLB after a walk that fills slot s.
WalkedTlb(s, kind, page) ==
  IF ptw_hw_setVD
  THEN [invtlb_page_asid_or_g(tlb, asid, page[1]) EXCEPT
          ![s] = VFromP(fill_tlb_entry(WalkedTable(kind, page), asid, page[1]))]
  ELSE [tlb EXCEPT ![s] = fill_tlb_entry(pt, asid, page[1])]

\* Only the invalidation of a walk that sets V and D flushes the caches.
WalkedTc == IF ptw_hw_setVD THEN cpu_clear_tc ELSE tc

-----------------------------------------------------------------------------
(* Accesses *)

Paged == mode \in {"user", "kernel"}
Plv0 == mode \in {"kernel", "direct"}

\* What the page table in memory allows, in the current mode.
Valid(pte) == IF SetsVD THEN pte.p ELSE pte.v
Allows(kind, page) ==
  LET pte == pt[Key(asid, page)]
  IN  /\ Valid(pte)
      /\ kind = "store" => pte.d \/ (SetsVD /\ pte.w)
      /\ mode = "user" => ~Privileged(page)

\* The history follows one access, any one, from here on.  A store to the
\* physical page of the same number is none to the page.
Unwatched == written = {} /\ healed = {}
Note(kind, page) ==
  /\ \/ UNCHANGED written
     \/ /\ Unwatched /\ kind = "store" /\ tc[kind][page] # Ident
        /\ written' = {Key(asid, page)}
  /\ UNCHANGED <<stale, healed, refault>>

\* load_pa, store_pa and fetch_pa: the cache answers, whatever PLV, DA and PG.
TcHit(kind, page) ==
  /\ mode # "refill"
  /\ tc[kind][page] # None
  /\ Note(kind, page)
  /\ UNCHANGED <<config, mode, ret, badv, asid, pt, tlb, tc, crmd_written>>

Miss(kind, page) == Paged /\ tc[kind][page] = None

\* get_physical_address with DA set: the address itself, and the cache is filled.
DirectAccess(kind) ==
  /\ mode = "direct"
  /\ tc[kind][Handler] = None
  /\ tc' = [tc EXCEPT ![kind][Handler] = Ident]
  /\ UNCHANGED <<config, mode, ret, badv, asid, pt, tlb, crmd_written, history>>

\* The TLB answers and the cache is filled.
TlbHit(kind, page) ==
  /\ Miss(kind, page)
  /\ Lookup(tlb, kind, page) = "MATCH"
  /\ tc' = [tc EXCEPT ![kind][page] = HalfOf(tlb, page).ppn]
  /\ Note(kind, page)
  /\ UNCHANGED <<config, mode, ret, badv, asid, pt, tlb, crmd_written>>

\* The walker fills the TLB, and the second search succeeds.
WalkHit(kind, page, s) ==
  /\ Miss(kind, page)
  /\ hw_ptw
  /\ Lookup(tlb, kind, page) \in {"NOMATCH", "SET_D"}
  /\ Lookup(WalkedTlb(s, kind, page), kind, page) = "MATCH"
  /\ pt' = WalkedTable(kind, page)
  /\ tlb' = WalkedTlb(s, kind, page)
  /\ tc' = [WalkedTc EXCEPT ![kind][page] = HalfOf(tlb', page).ppn]
  /\ crmd_written' = (crmd_written /\ ~ptw_hw_setVD)
  /\ Note(kind, page)
  /\ UNCHANGED <<config, mode, ret, badv, asid>>

\* Mutant: the entry at fault stays in the TLB.
KeepFaulting(t, a, pair) == t

\* raise_mmu_exception: under the walker the entry at fault is invalidated.
Forget(t, a, pair) == invtlb_page_asid_or_g(t, a, pair)

\* raise_mmu_exception and do_interrupt for INVALID, PE and DIRTY.
raise_mmu_exception(t, c, kind, page) ==
  /\ tlb' = IF hw_ptw THEN Forget(t, asid, page[1]) ELSE t
  /\ tc' = IF hw_ptw THEN cpu_clear_tc ELSE c
  /\ crmd_written' = (crmd_written /\ ~hw_ptw)
  /\ mode' = "kernel"
  /\ LET access == <<Key(asid, page), kind>>
         spurious == hw_ptw /\ Allows(kind, page)
     IN  /\ \/ UNCHANGED healed
            \/ Unwatched /\ spurious /\ healed' = {access}
         /\ refault' = (refault \/ (spurious /\ access \in healed))
  /\ UNCHANGED <<config, ret, badv, asid, stale, written>>

\* The TLB holds an entry that does not allow the access.
TlbFault(kind, page) ==
  /\ Miss(kind, page)
  /\ Lookup(tlb, kind, page) \in Faults
  /\ raise_mmu_exception(tlb, tc, kind, page)
  /\ UNCHANGED pt

\* The page table does not allow the access either.
WalkFault(kind, page, s) ==
  /\ Miss(kind, page)
  /\ hw_ptw
  /\ Lookup(tlb, kind, page) \in {"NOMATCH", "SET_D"}
  /\ Lookup(WalkedTlb(s, kind, page), kind, page) # "MATCH"
  /\ raise_mmu_exception(WalkedTlb(s, kind, page), WalkedTc, kind, page)
  /\ pt' = WalkedTable(kind, page)

\* No entry and no walker: the TLB refill exception, direct addressing.
RefillException(kind, page) ==
  /\ Miss(kind, page)
  /\ ~hw_ptw
  /\ Lookup(tlb, kind, page) = "NOMATCH"
  /\ mode' = "refill" /\ ret' = mode /\ badv' = page
  /\ UNCHANGED <<config, asid, pt, tlb, tc, crmd_written, history>>

\* The refill handler is fetched from a physical address; a cached translation
\* of the virtual page with its number is taken for it.
DirectFetch ==
  /\ mode = "refill"
  /\ tc' = IF tc["read"][Handler] = None THEN [tc EXCEPT !["read"][Handler] = Ident] ELSE tc
  /\ UNCHANGED <<config, mode, ret, badv, asid, pt, tlb, crmd_written, history>>

\* The end of the refill handler: lddir, ldpte, tlbfill and ertn.
RefillHandler(s) ==
  /\ mode = "refill"
  /\ tlb' = [tlb EXCEPT ![s] = fill_tlb_entry(pt, asid, badv[1])]
  /\ tc' = cpu_clear_tc /\ crmd_written' = FALSE
  /\ mode' = ret /\ ret' = "kernel" /\ badv' = NoPage
  /\ UNCHANGED <<config, asid, pt, history>>

-----------------------------------------------------------------------------
(* Changes of mode *)

\* An interrupt: do_interrupt alone, the caches stay.
Interrupt ==
  /\ mode = "user"
  /\ mode' = "kernel"
  /\ UNCHANGED <<config, ret, badv, asid, pt, tlb, tc, crmd_written, history>>

\* A system call: do_raise_exception clears the caches.
Syscall ==
  /\ mode = "user"
  /\ mode' = "kernel"
  /\ tc' = cpu_clear_tc /\ crmd_written' = FALSE
  /\ UNCHANGED <<config, ret, badv, asid, pt, tlb, history>>

\* Mutant: the return keeps the caches.
ErtnTc == tc

\* The caches after the return.
ReturnTc == cpu_clear_tc

\* Return from an exception, to the user or to the interrupted kernel, which
\* leaves DA and PG alone.
Ertn(m) ==
  /\ Plv0
  /\ mode = "direct" <=> m = "direct"
  /\ mode' = m
  /\ tc' = ReturnTc /\ crmd_written' = FALSE
  /\ UNCHANGED <<config, ret, badv, asid, pt, tlb, history>>

\* csrwr and csrxchg of CRMD: PLV, DA and PG change, the caches stay.
WriteCrmd(m) ==
  /\ Plv0
  /\ m # mode
  /\ mode' = m
  /\ crmd_written' = (crmd_written \/ tc # cpu_clear_tc)
  /\ UNCHANGED <<config, ret, badv, asid, pt, tlb, tc, history>>

-----------------------------------------------------------------------------
(* The guest kernel's maintenance of the tables *)

\* A change that takes nothing away needs no invalidation.
Extends(old, new) ==
  Valid(old) => Valid(new) /\ new.ppn = old.ppn /\ (old.d => new.d)

WritePte(key, new) ==
  /\ Plv0
  /\ new # pt[key]
  /\ pt' = [pt EXCEPT ![key] = new]
  /\ stale' = IF Extends(pt[key], new) THEN stale ELSE stale \union {key}
  /\ Cardinality(stale') <= MaxStale
  /\ healed' = {x \in healed : x[1] # key}
  /\ UNCHANGED <<config, mode, ret, badv, asid, tlb, tc, crmd_written, written, refault>>

\* invtlb, whatever its operands: every entry and the caches.
Invtlb ==
  /\ Plv0
  /\ tlb' = [s \in Slots |-> Invalid]
  /\ tc' = cpu_clear_tc /\ crmd_written' = FALSE
  /\ stale' = {}
  /\ written' = written \ stale
  /\ UNCHANGED <<config, mode, ret, badv, asid, pt, healed, refault>>

\* tlbsrch, and tlbwr over the entry it found.
Tlbwr(page) ==
  /\ Plv0
  /\ ~hw_ptw
  /\ Hits(tlb, asid, page[1]) # {}
  /\ tlb' = [tlb EXCEPT ![Hit(tlb, asid, page[1])] = fill_tlb_entry(pt, asid, page[1])]
  /\ tc' = cpu_clear_tc /\ crmd_written' = FALSE
  /\ UNCHANGED <<config, mode, ret, badv, asid, pt, history>>

\* tlbsrch that finds nothing, and tlbfill, which leaves the caches alone.
Tlbfill(page, s) ==
  /\ Plv0
  /\ ~hw_ptw
  /\ Hits(tlb, asid, page[1]) = {}
  /\ tlb' = [tlb EXCEPT ![s] = fill_tlb_entry(pt, asid, page[1])]
  /\ UNCHANGED <<config, mode, ret, badv, asid, pt, tc, crmd_written, history>>

\* csrwr of ASID, which clears the caches, and of PGDL, which does not.
SwitchSpace(a) ==
  /\ Plv0
  /\ asid' = a
  /\ tc' = cpu_clear_tc /\ crmd_written' = FALSE
  /\ UNCHANGED <<config, mode, ret, badv, pt, tlb, history>>

-----------------------------------------------------------------------------
Access ==
  \/ \E kind \in Kinds : DirectAccess(kind)
  \/ \E kind \in Kinds, page \in Pages :
       \/ TcHit(kind, page)
       \/ TlbHit(kind, page)
       \/ TlbFault(kind, page)
       \/ RefillException(kind, page)
       \/ \E s \in Slots : WalkHit(kind, page, s) \/ WalkFault(kind, page, s)

ChangeMode ==
  \/ Interrupt
  \/ Syscall
  \/ \E m \in {"user", "kernel", "direct"} : Ertn(m) \/ WriteCrmd(m)

Maintain ==
  \/ Invtlb
  \/ \E key \in Keys : \E new \in Ptes[key] : WritePte(key, new)
  \/ \E page \in Pages : Tlbwr(page)
  \/ \E page \in Pages, s \in Slots : Tlbfill(page, s)
  \/ \E a \in Asids : SwitchSpace(a)

Refill == DirectFetch \/ \E s \in Slots : RefillHandler(s)

Next == Access \/ Refill \/ ChangeMode \/ Maintain

Spec == Init /\ [][Next]_vars

-----------------------------------------------------------------------------
(* Properties *)

\* No two entries answer the same search: the assertion "stlb multi-hit" of
\* tlb_search, which the invalidation before the walker's tlbfill protects.
NoMultiHit ==
  \A a \in Asids, pair \in Pairs : \A r, s \in Hits(tlb, a, pair) : r = s

\* A translation in tc_fetch, tc_load or tc_store is what the page table says
\* now, in this address space, unless the kernel changed the entry and has not
\* executed invtlb since; it lets no store past a clear D.  It is no page the
\* user may not touch while the user runs, and no translation while the kernel
\* runs at direct addresses, nor a direct address while it is paged.  For this,
\* every path that changes the mode, the address space or the TLB has to clear
\* the caches or may leave them.  csrwr of CRMD leaves them and may not: after
\* it nothing is promised about the mode until they are cleared.  Nor is it
\* while the refill handler runs, which RefillIsDirect is about.
TcCoherent ==
  \A kind \in Kinds, page \in Pages :
    LET cached == tc[kind][page]
        pte == pt[Key(asid, page)]
    IN
    /\ cached = Ident => ~Paged \/ crmd_written
    /\ cached \notin {None, Ident} => mode # "direct" \/ crmd_written
    /\ cached \notin {None, Ident} /\ Key(asid, page) \notin stale =>
         /\ cached = pte.ppn
         /\ Valid(pte)
         /\ kind = "store" => pte.d
         /\ mode = "user" => ~Privileged(page) \/ crmd_written

\* A page that was stored to since its entry was last invalidated has D set in
\* the page table: neither the TLB nor tc_store lets a store past it, so the
\* guest does not drop a page it believes clean.
DirtyIsRecorded == \A key \in written \ stale : pt[key].d

\* With the walker, an access that faults on an entry older than the page
\* table does not fault again once the fault was taken: raise_mmu_exception
\* removes the entry, and the guest needs no invtlb to get on.
FaultHeals == ~refault

\* In the refill handler, at direct addresses, an instruction is fetched from
\* the physical address itself: RefillException would have to clear tc_fetch.
RefillIsDirect ==
  mode = "refill" => tc["read"][Handler] \in {None, Ident}
=============================================================================
