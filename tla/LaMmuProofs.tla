----------------------------- MODULE LaMmuProofs -----------------------------
(***************************************************************************)
(* The properties of LaMmu for any number of pages, address spaces, slots  *)
(* and entries.  The inductive invariant says of every TLB entry what      *)
(* TcCoherent says of the caches: it allows no more than the page table,   *)
(* unless the table entry is stale.  Its parts are operators of the values *)
(* they relate, so that the lemmas can be used before and after a step.    *)
(***************************************************************************)
EXTENDS LaMmu, TLAPS

ValidIn(vd, pte) == IF vd THEN pte.p ELSE pte.v

\* lo allows no more than pte.
Below(vd, lo, pte) ==
  lo.v => /\ ValidIn(vd, pte)
          /\ lo.ppn = pte.ppn
          /\ lo.d => pte.d

EntryOK(vd, entry, p, st) ==
  /\ entry.g = IsGlobal(entry.pair)
  /\ \A page \in Pages :
       page[1] = entry.pair /\ Key(entry.asid, page) \notin st =>
         Below(vd, entry.lo[page[2]], p[Key(entry.asid, page)])

NoTwo(t) ==
  \A a \in Asids, pair \in Pairs : \A r, s \in Slots :
    Matches(t[r], a, pair) /\ Matches(t[s], a, pair) => r = s

Tlbs == [Slots -> Entry \union {Invalid}]

TlbOK(vd, t, p, st) ==
  /\ t \in Tlbs
  /\ NoTwo(t)
  /\ \A s \in Slots : t[s].e => EntryOK(vd, t[s], p, st)

\* What a cached value x of a page may be: a direct address in mode m, no
\* translation at direct addresses, and the page table's entry.
CachedOK(vd, m, w, x, kind, page, key, p, st) ==
  /\ x = Ident => m \in {"direct", "refill"} \/ w
  /\ x \notin {None, Ident} => m # "direct" \/ w
  /\ x \notin {None, Ident} /\ key \notin st =>
       /\ x = p[key].ppn
       /\ ValidIn(vd, p[key])
       /\ kind = "store" => p[key].d
       /\ m = "user" => ~Privileged(page) \/ w

TcOK(vd, m, w, a, c, p, st) ==
  \A kind \in Kinds, page \in Pages :
    CachedOK(vd, m, w, c[kind][page], kind, page, Key(a, page), p, st)

Tcs == [Kinds -> [Pages -> Ppns \union {None, Ident}]]

\* lo serves every access that pte allows.
Serves(vd, lo, pte) ==
  /\ ValidIn(vd, pte) => lo.v
  /\ lo.w = pte.w
  /\ pte.d => lo.d \/ (vd /\ lo.w)

HealOK(vd, t, p, hd) ==
  \A s \in Slots, page \in Pages, kind \in Kinds :
    /\ t[s].e
    /\ t[s].pair = page[1]
    /\ <<Key(t[s].asid, page), kind>> \in hd
    => Serves(vd, t[s].lo[page[2]], p[Key(t[s].asid, page)])

DirtyOK(vd, p, wr, st) == \A key \in wr \ st : ValidIn(vd, p[key]) /\ p[key].d

Inv ==
  /\ TypeOK
  /\ TlbOK(SetsVD, tlb, pt, stale)
  /\ TcOK(SetsVD, mode, crmd_written, asid, tc, pt, stale)
  /\ DirtyOK(SetsVD, pt, written, stale)
  /\ healed # {} => hw_ptw
  /\ HealOK(SetsVD, tlb, pt, healed)
  /\ ~refault
  /\ mode = "refill" => ~hw_ptw /\ badv \in Pages /\ Hits(tlb, asid, badv[1]) = {}

-----------------------------------------------------------------------------
\* A page has one key in an address space, and its pair is one of Pairs.
LEMMA KeyType ==
  ASSUME NEW a \in Asids, NEW page \in Pages
  PROVE  Key(a, page) \in Keys /\ page[1] \in Pairs /\ page[2] \in Halves
BY PagesAreApart DEF Key, Keys, Pages, Pairs, Halves

\* The entry that answers for a page in a space is an entry of its key.
LEMMA MatchKey ==
  ASSUME NEW a \in Asids, NEW page \in Pages, NEW entry \in Entry \union {Invalid},
         entry.e => entry.g = IsGlobal(entry.pair)
  PROVE  Matches(entry, a, page[1]) <=>
           entry.e /\ entry.pair = page[1] /\ Key(entry.asid, page) = Key(a, page)
<1>1. CASE page \in Global
  BY <1>1, Zenon DEF Matches, Key, IsGlobal
<1>2. CASE page \notin Global
  <2>1. ~IsGlobal(page[1])
    BY <1>2, PagesAreApart DEF IsGlobal, Pages
  <2>2. QED
    BY <1>2, <2>1 DEF Matches, Key
<1>3. QED
  BY <1>1, <1>2

\* A search that finds something finds the slot it answers with.
LEMMA HitMatches ==
  ASSUME NEW t, NEW a, NEW pair, Hits(t, a, pair) # {}
  PROVE  Hit(t, a, pair) \in Slots /\ Matches(t[Hit(t, a, pair)], a, pair)
BY DEF Hits, Hit

\* Invalidation keeps the TLB in order and leaves no answer for the pair.
LEMMA InvalidateOK ==
  ASSUME NEW vd, NEW t, NEW p, NEW st, NEW a \in Asids, NEW pair,
         TlbOK(vd, t, p, st)
  PROVE  /\ TlbOK(vd, invtlb_page_asid_or_g(t, a, pair), p, st)
         /\ Hits(invtlb_page_asid_or_g(t, a, pair), a, pair) = {}
<1> DEFINE u == invtlb_page_asid_or_g(t, a, pair)
<1>1. u \in Tlbs
  BY DEF TlbOK, Tlbs, invtlb_page_asid_or_g
<1>2. \A s \in Slots : u[s] = IF Matches(t[s], a, pair) THEN Invalid ELSE t[s]
  BY DEF invtlb_page_asid_or_g
<1>3. \A s \in Slots : u[s].e => u[s] = t[s] /\ ~Matches(t[s], a, pair)
  BY <1>2 DEF Invalid
<1>4. NoTwo(u)
  BY <1>3 DEF NoTwo, TlbOK, Matches
<1>5. QED
  BY <1>1, <1>3, <1>4 DEF TlbOK, Hits, Matches

\* A fill keeps the TLB in order when no other slot answers for the pair.
LEMMA FillOK ==
  ASSUME NEW vd, NEW t, NEW p, NEW st, NEW a \in Asids, NEW pair \in Pairs,
         NEW s \in Slots, NEW entry \in Entry,
         TlbOK(vd, t, p, st),
         Hits(t, a, pair) \subseteq {s},
         entry.asid = a, entry.pair = pair,
         EntryOK(vd, entry, p, st)
  PROVE  TlbOK(vd, [t EXCEPT ![s] = entry], p, st)
<1> DEFINE u == [t EXCEPT ![s] = entry]
<1>1. u \in Tlbs /\ u[s] = entry /\ \A r \in Slots \ {s} : u[r] = t[r]
  BY DEF TlbOK, Tlbs
<1>2. \A r \in Slots \ {s} : ~Matches(t[r], a, pair)
  BY DEF Hits
<1>3. entry.g = IsGlobal(pair)
  BY DEF EntryOK
<1>4. \A r \in Slots \ {s}, b \in Asids, q \in Pairs :
        ~(Matches(t[r], b, q) /\ Matches(entry, b, q))
  <2>1. SUFFICES ASSUME NEW r \in Slots \ {s}, NEW b \in Asids, NEW q \in Pairs,
                        Matches(t[r], b, q), Matches(entry, b, q)
                 PROVE  FALSE
    OBVIOUS
  <2>2. q = pair /\ t[r].e /\ t[r].pair = pair
    BY <2>1 DEF Matches
  <2>3. t[r].g = IsGlobal(pair)
    BY <2>2 DEF TlbOK, EntryOK
  <2>4. QED
    BY <1>2, <1>3, <2>1, <2>2, <2>3 DEF Matches
<1>5. NoTwo(u)
  <2>1. SUFFICES ASSUME NEW b \in Asids, NEW q \in Pairs, NEW r \in Slots, NEW v \in Slots,
                        Matches(u[r], b, q), Matches(u[v], b, q)
                 PROVE  r = v
    BY DEF NoTwo
  <2>2. CASE r = s \/ v = s
    BY <1>1, <1>4, <2>1, <2>2
  <2>3. CASE r # s /\ v # s
    BY <1>1, <2>1, <2>3 DEF TlbOK, NoTwo
  <2>4. QED
    BY <2>2, <2>3
<1>6. QED
  BY <1>1, <1>5 DEF TlbOK

\* Page table entries q give at least the rights of p.
Grown(vd, p, q) ==
  \A key \in Keys : ValidIn(vd, p[key]) =>
    /\ ValidIn(vd, q[key])
    /\ q[key].ppn = p[key].ppn
    /\ p[key].d => q[key].d

\* A valid slot holds an entry.
LEMMA ValidSlot ==
  ASSUME NEW t \in Tlbs, NEW s \in Slots, t[s].e
  PROVE  t[s] \in Entry /\ t[s].asid \in Asids /\ t[s].pair \in Pairs
<1>1. t[s] \in Entry \union {Invalid}
  BY DEF Tlbs
<1>2. t[s] # Invalid
  BY DEF Invalid
<1>3. QED
  BY <1>1, <1>2, Zenon DEF Entry

\* What holds for a page table holds for one that gives more.
LEMMA GrowTlb ==
  ASSUME NEW vd, NEW t, NEW p, NEW q, NEW st, TlbOK(vd, t, p, st), Grown(vd, p, q)
  PROVE  TlbOK(vd, t, q, st)
<1>1. ASSUME NEW s \in Slots, t[s].e
      PROVE  EntryOK(vd, t[s], q, st)
  <2>1. t[s].asid \in Asids /\ EntryOK(vd, t[s], p, st)
    BY <1>1, ValidSlot DEF TlbOK
  <2>2. \A page \in Pages : Key(t[s].asid, page) \in Keys
    BY <2>1, KeyType
  <2>3. QED
    BY <2>1, <2>2 DEF EntryOK, Below, Grown
<1>2. QED
  BY <1>1 DEF TlbOK

\* The same of the caches.
LEMMA GrowTc ==
  ASSUME NEW vd, NEW m, NEW w, NEW a \in Asids, NEW c, NEW p, NEW q, NEW st,
         TcOK(vd, m, w, a, c, p, st), Grown(vd, p, q)
  PROVE  TcOK(vd, m, w, a, c, q, st)
<1>1. ASSUME NEW kind \in Kinds, NEW page \in Pages
      PROVE  CachedOK(vd, m, w, c[kind][page], kind, page, Key(a, page), q, st)
  <2>1. Key(a, page) \in Keys
    BY KeyType
  <2>2. CachedOK(vd, m, w, c[kind][page], kind, page, Key(a, page), p, st)
    BY DEF TcOK
  <2>3. QED
    BY <2>1, <2>2 DEF CachedOK, Grown
<1>2. QED
  BY <1>1 DEF TcOK

\* The same of the pages stored to.
LEMMA GrowDirty ==
  ASSUME NEW vd, NEW p, NEW q, NEW wr \in SUBSET Keys, NEW st,
         DirtyOK(vd, p, wr, st), Grown(vd, p, q)
  PROVE  DirtyOK(vd, q, wr, st)
BY DEF DirtyOK, Grown

\* An empty cache is in order, whatever the mode.
LEMMA ClearOK ==
  ASSUME NEW vd, NEW m, NEW w, NEW a, NEW p, NEW st
  PROVE  TcOK(vd, m, w, a, cpu_clear_tc, p, st) /\ cpu_clear_tc \in Tcs
<1>1. \A kind \in Kinds, page \in Pages : cpu_clear_tc[kind][page] = None
  BY DEF cpu_clear_tc
<1>2. None # Ident
  BY DEF None, Ident
<1>3. TcOK(vd, m, w, a, cpu_clear_tc, p, st)
  BY <1>1, <1>2 DEF TcOK, CachedOK
<1>4. QED
  BY <1>3 DEF cpu_clear_tc, Tcs

\* The page of an entry is no direct address.
LEMMA RealPpn ==
  ASSUME NEW lo \in Lo
  PROVE  lo.ppn \in Ppns \union {None, Ident} /\ lo.ppn # Ident
<1>1. lo.ppn \in Ppns \union {None}
  BY DEF Lo
<1>2. QED
  BY <1>1, NumbersAreApart DEF None, Ident

\* A cache with one more value in order is in order.
LEMMA CacheOK ==
  ASSUME NEW vd, NEW m, NEW w, NEW a, NEW c \in Tcs, NEW p, NEW st,
         NEW kind \in Kinds, NEW page \in Pages, NEW x \in Ppns \union {None, Ident},
         TcOK(vd, m, w, a, c, p, st),
         CachedOK(vd, m, w, x, kind, page, Key(a, page), p, st)
  PROVE  LET d == [c EXCEPT ![kind][page] = x] IN TcOK(vd, m, w, a, d, p, st) /\ d \in Tcs
<1> DEFINE d == [c EXCEPT ![kind][page] = x]
<1>1. /\ d \in Tcs
      /\ d[kind][page] = x
      /\ \A kd \in Kinds, r \in Pages : kd # kind \/ r # page => d[kd][r] = c[kd][r]
  BY DEF Tcs
<1> HIDE DEF d
<1>2. ASSUME NEW kd \in Kinds, NEW r \in Pages
      PROVE  CachedOK(vd, m, w, d[kd][r], kd, r, Key(a, r), p, st)
  <2>1. CASE kd = kind /\ r = page
    BY <1>1, <2>1
  <2>2. CASE kd # kind \/ r # page
    BY <1>1, <2>2 DEF TcOK
  <2>3. QED
    BY <2>1, <2>2
<1>3. QED
  BY <1>1, <1>2 DEF TcOK, d

\* A trap from a paged mode keeps the caches: they are in order for the kernel
\* and for the refill handler too.
LEMMA TcForTrap ==
  ASSUME NEW vd, NEW m \in {"user", "kernel"}, NEW n \in {"kernel", "refill"}, NEW w,
         NEW a, NEW c, NEW p, NEW st, TcOK(vd, m, w, a, c, p, st)
  PROVE  TcOK(vd, n, w, a, c, p, st)
BY DEF TcOK, CachedOK

\* Once CRMD was written, the mode no longer matters.
LEMMA TcForWrite ==
  ASSUME NEW vd, NEW m, NEW n, NEW w, NEW a, NEW c, NEW p, NEW st,
         TcOK(vd, m, w, a, c, p, st)
  PROVE  TcOK(vd, n, TRUE, a, c, p, st)
BY DEF TcOK, CachedOK

\* The entry a fill makes is the page table's.
LEMMA FilledEntry ==
  ASSUME NEW p \in [Keys -> Lo], NEW a \in Asids, NEW pair \in Pairs
  PROVE  LET entry == fill_tlb_entry(p, a, pair) IN
         /\ entry \in Entry
         /\ entry.e /\ entry.asid = a /\ entry.pair = pair
         /\ entry.g = IsGlobal(pair)
         /\ \A page \in Pages : page[1] = pair => entry.lo[page[2]] = p[Key(a, page)]
<1>1. \A page : TableLo(p, a, page) \in Lo
  BY KeyType DEF TableLo, Absent, Lo
<1>2. ASSUME NEW page \in Pages, page[1] = pair
      PROVE  page = <<pair, page[2]>> /\ page[2] \in Halves
  BY <1>2, PagesAreApart DEF Pages, Halves
<1>3. \A page \in Pages : page[1] = pair =>
        [h \in Halves |-> TableLo(p, a, <<pair, h>>)][page[2]] = p[Key(a, page)]
  BY <1>2 DEF TableLo
<1>4. IsGlobal(pair) \in BOOLEAN
  BY DEF IsGlobal
<1>5. QED
  BY <1>1, <1>3, <1>4 DEF fill_tlb_entry, Entry

\* V from P changes nothing else of an entry.
LEMMA VFromPEntry ==
  ASSUME NEW entry \in Entry
  PROVE  /\ VFromP(entry) \in Entry
         /\ VFromP(entry).e = entry.e /\ VFromP(entry).asid = entry.asid
         /\ VFromP(entry).pair = entry.pair /\ VFromP(entry).g = entry.g
         /\ \A h \in Halves : VFromP(entry).lo[h] = [entry.lo[h] EXCEPT !.v = entry.lo[h].p]
<1> DEFINE lo == [h \in Halves |-> [entry.lo[h] EXCEPT !.v = entry.lo[h].p]]
<1>1. \A h \in Halves : entry.lo[h] \in Lo
  BY DEF Entry
<1>2. \A h \in Halves : lo[h] \in Lo
  BY <1>1 DEF Lo
<1>3. VFromP(entry) = [entry EXCEPT !.lo = lo]
  BY DEF VFromP
<1>4. lo \in [Halves -> Lo]
  BY <1>2
<1> HIDE DEF lo
<1>5. /\ VFromP(entry) \in Entry
      /\ VFromP(entry).e = entry.e /\ VFromP(entry).asid = entry.asid
      /\ VFromP(entry).pair = entry.pair /\ VFromP(entry).g = entry.g
      /\ VFromP(entry).lo = lo
  BY <1>3, <1>4, Zenon DEF Entry
<1>6. QED
  BY <1>5 DEF lo

\* A walk sets V of a page that is there and D of a page that may be written.
LEMMA WalkTable ==
  ASSUME TypeOK, hw_ptw, NEW kind \in Kinds, NEW page \in Pages
  PROVE  LET q == WalkedTable(kind, page)
             k == Key(asid, page)
         IN  /\ q \in [Keys -> Lo]
             /\ Grown(SetsVD, pt, q)
             /\ \A key \in Keys : /\ q[key].w = pt[key].w
                                  /\ ValidIn(SetsVD, q[key]) = ValidIn(SetsVD, pt[key])
                                  /\ q[key].d => pt[key].d \/ (SetsVD /\ pt[key].w)
             /\ q[k].ppn = pt[k].ppn
             /\ SetsVD /\ kind = "store" /\ q[k].w => q[k].d
<1> DEFINE k == Key(asid, page)
           nv == pt[k].v \/ pt[k].p
           nd == pt[k].d \/ (kind = "store" /\ pt[k].w)
           q == WalkedTable(kind, page)
<1>1. k \in Keys /\ pt[k] \in Lo
  BY KeyType DEF TypeOK
<1>2. CASE ~ptw_hw_setVD
  BY <1>1, <1>2 DEF WalkedTable, Grown, SetsVD, TypeOK
<1>3. CASE ptw_hw_setVD
  <2>1. nv \in BOOLEAN /\ nd \in BOOLEAN
    BY <1>1 DEF Lo
  <2>2. q = [pt EXCEPT ![k] = [pt[k] EXCEPT !.v = nv, !.d = nd]]
    BY <1>1, <1>3, Zenon DEF WalkedTable, TypeOK
  <2> HIDE DEF q, nv, nd
  <2>3. /\ q \in [Keys -> Lo]
        /\ \A key \in Keys \ {k} : q[key] = pt[key]
        /\ q[k].p = pt[k].p /\ q[k].w = pt[k].w /\ q[k].ppn = pt[k].ppn
        /\ q[k].v = nv /\ q[k].d = nd
    BY <1>1, <2>1, <2>2, Zenon DEF Lo, TypeOK
  <2>4. SetsVD
    BY <1>3 DEF SetsVD
  <2>5. (pt[k].d => nd) /\ (nd => pt[k].d \/ pt[k].w) /\ (kind = "store" /\ pt[k].w => nd)
    BY DEF nd
  <2>6. Grown(SetsVD, pt, q)
    BY <1>1, <2>3, <2>4, <2>5 DEF Grown, ValidIn
  <2>7. QED
    BY <1>1, <2>3, <2>4, <2>5, <2>6, Zenon DEF ValidIn, q
<1>4. QED
  BY <1>2, <1>3 DEF TypeOK

\* What the answers of map_tlb_entry mean.
LEMMA MapResult ==
  ASSUME TypeOK, NEW lo \in Lo, NEW kind \in Kinds, NEW page \in Pages
  PROVE  LET r == map_tlb_entry(lo, kind, page) IN
         /\ r \in Faults \union {"MATCH", "SET_D"}
         /\ r = "MATCH" => /\ lo.v
                           /\ kind = "store" => lo.d
                           /\ mode = "user" => ~Privileged(page)
         /\ r = "SET_D" => SetsVD /\ kind = "store" /\ lo.w /\ ~lo.d
         /\ r \in Faults => \/ ~lo.v
                            \/ mode = "user" /\ Privileged(page)
                            \/ kind = "store" /\ ~lo.d /\ ~(SetsVD /\ lo.w)
<1>1. lo.v \in BOOLEAN /\ lo.d \in BOOLEAN /\ lo.w \in BOOLEAN
  BY DEF Lo
<1>2. CASE SetsVD /\ kind = "store" /\ lo.w /\ ~lo.d
  BY <1>2 DEF map_tlb_entry, Faults
<1>3. CASE ~(SetsVD /\ kind = "store" /\ lo.w /\ ~lo.d)
  <2>1. CASE ~lo.v
    BY <1>3, <2>1 DEF map_tlb_entry, Faults
  <2>2. CASE lo.v /\ mode = "user" /\ Privileged(page)
    BY <1>3, <2>2 DEF map_tlb_entry, Faults
  <2>3. CASE lo.v /\ ~(mode = "user" /\ Privileged(page)) /\ kind = "store" /\ ~lo.d
    BY <1>3, <2>3 DEF map_tlb_entry, Faults
  <2>4. CASE lo.v /\ ~(mode = "user" /\ Privileged(page)) /\ ~(kind = "store" /\ ~lo.d)
    BY <1>3, <2>4 DEF map_tlb_entry, Faults
  <2>5. QED
    BY <1>1, <2>1, <2>2, <2>3, <2>4
<1>4. QED
  BY <1>2, <1>3

\* The half that answers for a page is one of the entry of its key.
LEMMA AnswerOK ==
  ASSUME TypeOK, NEW vd, NEW t, NEW p, NEW st, TlbOK(vd, t, p, st), NEW page \in Pages,
         Hits(t, asid, page[1]) # {}
  PROVE  /\ HalfOf(t, page) \in Lo
         /\ Key(asid, page) \notin st => Below(vd, HalfOf(t, page), p[Key(asid, page)])
<1> DEFINE s == Hit(t, asid, page[1])
<1>1. s \in Slots /\ Matches(t[s], asid, page[1])
  BY HitMatches
<1>2. t \in Tlbs /\ t[s].e
  BY <1>1 DEF Matches, TlbOK
<1>3. t[s] \in Entry
  BY <1>1, <1>2, ValidSlot
<1>4. EntryOK(vd, t[s], p, st)
  BY <1>1, <1>2 DEF TlbOK
<1>5. Key(t[s].asid, page) = Key(asid, page) /\ t[s].pair = page[1]
  BY <1>1, <1>3, <1>4, MatchKey DEF EntryOK, TypeOK
<1>6. page[2] \in Halves
  BY KeyType DEF TypeOK
<1>7. QED
  BY <1>3, <1>4, <1>5, <1>6, Zenon DEF HalfOf, EntryOK, Entry

\* A walk leaves the TLB in order and with an answer for the page, which is
\* the page table's.
LEMMA WalkTlb ==
  ASSUME Inv, hw_ptw, mode # "refill",
         NEW kind \in Kinds, NEW page \in Pages, NEW s \in Slots,
         Lookup(tlb, kind, page) \in {"NOMATCH", "SET_D"}
  PROVE  LET t == WalkedTlb(s, kind, page)
             q == WalkedTable(kind, page)
             lo == HalfOf(t, page)
             pte == q[Key(asid, page)]
         IN  /\ TlbOK(SetsVD, t, q, stale)
             /\ HealOK(SetsVD, t, q, healed)
             /\ Hits(t, asid, page[1]) # {}
             /\ lo \in Lo
             /\ lo.v = ValidIn(SetsVD, pte) /\ lo.ppn = pte.ppn
             /\ lo.d = pte.d /\ lo.w = pte.w
<1> DEFINE t == WalkedTlb(s, kind, page)
           q == WalkedTable(kind, page)
           pair == page[1]
           base == IF ptw_hw_setVD THEN invtlb_page_asid_or_g(tlb, asid, pair) ELSE tlb
           entry == IF ptw_hw_setVD THEN VFromP(fill_tlb_entry(q, asid, pair))
                                    ELSE fill_tlb_entry(q, asid, pair)
<1>1. TypeOK /\ asid \in Asids /\ pair \in Pairs /\ page[2] \in Halves
  BY KeyType DEF Inv, TypeOK
<1>2. /\ q \in [Keys -> Lo]
      /\ Grown(SetsVD, pt, q)
      /\ \A key \in Keys : /\ q[key].w = pt[key].w
                           /\ ValidIn(SetsVD, q[key]) = ValidIn(SetsVD, pt[key])
                           /\ q[key].d => pt[key].d \/ (SetsVD /\ pt[key].w)
  BY <1>1, WalkTable
<1>3. t = [base EXCEPT ![s] = entry]
  BY DEF WalkedTlb, WalkedTable
<1> HIDE DEF q
<1>4. TlbOK(SetsVD, tlb, q, stale)
  BY <1>2, GrowTlb DEF Inv
<1>5. TlbOK(SetsVD, base, q, stale) /\ Hits(base, asid, pair) = {}
  <2>1. CASE ptw_hw_setVD
    BY <1>1, <1>4, <2>1, InvalidateOK
  <2>2. CASE ~ptw_hw_setVD
    <3>1. ASSUME Hits(tlb, asid, pair) # {}
          PROVE  FALSE
      <4>1. HalfOf(tlb, page) \in Lo
        BY <1>1, <1>4, <3>1, AnswerOK
      <4>2. map_tlb_entry(HalfOf(tlb, page), kind, page) # "SET_D"
        BY <1>1, <2>2, <4>1, MapResult DEF SetsVD
      <4>3. map_tlb_entry(HalfOf(tlb, page), kind, page) # "NOMATCH"
        BY <1>1, <4>1, MapResult DEF Faults
      <4>4. QED
        BY <3>1, <4>2, <4>3 DEF Lookup
    <3>2. QED
      BY <1>4, <2>2, <3>1
  <2>3. QED
    BY <2>1, <2>2
<1>6. /\ entry \in Entry /\ entry.e /\ entry.asid = asid /\ entry.pair = pair
      /\ entry.g = IsGlobal(pair)
      /\ \A r \in Pages : r[1] = pair =>
           LET lo == entry.lo[r[2]]
               pte == q[Key(asid, r)]
           IN  /\ lo \in Lo
               /\ lo.v = ValidIn(SetsVD, pte) /\ lo.ppn = pte.ppn
               /\ lo.d = pte.d /\ lo.w = pte.w
  <2> DEFINE f == fill_tlb_entry(q, asid, pair)
  <2>1. /\ f \in Entry /\ f.e /\ f.asid = asid /\ f.pair = pair /\ f.g = IsGlobal(pair)
        /\ \A r \in Pages : r[1] = pair => f.lo[r[2]] = q[Key(asid, r)]
    BY <1>1, <1>2, FilledEntry
  <2>2. \A r \in Pages : Key(asid, r) \in Keys /\ r[2] \in Halves
    BY <1>1, KeyType
  <2> HIDE DEF f
  <2>3. CASE ~ptw_hw_setVD
    BY <1>2, <2>1, <2>2, <2>3 DEF f, SetsVD, ValidIn
  <2>4. CASE ptw_hw_setVD
    <3>1. SetsVD /\ entry = VFromP(f)
      BY <2>4 DEF SetsVD, f
    <3>2. /\ VFromP(f) \in Entry /\ VFromP(f).e /\ VFromP(f).asid = asid
          /\ VFromP(f).pair = pair /\ VFromP(f).g = IsGlobal(pair)
          /\ \A h \in Halves : VFromP(f).lo[h] = [f.lo[h] EXCEPT !.v = f.lo[h].p]
      BY <2>1, VFromPEntry
    <3>3. \A r \in Pages : r[1] = pair =>
            VFromP(f).lo[r[2]] = [q[Key(asid, r)] EXCEPT !.v = q[Key(asid, r)].p]
      BY <2>1, <2>2, <3>2
    <3>4. \A x \in Lo : LET y == [x EXCEPT !.v = x.p] IN
            y \in Lo /\ y.v = x.p /\ y.ppn = x.ppn /\ y.d = x.d /\ y.w = x.w
      BY DEF Lo
    <3>5. \A r \in Pages : q[Key(asid, r)] \in Lo
      BY <1>2, <2>2
    <3>6. ASSUME NEW r \in Pages, r[1] = pair
          PROVE  LET lo == VFromP(f).lo[r[2]]
                     pte == q[Key(asid, r)]
                 IN  /\ lo \in Lo
                     /\ lo.v = ValidIn(SetsVD, pte) /\ lo.ppn = pte.ppn
                     /\ lo.d = pte.d /\ lo.w = pte.w
      <4> DEFINE pte == q[Key(asid, r)]
      <4>1. VFromP(f).lo[r[2]] = [pte EXCEPT !.v = pte.p] /\ pte \in Lo
        BY <3>3, <3>5, <3>6
      <4>2. ValidIn(SetsVD, pte) = pte.p
        BY <3>1 DEF ValidIn
      <4> HIDE DEF pte
      <4>3. LET y == [pte EXCEPT !.v = pte.p] IN
              y \in Lo /\ y.v = pte.p /\ y.ppn = pte.ppn /\ y.d = pte.d /\ y.w = pte.w
        BY <3>4, <4>1
      <4>4. QED
        BY <4>1, <4>2, <4>3 DEF pte
    <3> HIDE DEF entry, q
    <3>7. QED
      BY <3>1, <3>2, <3>6, Zenon
  <2>5. QED
    BY <2>3, <2>4, Zenon
<1> HIDE DEF base, entry
<1>7. EntryOK(SetsVD, entry, q, stale)
  BY <1>6 DEF EntryOK, Below
<1>8. TlbOK(SetsVD, t, q, stale)
  <2>1. Hits(base, asid, pair) \subseteq {s}
    BY <1>5
  <2>2. TlbOK(SetsVD, [base EXCEPT ![s] = entry], q, stale)
    BY <1>1, <1>5, <1>6, <1>7, <2>1, FillOK
  <2>3. QED
    BY <1>3, <2>2
<1>9. t[s] = entry /\ \A r \in Slots \ {s} : t[r] = base[r]
  BY <1>3, <1>5 DEF TlbOK, Tlbs
<1>10. Hits(t, asid, pair) = {s} /\ Hit(t, asid, pair) = s
  <2>1. Matches(t[s], asid, pair)
    BY <1>6, <1>9 DEF Matches
  <2>2. \A r \in Slots \ {s} : ~Matches(t[r], asid, pair)
    BY <1>5, <1>9 DEF Hits
  <2>3. Hits(t, asid, pair) = {s}
    BY <2>1, <2>2 DEF Hits
  <2>4. QED
    BY <2>3, HitMatches DEF Hits
<1>11. HealOK(SetsVD, t, q, healed)
  <2>1. SUFFICES ASSUME NEW r \in Slots, NEW v \in Pages, NEW k \in Kinds,
                        t[r].e, t[r].pair = v[1], <<Key(t[r].asid, v), k>> \in healed
                 PROVE  Serves(SetsVD, t[r].lo[v[2]], q[Key(t[r].asid, v)])
    BY DEF HealOK
  <2>2. CASE r = s
    BY <1>6, <1>9, <2>1, <2>2 DEF Serves
  <2>3. CASE r # s
    <3>1. t[r] = tlb[r]
      BY <1>9, <2>1, <2>3 DEF base, invtlb_page_asid_or_g, Invalid
    <3>2. Serves(SetsVD, t[r].lo[v[2]], pt[Key(t[r].asid, v)])
      BY <2>1, <3>1 DEF Inv, HealOK
    <3>3. Key(t[r].asid, v) \in Keys
      BY <1>8, <2>1, ValidSlot, KeyType DEF TlbOK
    <3>4. QED
      BY <1>2, <3>2, <3>3 DEF Serves
  <2>4. QED
    BY <2>2, <2>3
<1>12. QED
  BY <1>6, <1>8, <1>9, <1>10, <1>11 DEF HalfOf, q

-----------------------------------------------------------------------------
\* The initial states satisfy the invariant.
LEMMA InitInv == Init => Inv
<1> SUFFICES ASSUME Init PROVE Inv
  OBVIOUS
<1>1. \A key \in Keys : pt[key] \in Lo
  BY DEF Init, Absent, Lo
<1>2. TypeOK
  BY <1>1, ClearOK, Zenon DEF Init, TypeOK, Tcs, cpu_clear_tc
<1>3. \A s \in Slots : ~tlb[s].e
  BY DEF Init, Invalid
<1>4. TlbOK(SetsVD, tlb, pt, stale)
  BY <1>2, <1>3 DEF TlbOK, Tlbs, NoTwo, Matches, TypeOK
<1>5. TcOK(SetsVD, mode, crmd_written, asid, tc, pt, stale)
  BY ClearOK DEF Init, cpu_clear_tc
<1>6. HealOK(SetsVD, tlb, pt, healed)
  BY <1>3 DEF HealOK
<1>7. QED
  BY <1>2, <1>4, <1>5, <1>6 DEF Init, Inv, DirtyOK

\* A step that leaves the tables, the TLB and the history alone keeps the
\* invariant when it keeps the caches in order.
LEMMA QuietStep ==
  ASSUME Inv, UNCHANGED <<config, pt, tlb, history>>, TypeOK',
         TcOK(SetsVD, mode', crmd_written', asid', tc', pt, stale),
         mode' = "refill" => ~hw_ptw /\ badv' \in Pages /\ Hits(tlb, asid', badv'[1]) = {}
  PROVE  Inv'
<1>1. SetsVD' = SetsVD
  BY DEF config, SetsVD
<1>2. TlbOK(SetsVD, tlb, pt, stale)' /\ HealOK(SetsVD, tlb, pt, healed)'
  BY <1>1 DEF Inv, history
<1>3. TcOK(SetsVD, mode, crmd_written, asid, tc, pt, stale)'
  BY <1>1 DEF history
<1>4. DirtyOK(SetsVD, pt, written, stale)'
  BY <1>1 DEF Inv, history
<1>5. (mode = "refill" => ~hw_ptw /\ badv \in Pages /\ Hits(tlb, asid, badv[1]) = {})'
  BY DEF config
<1>6. QED
  BY <1>2, <1>3, <1>4, <1>5 DEF Inv, history, config

\* The steps that change the mode or the address space.
LEMMA ModeStep ==
  ASSUME Inv,
         \/ Interrupt \/ Syscall
         \/ \E m \in {"user", "kernel", "direct"} : Ertn(m) \/ WriteCrmd(m)
         \/ \E a \in Asids : SwitchSpace(a)
         \/ DirectFetch \/ \E kind \in Kinds : DirectAccess(kind)
         \/ \E kind \in Kinds, page \in Pages : RefillException(kind, page)
  PROVE  Inv'
<1> USE DEF Tcs
<1>1. CASE Interrupt
  <2>1. /\ TypeOK' /\ mode = "user" /\ mode' = "kernel"
        /\ UNCHANGED <<config, pt, tlb, history, asid, tc, crmd_written>>
    BY <1>1 DEF Inv, TypeOK, Interrupt, config, history
  <2>2. TcOK(SetsVD, mode', crmd_written', asid', tc', pt, stale)
    BY <2>1, TcForTrap DEF Inv
  <2>3. QED
    BY <2>1, <2>2, QuietStep
<1>2. CASE \/ Syscall
           \/ \E m \in {"user", "kernel", "direct"} : Ertn(m)
           \/ \E a \in Asids : SwitchSpace(a)
  <2>1. /\ UNCHANGED <<config, pt, tlb, history>> /\ tc' = cpu_clear_tc
        /\ mode' \in {"user", "kernel", "direct"} /\ asid' \in Asids /\ UNCHANGED <<ret, badv>>
        /\ crmd_written' = FALSE
    BY <1>2 DEF Inv, TypeOK, Syscall, Ertn, SwitchSpace, ReturnTc, Plv0
  <2>2. TypeOK'
    BY <2>1, ClearOK, Zenon DEF Inv, TypeOK, config, history
  <2>3. QED
    BY <2>1, <2>2, ClearOK, QuietStep
<1>3. CASE DirectFetch \/ \E kind \in Kinds : DirectAccess(kind)
  <2>1. UNCHANGED <<config, mode, ret, badv, asid, pt, tlb, crmd_written, history>>
    BY <1>3 DEF DirectFetch, DirectAccess
  <2>2. mode \in {"direct", "refill"}
    BY <1>3 DEF DirectFetch, DirectAccess
  <2>3. tc' = tc \/ \E kind \in Kinds : tc' = [tc EXCEPT ![kind][Handler] = Ident]
    BY <1>3 DEF DirectFetch, DirectAccess, Kinds
  <2>4. TcOK(SetsVD, mode, crmd_written, asid, tc', pt, stale) /\ tc' \in Tcs
    <3>1. CASE tc' = tc
      BY <3>1 DEF Inv, TypeOK
    <3>2. ASSUME NEW kind \in Kinds, tc' = [tc EXCEPT ![kind][Handler] = Ident]
          PROVE  TcOK(SetsVD, mode, crmd_written, asid, tc', pt, stale) /\ tc' \in Tcs
      <4>1. CachedOK(SetsVD, mode, crmd_written, Ident, kind, Handler, Key(asid, Handler),
                     pt, stale)
        BY <2>2 DEF CachedOK
      <4>2. Handler \in Pages /\ tc \in Tcs
        BY PagesAreApart, Zenon DEF Pages, Inv, TypeOK
      <4>3. QED
        BY <3>2, <4>1, <4>2, CacheOK, Zenon DEF Inv
    <3>3. QED
      BY <2>3, <3>1, <3>2
  <2>5. TypeOK'
    BY <2>1, <2>4 DEF Inv, TypeOK, config, history
  <2>6. QED
    BY <2>1, <2>4, <2>5, QuietStep, Zenon DEF Inv
<1>4. ASSUME NEW kind \in Kinds, NEW page \in Pages, RefillException(kind, page)
      PROVE  Inv'
  <2>1. /\ UNCHANGED <<config, asid, pt, tlb, tc, crmd_written, history>>
        /\ mode' = "refill" /\ ret' = mode /\ badv' = page /\ ~hw_ptw
        /\ mode \in {"user", "kernel"}
    BY <1>4 DEF RefillException, Miss, Paged
  <2>2. TypeOK'
    BY <2>1 DEF Inv, TypeOK, config, history
  <2>3. TcOK(SetsVD, mode', crmd_written', asid', tc', pt, stale)
    BY <2>1, TcForTrap, Zenon DEF Inv
  <2>4. Hits(tlb, asid, page[1]) = {}
    <3>1. ASSUME Hits(tlb, asid, page[1]) # {}
          PROVE  FALSE
      <4>1. HalfOf(tlb, page) \in Lo
        BY <3>1, AnswerOK, Zenon DEF Inv
      <4>2. QED
        BY <1>4, <3>1, <4>1, MapResult, Zenon DEF RefillException, Lookup, Inv, Faults
    <3>2. QED
      BY <3>1
  <2>5. QED
    BY <2>1, <2>2, <2>3, <2>4, QuietStep
<1>5. ASSUME NEW m \in {"user", "kernel", "direct"}, WriteCrmd(m)
      PROVE  Inv'
  <2>1. /\ UNCHANGED <<config, ret, badv, asid, pt, tlb, tc, history>> /\ mode' = m
        /\ crmd_written' = (crmd_written \/ tc # cpu_clear_tc)
    BY <1>5 DEF WriteCrmd
  <2>2. TypeOK'
    BY <2>1 DEF Inv, TypeOK, config, history
  <2>3. TcOK(SetsVD, m, crmd_written', asid, tc, pt, stale)
    <3>1. CASE tc = cpu_clear_tc
      BY <3>1, ClearOK
    <3>2. CASE tc # cpu_clear_tc
      <4>1. crmd_written' = TRUE
        BY <2>1, <3>2, Zenon
      <4>2. TcOK(SetsVD, m, TRUE, asid, tc, pt, stale)
        BY TcForWrite, Zenon DEF Inv
      <4>3. QED
        BY <4>1, <4>2, Zenon
    <3>3. QED
      BY <3>1, <3>2
  <2>4. QED
    BY <2>1, <2>2, <2>3, QuietStep
<1>6. QED
  BY <1>1, <1>2, <1>3, <1>4, <1>5

\* An access that the caches or the TLB answer.
LEMMA HitStep ==
  ASSUME Inv, NEW kind \in Kinds, NEW page \in Pages,
         TcHit(kind, page) \/ TlbHit(kind, page)
  PROVE  Inv'
<1> DEFINE k == Key(asid, page)
<1>1. /\ UNCHANGED <<config, mode, ret, badv, asid, pt, tlb, crmd_written>>
      /\ UNCHANGED <<stale, healed, refault>>
      /\ k \in Keys /\ asid \in Asids /\ tc \in Tcs
      /\ written' = written \/ (kind = "store" /\ tc[kind][page] # Ident /\ written' = {k})
  BY KeyType DEF TcHit, TlbHit, Miss, Note, Inv, TypeOK, Tcs
<1>2. /\ tc' \in Tcs
      /\ TcOK(SetsVD, mode, crmd_written, asid, tc', pt, stale)
      /\ k \notin stale /\ kind = "store" /\ tc[kind][page] # Ident =>
           ValidIn(SetsVD, pt[k]) /\ pt[k].d
  <2>1. CASE TcHit(kind, page)
    <3>1. tc' = tc /\ tc[kind][page] # None
      BY <2>1 DEF TcHit
    <3>2. TcOK(SetsVD, mode, crmd_written, asid, tc, pt, stale)
      BY DEF Inv
    <3>3. CachedOK(SetsVD, mode, crmd_written, tc[kind][page], kind, page, k, pt, stale)
      BY <3>2 DEF TcOK
    <3>4. QED
      BY <1>1, <3>1, <3>2, <3>3, Zenon DEF CachedOK
  <2>2. CASE TlbHit(kind, page)
    <3> DEFINE lo == HalfOf(tlb, page)
    <3>1. /\ Hits(tlb, asid, page[1]) # {} /\ map_tlb_entry(lo, kind, page) = "MATCH"
          /\ mode \in {"user", "kernel"}
      BY <2>2 DEF TlbHit, Lookup, Miss, Paged
    <3>2. lo \in Lo /\ (k \notin stale => Below(SetsVD, lo, pt[k]))
      BY <3>1, AnswerOK DEF Inv
    <3>3. lo.v /\ (kind = "store" => lo.d) /\ (mode = "user" => ~Privileged(page))
      BY <3>1, <3>2, MapResult, Zenon DEF Inv
    <3>4. tc' = [tc EXCEPT ![kind][page] = lo.ppn]
      BY <2>2 DEF TlbHit
    <3> HIDE DEF lo
    <3>5. lo.ppn \in Ppns \union {None, Ident} /\ lo.ppn # Ident
      BY <3>2, RealPpn
    <3>6. CachedOK(SetsVD, mode, crmd_written, lo.ppn, kind, page, k, pt, stale)
      BY <3>1, <3>2, <3>3, <3>5 DEF CachedOK, Below
    <3>7. tc' \in Tcs /\ TcOK(SetsVD, mode, crmd_written, asid, tc', pt, stale)
      BY <1>1, <3>4, <3>5, <3>6, CacheOK, Zenon DEF Inv
    <3>8. QED
      BY <3>2, <3>3, <3>7 DEF Below
  <2>3. QED
    BY <2>1, <2>2
<1>3. TypeOK'
  BY <1>1, <1>2, Zenon DEF Inv, TypeOK, Tcs, config
<1>4. SetsVD' = SetsVD
  BY <1>1 DEF config, SetsVD
<1>5. DirtyOK(SetsVD, pt, written, stale)'
  BY <1>1, <1>2, <1>4, Zenon DEF Inv, DirtyOK
<1>6. QED
  BY <1>1, <1>2, <1>3, <1>4, <1>5, Zenon DEF Inv, config

\* An access that the walker answers.
LEMMA WalkHitStep ==
  ASSUME Inv, NEW kind \in Kinds, NEW page \in Pages, NEW s \in Slots,
         WalkHit(kind, page, s)
  PROVE  Inv'
<1> DEFINE k == Key(asid, page)
           lo == HalfOf(tlb', page)
<1>1. /\ UNCHANGED <<config, mode, ret, badv, asid, stale, healed, refault>>
      /\ mode \in {"user", "kernel"} /\ hw_ptw /\ k \in Keys /\ asid \in Asids /\ TypeOK
      /\ written' = written \/ (kind = "store" /\ written' = {k})
      /\ crmd_written' = (crmd_written /\ ~ptw_hw_setVD)
  BY KeyType DEF WalkHit, Miss, Paged, Note, Inv, TypeOK
<1>2. pt' = WalkedTable(kind, page) /\ tlb' = WalkedTlb(s, kind, page)
  BY DEF WalkHit
<1>3. /\ TlbOK(SetsVD, tlb', pt', stale)
      /\ HealOK(SetsVD, tlb', pt', healed)
      /\ Hits(tlb', asid, page[1]) # {}
      /\ lo \in Lo
      /\ lo.v = ValidIn(SetsVD, pt'[k]) /\ lo.ppn = pt'[k].ppn /\ lo.d = pt'[k].d
  BY <1>1, <1>2, WalkTlb DEF WalkHit
<1>4. pt' \in [Keys -> Lo] /\ Grown(SetsVD, pt, pt')
  BY <1>1, <1>2, WalkTable
<1>5. lo.v /\ (kind = "store" => lo.d) /\ (mode = "user" => ~Privileged(page))
  <2>1. map_tlb_entry(lo, kind, page) = "MATCH"
    BY <1>2, <1>3 DEF WalkHit, Lookup
  <2>2. QED
    BY <1>1, <1>3, <2>1, MapResult, Zenon
<1>6. TcOK(SetsVD, mode, crmd_written', asid, WalkedTc, pt', stale) /\ WalkedTc \in Tcs
  <2>1. CASE ptw_hw_setVD
    BY <2>1, ClearOK DEF WalkedTc
  <2>2. CASE ~ptw_hw_setVD
    <3>1. crmd_written' = crmd_written /\ WalkedTc = tc
      BY <1>1, <2>2 DEF WalkedTc, TypeOK
    <3>2. TcOK(SetsVD, mode, crmd_written, asid, tc, pt', stale)
      BY <1>1, <1>4, GrowTc, Zenon DEF Inv
    <3>3. QED
      BY <1>1, <3>1, <3>2 DEF TypeOK, Tcs
  <2>3. QED
    BY <2>1, <2>2
<1>7. tc' = [WalkedTc EXCEPT ![kind][page] = lo.ppn]
  BY DEF WalkHit
<1> HIDE DEF lo
<1>8. lo.ppn \in Ppns \union {None, Ident} /\ lo.ppn # Ident
  BY <1>3, RealPpn, Zenon
<1>9. CachedOK(SetsVD, mode, crmd_written', lo.ppn, kind, page, k, pt', stale)
  BY <1>1, <1>3, <1>5, <1>8, Zenon DEF CachedOK
<1>10. tc' \in Tcs /\ TcOK(SetsVD, mode, crmd_written', asid, tc', pt', stale)
  BY <1>6, <1>7, <1>8, <1>9, CacheOK, Zenon
<1>11. TypeOK'
  BY <1>1, <1>3, <1>4, <1>10, Zenon DEF TypeOK, TlbOK, Tlbs, Tcs, config
<1>12. SetsVD' = SetsVD
  BY <1>1 DEF config, SetsVD
<1>13. DirtyOK(SetsVD, pt, written, stale)'
  <2>1. DirtyOK(SetsVD, pt', written, stale)
    BY <1>4, GrowDirty DEF Inv, TypeOK
  <2>2. kind = "store" => ValidIn(SetsVD, pt'[k]) /\ pt'[k].d
    BY <1>3, <1>5
  <2>3. QED
    BY <1>1, <1>12, <2>1, <2>2 DEF DirtyOK
<1>14. QED
  BY <1>1, <1>3, <1>10, <1>11, <1>12, <1>13, Zenon DEF Inv, config

\* What a fault leaves: the entry at fault is gone under the walker.
LEMMA RaiseStep ==
  ASSUME Inv, NEW kind \in Kinds, NEW page \in Pages, mode \in {"user", "kernel"},
         NEW t, NEW c,
         TlbOK(SetsVD, t, pt', stale), HealOK(SetsVD, t, pt', healed),
         ~hw_ptw => TcOK(SetsVD, mode, crmd_written, asid, c, pt', stale),
         c \in Tcs,
         pt' \in [Keys -> Lo], DirtyOK(SetsVD, pt', written, stale),
         hw_ptw /\ <<Key(asid, page), kind>> \in healed => ~Allows(kind, page),
         raise_mmu_exception(t, c, kind, page)
  PROVE  Inv'
<1> DEFINE access == <<Key(asid, page), kind>>
           u == invtlb_page_asid_or_g(t, asid, page[1])
<1>1. /\ UNCHANGED <<config, ret, badv, asid, stale, written>> /\ mode' = "kernel"
      /\ tlb' = IF hw_ptw THEN u ELSE t
      /\ tc' = IF hw_ptw THEN cpu_clear_tc ELSE c
      /\ crmd_written' = (crmd_written /\ ~hw_ptw)
      /\ healed' = healed \/ (hw_ptw /\ healed' = {access})
      /\ refault' = refault
      /\ access \in Keys \X Kinds /\ asid \in Asids
  BY KeyType DEF raise_mmu_exception, Inv, TypeOK, Forget
<1>2. TlbOK(SetsVD, u, pt', stale) /\ Hits(u, asid, page[1]) = {}
  BY <1>1, InvalidateOK
<1>3. TlbOK(SetsVD, tlb', pt', stale)
  BY <1>1, <1>2
<1>4. TcOK(SetsVD, "kernel", crmd_written', asid, tc', pt', stale) /\ tc' \in Tcs
  <2>1. CASE hw_ptw
    BY <1>1, <2>1, ClearOK
  <2>2. CASE ~hw_ptw
    <3>1. crmd_written' = crmd_written /\ tc' = c
      BY <1>1, <2>2 DEF Inv, TypeOK
    <3>2. TcOK(SetsVD, "kernel", crmd_written, asid, c, pt', stale)
      BY <2>2, TcForTrap
    <3>3. QED
      BY <3>1, <3>2
  <2>3. QED
    BY <2>1, <2>2
<1>5. TypeOK'
  BY <1>1, <1>3, <1>4 DEF Inv, TypeOK, TlbOK, Tlbs, Tcs, config
<1>6. HealOK(SetsVD, u, pt', healed)
  BY Zenon DEF HealOK, invtlb_page_asid_or_g, Invalid
<1>7. hw_ptw => HealOK(SetsVD, u, pt', {access})
  <2>1. SUFFICES ASSUME NEW s \in Slots, NEW r \in Pages, NEW kd \in Kinds,
                        u[s].e, u[s].pair = r[1], <<Key(u[s].asid, r), kd>> = access
                 PROVE  FALSE
    BY Zenon DEF HealOK
  <2>2. u[s] \in Entry /\ u[s].asid \in Asids /\ u[s].g = IsGlobal(u[s].pair)
    BY <1>2, <2>1, ValidSlot, Zenon DEF TlbOK, EntryOK
  <2>3. r = page /\ Key(u[s].asid, page) = Key(asid, page)
    BY <2>1, Zenon DEF Key
  <2>4. Matches(u[s], asid, page[1])
    <3>1. u[s].e /\ u[s].pair = page[1] /\ asid \in Asids
      BY <1>1, <2>1, <2>3, Zenon
    <3> HIDE DEF u
    <3>2. QED
      BY <2>2, <2>3, <3>1, MatchKey, Zenon
  <2>5. QED
    BY <1>2, <2>4 DEF Hits
<1>8. HealOK(SetsVD, tlb', pt', healed')
  BY <1>1, <1>6, <1>7
<1>9. SetsVD' = SetsVD
  BY <1>1 DEF config, SetsVD
<1>10. QED
  BY <1>1, <1>3, <1>4, <1>5, <1>8, <1>9, Zenon DEF Inv, config

\* An access that faults.
LEMMA FaultStep ==
  ASSUME Inv, NEW kind \in Kinds, NEW page \in Pages,
         TlbFault(kind, page) \/ \E s \in Slots : WalkFault(kind, page, s)
  PROVE  Inv'
<1> DEFINE k == Key(asid, page)
<1>1. TypeOK /\ asid \in Asids /\ k \in Keys
  BY KeyType DEF Inv, TypeOK
<1>2. CASE TlbFault(kind, page)
  <2> DEFINE lo == HalfOf(tlb, page)
             s == Hit(tlb, asid, page[1])
  <2>1. /\ pt' = pt /\ mode \in {"user", "kernel"} /\ raise_mmu_exception(tlb, tc, kind, page)
        /\ Hits(tlb, asid, page[1]) # {} /\ map_tlb_entry(lo, kind, page) \in Faults
    BY <1>2, Zenon DEF TlbFault, Miss, Paged, Lookup, Faults
  <2>2. lo \in Lo
    BY <1>1, <2>1, AnswerOK, Zenon DEF Inv
  <2>3. \/ ~lo.v
        \/ mode = "user" /\ Privileged(page)
        \/ kind = "store" /\ ~lo.d /\ ~(SetsVD /\ lo.w)
    BY <1>1, <2>1, <2>2, MapResult
  <2>4. ASSUME <<k, kind>> \in healed
        PROVE  Serves(SetsVD, lo, pt[k])
    <3>1. s \in Slots /\ Matches(tlb[s], asid, page[1])
      BY <2>1, HitMatches
    <3>2. tlb \in Tlbs /\ tlb[s].e /\ tlb[s].pair = page[1] /\ EntryOK(SetsVD, tlb[s], pt, stale)
      BY <3>1, Zenon DEF Inv, TlbOK, Matches
    <3>3. Key(tlb[s].asid, page) = k
      <4> HIDE DEF s
      <4>1. tlb[s] \in Entry /\ tlb[s].g = IsGlobal(tlb[s].pair)
        BY <3>1, <3>2, ValidSlot DEF EntryOK
      <4>2. QED
        BY <1>1, <3>1, <4>1, MatchKey
    <3>4. QED
      BY <2>4, <3>1, <3>2, <3>3, Zenon DEF Inv, HealOK, HalfOf
  <2>5. hw_ptw /\ <<k, kind>> \in healed => ~Allows(kind, page)
    BY <2>3, <2>4, Zenon DEF Serves, Allows, Valid, ValidIn
  <2>6. QED
    BY <1>1, <2>1, <2>5, RaiseStep DEF Inv, TypeOK, Tcs
<1>3. ASSUME NEW s \in Slots, WalkFault(kind, page, s)
      PROVE  Inv'
  <2> DEFINE t == WalkedTlb(s, kind, page)
             q == WalkedTable(kind, page)
             lo == HalfOf(t, page)
  <2>1. /\ pt' = q /\ mode \in {"user", "kernel"} /\ hw_ptw
        /\ raise_mmu_exception(t, WalkedTc, kind, page)
        /\ Lookup(tlb, kind, page) \in {"NOMATCH", "SET_D"}
        /\ Lookup(t, kind, page) # "MATCH"
    BY <1>3 DEF WalkFault, Miss, Paged
  <2>2. /\ TlbOK(SetsVD, t, q, stale) /\ HealOK(SetsVD, t, q, healed)
        /\ Hits(t, asid, page[1]) # {}
        /\ lo \in Lo
        /\ lo.v = ValidIn(SetsVD, q[k]) /\ lo.d = q[k].d /\ lo.w = q[k].w
    BY <2>1, WalkTlb, Zenon
  <2>3. /\ q \in [Keys -> Lo] /\ Grown(SetsVD, pt, q)
        /\ q[k].w = pt[k].w
        /\ ValidIn(SetsVD, q[k]) = ValidIn(SetsVD, pt[k])
        /\ SetsVD /\ kind = "store" /\ q[k].w => q[k].d
    BY <1>1, <2>1, WalkTable, Zenon
  <2>4. map_tlb_entry(lo, kind, page) # "MATCH"
    BY <2>1, <2>2, Zenon DEF Lookup
  <2>5. ~Allows(kind, page)
    <3>1. SUFFICES ASSUME Allows(kind, page) PROVE FALSE
      OBVIOUS
    <3>2. lo.v /\ (mode = "user" => ~Privileged(page))
      BY <2>2, <2>3, <3>1, Zenon DEF Allows, Valid, ValidIn
    <3>3. kind = "store" => lo.d
      BY <1>1, <2>2, <2>3, <3>1, Zenon DEF Allows, Valid, ValidIn, Grown
    <3>4. map_tlb_entry(lo, kind, page) = "MATCH"
      <4> HIDE DEF lo
      <4>1. lo \in Lo
        BY <2>2, Zenon
      <4>2. QED
        BY <1>1, <4>1, <3>2, <3>3, MapResult
    <3>5. QED
      BY <2>4, <3>4
  <2>6. WalkedTc \in Tcs
    BY <1>1, ClearOK DEF WalkedTc, TypeOK, Tcs
  <2>7. DirtyOK(SetsVD, q, written, stale)
    BY <2>3, GrowDirty, Zenon DEF Inv, TypeOK
  <2>8. QED
    BY <2>1, <2>2, <2>3, <2>5, <2>6, <2>7, RaiseStep, Zenon
<1>4. QED
  BY <1>2, <1>3

\* A fill from the page table keeps the TLB in order, and serves what healed.
LEMMA TableFill ==
  ASSUME Inv, ~hw_ptw, NEW page \in Pages, NEW s \in Slots,
         Hits(tlb, asid, page[1]) \subseteq {s}
  PROVE  TlbOK(SetsVD, [tlb EXCEPT ![s] = fill_tlb_entry(pt, asid, page[1])], pt, stale)
<1> DEFINE entry == fill_tlb_entry(pt, asid, page[1])
<1>1. pt \in [Keys -> Lo] /\ asid \in Asids /\ page[1] \in Pairs
  BY KeyType DEF Inv, TypeOK
<1>2. /\ entry \in Entry /\ entry.asid = asid /\ entry.pair = page[1]
      /\ entry.g = IsGlobal(page[1])
      /\ \A r \in Pages : r[1] = page[1] => entry.lo[r[2]] = pt[Key(asid, r)]
  BY <1>1, FilledEntry, SMTT(30)
<1> HIDE DEF entry
<1>3. ~SetsVD
  BY DEF SetsVD
<1>4. EntryOK(SetsVD, entry, pt, stale)
  BY <1>2, <1>3 DEF EntryOK, Below, ValidIn
<1>5. TlbOK(SetsVD, [tlb EXCEPT ![s] = entry], pt, stale)
  BY <1>1, <1>2, <1>4, FillOK, Zenon DEF Inv
<1>6. QED
  BY <1>5 DEF entry

\* The steps of the guest kernel that change the TLB, and the refill.
LEMMA MaintainStep ==
  ASSUME Inv,
         \/ Invtlb
         \/ \E page \in Pages : Tlbwr(page) \/ \E s \in Slots : Tlbfill(page, s)
         \/ \E s \in Slots : RefillHandler(s)
  PROVE  Inv'
<1>1. TypeOK /\ asid \in Asids /\ tlb \in Tlbs
  BY DEF Inv, TypeOK, TlbOK
<1>2. CASE Invtlb
  <2>1. /\ UNCHANGED <<config, mode, ret, badv, asid, pt, healed, refault>>
        /\ tlb' = [s \in Slots |-> Invalid] /\ tc' = cpu_clear_tc
        /\ stale' = {} /\ written' = written \ stale /\ mode # "refill" /\ crmd_written' = FALSE
    BY <1>2 DEF Invtlb, Plv0
  <2>2. \A s \in Slots : ~tlb'[s].e
    BY <2>1 DEF Invalid
  <2>3. TlbOK(SetsVD, tlb', pt', stale') /\ HealOK(SetsVD, tlb', pt', healed')
    BY <2>1, <2>2, Zenon DEF TlbOK, Tlbs, NoTwo, Matches, HealOK
  <2>4. TypeOK' /\ TcOK(SetsVD, mode', crmd_written', asid', tc', pt', stale')
    BY <1>1, <2>1, ClearOK, Zenon DEF TypeOK, Tcs, config
  <2>5. SetsVD' = SetsVD
    BY <2>1 DEF config, SetsVD
  <2>6. DirtyOK(SetsVD, pt', written', stale')
    BY <2>1, Zenon DEF Inv, DirtyOK
  <2>7. QED
    BY <2>1, <2>3, <2>4, <2>5, <2>6, Zenon DEF Inv, config
<1>3. ASSUME ~hw_ptw, UNCHANGED <<config, asid, pt, history>>,
             mode' \in {"user", "kernel", "direct"}, ret' \in {"user", "kernel"},
             crmd_written' \in BOOLEAN,
             badv' \in Pages \union {NoPage},
             NEW page \in Pages, NEW s \in Slots,
             Hits(tlb, asid, page[1]) \subseteq {s},
             tlb' = [tlb EXCEPT ![s] = fill_tlb_entry(pt, asid, page[1])],
             tc' = cpu_clear_tc \/ UNCHANGED <<tc, mode, crmd_written>>
      PROVE  Inv'
  <2>1. TlbOK(SetsVD, tlb', pt', stale')
    BY <1>3, TableFill, Zenon DEF history
  <2>2. TcOK(SetsVD, mode', crmd_written', asid', tc', pt', stale')
    <3>1. CASE tc' = cpu_clear_tc
      BY <3>1, ClearOK
    <3>2. CASE UNCHANGED <<tc, mode, crmd_written>>
      BY <1>3, <3>2, Zenon DEF history, Inv
    <3>3. QED
      BY <1>3, <3>1, <3>2
  <2>3. tc' \in Tcs
    BY <1>1, <1>3, ClearOK, Zenon DEF TypeOK, Tcs
  <2>4. TypeOK'
    BY <1>1, <1>3, <2>1, <2>3 DEF TypeOK, config, history, TlbOK, Tlbs, Tcs
  <2>5. healed' = {} /\ HealOK(SetsVD, tlb', pt', healed')
    BY <1>3 DEF Inv, HealOK, history
  <2>6. SetsVD' = SetsVD
    BY <1>3 DEF config, SetsVD
  <2>7. DirtyOK(SetsVD, pt, written, stale)'
    BY <1>3, <2>6, Zenon DEF Inv, history
  <2>8. QED
    BY <1>3, <2>1, <2>2, <2>4, <2>5, <2>6, <2>7, Zenon DEF Inv, config, history
<1>4. ASSUME NEW page \in Pages, Tlbwr(page)
      PROVE  Inv'
  <2> DEFINE s == Hit(tlb, asid, page[1])
  <2>1. s \in Slots /\ Matches(tlb[s], asid, page[1])
    BY <1>4, HitMatches DEF Tlbwr
  <2>2. page[1] \in Pairs
    BY <1>1, KeyType
  <2>3. Hits(tlb, asid, page[1]) \subseteq {s}
    BY <1>1, <2>1, <2>2, Zenon DEF Hits, Inv, TlbOK, NoTwo
  <2>4. QED
    BY <1>1, <1>3, <1>4, <2>1, <2>3, Zenon DEF Tlbwr, Plv0, TypeOK
<1>5. ASSUME NEW page \in Pages, NEW s \in Slots, Tlbfill(page, s)
      PROVE  Inv'
  BY <1>1, <1>3, <1>5, Zenon DEF Tlbfill, Plv0, TypeOK
<1>6. ASSUME NEW s \in Slots, RefillHandler(s)
      PROVE  Inv'
  <2>1. ~hw_ptw /\ badv \in Pages /\ Hits(tlb, asid, badv[1]) = {}
    BY <1>6, Zenon DEF RefillHandler, Inv
  <2>2. QED
    BY <1>1, <1>3, <1>6, <2>1, Zenon DEF RefillHandler, TypeOK
<1>7. QED
  BY <1>2, <1>4, <1>5, <1>6

\* A change of the page table takes a right away only with the entry stale.
LEMMA WritePteStep ==
  ASSUME Inv, NEW key \in Keys, NEW new \in Ptes[key], WritePte(key, new)
  PROVE  Inv'
<1>1. /\ UNCHANGED <<config, mode, ret, badv, asid, tlb, tc, crmd_written, written, refault>>
      /\ mode # "refill" /\ new \in Lo /\ asid \in Asids /\ TypeOK
      /\ pt' = [pt EXCEPT ![key] = new]
      /\ stale' = IF Extends(pt[key], new) THEN stale ELSE stale \union {key}
      /\ healed' = {x \in healed : x[1] # key}
  BY PtesAreEntries, Zenon DEF WritePte, Plv0, Inv, TypeOK
<1>2. /\ pt' \in [Keys -> Lo] /\ pt'[key] = new
      /\ \A k \in Keys \ {key} : pt'[k] = pt[k]
  BY <1>1, Zenon DEF TypeOK
<1>3. stale \subseteq stale' /\ stale' \subseteq Keys
  BY <1>1 DEF TypeOK
<1>4. \A k \in Keys \ stale' : ValidIn(SetsVD, pt[k]) =>
        /\ ValidIn(SetsVD, pt'[k])
        /\ pt'[k].ppn = pt[k].ppn
        /\ pt[k].d => pt'[k].d
  BY <1>1, <1>2, Zenon DEF Extends, Valid, ValidIn
<1>5. TlbOK(SetsVD, tlb, pt', stale')
  <2>1. ASSUME NEW s \in Slots, tlb[s].e
        PROVE  EntryOK(SetsVD, tlb[s], pt', stale')
    <3>1. tlb[s].asid \in Asids /\ EntryOK(SetsVD, tlb[s], pt, stale)
      BY <2>1, ValidSlot, Zenon DEF Inv, TlbOK
    <3>2. \A page \in Pages : Key(tlb[s].asid, page) \in Keys
      BY <3>1, KeyType
    <3>3. QED
      BY <1>3, <1>4, <3>1, <3>2, Zenon DEF EntryOK, Below
  <2>2. QED
    BY <2>1, Zenon DEF Inv, TlbOK
<1>6. TcOK(SetsVD, mode, crmd_written, asid, tc, pt', stale')
  <2>1. ASSUME NEW kind \in Kinds, NEW page \in Pages
        PROVE  CachedOK(SetsVD, mode, crmd_written, tc[kind][page], kind, page,
                        Key(asid, page), pt', stale')
    <3>1. Key(asid, page) \in Keys
      BY <1>1, KeyType
    <3>2. CachedOK(SetsVD, mode, crmd_written, tc[kind][page], kind, page,
                   Key(asid, page), pt, stale)
      BY Zenon DEF Inv, TcOK
    <3>3. QED
      BY <1>3, <1>4, <3>1, <3>2, Zenon DEF CachedOK
  <2>2. QED
    BY <2>1 DEF TcOK
<1>7. HealOK(SetsVD, tlb, pt', healed')
  <2>1. SUFFICES ASSUME NEW s \in Slots, NEW page \in Pages, NEW kind \in Kinds,
                        tlb[s].e, tlb[s].pair = page[1],
                        <<Key(tlb[s].asid, page), kind>> \in healed'
                 PROVE  Serves(SetsVD, tlb[s].lo[page[2]], pt'[Key(tlb[s].asid, page)])
    BY Zenon DEF HealOK
  <2>2. Key(tlb[s].asid, page) \in Keys \ {key} /\ <<Key(tlb[s].asid, page), kind>> \in healed
    BY <1>1, <2>1, ValidSlot, KeyType, Zenon DEF Inv, TlbOK
  <2>3. QED
    BY <1>2, <2>1, <2>2, Zenon DEF Inv, HealOK
<1>8. DirtyOK(SetsVD, pt', written, stale')
  BY <1>1, <1>3, <1>4, Zenon DEF Inv, TypeOK, DirtyOK
<1>9. SetsVD' = SetsVD
  BY <1>1, Zenon DEF config, SetsVD
<1>10. TypeOK'
  BY <1>1, <1>2, <1>3, Zenon DEF TypeOK, config
<1>11. QED
  BY <1>1, <1>5, <1>6, <1>7, <1>8, <1>9, <1>10, Zenon DEF Inv, config

\* Every step keeps the invariant.
LEMMA StepInv == Inv /\ [Next]_vars => Inv'
<1> SUFFICES ASSUME Inv, [Next]_vars PROVE Inv'
  OBVIOUS
<1>1. CASE Access
  <2>1. CASE \E kind \in Kinds : DirectAccess(kind)
    BY <2>1, ModeStep
  <2> SUFFICES ASSUME NEW kind \in Kinds, NEW page \in Pages,
          \/ TcHit(kind, page) \/ TlbHit(kind, page) \/ TlbFault(kind, page)
          \/ RefillException(kind, page)
          \/ \E s \in Slots : WalkHit(kind, page, s) \/ WalkFault(kind, page, s)
               PROVE  Inv'
    BY <1>1, <2>1 DEF Access
  <2>2. CASE TcHit(kind, page) \/ TlbHit(kind, page)
    BY <2>2, HitStep
  <2>3. CASE TlbFault(kind, page) \/ \E s \in Slots : WalkFault(kind, page, s)
    BY <2>3, FaultStep
  <2>4. CASE RefillException(kind, page)
    BY <2>4, ModeStep
  <2>5. CASE \E s \in Slots : WalkHit(kind, page, s)
    BY <2>5, WalkHitStep
  <2>6. QED
    BY <2>2, <2>3, <2>4, <2>5
<1>2. CASE Refill
  BY <1>2, ModeStep, MaintainStep DEF Refill
<1>3. CASE ChangeMode
  BY <1>3, ModeStep DEF ChangeMode
<1>4. CASE Maintain
  BY <1>4, ModeStep, MaintainStep, WritePteStep DEF Maintain
<1>5. CASE UNCHANGED vars
  <2>1. UNCHANGED <<config, mode, ret, badv, asid, pt, tlb, tc, crmd_written, history>>
    BY <1>5 DEF vars, config, history
  <2>2. TypeOK'
    BY <2>1 DEF Inv, TypeOK, config, history
  <2>3. TcOK(SetsVD, mode', crmd_written', asid', tc', pt, stale)
    BY <2>1 DEF Inv
  <2>4. mode' = "refill" => ~hw_ptw /\ badv' \in Pages /\ Hits(tlb, asid', badv'[1]) = {}
    BY <2>1 DEF Inv
  <2>5. QED
    BY <2>1, <2>2, <2>3, <2>4, QuietStep
<1>6. QED
  BY <1>1, <1>2, <1>3, <1>4, <1>5 DEF Next

\* The inductive invariant holds in every behaviour.
THEOREM Invariance == Spec => []Inv
BY InitInv, StepInv, PTL DEF Spec

\* The state of the MMU keeps its type.
THEOREM TypeCorrect == Spec => []TypeOK
<1>1. Inv => TypeOK
  BY DEF Inv
<1>2. QED
  BY <1>1, Invariance, PTL

\* tlb_search never finds two entries, with or without the walker: its
\* assertion "stlb multi-hit" cannot fail.
THEOREM SearchIsUnique == Spec => []NoMultiHit
<1>1. Inv => NoMultiHit
  BY DEF Inv, TlbOK, NoTwo, NoMultiHit, Hits
<1>2. QED
  BY <1>1, Invariance, PTL

\* A translation in tc_fetch, tc_load or tc_store is what the page table of the
\* current space says.  It fits the mode, PLV, DA and PG, over every trap, ertn
\* and switch of space; after a csrwr of CRMD, which changes the mode and leaves
\* the caches filled, only once they were cleared again.
THEOREM CachesAreCoherent == Spec => []TcCoherent
<1>1. Inv => TcCoherent
  BY Zenon DEF Inv, TcOK, CachedOK, TcCoherent, Valid, ValidIn, TypeOK, Paged
<1>2. QED
  BY <1>1, Invariance, PTL

\* No store goes past the D bit of the page table.
THEOREM StoresAreRecorded == Spec => []DirtyIsRecorded
<1>1. Inv => DirtyIsRecorded
  BY DEF Inv, DirtyOK, DirtyIsRecorded
<1>2. QED
  BY <1>1, Invariance, PTL

\* Under the walker no access faults twice on an entry the table outgrew.
THEOREM FaultsHeal == Spec => []FaultHeals
<1>1. Inv => FaultHeals
  BY DEF Inv, FaultHeals
<1>2. QED
  BY <1>1, Invariance, PTL
=============================================================================
