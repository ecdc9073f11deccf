------------------------------ MODULE RvAtomic ------------------------------
(***************************************************************************)
(* lr, sc and the amo instructions of the RISC-V interpreter               *)
(* (riscv64/interpreter.c), with the traps and returns between them.  The  *)
(* reservation is a virtual address and the value lr read there; every     *)
(* change of mode ends it (riscv_cpu_set_mode), since any trap may lead to *)
(* another thread.                                                         *)
(*                                                                         *)
(* Memory is one doubleword of two words, of a bit each, in one page that  *)
(* the guest kernel maps, write-protects and unmaps.  A fault leaves the   *)
(* handler by longjmp and is a trap; one in the kernel starts its handler  *)
(* anew.  The history is about one context.                                *)
(***************************************************************************)
EXTENDS RvInt

CONSTANT RvThreads

VARIABLES
    rmem,            \* the doubleword
    rpage,           \* "rw", "ro" or "none"
    rres,            \* env->load_res: 0, 1 (a word address), or -1
    rval,            \* env->load_val
    rctx,            \* the thread that runs, or "kernel"
    rcur,            \* the thread the kernel returns to
    rwatch,          \* history: the context the rest of it is about
    rseen,           \* history: its last lr
    rsc              \* history: the sc just executed, when it is its

atomVars == <<rmem, rpage, rres, rval, rctx, rcur, rwatch, rseen, rsc>>

\* Bits of an access of s words
Ld(s, va) == IF s = 2 THEN rmem ELSE (rmem \div 2^va) % 2
St(s, va, v) ==
    LET low == IF s = 2 \/ va = 0 THEN v ELSE rmem
        high == IF s = 2 THEN v \div 2 ELSE IF va = 1 THEN v ELSE rmem \div 2
    IN  (low % 2) + 2 * (high % 2)
WordsAt(s, va) == va .. va + s - 1
Places == {<<1, 0>>, <<1, 1>>, <<2, 0>>}          \* size and word address
RvData(s) == 0 .. 2^s - 1

NoLr == [s |-> 0, va |-> 0, stored |-> {}, fresh |-> FALSE]
NoRvSc == [ok |-> FALSE, alone |-> TRUE, held |-> FALSE]
AtomInit ==
    /\ rmem = 0 /\ rpage = "rw"
    /\ rres = -1 /\ rval = 0       \* reset leaves 0, an address that is not RAM
    /\ rctx \in RvThreads /\ rcur = rctx
    /\ rwatch \in RvThreads \cup {"kernel"} /\ rseen = NoLr /\ rsc = NoRvSc

(* A trap or a return: riscv_cpu_set_mode *)
\* Mutant: the reservation outlives a change of mode.
ModeKeepsReservation == UNCHANGED rres
set_mode == rres' = -1
RvTrap ==
    /\ set_mode
    /\ rctx' = "kernel" /\ rsc' = NoRvSc
    /\ rseen' = IF rwatch = "kernel" THEN NoLr ELSE [rseen EXCEPT !.fresh = FALSE]
    /\ UNCHANGED <<rmem, rpage, rval, rcur, rwatch>>
NoteRvStore(s, va) ==
    rseen' = IF rctx = rwatch THEN [rseen EXCEPT !.fresh = FALSE]
             ELSE [rseen EXCEPT !.stored = @ \cup WordsAt(s, va)]

(* trans_lr_w, trans_lr_d: the address and the value are kept once the     *)
(* load has succeeded.                                                     *)
trans_lr(s, va) ==
    IF rpage = "none" THEN RvTrap
    ELSE /\ rres' = va
         /\ rval' = AmoRd(Ld(s, va), s)
         /\ rseen' = IF rctx = rwatch THEN [s |-> s, va |-> va, stored |-> {}, fresh |-> TRUE] ELSE rseen
         /\ rsc' = NoRvSc
         /\ UNCHANGED <<rmem, rpage, rctx, rcur, rwatch>>

NoteRvSc(s, va, ok) ==
    rsc' = IF rctx # rwatch THEN NoRvSc
           ELSE [ok |-> ok,
                 alone |-> rseen.s > 0 /\ rseen.va = va /\ rseen.stored \cap WordsAt(s, va) = {},
                 held |-> rseen.fresh /\ rseen.s = s /\ rseen.va = va]
(* trans_sc_w, trans_sc_d.  Memory is read only at the address reserved    *)
(* and written only when it holds the value; a fault comes before the      *)
(* reservation is dropped, and its trap drops it.                          *)
trans_sc(s, va, v) ==
    IF rres # va
    THEN /\ NoteRvSc(s, va, FALSE) /\ rres' = -1
         /\ rseen' = IF rctx = rwatch THEN [rseen EXCEPT !.fresh = FALSE] ELSE rseen
         /\ UNCHANGED <<rmem, rpage, rval, rctx, rcur, rwatch>>
    ELSE IF rpage = "none" THEN RvTrap
    ELSE IF AmoRd(Ld(s, va), s) # rval
    THEN /\ NoteRvSc(s, va, FALSE) /\ rres' = -1
         /\ rseen' = IF rctx = rwatch THEN [rseen EXCEPT !.fresh = FALSE] ELSE rseen
         /\ UNCHANGED <<rmem, rpage, rval, rctx, rcur, rwatch>>
    ELSE IF rpage = "ro" THEN RvTrap
    ELSE /\ NoteRvSc(s, va, TRUE) /\ rres' = -1
         /\ rmem' = St(s, va, v) /\ NoteRvStore(s, va)
         /\ UNCHANGED <<rpage, rval, rctx, rcur, rwatch>>

(* trans_amoadd_w .. trans_amoswap_d: a load and a store, either of which  *)
(* may fault before anything is written.                                   *)
trans_amo(op, s, va, v) ==
    IF rpage # "rw" THEN RvTrap
    ELSE /\ rmem' = St(s, va, AmoStored(op, Ld(s, va), v, s)) /\ NoteRvStore(s, va) /\ rsc' = NoRvSc
         /\ UNCHANGED <<rpage, rres, rval, rctx, rcur, rwatch>>
trans_store(s, va, v) == trans_amo("swap", s, va, v)

(* helper_sret, to a thread of the kernel's choice *)
RvReturn ==
    /\ rctx = "kernel" /\ set_mode
    /\ rctx' = rcur /\ rsc' = NoRvSc
    /\ rseen' = [rseen EXCEPT !.fresh = FALSE]
    /\ UNCHANGED <<rmem, rpage, rval, rcur, rwatch>>
RvSwitch ==
    /\ rctx = "kernel" /\ rcur' \in RvThreads \ {rcur} /\ rsc' = NoRvSc
    /\ UNCHANGED <<rmem, rpage, rres, rval, rctx, rwatch, rseen>>
RvRemap ==
    /\ rctx = "kernel" /\ rpage' \in {"rw", "ro", "none"} \ {rpage} /\ rsc' = NoRvSc
    /\ rseen' = [rseen EXCEPT !.fresh = FALSE]
    /\ UNCHANGED <<rmem, rres, rval, rctx, rcur, rwatch>>

AtomLr == \E p \in Places : trans_lr(p[1], p[2])
AtomSc == \E p \in Places : \E v \in RvData(p[1]) : trans_sc(p[1], p[2], v)
AtomAmo == \E op \in {"add", "minu"}, p \in Places : trans_amo(op, p[1], p[2], 1)
AtomStore == \E p \in Places : \E v \in RvData(p[1]) : trans_store(p[1], p[2], v)
AtomNext == AtomLr \/ AtomSc \/ AtomAmo \/ AtomStore \/ RvTrap \/ RvReturn \/ RvSwitch \/ RvRemap
----------------------------------------------------------------------------
(* An sc succeeds only where its own thread, or its own activation of the  *)
(* kernel, placed the reservation with an lr of that address, and no other *)
(* has stored there since, whatever values were stored: comparing values   *)
(* would not notice a value that was changed and changed back, the end of  *)
(* the reservation at every change of mode does.  And an sc that follows   *)
(* its lr with no trap and no store of its own between them succeeds, so a *)
(* loop around the pair ends as soon as one turn is not interrupted.       *)
RvScExact == (rsc.ok => rsc.alone) /\ (rsc.held => rsc.ok)
=============================================================================
