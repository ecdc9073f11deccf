--------------------------------- MODULE LlSc ---------------------------------
(***************************************************************************)
(* ll, sc and sc.q of the LoongArch core, the LLBCTL register, and the     *)
(* return from exceptions, which ends a reservation unless LLBCTL.KLO is   *)
(* set.  The core has one reservation: the LL bit, the physical address    *)
(* and the values ll read.                                                 *)
(*                                                                         *)
(* An address is <<quad, half>>: sc works on a half, sc.q on both.  User   *)
(* threads run any code.  The guest kernel switches threads, uses ll and   *)
(* sc in its handlers, an sc only after an ll of its own, and sets KLO as  *)
(* its last step before ertn, in a handler that did nothing else.          *)
(***************************************************************************)
EXTENDS Integers

CONSTANTS Threads, Quads, Vals

Handlers == {"general", "refill"}
Halves == {0, 1}
Addrs == Quads \X Halves
NoAddr == <<"none", 1>>

ASSUME ActorsAreApart == Threads \intersect Handlers = {}
ASSUME QuadsAreReal == "none" \notin Quads

VARIABLES
  mem,      \* physical memory
  rollb,    \* LLBCTL.ROLLB, the LL bit
  klo,      \* LLBCTL.KLO
  lladdr,   \* env->lladdr
  llval,    \* env->llval
  llpair,   \* env->llval_lo, env->llval_hi
  cur,      \* the thread the core runs, or will return to
  active,   \* the handlers that have not returned; a refill is innermost
  did,      \* what each handler has done: nothing, an ll, something else
  watched,  \* history: the actor the rest of the history is about
  seen,     \* history: the address of its last ll
  touched,  \* history: what others stored in that quad since
  intact,   \* history: nothing has ended its reservation
  sc        \* history: the sc just executed, when it is the watched actor's

core == <<rollb, klo, lladdr, llval, llpair>>
guest == <<cur, active, did>>
history == <<watched, seen, touched, intact, sc>>
vars == <<mem, rollb, klo, lladdr, llval, llpair, cur, active, did,
          watched, seen, touched, intact, sc>>

Actors == Threads \union Handlers
NoSc == [ok |-> FALSE, alone |-> TRUE, held |-> FALSE]

TypeOK ==
  /\ mem \in [Quads -> [Halves -> Vals]]
  /\ rollb \in BOOLEAN /\ klo \in BOOLEAN
  /\ lladdr \in Addrs \union {NoAddr}
  /\ llval \in Vals
  /\ llpair \in [Halves -> Vals]
  /\ cur \in Threads
  /\ active \subseteq Handlers
  /\ did \in [Handlers -> {"nothing", "ll", "other"}]
  /\ watched \in Actors
  /\ seen \in Addrs \union {NoAddr}
  /\ touched \subseteq Halves
  /\ intact \in BOOLEAN
  /\ sc \in [ok : BOOLEAN, alone : BOOLEAN, held : BOOLEAN]

Init ==
  /\ mem \in [Quads -> [Halves -> Vals]]
  /\ rollb = FALSE /\ klo = FALSE
  /\ lladdr = NoAddr
  /\ llval \in Vals
  /\ llpair = [h \in Halves |-> llval]
  /\ cur \in Threads
  /\ active = {}
  /\ did = [h \in Handlers |-> "nothing"]
  /\ watched \in Actors
  /\ seen = NoAddr /\ touched = {} /\ intact = FALSE
  /\ sc = NoSc

Top == IF "refill" \in active THEN "refill"
       ELSE IF "general" \in active THEN "general"
       ELSE "user"
Actor == IF Top = "user" THEN cur ELSE Top

(* A handler does something: not after it has set KLO.                     *)
Does(what) ==
  IF Top = "user" THEN UNCHANGED did
  ELSE /\ ~klo
       /\ did' = [did EXCEPT ![Top] = IF @ = "ll" THEN @ ELSE what]

-----------------------------------------------------------------------------
(* History of a store to some halves of a quad.                            *)
NoteStore(quad, halves) ==
  /\ touched' = IF seen[1] = quad /\ Actor # watched THEN touched \union halves ELSE touched
  /\ intact' = (intact /\ seen[1] # quad)
  /\ UNCHANGED <<watched, seen>>

NoteSc(quad, halves, ok) ==
  sc' = IF Actor # watched THEN NoSc
        ELSE [ok    |-> ok,
              alone |-> seen[1] = quad /\ touched \intersect halves = {},
              held  |-> intact /\ seen[1] = quad /\ (halves = {seen[2]} \/ halves = Halves)]

-----------------------------------------------------------------------------
\* What ll keeps as the address of the reservation.
Reserve(a) == a

\* trans_ll_w, trans_ll_d, trans_llacq_w, trans_llacq_d.
Ll(a) ==
  /\ Does("ll")
  /\ rollb' = TRUE
  /\ lladdr' = Reserve(a)
  /\ llval' = mem[a[1]][a[2]]
  /\ llpair' = mem[a[1]]
  /\ IF Actor = watched
     THEN seen' = a /\ touched' = {} /\ intact' = TRUE
     ELSE intact' = FALSE /\ UNCHANGED <<seen, touched>>
  /\ sc' = NoSc
  /\ UNCHANGED <<mem, klo, cur, active, watched>>

MayTry == Top # "user" => did[Top] = "ll" /\ ~klo

Holds(a) == rollb /\ lladdr = a /\ llval = mem[a[1]][a[2]]

\* trans_sc_w, trans_sc_d, trans_screl_w, trans_screl_d.  The LL bit stays.
Sc(a, v) ==
  /\ MayTry
  /\ NoteSc(a[1], {a[2]}, Holds(a))
  /\ IF Holds(a)
     THEN mem' = [mem EXCEPT ![a[1]][a[2]] = v] /\ NoteStore(a[1], {a[2]})
     ELSE UNCHANGED <<mem, watched, seen, touched, intact>>
  /\ UNCHANGED <<core, guest>>

HoldsQuad(quad) == rollb /\ lladdr[1] = quad /\ llpair = mem[quad]

\* trans_sc_q.
ScQ(quad, pair) ==
  /\ MayTry
  /\ NoteSc(quad, Halves, HoldsQuad(quad))
  /\ IF HoldsQuad(quad)
     THEN mem' = [mem EXCEPT ![quad] = pair] /\ NoteStore(quad, Halves)
     ELSE UNCHANGED <<mem, watched, seen, touched, intact>>
  /\ UNCHANGED <<core, guest>>

\* Any other store.
Store(a, v) ==
  /\ Does("other")
  /\ mem' = [mem EXCEPT ![a[1]][a[2]] = v]
  /\ NoteStore(a[1], {a[2]})
  /\ sc' = NoSc
  /\ UNCHANGED <<core, cur, active>>

-----------------------------------------------------------------------------
(* Exceptions, and what the kernel does in them.                           *)

\* do_interrupt leaves LLBCTL and the reservation alone.
Enter(handler) ==
  /\ handler \notin active
  /\ handler = "general" => active = {}
  /\ ~klo
  /\ active' = active \union {handler}
  /\ did' = [did EXCEPT ![handler] = "nothing"]
  /\ IF watched = handler
     THEN seen' = NoAddr /\ touched' = {} /\ intact' = FALSE
     ELSE UNCHANGED <<seen, touched, intact>>
  /\ sc' = NoSc
  /\ UNCHANGED <<mem, core, cur, watched>>

Switch(thread) ==
  /\ Top = "general"
  /\ Does("other")
  /\ cur' = thread
  /\ sc' = NoSc
  /\ UNCHANGED <<mem, core, active, watched, seen, touched, intact>>

\* csrwr of LLBCTL with WCLLB.
WriteWcllb ==
  /\ Top # "user"
  /\ rollb' = FALSE
  /\ intact' = FALSE
  /\ sc' = NoSc
  /\ UNCHANGED <<mem, klo, lladdr, llval, llpair, guest, watched, seen, touched>>

\* csrwr of LLBCTL with KLO.
WriteKlo ==
  /\ Top # "user"
  /\ did[Top] = "nothing"
  /\ klo' = TRUE
  /\ sc' = NoSc
  /\ UNCHANGED <<mem, rollb, lladdr, llval, llpair, guest, watched, seen, touched, intact>>

\* Mutant: the reservation always survives the return.
Keeps == TRUE

\* Mutant: the reservation never survives the return.
Drops == FALSE

\* KLO keeps the reservation over this return.
Survives == klo

\* helper_ertn.
Ertn ==
  /\ active # {}
  /\ active' = active \ {Top}
  /\ rollb' = (rollb /\ Survives)
  /\ lladdr' = IF Survives THEN lladdr ELSE NoAddr
  /\ klo' = FALSE
  /\ intact' = (intact /\ klo)
  /\ sc' = NoSc
  /\ UNCHANGED <<mem, llval, llpair, cur, did, watched, seen, touched>>

Access ==
  \/ \E a \in Addrs : Ll(a) \/ \E v \in Vals : Sc(a, v) \/ Store(a, v)
  \/ \E quad \in Quads, pair \in [Halves -> Vals] : ScQ(quad, pair)

Kernel ==
  \/ \E handler \in Handlers : Enter(handler)
  \/ \E thread \in Threads : Switch(thread)
  \/ WriteWcllb
  \/ WriteKlo
  \/ Ertn

Next == Access \/ Kernel

Spec == Init /\ [][Next]_vars

-----------------------------------------------------------------------------
(* A store conditional that succeeds is atomic: the thread or handler that *)
(* executes it has executed ll on this location, and nobody else has       *)
(* stored to the halves it writes since, whatever exceptions, returns and  *)
(* thread switches came in between (trans_sc_*, helper_ertn).              *)
ScAtomic == sc.ok => sc.alone

(* It does not fail for no reason: while the reservation is intact, also   *)
(* over a handler that returned with KLO set, sc and sc.q succeed.         *)
ScHonoured == sc.held => sc.ok
=============================================================================
