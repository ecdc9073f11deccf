------------------------------ MODULE LlScProofs ------------------------------
(* Proofs about LlSc: the reservation belongs to the actor that can use it. *)
EXTENDS LlSc, TLAPS

\* The core is at the watched actor, or will be once handlers that have done
\* nothing have returned.
Quiet(handler) == handler \in active => did[handler] = "nothing"

Mine ==
  \/ watched \in Threads /\ watched = cur /\ Quiet("general") /\ Quiet("refill")
  \/ watched = "general" /\ "general" \in active /\ did["general"] = "ll" /\ Quiet("refill")
  \/ watched = "refill" /\ "refill" \in active /\ did["refill"] = "ll"

\* The reservation is then the one its last ll made, and nobody has stored.
Owned == Mine /\ rollb => seen = lladdr /\ touched = {}

\* KLO is set by a handler that has done nothing.
KloIsQuiet == klo => Top # "user" /\ did[Top] = "nothing"

\* An intact reservation is in the core, with the values memory has.
InCore ==
  intact => /\ rollb
            /\ lladdr = seen
            /\ seen \in Addrs
            /\ llval = mem[seen[1]][seen[2]]
            /\ llpair = mem[seen[1]]

Inv == TypeOK /\ Owned /\ KloIsQuiet /\ InCore /\ ScAtomic /\ ScHonoured

-----------------------------------------------------------------------------
(* Initially there is no reservation (Init). *)
LEMMA InitInv == Init => Inv
<1> SUFFICES ASSUME Init PROVE Inv
  OBVIOUS
<1>1. TypeOK
  BY Zenon DEF Init, TypeOK, NoSc, Halves
<1>2. Owned /\ KloIsQuiet /\ InCore
  BY DEF Init, Owned, KloIsQuiet, InCore
<1>3. ScAtomic /\ ScHonoured
  BY DEF Init, ScAtomic, ScHonoured, NoSc
<1> QED
  BY <1>1, <1>2, <1>3 DEF Inv

(* The record of a store conditional holds three truth values (NoteSc). *)
LEMMA ScType ==
  ASSUME NEW quad, NEW halves, NEW ok \in BOOLEAN, intact \in BOOLEAN, NoteSc(quad, halves, ok)
  PROVE  sc' \in [ok : BOOLEAN, alone : BOOLEAN, held : BOOLEAN]
<1> DEFINE alone == seen[1] = quad /\ touched \intersect halves = {}
           held == intact /\ seen[1] = quad /\ (halves = {seen[2]} \/ halves = Halves)
<1>1. alone \in BOOLEAN /\ held \in BOOLEAN
  OBVIOUS
<1>2. sc' = NoSc \/ sc' = [ok |-> ok, alone |-> alone, held |-> held]
  BY DEF NoteSc
<1>3. \A x, y, z \in BOOLEAN :
        [ok |-> x, alone |-> y, held |-> z] \in [ok : BOOLEAN, alone : BOOLEAN, held : BOOLEAN]
  OBVIOUS
<1> HIDE DEF alone, held
<1>4. [ok |-> ok, alone |-> alone, held |-> held] \in [ok : BOOLEAN, alone : BOOLEAN, held : BOOLEAN]
  BY <1>1, <1>3, Zenon
<1>5. NoSc \in [ok : BOOLEAN, alone : BOOLEAN, held : BOOLEAN]
  BY DEF NoSc
<1> QED
  BY <1>2, <1>4, <1>5

(* Every access and every step of the kernel keeps the variables in range. *)
LEMMA TypeStep == TypeOK /\ [Next]_vars => TypeOK'
<1> USE DEF TypeOK, NoSc, Actors, Handlers, Halves, Addrs, core, guest
<1> SUFFICES ASSUME TypeOK, [Next]_vars PROVE TypeOK'
  OBVIOUS
<1>1. ASSUME NEW a \in Addrs, Ll(a) PROVE TypeOK'
  <2>1. did' \in [Handlers -> {"nothing", "ll", "other"}]
    BY <1>1 DEF Ll, Does, Top
  <2>2. mem[a[1]] \in [Halves -> Vals] /\ mem[a[1]][a[2]] \in Vals
    BY DEF TypeOK
  <2>3. seen' \in Addrs \union {NoAddr} /\ touched' \subseteq Halves /\ intact' \in BOOLEAN
    BY <1>1, Zenon DEF Ll
  <2> QED
    BY <1>1, <2>1, <2>2, <2>3 DEF Ll, Reserve
<1>2. ASSUME NEW a \in Addrs, NEW v \in Vals, Sc(a, v) PROVE TypeOK'
  <2>1. mem' \in [Quads -> [Halves -> Vals]]
    BY <1>2 DEF Sc
  <2>2. sc' \in [ok : BOOLEAN, alone : BOOLEAN, held : BOOLEAN]
    BY <1>2, ScType, Zenon DEF Sc, Holds
  <2>3. watched' = watched /\ seen' = seen /\ touched' \subseteq Halves /\ intact' \in BOOLEAN
    BY <1>2, Zenon DEF Sc, NoteStore
  <2> QED
    BY <1>2, <2>1, <2>2, <2>3 DEF Sc
<1>3. ASSUME NEW a \in Addrs, NEW v \in Vals, Store(a, v) PROVE TypeOK'
  BY <1>3, ZenonT(40) DEF Store, NoteStore, Does, Top, Actor
<1>4. ASSUME NEW quad \in Quads, NEW pair \in [Halves -> Vals], ScQ(quad, pair) PROVE TypeOK'
  <2>1. mem' \in [Quads -> [Halves -> Vals]]
    BY <1>4 DEF ScQ
  <2>2. sc' \in [ok : BOOLEAN, alone : BOOLEAN, held : BOOLEAN]
    BY <1>4, ScType, Zenon DEF ScQ, HoldsQuad
  <2>3. watched' = watched /\ seen' = seen /\ touched' \subseteq Halves /\ intact' \in BOOLEAN
    BY <1>4, Zenon DEF ScQ, NoteStore
  <2> QED
    BY <1>4, <2>1, <2>2, <2>3 DEF ScQ
<1>5. ASSUME NEW handler \in Handlers, Enter(handler) PROVE TypeOK'
  BY <1>5, Zenon DEF Enter
<1>6. ASSUME NEW thread \in Threads, Switch(thread) PROVE TypeOK'
  BY <1>6 DEF Switch, Does, Top
<1>7. CASE WriteWcllb
  BY <1>7, Zenon DEF WriteWcllb
<1>8. CASE WriteKlo
  BY <1>8 DEF WriteKlo
<1>9. CASE Ertn
  BY <1>9, Zenon DEF Ertn, Survives
<1>10. CASE UNCHANGED vars
  BY <1>10 DEF vars
<1> QED
  BY <1>1, <1>2, <1>3, <1>4, <1>5, <1>6, <1>7, <1>8, <1>9, <1>10 DEF Next, Access, Kernel

(* An intact reservation stays in the core until a step that ends it: another *)
(* ll, a store to its quad, WCLLB, or a return without KLO.                    *)
LEMMA InCoreStep == TypeOK /\ InCore /\ [Next]_vars => InCore'
<1> SUFFICES ASSUME TypeOK, InCore, [Next]_vars PROVE InCore'
  OBVIOUS
<1> USE DEF InCore, core, guest
<1>1. ASSUME NEW a \in Addrs, Ll(a) PROVE InCore'
  BY <1>1 DEF Ll, Reserve
<1>2. ASSUME NEW a \in Addrs, NEW v \in Vals, Sc(a, v) PROVE InCore'
  BY <1>2, Zenon DEF Sc, NoteStore, TypeOK, Addrs
<1>3. ASSUME NEW a \in Addrs, NEW v \in Vals, Store(a, v) PROVE InCore'
  BY <1>3, Zenon DEF Store, NoteStore, TypeOK, Addrs
<1>4. ASSUME NEW quad \in Quads, NEW pair \in [Halves -> Vals], ScQ(quad, pair) PROVE InCore'
  BY <1>4, Zenon DEF ScQ, NoteStore, TypeOK, Addrs
<1>5. ASSUME NEW handler \in Handlers, Enter(handler) PROVE InCore'
  BY <1>5, Zenon DEF Enter
<1>6. ASSUME NEW thread \in Threads, Switch(thread) PROVE InCore'
  BY <1>6 DEF Switch
<1>7. CASE WriteWcllb
  BY <1>7 DEF WriteWcllb
<1>8. CASE WriteKlo
  BY <1>8 DEF WriteKlo
<1>9. CASE Ertn
  BY <1>9, Zenon DEF Ertn, Survives
<1>10. CASE UNCHANGED vars
  BY <1>10 DEF vars
<1> QED
  BY <1>1, <1>2, <1>3, <1>4, <1>5, <1>6, <1>7, <1>8, <1>9, <1>10 DEF Next, Access, Kernel

(* KLO is written by a handler that has done nothing, which then does nothing *)
(* but return; the return clears it (WriteKlo, Ertn).                         *)
LEMMA KloStep == TypeOK /\ KloIsQuiet /\ [Next]_vars => KloIsQuiet'
<1> SUFFICES ASSUME TypeOK, KloIsQuiet, [Next]_vars PROVE KloIsQuiet'
  OBVIOUS
<1> USE DEF KloIsQuiet, Top, core, guest
<1>1. ASSUME NEW a \in Addrs, Ll(a) PROVE KloIsQuiet'
  BY <1>1 DEF Ll, Does
<1>2. ASSUME NEW a \in Addrs, NEW v \in Vals, Sc(a, v) PROVE KloIsQuiet'
  BY <1>2 DEF Sc
<1>3. ASSUME NEW a \in Addrs, NEW v \in Vals, Store(a, v) PROVE KloIsQuiet'
  BY <1>3 DEF Store, Does
<1>4. ASSUME NEW quad \in Quads, NEW pair \in [Halves -> Vals], ScQ(quad, pair) PROVE KloIsQuiet'
  BY <1>4 DEF ScQ
<1>5. ASSUME NEW handler \in Handlers, Enter(handler) PROVE KloIsQuiet'
  BY <1>5 DEF Enter
<1>6. ASSUME NEW thread \in Threads, Switch(thread) PROVE KloIsQuiet'
  BY <1>6 DEF Switch, Does
<1>7. CASE WriteWcllb
  BY <1>7 DEF WriteWcllb
<1>8. CASE WriteKlo
  BY <1>8 DEF WriteKlo
<1>9. CASE Ertn
  BY <1>9 DEF Ertn
<1>10. CASE UNCHANGED vars
  BY <1>10 DEF vars
<1> QED
  BY <1>1, <1>2, <1>3, <1>4, <1>5, <1>6, <1>7, <1>8, <1>9, <1>10 DEF Next, Access, Kernel

(* The reservation stays the watched actor's: another actor's ll or store     *)
(* marks its handler, and the return of a marked handler ends the             *)
(* reservation; a switch of threads marks the general handler.                *)
LEMMA OwnedStep == TypeOK /\ KloIsQuiet /\ Owned /\ [Next]_vars => Owned'
<1> SUFFICES ASSUME TypeOK, KloIsQuiet, Owned, [Next]_vars PROVE Owned'
  OBVIOUS
<1> USE ActorsAreApart DEF Owned, Mine, Quiet, Handlers, core, guest
<1>0. /\ active \subseteq Handlers /\ cur \in Threads /\ watched \in Threads \union Handlers
      /\ did \in [Handlers -> {"nothing", "ll", "other"}]
  BY DEF TypeOK, Actors
<1>1. ASSUME NEW a \in Addrs, Ll(a) PROVE Owned'
  BY <1>0, <1>1 DEF Ll, Reserve, Does, Actor, Top
<1>2. ASSUME NEW a \in Addrs, NEW v \in Vals, Sc(a, v) PROVE Owned'
  BY <1>0, <1>2 DEF Sc, NoteStore, MayTry, Actor, Top
<1>3. ASSUME NEW a \in Addrs, NEW v \in Vals, Store(a, v) PROVE Owned'
  BY <1>0, <1>3 DEF Store, NoteStore, Does, Actor, Top
<1>4. ASSUME NEW quad \in Quads, NEW pair \in [Halves -> Vals], ScQ(quad, pair) PROVE Owned'
  BY <1>0, <1>4 DEF ScQ, NoteStore, MayTry, Actor, Top
<1>5. ASSUME NEW handler \in Handlers, Enter(handler) PROVE Owned'
  BY <1>0, <1>5 DEF Enter
<1>6. ASSUME NEW thread \in Threads, Switch(thread) PROVE Owned'
  BY <1>0, <1>6 DEF Switch, Does, Top
<1>7. CASE WriteWcllb
  BY <1>7 DEF WriteWcllb
<1>8. CASE WriteKlo
  BY <1>8 DEF WriteKlo
<1>9. CASE Ertn
  BY <1>0, <1>9, Zenon DEF Ertn, Survives, KloIsQuiet, Top
<1>10. CASE UNCHANGED vars
  BY <1>10 DEF vars
<1> QED
  BY <1>1, <1>2, <1>3, <1>4, <1>5, <1>6, <1>7, <1>8, <1>9, <1>10 DEF Next, Access, Kernel

(* What a store conditional reports: it succeeds only on a reservation that *)
(* is the actor's own, and succeeds whenever that reservation is intact.    *)
LEMMA OutcomeStep ==
  TypeOK /\ Owned /\ InCore /\ ScAtomic /\ ScHonoured /\ [Next]_vars => ScAtomic' /\ ScHonoured'
<1> SUFFICES ASSUME TypeOK, Owned, InCore, ScAtomic, ScHonoured, [Next]_vars
             PROVE  ScAtomic' /\ ScHonoured'
  OBVIOUS
<1> USE DEF ScAtomic, ScHonoured, NoSc
<1>0. MayTry /\ Actor = watched => Mine
  BY ActorsAreApart DEF MayTry, Actor, Top, Mine, Quiet, TypeOK, Actors, Handlers
<1>1. ASSUME NEW a \in Addrs, NEW v \in Vals, Sc(a, v) PROVE ScAtomic' /\ ScHonoured'
  <2>1. MayTry /\ NoteSc(a[1], {a[2]}, Holds(a))
    BY <1>1 DEF Sc
  <2>2. Actor = watched /\ Holds(a) => seen = a /\ touched = {}
    BY <1>0, <2>1 DEF Holds, Owned
  <2>3. ASSUME intact, seen[1] = a[1], {a[2]} = {seen[2]} \/ {a[2]} = Halves PROVE Holds(a)
    <3>1. seen = a
      BY <2>3 DEF InCore, Addrs, Halves
    <3> QED
      BY <2>3, <3>1 DEF InCore, Holds
  <2> QED
    BY <2>1, <2>2, <2>3, Zenon DEF NoteSc
<1>2. ASSUME NEW quad \in Quads, NEW pair \in [Halves -> Vals], ScQ(quad, pair)
      PROVE  ScAtomic' /\ ScHonoured'
  <2>1. MayTry /\ NoteSc(quad, Halves, HoldsQuad(quad))
    BY <1>2 DEF ScQ
  <2>2. Actor = watched /\ HoldsQuad(quad) => seen[1] = quad /\ touched = {}
    BY <1>0, <2>1 DEF HoldsQuad, Owned
  <2>3. intact /\ seen[1] = quad => HoldsQuad(quad)
    BY DEF InCore, HoldsQuad
  <2> QED
    BY <2>1, <2>2, <2>3, Zenon DEF NoteSc
<1>3. CASE sc' = NoSc
  BY <1>3
<1>4. CASE UNCHANGED vars
  BY <1>4 DEF vars
<1> QED
  BY <1>1, <1>2, <1>3, <1>4, Zenon DEF Next, Access, Kernel, Ll, Store, Enter, Switch, WriteWcllb, WriteKlo, Ertn

(* The inductive invariant holds in every state of LlSc. *)
THEOREM Invariance == Spec => []Inv
<1>1. Inv /\ [Next]_vars => Inv'
  BY TypeStep, InCoreStep, KloStep, OwnedStep, OutcomeStep DEF Inv
<1> QED
  BY InitInv, <1>1, PTL DEF Spec

(* The variables of LlSc stay in range. *)
THEOREM TypeCorrect == Spec => []TypeOK
<1>1. Inv => TypeOK
  BY DEF Inv
<1> QED
  BY <1>1, Invariance, PTL

(* A successful sc or sc.q is atomic, for any number of threads and         *)
(* locations and any nesting of handlers (trans_sc_d, helper_ertn).         *)
THEOREM ScIsAtomic == Spec => []ScAtomic
<1>1. Inv => ScAtomic
  BY DEF Inv
<1> QED
  BY <1>1, Invariance, PTL

(* An sc or sc.q on an intact reservation succeeds, also after a handler    *)
(* that returned with KLO set (helper_ertn).                                *)
THEOREM ScIsHonoured == Spec => []ScHonoured
<1>1. Inv => ScHonoured
  BY DEF Inv
<1> QED
  BY <1>1, Invariance, PTL
=============================================================================
