-------------------------------- MODULE LaVec --------------------------------
(***************************************************************************)
(* The vector register file of a LoongArch core and the LSX and LASX       *)
(* instructions that the interpreter executes on it (loongarch64/          *)
(* interpreter.c from line 2674 on, vec_helper.c).                         *)
(*                                                                         *)
(* A register has two lanes of LB bytes of BW bits (128 bits in the code). *)
(* An LSX instruction works on lane 0, a LASX one on both.  The element    *)
(* sizes are 1 byte (b), half a lane (d) and a lane (q); what the code     *)
(* does for h and w is what it does for b and d.  A loop that writes the   *)
(* destination while it reads its sources is For, a loop that fills a      *)
(* local VReg which is copied at the end is Temp.                          *)
(***************************************************************************)
EXTENDS VecElem, Functions, TLC

CONSTANTS BW,        \* bits in a byte
          LB,        \* bytes in a lane
          Patterns   \* register files that a program may have loaded

ASSUME VecAssumption == BW \in Nat \ {0} /\ LB = 4 /\ Patterns \subseteq [0 .. 2 -> [0 .. 1 -> Nat]]

VARIABLES vreg,      \* the register file
          old,       \* the register file before the last instruction
          ins,       \* the last instruction
          cf,        \* the condition flag written by vset...
          euen,      \* the enable bits of EUEN
          out        \* how the last instruction ended

vecVars == <<vreg, old, ins, cf, euen, out>>

VRegs == 0 .. 2
IMM == 9             \* in the place of vk: the operand is the immediate
Lane == 0 .. 1
VReg == [Lane -> 0 .. 2^(BW * LB) - 1]
ZeroReg == [l \in Lane |-> 0]

(* Vj->E(i) and the assignment to Vd->E(i), for elements of sz bytes *)
Elem(reg, sz, i) ==
    LET per == LB \div sz
    IN  U(reg[i \div per] \div 2^(BW * sz * (i % per)), BW * sz)
Put(reg, sz, i, x) ==
    LET per == LB \div sz
    IN  [reg EXCEPT ![i \div per] =
            @ + (U(x, BW * sz) - Elem(reg, sz, i)) * 2^(BW * sz * (i % per))]

Ej(v, o, sz, i) == As(o.sj, Elem(v[o.vj], sz, i), BW * sz)
Ek(v, o, sz, i) == As(o.sk, Elem(v[o.vk], sz, i), BW * sz)
Ed(v, o, sz, i) == As(o.sj, Elem(v[o.vd], sz, i), BW * sz)
Cnt(o, sz) == o.lanes * (LB \div sz)
Bits8(o) == BW * o.sz

(* x after n turns of a loop body *)
Iterate(x, n, body(_, _)) ==
    LET after[k \in 0 .. n] ==
            IF k = 0 THEN x ELSE LET p == after[k - 1] IN body(p, k - 1)
    IN  after[n]

For(v, r, sz, n, pos(_), g(_, _)) ==
    Iterate(v, n, LAMBDA u, i : [u EXCEPT ![r] = Put(u[r], sz, pos(i), g(u, i))])
Temp(v, r, sz, n, g(_)) ==
    [v EXCEPT ![r] = Iterate(ZeroReg, n, LAMBDA t, i : Put(t, sz, i, g(i)))]
Same(i) == i

----------------------------------------------------------------------------
(* Element by element, in place *)

vadd(a, b) == a + b
vsub(a, b) == a - b
vmul(a, b) == a * b
vmadd(d, a, b) == d + a * b
vmsub(d, a, b) == d - a * b
MulAcc(o, d, a, b) == IF o.op = "vmadd" THEN vmadd(d, a, b) ELSE vmsub(d, a, b)
VMADDSUB(v, o) ==
    For(v, o.vd, o.sz, Cnt(o, o.sz), Same,
        LAMBDA u, i : MulAcc(o, Ed(u, o, o.sz, i), Ej(u, o, o.sz, i), Ek(u, o, o.sz, i)))

(* Widening: o.sz is the size of the result, the sources are half of it *)
Half(o) == o.sz \div 2
WideOp(o, a, b) ==
    CASE o.op \in {"vhaddw", "vaddwev", "vaddwod"} -> vadd(a, b)
      [] o.op \in {"vhsubw", "vsubwev", "vsubwod"} -> vsub(a, b)
      [] o.op \in {"vmulwev", "vmulwod"} -> vmul(a, b)
DO_ODD_EVEN(v, o) ==
    For(v, o.vd, o.sz, Cnt(o, o.sz), Same,
        LAMBDA u, i : WideOp(o, Ej(u, o, Half(o), 2 * i + 1), Ek(u, o, Half(o), 2 * i)))
DO_EVEN(v, o) ==
    For(v, o.vd, o.sz, Cnt(o, o.sz), Same,
        LAMBDA u, i : WideOp(o, Ej(u, o, Half(o), 2 * i), Ek(u, o, Half(o), 2 * i)))
DO_ODD(v, o) ==
    For(v, o.vd, o.sz, Cnt(o, o.sz), Same,
        LAMBDA u, i : WideOp(o, Ej(u, o, Half(o), 2 * i + 1), Ek(u, o, Half(o), 2 * i + 1)))
VMADDWEV(v, o) ==
    For(v, o.vd, o.sz, Cnt(o, o.sz), Same, LAMBDA u, i :
        Ed(u, o, o.sz, i) + Ej(u, o, Half(o), 2 * i) * Ek(u, o, Half(o), 2 * i))
VMADDWOD(v, o) ==
    For(v, o.vd, o.sz, Cnt(o, o.sz), Same, LAMBDA u, i :
        Ed(u, o, o.sz, i) + Ej(u, o, Half(o), 2 * i + 1) * Ek(u, o, Half(o), 2 * i + 1))

(* ofs elements of the larger size in a lane *)
Ofs(o) == LB \div o.sz
VEXTH(v, o) ==
    For(v, o.vd, o.sz, Cnt(o, o.sz), Same, LAMBDA u, i :
        Ej(u, o, Half(o), (i % Ofs(o)) + Ofs(o) + Ofs(o) * 2 * (i \div Ofs(o))))
vextl_q(v, o) == For(v, o.vd, o.sz, Cnt(o, o.sz), Same, LAMBDA u, i : Ej(u, o, Half(o), 2 * i))
VEXT2XV(v, o) == Temp(v, o.vd, o.sz, Cnt(o, o.sz), LAMBDA i : Ej(v, o, o.imm, i))
VSLLWIL(v, o) ==
    Temp(v, o.vd, o.sz, Cnt(o, o.sz), LAMBDA i :
        Ej(v, o, Half(o), (i % Ofs(o)) + Ofs(o) * 2 * (i \div Ofs(o))) * 2^(o.imm % Bits8(o)))

(* Narrowing by a register: in place, then the upper half of each lane is *)
(* cleared.                                                                *)
ByRegister(v, o, f(_, _)) ==
    Iterate(v, o.lanes, LAMBDA u, l :
        LET w == For(u, o.vd, Half(o), Ofs(o), LAMBDA j : j + Ofs(o) * 2 * l,
                     LAMBDA x, j : f(Ej(x, o, o.sz, j + Ofs(o) * l),
                                     U(Ek(x, o, o.sz, j + Ofs(o) * l), Bits8(o)) % Bits8(o)))
        IN  [w EXCEPT ![o.vd] = Put(@, LB \div 2, 2 * l + 1, 0)])
VSRLN(v, o) == ByRegister(v, o, R_SHIFT)
VSRAN(v, o) == ByRegister(v, o, R_SHIFT)
VSRLRN(v, o) == ByRegister(v, o, LAMBDA x, n : do_vsrlr(x, n, Bits8(o)))
VSRARN(v, o) == ByRegister(v, o, LAMBDA x, n : do_vsrar(x, n, Bits8(o)))
VSSRLN(v, o) == ByRegister(v, o, LAMBDA x, n : do_ssrlns(x, n, Bits8(o)))
VSSRAN(v, o) == ByRegister(v, o, LAMBDA x, n : do_ssrans(x, n, Bits8(o)))
VSSRLNU(v, o) == ByRegister(v, o, LAMBDA x, n : do_ssrlnu(x, n, Bits8(o)))
VSSRANU(v, o) == ByRegister(v, o, LAMBDA x, n : do_ssranu(x, n, Bits8(o)))
VSSRLRN(v, o) == ByRegister(v, o, LAMBDA x, n : do_ssrlrns(x, n, Bits8(o)))
VSSRARN(v, o) == ByRegister(v, o, LAMBDA x, n : do_ssrarns(x, n, Bits8(o)))
VSSRLRNU(v, o) == ByRegister(v, o, LAMBDA x, n : do_ssrlrnu(x, n, Bits8(o)))
VSSRARNU(v, o) == ByRegister(v, o, LAMBDA x, n : do_ssrarnu(x, n, Bits8(o)))

(* Narrowing by an immediate: Vj gives the lower half and Vd the upper     *)
(* half of a temporary.  The d_q forms of the plain shifts always do both  *)
(* lanes; those that saturate write a lane of Vd after reading both        *)
(* sources.                                                                *)
ByImmediate(v, o, lanes, f(_, _)) ==
    Temp(v, o.vd, Half(o), 2 * lanes * Ofs(o), LAMBDA k :
        LET l == k \div (2 * Ofs(o))
            m == k % (2 * Ofs(o))
        IN  IF m < Ofs(o) THEN f(Ej(v, o, o.sz, m + Ofs(o) * l), o.imm)
                          ELSE f(Ed(v, o, o.sz, m - Ofs(o) + Ofs(o) * l), o.imm))
LaneByLane(v, o, f(_, _)) ==
    Iterate(v, o.lanes, LAMBDA u, l :
        LET r1 == f(Ej(u, o, LB, l), o.imm)
            r2 == f(Ed(u, o, LB, l), o.imm)
        IN  [u EXCEPT ![o.vd] = Put(Put(@, LB \div 2, 2 * l, r1), LB \div 2, 2 * l + 1, r2)])
Saturating(v, o, f(_, _)) == IF o.sz = LB THEN LaneByLane(v, o, f) ELSE ByImmediate(v, o, o.lanes, f)
VSRLNI(v, o) == ByImmediate(v, o, IF o.sz = LB THEN 2 ELSE o.lanes, R_SHIFT)
VSRANI(v, o) == ByImmediate(v, o, IF o.sz = LB THEN 2 ELSE o.lanes, R_SHIFT)
VSRLRNI(v, o) == ByImmediate(v, o, o.lanes, LAMBDA x, n : do_vsrlr(x, n, Bits8(o)))
VSRARNI(v, o) == ByImmediate(v, o, o.lanes, LAMBDA x, n : do_vsrar(x, n, Bits8(o)))
VSSRLNI(v, o) == Saturating(v, o, LAMBDA x, n : do_ssrlns(x, n, Bits8(o)))
VSSRANI(v, o) == Saturating(v, o, LAMBDA x, n : do_ssrans(x, n, Bits8(o)))
VSSRLNUI(v, o) == Saturating(v, o, LAMBDA x, n : do_ssrlnu(x, n, Bits8(o)))
VSSRANUI(v, o) == Saturating(v, o, LAMBDA x, n : do_ssranu(x, n, Bits8(o)))
VSSRLRNI(v, o) == Saturating(v, o, LAMBDA x, n : do_ssrlrns(x, n, Bits8(o)))
VSSRARNI(v, o) == Saturating(v, o, LAMBDA x, n : do_ssrarns(x, n, Bits8(o)))
VSSRLRNUI(v, o) == Saturating(v, o, LAMBDA x, n : do_ssrlrnu(x, n, Bits8(o)))
VSSRARNUI(v, o) == Saturating(v, o, LAMBDA x, n : do_ssrarnu(x, n, Bits8(o)))

----------------------------------------------------------------------------
(* Moving elements *)

VPACKEV(v, o) == Temp(v, o.vd, o.sz, Cnt(o, o.sz), LAMBDA k :
    IF k % 2 = 1 THEN Ej(v, o, o.sz, k - 1) ELSE Ek(v, o, o.sz, k))
VPACKOD(v, o) == Temp(v, o.vd, o.sz, Cnt(o, o.sz), LAMBDA k :
    IF k % 2 = 1 THEN Ej(v, o, o.sz, k) ELSE Ek(v, o, o.sz, k + 1))

(* h elements of the destination in half a lane, l the lane of element k *)
HalfCnt(o) == LB \div (2 * o.sz)
LaneOf(o, k) == k \div (2 * HalfCnt(o))
InLane(o, k) == k % (2 * HalfCnt(o))
\* Mutant: the two lanes are picked from as one.
PickWhole(v, o) == Temp(v, o.vd, o.sz, Cnt(o, o.sz), LAMBDA k :
    IF k >= Cnt(o, o.sz) \div 2 THEN Ej(v, o, o.sz, 2 * k - Cnt(o, o.sz)) ELSE Ek(v, o, o.sz, 2 * k))
VPICKEV(v, o) == Temp(v, o.vd, o.sz, Cnt(o, o.sz), LAMBDA k :
    IF InLane(o, k) >= HalfCnt(o) THEN Ej(v, o, o.sz, 2 * (InLane(o, k) - HalfCnt(o) + HalfCnt(o) * LaneOf(o, k)))
                       ELSE Ek(v, o, o.sz, 2 * (InLane(o, k) + HalfCnt(o) * LaneOf(o, k))))
VPICKOD(v, o) == Temp(v, o.vd, o.sz, Cnt(o, o.sz), LAMBDA k :
    IF InLane(o, k) >= HalfCnt(o) THEN Ej(v, o, o.sz, 2 * (InLane(o, k) - HalfCnt(o) + HalfCnt(o) * LaneOf(o, k)) + 1)
                       ELSE Ek(v, o, o.sz, 2 * (InLane(o, k) + HalfCnt(o) * LaneOf(o, k)) + 1))
\* Mutant: the interleaving writes Vd directly instead of a temporary.
InterleaveInPlace(v, o) == For(v, o.vd, o.sz, Cnt(o, o.sz), Same, LAMBDA u, k :
    LET src == (InLane(o, k) \div 2) + 2 * HalfCnt(o) * LaneOf(o, k)
    IN  IF k % 2 = 1 THEN Ej(u, o, o.sz, src) ELSE Ek(u, o, o.sz, src))
VILVL(v, o) == Temp(v, o.vd, o.sz, Cnt(o, o.sz), LAMBDA k :
    LET src == (InLane(o, k) \div 2) + 2 * HalfCnt(o) * LaneOf(o, k)
    IN  IF k % 2 = 1 THEN Ej(v, o, o.sz, src) ELSE Ek(v, o, o.sz, src))
VILVH(v, o) == Temp(v, o.vd, o.sz, Cnt(o, o.sz), LAMBDA k :
    LET src == (InLane(o, k) \div 2) + HalfCnt(o) * (2 * LaneOf(o, k) + 1)
    IN  IF k % 2 = 1 THEN Ej(v, o, o.sz, src) ELSE Ek(v, o, o.sz, src))

(* A control element selects one of the 2m elements of Vk and Vj: the     *)
(* lower m from Vk, the upper m from Vj, both in the lane of the result.   *)
Select(v, o, m, j, c) ==
    IF c < m THEN Ek(v, o, o.sz, c + j * m) ELSE Ej(v, o, o.sz, c + (j - 1) * m)
vshuf_b(v, o) ==
    LET m == LB \div o.sz
    IN  Temp(v, o.vd, o.sz, Cnt(o, o.sz), LAMBDA i :
            Select(v, o, m, IF i < m THEN 0 ELSE 1, Elem(v[o.va], o.sz, i) % (2 * m)))
VSHUF(v, o) ==
    LET m == LB \div o.sz
    IN  Temp(v, o.vd, o.sz, Cnt(o, o.sz), LAMBDA i :
            Select(v, o, m, IF i < m THEN 0 ELSE 1, Elem(v[o.vd], o.sz, i) % (2 * m)))
(* The LSX form copies the sources and then replaces each control element *)
trans_vshuf(v, o) ==
    LET n == LB \div o.sz
        vv == [i \in 0 .. 2 * n - 1 |-> IF i < n THEN Ek(v, o, o.sz, i) ELSE Ej(v, o, o.sz, i - n)]
    IN  For(v, o.vd, o.sz, n, Same, LAMBDA u, i : vv[Elem(u[o.vd], o.sz, i) % (2 * n)])
VSHUF4I(v, o) ==
    LET max == LB \div o.sz
    IN  Temp(v, o.vd, o.sz, Cnt(o, o.sz), LAMBDA i :
            LET j == IF i < max THEN 1 ELSE 2
            IN  Ej(v, o, o.sz, SHF_POS(i - (j - 1) * max, o.imm) + (j - 1) * max))
vshuf4i_d(v, o) ==
    Temp(v, o.vd, o.sz, Cnt(o, o.sz), LAMBDA k :
        LET c == (o.imm \div 4^(k % 2)) % 4
            src == (c % 2) + 2 * (k \div 2)
        IN  IF c >= 2 THEN Ej(v, o, o.sz, src) ELSE Ed(v, o, o.sz, src))
vpermi_w(v, o) ==
    Temp(v, o.vd, o.sz, Cnt(o, o.sz), LAMBDA k :
        LET src == ((o.imm \div 4^(k % 4)) % 4) + 4 * (k \div 4)
        IN  IF k % 4 < 2 THEN Ej(v, o, o.sz, src) ELSE Ed(v, o, o.sz, src))
vperm_w(v, o) ==
    LET m == 2 * (LB \div o.sz)
    IN  Temp(v, o.vd, o.sz, m, LAMBDA i : Ej(v, o, o.sz, Elem(v[o.vk], o.sz, i) % m))
vpermi_d(v, o) ==
    Temp(v, o.vd, o.sz, 4, LAMBDA i : Ej(v, o, o.sz, (o.imm \div 4^i) % 4))
vpermi_q(v, o) ==
    Temp(v, o.vd, o.sz, 2, LAMBDA i :
        LET c == o.imm \div 16^i
        IN  IF (c \div 2) % 2 = 1 THEN Ed(v, o, o.sz, c % 2) ELSE Ej(v, o, o.sz, c % 2))

VEXTRINS(v, o) ==
    LET max == LB \div o.sz
        at == (o.imm \div 16) % max
        extr == o.imm % max
    IN  For(v, o.vd, o.sz, o.lanes, LAMBDA l : at + l * max,
            LAMBDA u, l : Ej(u, o, o.sz, extr + l * max))
trans_xvinsve0(v, o) ==
    [v EXCEPT ![o.vd] = Put(@, o.sz, o.imm, Ej(v, o, o.sz, 0))]
XVPICKVE(v, o) ==
    For(v, o.vd, o.sz, Cnt(o, o.sz), Same, LAMBDA u, i :
        IF i = 0 THEN Ej(u, o, o.sz, o.imm % Cnt(o, o.sz)) ELSE 0)

(* Shifts of a lane by bytes: the copy runs downwards for a left shift and *)
(* upwards for a right shift, then the freed bytes are cleared.  The LASX  *)
(* form does byte i of both lanes in one turn.                             *)
MoveBytes(v, o, pos, by) ==
    Iterate(v, Cardinality(DOMAIN pos), LAMBDA u, i :
        For(u, o.vd, 1, o.lanes, LAMBDA l : pos[i] + l * LB,
            LAMBDA x, l : Ej(x, o, 1, pos[i] + by + l * LB)))
ClearBytes(v, o, first, n) ==
    Iterate(v, n, LAMBDA u, i :
        For(u, o.vd, 1, o.lanes, LAMBDA l : first + i + l * LB, LAMBDA x, l : 0))
trans_vbsll(v, o) ==
    LET imm == o.imm % LB
    IN  ClearBytes(MoveBytes(v, o, [i \in 0 .. LB - imm - 1 |-> LB - 1 - i], -imm), o, 0, imm)
trans_vbsrl(v, o) ==
    LET imm == o.imm % LB
    IN  ClearBytes(MoveBytes(v, o, [i \in 0 .. LB - imm - 1 |-> i], imm), o, LB - imm, imm)

(* One element everywhere.  In xvrepl128vei and xvreplve each lane has its *)
(* own source element; the index of vreplve comes from a general register. *)
trans_vreplvei(v, o) ==
    LET n == LB \div o.sz
    IN  Iterate(v, n, LAMBDA u, i :
            For(u, o.vd, o.sz, o.lanes, LAMBDA l : i + l * n,
                LAMBDA x, l : Ej(x, o, o.sz, (o.imm % n) + l * n)))
trans_xvreplve0(v, o) ==
    For(v, o.vd, o.sz, Cnt(o, o.sz), Same, LAMBDA u, i : Ej(u, o, o.sz, 0))
trans_vreplgr2vr(v, o) == For(v, o.vd, o.sz, Cnt(o, o.sz), Same, LAMBDA u, i : o.imm)
trans_vinsgr2vr(v, o) == [v EXCEPT ![o.vd] = Put(@, o.sz, o.imm % Cnt(o, o.sz), o.imm)]

(* First negative element, stored where an element of Vk or imm says *)
FrstpAt(u, o, l) ==
    (IF o.op = "vfrstpi" THEN o.imm ELSE Elem(u[o.vk], o.sz, l * (LB \div o.sz))) % (LB \div o.sz)
VFRSTP(v, o) ==
    LET ofs == LB \div o.sz
        Neg(u, l) == {j \in 0 .. ofs - 1 : S(Elem(u[o.vj], o.sz, j + ofs * l), Bits8(o)) < 0}
        j1(u, l) == IF Neg(u, l) = {} THEN ofs ELSE Min(Neg(u, l))
    IN  Iterate(v, o.lanes, LAMBDA u, l :
            [u EXCEPT ![o.vd] = Put(@, o.sz, FrstpAt(u, o, l) + l * ofs, j1(u, l))])

(* One bit per element, gathered in the lower half of each lane *)
MskBit(o, a) == CASE o.op = "vmskltz" -> a < 0 [] o.op = "vmskgez" -> ~(a < 0) [] o.op = "vmsknz" -> a # 0
Mskz(v, o) ==
    LET n == LB \div o.sz
    IN  Iterate(v, o.lanes, LAMBDA u, l :
            [u EXCEPT ![o.vd] =
                Put(Put(@, LB \div 2, 2 * l,
                        OfBits({j \in 0 .. n - 1 : MskBit(o, Ej(u, o, o.sz, j + n * l))})),
                    LB \div 2, 2 * l + 1, 0)])

----------------------------------------------------------------------------
(* The bodies of the interpreter's own loops, and of the gvec helpers that *)
(* it calls, on elements a and b of w bits                                 *)

vadda(a, b) == DO_VABS(a) + DO_VABS(b)
vmax(a, b) == IF a > b THEN a ELSE b
vmin(a, b) == IF a < b THEN a ELSE b
vdiv(a, b, w) == SAFE_DIV_MOD(a, b, w, TRUE, FALSE)
vmod(a, b, w) == SAFE_DIV_MOD(a, b, w, FALSE, FALSE)
vsll(a, b, w) == a * 2^(U(b, w) % w)
vsrl(a, b, w) == U(a, w) \div 2^(U(b, w) % w)
vsra(a, b, w) == R_SHIFT(S(a, w), U(b, w) % w)
vbitclr(a, b, w) == And(a, Not(2^(U(b, w) % w), w), w)
vbitset(a, b, w) == Or(a, 2^(U(b, w) % w), w)
vbitrev(a, b, w) == Xor(a, 2^(U(b, w) % w), w)
vseq(a, b) == IF a = b THEN -1 ELSE 0
vsle(a, b) == IF a <= b THEN -1 ELSE 0
vslt(a, b) == IF a < b THEN -1 ELSE 0
(* rotation to the right by an immediate is rotation to the left by the    *)
(* rest of the width, the full width when the immediate is 0               *)
vrotri(a, imm, w) == rol(U(a, w), w - imm, w)
logic(op, a, b, w) ==
    CASE op = "vand"  -> And(a, b, w)
      [] op = "vor"   -> Or(a, b, w)
      [] op = "vxor"  -> Xor(a, b, w)
      [] op = "vnor"  -> Not(Or(a, b, w), w)
      [] op = "vandn" -> And(Not(a, w), b, w)
      [] op = "vorn"  -> Or(a, Not(b, w), w)
vbitsel(c, a, b, w) == Or(And(Not(c, w), a, w), And(c, b, w), w)

LogicOps == {"vand", "vor", "vxor", "vnor", "vandn", "vorn"}
ElemOps == {"vadd", "vsub", "vavg", "vavgr", "vabsd", "vadda", "vmax", "vmin", "vmul", "vdiv",
            "vmod", "vsll", "vsrl", "vsra", "vbitclr", "vbitset", "vbitrev", "vseq", "vsle",
            "vslt", "vrotr", "vrotri", "vsadd", "vssub", "vmuh", "vsigncov", "vsrlr", "vsrar",
            "vsat", "vclo", "vclz", "vpcnt"} \cup LogicOps

Body(o, a, b) ==
    LET w == Bits8(o)
    IN  CASE o.op = "vadd" -> vadd(a, b) [] o.op = "vsub" -> vsub(a, b)
          [] o.op = "vavg" -> DO_VAVG(a, b) [] o.op = "vavgr" -> DO_VAVGR(a, b)
          [] o.op = "vabsd" -> DO_VABSD(a, b) [] o.op = "vadda" -> vadda(a, b)
          [] o.op = "vmax" -> vmax(a, b) [] o.op = "vmin" -> vmin(a, b)
          [] o.op = "vmul" -> vmul(a, b) [] o.op = "vmuh" -> DO_VMUH(a, b, w)
          [] o.op = "vdiv" -> vdiv(a, b, w) [] o.op = "vmod" -> vmod(a, b, w)
          [] o.op = "vsll" -> vsll(a, b, w) [] o.op = "vsrl" -> vsrl(a, b, w)
          [] o.op = "vsra" -> vsra(a, b, w)
          [] o.op = "vbitclr" -> vbitclr(a, b, w) [] o.op = "vbitset" -> vbitset(a, b, w)
          [] o.op = "vbitrev" -> vbitrev(a, b, w)
          [] o.op = "vseq" -> vseq(a, b) [] o.op = "vsle" -> vsle(a, b)
          [] o.op = "vslt" -> vslt(a, b)
          [] o.op = "vrotr" -> ror(U(a, w), U(b, w), w) [] o.op = "vrotri" -> vrotri(a, b, w)
          [] o.op = "vsadd" -> IF o.sj THEN gvec_ssadd(a, b, w, o.sz = 1)
                                       ELSE gvec_usadd(a, b, w, o.sz = 1)
          [] o.op = "vssub" -> IF o.sj THEN gvec_sssub(a, b, w, o.sz = 1)
                                       ELSE gvec_ussub(a, b, w, o.sz = 1)
          [] o.op = "vsigncov" -> DO_SIGNCOV(a, b)
          [] o.op = "vsrlr" -> do_vsrlr(U(a, w), U(b, w) % w, w)
          [] o.op = "vsrar" -> do_vsrar(S(a, w), U(b, w) % w, w)
          [] o.op = "vsat" -> IF o.sj THEN VSAT_S(a, sat_max(b)) ELSE VSAT_U(a, satu_max(b, w))
          [] o.op = "vclo" -> DO_CLO(U(a, w), w, 2 * w) [] o.op = "vclz" -> DO_CLZ(U(a, w), w, 2 * w)
          [] o.op = "vpcnt" -> ctpop(a, w)
          [] o.op \in LogicOps -> logic(o.op, a, b, w)

DO_3OP(v, o) ==
    For(v, o.vd, o.sz, Cnt(o, o.sz), Same,
        LAMBDA u, i : Body(o, Ej(u, o, o.sz, i), Ek(u, o, o.sz, i)))
DO_2OP(v, o) ==
    For(v, o.vd, o.sz, Cnt(o, o.sz), Same, LAMBDA u, i :
        IF o.op = "vneg" THEN -Ej(u, o, o.sz, i) ELSE Body(o, Ej(u, o, o.sz, i), o.imm))

NarrowOps == {"vsrln", "vsran", "vsrlrn", "vsrarn", "vssrln", "vssran", "vssrlrn", "vssrarn"}
NarrowImm == {"vsrlni", "vsrani", "vsrlrni", "vsrarni", "vssrlni", "vssrani", "vssrlrni", "vssrarni"}
Narrow(v, o) ==
    CASE o.op = "vsrln" -> VSRLN(v, o) [] o.op = "vsran" -> VSRAN(v, o)
      [] o.op = "vsrlrn" -> VSRLRN(v, o) [] o.op = "vsrarn" -> VSRARN(v, o)
      [] o.op = "vssrln" -> IF o.sk THEN VSSRLN(v, o) ELSE VSSRLNU(v, o)
      [] o.op = "vssran" -> IF o.sk THEN VSSRAN(v, o) ELSE VSSRANU(v, o)
      [] o.op = "vssrlrn" -> IF o.sk THEN VSSRLRN(v, o) ELSE VSSRLRNU(v, o)
      [] o.op = "vssrarn" -> IF o.sk THEN VSSRARN(v, o) ELSE VSSRARNU(v, o)
NarrowI(v, o) ==
    CASE o.op = "vsrlni" -> VSRLNI(v, o) [] o.op = "vsrani" -> VSRANI(v, o)
      [] o.op = "vsrlrni" -> VSRLRNI(v, o) [] o.op = "vsrarni" -> VSRARNI(v, o)
      [] o.op = "vssrlni" -> IF o.sk THEN VSSRLNI(v, o) ELSE VSSRLNUI(v, o)
      [] o.op = "vssrani" -> IF o.sk THEN VSSRANI(v, o) ELSE VSSRANUI(v, o)
      [] o.op = "vssrlrni" -> IF o.sk THEN VSSRLRNI(v, o) ELSE VSSRLRNUI(v, o)
      [] o.op = "vssrarni" -> IF o.sk THEN VSSRARNI(v, o) ELSE VSSRARNUI(v, o)

AddWOps == {"vhaddw", "vhsubw", "vaddwev", "vaddwod", "vsubwev", "vsubwod"}
MulWOps == {"vmulwev", "vmulwod"}
MaddWOps == {"vmaddwev", "vmaddwod"}
WidenOps == AddWOps \cup MulWOps \cup MaddWOps
Widen(v, o) ==
    CASE o.op \in {"vhaddw", "vhsubw"} -> DO_ODD_EVEN(v, o)
      [] o.op \in {"vaddwev", "vsubwev", "vmulwev"} -> DO_EVEN(v, o)
      [] o.op \in {"vaddwod", "vsubwod", "vmulwod"} -> DO_ODD(v, o)
      [] o.op = "vmaddwev" -> VMADDWEV(v, o) [] o.op = "vmaddwod" -> VMADDWOD(v, o)

MoveOps == {"vpackev", "vpackod", "vpickev", "vpickod", "vilvl", "vilvh"}
Move(v, o) ==
    CASE o.op = "vpackev" -> VPACKEV(v, o) [] o.op = "vpackod" -> VPACKOD(v, o)
      [] o.op = "vpickev" -> VPICKEV(v, o) [] o.op = "vpickod" -> VPICKOD(v, o)
      [] o.op = "vilvl" -> VILVL(v, o) [] o.op = "vilvh" -> VILVH(v, o)

(* Instructions of one source and an immediate or a general register *)
Permute(v, o) ==
    CASE o.op = "vshuf4i" -> IF o.sz = LB \div 2 THEN vshuf4i_d(v, o) ELSE VSHUF4I(v, o)
      [] o.op = "vpermi_w" -> vpermi_w(v, o)
      [] o.op = "vpermi_d" -> vpermi_d(v, o) [] o.op = "vpermi_q" -> vpermi_q(v, o)
      [] o.op = "vextrins" -> VEXTRINS(v, o)
      [] o.op = "xvinsve0" -> trans_xvinsve0(v, o) [] o.op = "xvpickve" -> XVPICKVE(v, o)
      [] o.op = "vbsll" -> trans_vbsll(v, o) [] o.op = "vbsrl" -> trans_vbsrl(v, o)
      [] o.op = "vreplvei" -> trans_vreplvei(v, o) [] o.op = "xvreplve0" -> trans_xvreplve0(v, o)
      [] o.op = "vreplgr2vr" -> trans_vreplgr2vr(v, o)
      [] o.op = "vinsgr2vr" -> trans_vinsgr2vr(v, o)
      [] o.op = "vsllwil" -> VSLLWIL(v, o) [] o.op = "vext2xv" -> VEXT2XV(v, o)
      [] o.op = "vexth" -> VEXTH(v, o) [] o.op = "vextl" -> vextl_q(v, o)
      [] o.op = "vfrstpi" -> VFRSTP(v, o)
      [] o.op \in {"vmskltz", "vmskgez", "vmsknz"} -> Mskz(v, o)
      [] o.op = "vneg" -> DO_2OP(v, o)
      [] o.op = "vbitseli" -> For(v, o.vd, 1, Cnt(o, 1), Same, LAMBDA u, i :
                                  vbitsel(Ed(u, o, 1, i), Ej(u, o, 1, i), o.imm, BW))

(* The three and four register forms that are none of the above *)
Other(v, o) ==
    CASE o.op = "vmadd" -> VMADDSUB(v, o) [] o.op = "vmsub" -> VMADDSUB(v, o)
      [] o.op = "vfrstp" -> VFRSTP(v, o)
      [] o.op = "vshuf_b" -> vshuf_b(v, o)
      [] o.op = "vshuf" -> IF o.lanes = 1 THEN trans_vshuf(v, o) ELSE VSHUF(v, o)
      [] o.op = "vperm_w" -> vperm_w(v, o)
      [] o.op = "vbitsel" -> For(v, o.vd, o.sz, Cnt(o, o.sz), Same, LAMBDA u, i :
                                 vbitsel(Elem(u[o.va], o.sz, i), Ej(u, o, o.sz, i),
                                         Ek(u, o, o.sz, i), Bits8(o)))

OtherOps == {"vmadd", "vmsub", "vfrstp", "vshuf_b", "vshuf", "vperm_w", "vbitsel"}

(* The register file after instruction o *)
Exec(v, o) ==
    CASE o.op \in ElemOps /\ o.vk # IMM -> DO_3OP(v, o)
      [] o.op \in ElemOps /\ o.vk = IMM -> DO_2OP(v, o)
      [] o.op \in WidenOps -> Widen(v, o)
      [] o.op \in NarrowOps -> Narrow(v, o)
      [] o.op \in NarrowImm -> NarrowI(v, o)
      [] o.op \in MoveOps -> Move(v, o)
      [] o.op \in OtherOps -> Other(v, o)
      [] OTHER -> Permute(v, o)

(* The instructions that only set a condition flag *)
FlagOps == {"vseteqz", "vsetnez", "vsetanyeqz", "vsetallnez"}
Flag(v, o) ==
    LET e(i) == Elem(v[o.vj], o.sz, i)
        n == Cnt(o, o.sz)
    IN  CASE o.op = "vseteqz" -> \A i \in 0 .. n - 1 : e(i) = 0
          [] o.op = "vsetnez" -> \E i \in 0 .. n - 1 : e(i) # 0
          [] o.op = "vsetanyeqz" -> \E i \in 0 .. n - 1 : e(i) = 0
          [] o.op = "vsetallnez" -> \A i \in 0 .. n - 1 : e(i) # 0

----------------------------------------------------------------------------
(* The LASX instructions, in the order of the interpreter.  An instruction *)
(* whose LASX form is written beside its LSX form is in Paired.            *)

LasxA == {"vext2xv", "vaddwev", "vaddwod", "vbitseli", "vbitsel", "vbsll", "vbsrl", "vclo", "vclz",
          "vpcnt", "vexth", "vextl", "vextrins"}
LasxH == {"vfrstp", "vfrstpi", "vhaddw", "vhsubw", "vilvh", "vilvl", "xvinsve0"}
LasxMaddW == MaddWOps
LasxM == {"vmskgez", "vmskltz", "vmsknz", "vmuh", "vmulwev", "vmulwod", "vpackev", "vpackod",
          "vpermi_w", "vpermi_d", "vpermi_q", "vperm_w", "xvpickve"}
LasxR == {"vreplvei", "xvreplve0", "vrotr", "vrotri", "vsadd", "vsat", "vseteqz", "vsetnez",
          "vshuf4i", "vshuf_b", "vshuf", "vsigncov", "vsllwil"}
LasxS == NarrowOps \cup NarrowImm \cup {"vsrlr", "vsrar", "vssub"}
LasxSubW == {"vsubwev", "vsubwod"}
Paired == (ElemOps \ {"vclo", "vclz", "vpcnt", "vmuh", "vrotr", "vrotri", "vsadd", "vssub", "vsat",
                      "vsigncov", "vsrlr", "vsrar"})
          \cup {"vneg", "vmadd", "vmsub", "vsetanyeqz", "vsetallnez", "vreplgr2vr", "vinsgr2vr",
                "vpickev", "vpickod"}
(* Both lanes take part in every element: no LSX form, no lane by itself *)
CrossLane == {"vext2xv", "xvinsve0", "xvpickve", "vperm_w", "vpermi_d", "vpermi_q", "xvreplve0"}
LanesOf(op) == (IF op \in CrossLane THEN {} ELSE {1})
               \cup (IF op \in UNION {LasxA, LasxH, LasxMaddW, LasxM, LasxR, LasxS, LasxSubW, Paired}
                     THEN {2} ELSE {})

VecOp(op, sz, sj, sk, lanes, vj, vk, va, imm) ==
    [op |-> op, sz |-> sz, sj |-> sj, sk |-> sk, lanes |-> lanes,
     vd |-> 0, vj |-> vj, vk |-> vk, va |-> va, imm |-> imm]
NoVecIns == VecOp("none", 1, FALSE, FALSE, 1, 0, 0, 0, 0)

(* Operand registers: the destination is register 0, every aliasing occurs *)
Srcs == {0, 1}
Srcs2 == VRegs
Reg3(ops, szs, signs) ==
    UNION {{VecOp(op, sz, sg[1], sg[2], l, vj, vk, 0, 0) :
               sz \in szs, sg \in signs, l \in LanesOf(op), vj \in Srcs, vk \in Srcs2} : op \in ops}
Reg4(ops, szs) ==
    UNION {{VecOp(op, sz, FALSE, FALSE, l, vj, vk, va, 0) :
               sz \in szs, l \in LanesOf(op), vj \in Srcs, vk \in Srcs2, va \in Srcs2} : op \in ops}
Reg2(ops, szs, signs, imms) ==
    UNION {{VecOp(op, sz, sg[1], sg[2], l, vj, IMM, 0, imm) :
               sz \in szs, sg \in signs, l \in LanesOf(op), vj \in Srcs, imm \in imms} : op \in ops}

Same2 == {<<TRUE, TRUE>>, <<FALSE, FALSE>>}
BothSigned == {<<TRUE, TRUE>>}
BothUnsigned == {<<FALSE, FALSE>>}
Logical == {<<FALSE, TRUE>>, <<FALSE, FALSE>>}
Arithmetic == {<<TRUE, TRUE>>, <<TRUE, FALSE>>}
BitOps == {"vbitclr", "vbitset", "vbitrev", "vrotr", "vrotri", "vclo", "vclz", "vpcnt"}
LShiftOps == {op \in NarrowOps : op \in {"vsrln", "vsrlrn", "vssrln", "vssrlrn"}}
LShiftImm == {op \in NarrowImm : op \in {"vsrlni", "vsrlrni", "vssrlni", "vssrlrni"}}

RegIns ==
    Reg3(ElemOps \ (BitOps \cup LogicOps \cup {"vsat", "vsigncov"}), {1, 2}, Same2)
    \cup Reg3({"vrotr", "vbitclr", "vbitset", "vbitrev"}, {1, 2}, BothUnsigned)
    \cup Reg3({"vsigncov"}, {1, 2}, BothSigned)
    \cup Reg3(LogicOps, {LB \div 2}, BothUnsigned)
    \cup Reg3({"vadd", "vsub"}, {LB}, BothSigned)
    \cup Reg3(WidenOps \ {"vhaddw", "vhsubw"}, {2, 4}, Same2 \cup {<<FALSE, TRUE>>})
    \cup Reg3({"vhaddw", "vhsubw"}, {2, 4}, Same2)
    \cup Reg3({"vmadd", "vmsub"}, {1, 2}, BothSigned)
    \cup Reg3(LShiftOps, {2, 4}, Logical) \cup Reg3(NarrowOps \ LShiftOps, {2, 4}, Arithmetic)
    \cup Reg3(MoveOps, {1, 2}, BothUnsigned) \cup Reg3({"vfrstp"}, {1}, BothUnsigned)
    \cup Reg3({"vshuf", "vperm_w"}, {1}, BothUnsigned) \cup Reg3({"vshuf"}, {2}, BothUnsigned)
    \cup Reg4({"vshuf_b"}, {1}) \cup Reg4({"vbitsel"}, {LB \div 2})

ImmIns ==
    Reg2({"vadd", "vsub"}, {1, 2}, BothUnsigned, {0, 3})
    \cup Reg2({"vmax", "vmin", "vsle", "vslt"}, {1, 2}, BothSigned, {-2, 0, 3})
    \cup Reg2({"vmax", "vmin", "vsle", "vslt"}, {1, 2}, BothUnsigned, {0, 3})
    \cup Reg2({"vseq"}, {1, 2}, BothSigned, {-2, 0})
    \cup Reg2({"vsll", "vsrl", "vsra", "vsrlr", "vsrar", "vrotri", "vbitclr", "vbitset", "vbitrev"},
              {1, 2}, BothUnsigned, {0, 1, 3})
    \cup Reg2({"vsat"}, {1, 2}, Same2, {0, 2, 3}) \cup Reg2({"vand", "vor", "vxor", "vnor"}, {1}, BothUnsigned, {6})
    \cup Reg2({"vclo", "vclz", "vpcnt"}, {1, 2}, BothUnsigned, {0}) \cup Reg2({"vneg"}, {1, 2}, BothSigned, {0})
    \cup Reg2(LShiftImm, {2, 4}, Logical, {0, 1, 7})
    \cup Reg2(NarrowImm \ LShiftImm, {2, 4}, Arithmetic, {0, 1, 7})
    \cup Reg2({"vexth"}, {2, 4}, Same2, {0}) \cup Reg2({"vextl"}, {LB}, Same2, {0})
    \cup Reg2({"vsllwil"}, {2}, Same2, {0, 3}) \cup Reg2({"vext2xv"}, {2, 4}, Same2, {1})
    \cup Reg2({"vext2xv"}, {4}, Same2, {2}) \cup Reg2({"vshuf4i"}, {1, 2}, BothUnsigned, {27, 78, 6, 13})
    \cup Reg2({"vpermi_w"}, {1}, BothUnsigned, {27, 78}) \cup Reg2({"vpermi_d"}, {2}, BothUnsigned, {27, 78})
    \cup Reg2({"vpermi_q"}, {4}, BothUnsigned, {1, 2, 19, 50}) \cup Reg2({"vextrins"}, {1, 2}, BothUnsigned, {0, 1, 18, 49})
    \cup Reg2({"xvinsve0", "xvpickve", "vinsgr2vr"}, {1, 2}, BothUnsigned, {0, 1, 3})
    \cup Reg2({"vbsll", "vbsrl"}, {1}, BothUnsigned, 0 .. 3) \cup Reg2({"vreplvei"}, {1, 2}, BothUnsigned, 0 .. 3)
    \cup Reg2({"xvreplve0"}, {1, 2, 4}, BothUnsigned, {0}) \cup Reg2({"vreplgr2vr"}, {1, 2}, BothUnsigned, {5})
    \cup Reg2({"vfrstpi"}, {1}, BothSigned, {0, 2}) \cup Reg2({"vmskltz"}, {1, 2}, BothSigned, {0})
    \cup Reg2({"vmskgez", "vmsknz"}, {1}, BothSigned, {0}) \cup Reg2({"vbitseli"}, {1}, BothUnsigned, {6})
FlagIns == Reg2({"vsetanyeqz", "vsetallnez"}, {1, 2}, BothUnsigned, {0})
           \cup Reg2({"vseteqz", "vsetnez"}, {LB \div 2}, BothUnsigned, {0})

----------------------------------------------------------------------------
(* CHECK_FPE(16) and CHECK_FPE(32): the exception raised by a vector       *)
(* instruction whose unit is disabled, before it touches anything          *)
CHECK_FPE(o) == IF o.lanes = 1 /\ "SXE" \notin euen THEN "SXD"
                ELSE IF o.lanes = 2 /\ "ASXE" \notin euen THEN "ASXD" ELSE "retire"

(* The quotient of the most negative word or double word by -1 traps in    *)
(* the host's division instruction where there is one that traps.          *)
HostTrap(v, o) ==
    /\ o.op \in {"vdiv", "vmod"} /\ o.sj /\ o.sz = 2
    /\ \E i \in 0 .. Cnt(o, o.sz) - 1 :
          SAFE_DIV_MOD(Ej(v, o, o.sz, i), Ek(v, o, o.sz, i), Bits8(o), o.op = "vdiv", TRUE) = UNDEFINED

VecInit ==
    /\ vreg \in Patterns
    /\ old = vreg
    /\ ins = NoVecIns
    /\ cf = FALSE
    /\ euen \in {{"SXE", "ASXE"}, {}}
    /\ out = "none"

Execute(o) ==
    /\ ins = NoVecIns
    /\ ins' = o
    /\ out' \in {CHECK_FPE(o)} \cup (IF CHECK_FPE(o) = "retire" /\ HostTrap(vreg, o) THEN {"SIGFPE"} ELSE {})
    /\ vreg' = IF out' = "retire" THEN Exec(vreg, o) ELSE vreg
    /\ UNCHANGED <<old, cf, euen>>

SetFlag(o) ==
    /\ ins = NoVecIns
    /\ ins' = o
    /\ out' = CHECK_FPE(o)
    /\ cf' = IF out' = "retire" THEN Flag(vreg, o) ELSE cf
    /\ UNCHANGED <<vreg, old, euen>>

(* The program loads new values (after a SIGFPE, the emulator is started   *)
(* again); the flag and the enables stay.                                  *)
Reload ==
    /\ ins # NoVecIns
    /\ vreg' \in Patterns
    /\ old' = vreg'
    /\ ins' = NoVecIns
    /\ out' = "none"
    /\ UNCHANGED <<cf, euen>>

ExecuteReg == \E o \in RegIns : Execute(o)
ExecuteImm == \E o \in ImmIns : Execute(o)
ExecuteFlag == \E o \in FlagIns : SetFlag(o)
VecNext == ExecuteReg \/ ExecuteImm \/ ExecuteFlag \/ Reload

----------------------------------------------------------------------------
(* The same instruction with its sources copied to registers of their own *)
Unaliased(v, o) == v @@ (3 :> v[o.vj]) @@ (4 :> v[IF o.vk = IMM THEN 0 ELSE o.vk]) @@ (5 :> v[o.va])
Renamed(o) == [o EXCEPT !.vj = 3, !.vk = IF @ = IMM THEN IMM ELSE 4, !.va = 5]

(* The helpers write the destination while they read the sources through   *)
(* pointers that may be equal.  The result never depends on it: it is what *)
(* the instruction computes when its sources are other registers, and no   *)
(* other register changes.  A refused instruction changes nothing.         *)
VecAliasFree ==
    /\ out \notin {"none", "retire"} => vreg = old
    /\ out = "retire" /\ ins.op \notin FlagOps =>
          /\ vreg[ins.vd] = Exec(Unaliased(old, ins), Renamed(ins))[ins.vd]
          /\ \A r \in VRegs \ {ins.vd} : vreg[r] = old[r]

OnlyLane(v, l) == [r \in VRegs |-> [k \in Lane |-> IF k = 0 THEN v[r][l] ELSE 0]]

(* LASX: each lane of the result is what the LSX form of the instruction   *)
(* computes from that lane of the operands, although the two forms use     *)
(* different loops and index arithmetic.  Instructions that move elements  *)
(* between lanes have no LSX form.                                         *)
VecLaneWise ==
    out = "retire" /\ ins.lanes = 2 /\ ins.op \notin CrossLane \cup FlagOps \cup {"vinsgr2vr"} =>
        \A l \in Lane :
            vreg[ins.vd][l] = Exec(OnlyLane(old, l), [ins EXCEPT !.lanes = 1])[ins.vd][0]
=============================================================================
