-------------------------------- MODULE Gvec --------------------------------
(***************************************************************************)
(* The generic vector helpers of tcg-runtime-gvec.c and the descriptor     *)
(* they take (tcg-gvec-desc.h, vec_helper.c): operation size, allocated    *)
(* size and an immediate in one word.  A helper works in place, element by *)
(* element, up to the operation size, and clear_high zeroes the rest of    *)
(* the allocated vector.                                                   *)
(*                                                                         *)
(* A vector is a row of granules of 8 bytes, held as the lanes of LaVec    *)
(* are: LB bytes of BW bits.  Element sizes are 1, 2 and LB bytes.         *)
(***************************************************************************)
EXTENDS LaVec

VARIABLES gmem,      \* the three vectors a helper may be given
          gold,      \* the vectors before the call
          gcall      \* the call: helper, sizes, operands, descriptor

gvecVars == <<gmem, gold, gcall>>

Granules == 7        \* bound: granules in a vector
SIMD_MAXSZ_BITS == 8
SIMD_OPRSZ_BITS == 2
SIMD_DATA_BITS == 8  \* bound: 22 in the code

(* The field of b bits at bit s *)
extract(x, s, b) == (x \div 2^s) % 2^b
sextract(x, s, b) == S(extract(x, s, b), b)
deposit(x, s, b, f) == x + (U(f, b) - extract(x, s, b)) * 2^s

check_size_align(oprsz, maxsz) ==
    /\ IF oprsz \in {8, 16, 32} THEN oprsz <= maxsz ELSE oprsz = maxsz
    /\ maxsz <= 8 * 2^SIMD_MAXSZ_BITS
    /\ maxsz % (IF maxsz >= 16 THEN 16 ELSE 8) = 0
\* Mutant: the operation size is always stored as a number of granules.
DescNoFlag(oprsz, maxsz, data) ==
    LET d1 == deposit(0, SIMD_MAXSZ_BITS, SIMD_OPRSZ_BITS, oprsz \div 8 - 1)
    IN  deposit(deposit(d1, 0, SIMD_MAXSZ_BITS, maxsz \div 8 - 1),
                SIMD_MAXSZ_BITS + SIMD_OPRSZ_BITS, SIMD_DATA_BITS, data)
simd_desc(oprsz, maxsz, data) ==
    LET m == maxsz \div 8 - 1
        o == IF oprsz = maxsz THEN 2 ELSE oprsz \div 8 - 1
        d1 == deposit(0, SIMD_MAXSZ_BITS, SIMD_OPRSZ_BITS, o)
        d2 == deposit(d1, 0, SIMD_MAXSZ_BITS, m)
    IN  deposit(d2, SIMD_MAXSZ_BITS + SIMD_OPRSZ_BITS, SIMD_DATA_BITS, data)
simd_maxsz(desc) == extract(desc, 0, SIMD_MAXSZ_BITS) * 8 + 8
simd_oprsz(desc) ==
    LET f == extract(desc, SIMD_MAXSZ_BITS, SIMD_OPRSZ_BITS)
    IN  IF f = 2 THEN simd_maxsz(desc) ELSE f * 8 + 8
simd_data(desc) == sextract(desc, SIMD_MAXSZ_BITS + SIMD_OPRSZ_BITS, SIMD_DATA_BITS)

clear_high(v, r, oprsz, desc) ==
    [v EXCEPT ![r] = [g \in DOMAIN @ |->
        IF g >= oprsz \div 8 /\ g < simd_maxsz(desc) \div 8 THEN 0 ELSE @[g]]]

(* C copies of a value into every element of a granule *)
dup_const(sz, c) == SumSet({2^(BW * sz * k) : k \in 0 .. LB \div sz - 1}) * U(c, BW * sz)

----------------------------------------------------------------------------
(* Element steps: a and b as read, c the scalar or the descriptor's data.  *)
(* The shift counts of the v forms are masked; those of the i forms come   *)
(* from the descriptor as they are.                                        *)

gvec_add(a, b) == a + b
gvec_adds(a, c) == a + c
gvec_sub(a, b) == a - b
gvec_subs(a, c) == a - c
gvec_mul(a, b) == a * b
gvec_muls(a, c) == a * c
gvec_neg(a) == -a
gvec_abs(a, w) == IF S(a, w) < 0 THEN -S(a, w) ELSE S(a, w)
gvec_logic(op, a, b, w) ==
    CASE op = "and"  -> And(a, b, w) [] op = "or" -> Or(a, b, w)
      [] op = "xor"  -> Xor(a, b, w) [] op = "andc" -> And(a, Not(b, w), w)
      [] op = "orc"  -> Or(a, Not(b, w), w) [] op = "nand" -> Not(And(a, b, w), w)
      [] op = "nor"  -> Not(Or(a, b, w), w) [] op = "eqv" -> Not(Xor(a, b, w), w)
gvec_logics(op, a, c, w) ==
    CASE op = "ands" -> And(a, c, w) [] op = "andcs" -> And(a, Not(c, w), w)
      [] op = "xors" -> Xor(a, c, w) [] op = "ors" -> Or(a, c, w)
gvec_shi(op, a, shift, w) ==
    CASE op = "shli" -> a * 2^shift [] op = "shri" -> R_SHIFT(a, shift)
      [] op = "sari" -> R_SHIFT(S(a, w), shift)
gvec_rotli(a, shift, w) == rol(a, shift, w)
gvec_shv(op, a, b, w) ==
    LET sh == b % w
    IN  CASE op = "shlv" -> a * 2^sh [] op = "shrv" -> R_SHIFT(a, sh)
          [] op = "sarv" -> R_SHIFT(S(a, w), sh)
gvec_rotv(op, a, b, w) == IF op = "rotlv" THEN rol(a, b % w, w) ELSE ror(a, b % w, w)
DO_CMP1(op, a, b, w) ==
    -Bool(CASE op = "eq" -> a = b [] op = "ne" -> a # b
            [] op = "lt" -> S(a, w) < S(b, w) [] op = "le" -> S(a, w) <= S(b, w)
            [] op = "ltu" -> a < b [] op = "leu" -> a <= b)
(* The comparison with a scalar takes its inversion from the descriptor *)
DO_CMP1s(op, a, c, inv, w) ==
    LET r == Bool(CASE op = "eqs" -> a = U(c, w) [] op = "lts" -> S(a, w) < S(c, w)
                    [] op = "les" -> S(a, w) <= S(c, w) [] op = "ltus" -> a < U(c, w)
                    [] op = "leus" -> a <= U(c, w))
    IN  -Xor(r, U(inv, w), w)
gvec_smin(a, b, w) == IF S(a, w) < S(b, w) THEN S(a, w) ELSE S(b, w)
gvec_smax(a, b, w) == IF S(a, w) > S(b, w) THEN S(a, w) ELSE S(b, w)
gvec_umin(a, b) == IF a < b THEN a ELSE b
gvec_umax(a, b) == IF a > b THEN a ELSE b
gvec_bitsel(a, b, c, w) == Or(And(b, a, w), And(c, Not(a, w), w), w)

Plain == {"add", "sub", "mul", "smin", "smax", "umin", "umax", "ssadd", "sssub", "usadd", "ussub"}
Unary == {"neg", "abs", "mov", "not"}
Bitwise2 == {"and", "or", "xor", "andc", "orc", "nand", "nor", "eqv"}
Bitwise1 == {"ands", "andcs", "xors", "ors"}
Scalar == {"adds", "subs", "muls"} \cup Bitwise1
ShiftImm == {"shli", "shri", "sari", "rotli"}
ShiftVec == {"shlv", "shrv", "sarv", "rotlv", "rotrv"}
Compare == {"eq", "ne", "lt", "le", "ltu", "leu"}
CompareS == {"eqs", "lts", "les", "ltus", "leus"}

ElemStep(c, a, b, d) ==
    LET w == BW * c.sz
        n == c.sz <= 1
    IN  CASE c.op = "add" -> gvec_add(a, b) [] c.op = "sub" -> gvec_sub(a, b)
          [] c.op = "mul" -> gvec_mul(a, b) [] c.op = "adds" -> gvec_adds(a, c.x)
          [] c.op = "subs" -> gvec_subs(a, c.x) [] c.op = "muls" -> gvec_muls(a, U(c.x, w))
          [] c.op = "neg" -> gvec_neg(a) [] c.op = "abs" -> gvec_abs(a, w)
          [] c.op = "mov" -> a [] c.op = "not" -> Not(a, w)
          [] c.op \in Bitwise2 -> gvec_logic(c.op, a, b, w)
          [] c.op \in Bitwise1 -> gvec_logics(c.op, a, c.x, w)
          [] c.op \in ShiftImm \ {"rotli"} -> gvec_shi(c.op, a, simd_data(c.desc), w)
          [] c.op = "rotli" -> gvec_rotli(a, simd_data(c.desc), w)
          [] c.op \in {"shlv", "shrv", "sarv"} -> gvec_shv(c.op, a, b, w)
          [] c.op \in {"rotlv", "rotrv"} -> gvec_rotv(c.op, a, b, w)
          [] c.op \in Compare -> DO_CMP1(c.op, a, b, w)
          [] c.op \in CompareS -> DO_CMP1s(c.op, a, c.x, simd_data(c.desc), w)
          [] c.op = "ssadd" -> gvec_ssadd(S(a, w), S(b, w), w, n)
          [] c.op = "sssub" -> gvec_sssub(S(a, w), S(b, w), w, n)
          [] c.op = "usadd" -> gvec_usadd(a, b, w, n) [] c.op = "ussub" -> gvec_ussub(a, b, w, n)
          [] c.op = "smin" -> gvec_smin(a, b, w) [] c.op = "smax" -> gvec_smax(a, b, w)
          [] c.op = "umin" -> gvec_umin(a, b) [] c.op = "umax" -> gvec_umax(a, b)
          [] c.op = "bitsel" -> gvec_bitsel(a, b, d, w)

(* The loop of every helper, and its clear_high *)
gvec(v, c) ==
    LET oprsz == simd_oprsz(c.desc)
        n == (oprsz \div 8) * (LB \div c.sz)
        u == For(v, 0, c.sz, n, Same, LAMBDA x, i :
                 ElemStep(c, Elem(x[c.a], c.sz, i), Elem(x[c.b], c.sz, i), Elem(x[2], c.sz, i)))
    IN  clear_high(u, 0, oprsz, c.desc)

(* The copies of a scalar: dup8 and dup16 multiply it out to 32 bits and   *)
(* call dup32, and a zero leaves everything to clear_high.                 *)
gvec_dup(v, c) ==
    LET wide == IF c.sz = LB THEN LB ELSE LB \div 2
        val == IF c.sz = 1 THEN U(dup_const(1, c.x), BW * wide) ELSE U(c.x, BW * wide)
        oprsz == IF val = 0 THEN 0 ELSE simd_oprsz(c.desc)
        u == For(v, 0, wide, (oprsz \div 8) * (LB \div wide), Same, LAMBDA x, i : val)
    IN  clear_high(u, 0, oprsz, c.desc)
GvecRun(v, c) == IF c.op = "dup" THEN gvec_dup(v, c) ELSE gvec(v, c)

----------------------------------------------------------------------------
Sizes == {s \in {8, 16, 24, 32, 48} \X {8, 16, 32, 48} : check_size_align(s[1], s[2])}
GCall(op, sz, a, b, x, s, data) ==
    [op |-> op, sz |-> sz, a |-> a, b |-> b, x |-> x, size |-> s, data |-> data,
     desc |-> simd_desc(s[1], s[2], data)]
NoCall == GCall("none", 1, 0, 0, 0, <<8, 8>>, 0)

(* The destination is vector 0; the sources may be the destination *)
GCalls ==
    {GCall(op, sz, a, b, 0, s, 0) : op \in Plain \cup ShiftVec \cup Compare,
        sz \in {1, 2}, a \in {0, 1}, b \in {0, 1, 2}, s \in Sizes}
    \cup {GCall(op, LB, a, b, 0, s, 0) : op \in Bitwise2 \cup {"bitsel"}, a \in {0, 1}, b \in {0, 1, 2}, s \in Sizes}
    \cup {GCall(op, sz, a, a, 0, s, 0) : op \in {"neg", "abs"}, sz \in {1, 2}, a \in {0, 1}, s \in Sizes}
    \cup {GCall(op, LB, a, a, 0, s, 0) : op \in {"mov", "not"}, a \in {0, 1}, s \in Sizes}
    \cup {GCall(op, sz, a, a, x, s, 0) : op \in {"adds", "subs", "muls"}, sz \in {1, 2}, a \in {0, 1},
            x \in {3, 29}, s \in Sizes}
    \cup {GCall(op, LB, a, a, x, s, 0) : op \in Bitwise1, a \in {0, 1}, x \in {0, 1234}, s \in Sizes}
    \cup {GCall(op, sz, a, a, 0, s, n) : op \in ShiftImm, sz \in {1, 2}, a \in {0, 1}, n \in {0, 1, 3}, s \in Sizes}
    \cup {GCall(op, sz, a, a, x, s, n) : op \in CompareS, sz \in {1, 2}, a \in {0, 1}, x \in {3, 29}, n \in {0, 1}, s \in Sizes}
    \cup {GCall("dup", sz, 0, 0, x, s, 0) : sz \in {1, 2, LB}, x \in {0, 9, 16}, s \in Sizes}

GvecMem(p) == [r \in VRegs |-> [g \in 0 .. Granules - 1 |-> p[(r + g) % 3][g % 2]]]
GvecInit ==
    /\ \E p \in Patterns : gmem = GvecMem(p)
    /\ gold = gmem
    /\ gcall = NoCall
GvecCall ==
    /\ gcall = NoCall
    /\ \E c \in GCalls : gcall' = c /\ gmem' = GvecRun(gmem, c)
    /\ UNCHANGED gold
GvecReturn ==
    /\ gcall # NoCall
    /\ gcall' = NoCall
    /\ gmem' = gold
    /\ UNCHANGED gold
GvecNext == GvecCall \/ GvecReturn

----------------------------------------------------------------------------
(* What one element of the result is, in exact arithmetic *)
Clip(r, lo, hi) == IF r < lo THEN lo ELSE IF r > hi THEN hi ELSE r
Sat(r, w, sgn) == IF sgn THEN Clip(r, -(2^(w - 1)), 2^(w - 1) - 1) ELSE Clip(r, 0, 2^w - 1)
Rotated(a, n, w) == OfBits({(i + n) % w : i \in Bits(a, w)})
Promised(c, a, b, d) ==
    LET w == BW * c.sz
        sh == c.data
    IN  CASE c.op = "ssadd" -> Sat(S(a, w) + S(b, w), w, TRUE)
          [] c.op = "sssub" -> Sat(S(a, w) - S(b, w), w, TRUE)
          [] c.op = "usadd" -> Sat(a + b, w, FALSE) [] c.op = "ussub" -> Sat(a - b, w, FALSE)
          [] c.op = "rotlv" -> Rotated(a, b, w) [] c.op = "rotrv" -> Rotated(a, w - (b % w), w)
          [] c.op = "rotli" -> Rotated(a, sh, w) [] c.op = "dup" -> c.x
          [] c.op = "shli" -> vsll(a, sh, w) [] c.op = "shlv" -> vsll(a, b, w)
          [] c.op = "shri" -> vsrl(a, sh, w) [] c.op = "shrv" -> vsrl(a, b, w)
          [] c.op = "sari" -> vsra(a, sh, w) [] c.op = "sarv" -> vsra(a, b, w)
          [] c.op = "smin" -> Min({S(a, w), S(b, w)}) [] c.op = "smax" -> Max({S(a, w), S(b, w)})
          [] c.op = "umin" -> Min({a, b}) [] c.op = "umax" -> Max({a, b})
          [] c.op \in CompareS ->
                LET p == CASE c.op = "eqs" -> a = c.x % 2^w [] c.op = "lts" -> S(a, w) < S(c.x, w)
                           [] c.op = "les" -> S(a, w) <= S(c.x, w)
                           [] c.op = "ltus" -> a < c.x % 2^w [] c.op = "leus" -> a <= c.x % 2^w
                IN  IF p = (sh = 0) THEN -1 ELSE 0
          [] OTHER -> ElemStep(c, a, b, d)

(* The descriptor gives back the sizes and the data it was made from, and  *)
(* a helper leaves, in a destination that may also be a source: the exact  *)
(* element below the operation size, computed from the values the sources  *)
(* had before the call, zero up to the allocated size, and everything else *)
(* as it was.                                                              *)
GvecExact ==
    gcall # NoCall =>
        LET c == gcall
            n == (c.size[1] \div 8) * (LB \div c.sz)
        IN  /\ simd_oprsz(c.desc) = c.size[1]
            /\ simd_maxsz(c.desc) = c.size[2]
            /\ simd_data(c.desc) = c.data
            /\ \A i \in 0 .. n - 1 :
                  Elem(gmem[0], c.sz, i) =
                      U(Promised(c, Elem(gold[c.a], c.sz, i), Elem(gold[c.b], c.sz, i),
                                 Elem(gold[2], c.sz, i)), BW * c.sz)
            /\ \A g \in 0 .. Granules - 1 : g >= c.size[1] \div 8 =>
                  gmem[0][g] = IF g < c.size[2] \div 8 THEN 0 ELSE gold[0][g]
            /\ \A r \in {1, 2} : gmem[r] = gold[r]
=============================================================================
