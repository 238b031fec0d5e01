----------------------------- MODULE E8Lattice ------------------------------
(***************************************************************************)
(* The lattice of HAWK-E8, in rank 2 over the ring: the E8 factor P and    *)
(* its form S (e8/src/e8_math.c), the blocks of eight integers that the    *)
(* sampler works on (e8/src/e8_sampler.c), the public form of a key        *)
(* (e8/src/e8_math.c and, by transforms, e8/src/e8_ntt.c), the coset that  *)
(* a hash selects (e8/src/e8_f2.c), and the way back from a sample to a    *)
(* signature (e8/src/e8_sign.c).  A basis is [f, g, F, G]; a vector is     *)
(* <<a0, a1>>.                                                             *)
(***************************************************************************)
EXTENDS E8Ring

CONSTANTS
    Window,           \* 4 bits of the factor at a time
    WLimit,           \* E8_INVERSE_W_ABS_LIMIT
    Int16Max,         \* 32767
    \* 2^E8_KEYGEN_LIM_BITS
    LimQ00Head, LimQ00, LimQ01, LimQ11Head, LimQ11

\* Four coefficients of a polynomial are in each block.
ASSUME BlockAssumption == n \in Nat /\ n % 4 = 0

k4 == n \div 4
Y(a, j) == Shift(a, j * k4)

\* e8_apply_P and e8_apply_S.
ApplyP(z) ==
    [c \in 1 .. 2 |->
       IF c = 1
       THEN PolyAdd(Scale(2, PolyAdd(z[1], Y(z[1], 1))),
                    PolyAdd(PolySub(z[2], Y(z[2], 1)), PolyAdd(Y(z[2], 2), Y(z[2], 3))))
       ELSE PolyAdd(PolyAdd(z[2], Y(z[2], 1)), PolyAdd(Y(z[2], 2), Y(z[2], 3)))]

ApplyS(z) ==
    [c \in 1 .. 2 |->
       IF c = 1
       THEN PolyAdd(PolyAdd(Scale(8, z[1]), Scale(4, Y(z[1], 1))),
                    PolySub(Scale(4, Y(z[2], 2)), Scale(4, Y(z[1], 3))))
       ELSE PolySub(Scale(8, z[2]), Scale(4, Y(z[1], 2)))]

\* e8_make_delta: the determinant of S.
Delta == [u \in Index |-> IF u = 0 THEN 48 ELSE IF u = k4 THEN 32
                          ELSE IF u = 3 * k4 THEN -32 ELSE 0]

-----------------------------------------------------------------------------
(***************************************************************************)
(* The public form Q = B* S B.                                             *)
(***************************************************************************)
\* make_qentry and e8_compute_qform: column by column.
QEntry(b, sb) == PolyAdd(Product(Adjoint(b[1]), sb[1]), Product(Adjoint(b[2]), sb[2]))

QForm(B) ==
    LET b0 == <<B.f, B.g>>
        b1 == <<B.F, B.G>>
    IN  [q00 |-> QEntry(b0, ApplyS(b0)), q01 |-> QEntry(b0, ApplyS(b1)),
         q10 |-> QEntry(b1, ApplyS(b0)), q11 |-> QEntry(b1, ApplyS(b1))]

\* The generated tables of S, in Montgomery form.
ToMonty(a, P) == [u \in DOMAIN a |-> Montymul(a[u], MpMul(R % P.p, R % P.p, P), P)]
X1(s) == Shift([u \in Index |-> IF u = 0 THEN 1 ELSE 0], s)
S00 == PolyAdd(Scale(8, X1(0)), PolySub(Scale(4, X1(k4)), Scale(4, X1(3 * k4))))
S01 == Scale(4, X1(2 * k4))
S00Mont == ToMonty(Ntt(Residues(S00, Primes[1]), 1), Primes[1])
S01Mont == ToMonty(Ntt(Residues(S01, Primes[1]), 1), Primes[1])
DeltaMont == [i \in DOMAIN Primes |-> ToMonty(Ntt(Residues(Delta, Primes[i]), i), Primes[i])]

\* The value of a polynomial's adjoint, where the transform has it.
AdjointAt(u) == Opposite(u)

\* e8_compute_keygen_qform: all in the first prime, and back.
KeygenQForm(B) ==
    LET P == Primes[1]
        r2 == MpMul(R % P.p, R % P.p, P)
        ni == MpMul(MpPow(n, P.p - 2, P), R % P.p, P)
        t(a) == Ntt(Residues(a, P), 1)
        tf == t(B.f)  tg == t(B.g)  tF == t(B.F)  tG == t(B.G)
        eightfold(x) == LET x2 == MpAdd(x, x, P)  x4 == MpAdd(x2, x2, P) IN MpAdd(x4, x4, P)
        first(x, y) == [u \in Index |-> MpAdd(Montymul(S00Mont[u], x[u], P),
                                              Montymul(S01Mont[u], y[u], P), P)]
        second(x, y) == [u \in Index |-> MpSub(eightfold(y[u]),
                                               Montymul(S01Mont[u], x[u], P), P)]
        entry(x, y, sx, sy) ==
            [u \in Index |->
                Montymul(r2, MpAdd(Montymul(x[AdjointAt(u)], sx[u], P),
                                   Montymul(y[AdjointAt(u)], sy[u], P), P), P)]
        back(a) == LET b == Intt(a, 1)
                   IN  [u \in Index |-> Centred(Montymul(b[u], ni, P), P)]
    IN  [q00 |-> back(entry(tf, tg, first(tf, tg), second(tf, tg))),
         q01 |-> back(entry(tf, tg, first(tF, tG), second(tF, tG))),
         q11 |-> back(entry(tF, tG, first(tF, tG), second(tF, tG)))]

\* e8_keygen_limits_ok without q11, q00_invertible in one prime, and the check
\* of a public key on its way in.
PolyWithin(a, head, lim) ==
    \A u \in Index : LET b == IF u = 0 THEN head ELSE lim IN -b < a[u] /\ a[u] < b

LimitsOK(q) == PolyWithin(q.q00, LimQ00Head, LimQ00) /\ PolyWithin(q.q01, LimQ01, LimQ01)

Invertible(q00, i) == \A u \in 0 .. hn - 1 : NttAutoadj(q00, i)[u] # 0

DecodesAsKey(q) ==
    /\ q.q00[hn] = 0
    /\ \A u \in 1 .. hn - 1 : q.q00[n - u] + q.q00[u] = 0
    /\ LimitsOK(q)

\* e8_qnorm_direct.
QNormDirect(q, w) ==
    Inner(w[1], PolyAdd(Product(q.q00, w[1]), Product(q.q01, w[2])))
    + Inner(w[2], PolyAdd(Product(q.q10, w[1]), Product(q.q11, w[2])))

-----------------------------------------------------------------------------
(***************************************************************************)
(* The coset: B h mod 2, where X^n is 1.                                   *)
(***************************************************************************)
Mod2(a) == [u \in DOMAIN a |-> a[u] % 2]
XorShift(d, a, s) == [u \in Index |-> (d[u] + a[(u - s) % n]) % 2]
Zero == [u \in Index |-> 0]

\* e8_f2_window_prepare: the multiples of b by every polynomial of few bits.
WindowRow(b, v) ==
    FoldLeft(LAMBDA d, i : IF (v \div 2^i) % 2 = 1 THEN XorShift(d, b, i) ELSE d,
             Zero, Range0(Window))
WindowTable(b) == [v \in 0 .. 2^Window - 1 |-> WindowRow(Mod2(b), v)]

\* e8_f2_window_mul_add.
WindowMulAdd(d, a, table) ==
    LET digit(j) == SumOver(0 .. Window - 1, LAMBDA i : a[Window * j + i] * 2^i)
    IN  FoldLeft(LAMBDA e, j : XorShift(e, table[digit(j)], Window * j),
                 d, Range0(n \div Window))

\* e8_compute_t_mod2_prepared.
CosetOf(B, h) ==
    <<WindowMulAdd(WindowMulAdd(Zero, h[1], WindowTable(B.f)), h[2], WindowTable(B.F)),
      WindowMulAdd(WindowMulAdd(Zero, h[1], WindowTable(B.g)), h[2], WindowTable(B.G))>>

-----------------------------------------------------------------------------
(***************************************************************************)
(* Blocks: eight integers of a vector, four of each half.                  *)
(***************************************************************************)
\* e8_extract_tau and e8_read_block; e8_write_block.
BlockOf(z, r) == [b \in 1 .. 8 |-> IF b <= 4 THEN z[1][r + (b - 1) * k4] ELSE z[2][r + (b - 5) * k4]]
FromBlocks(block) ==
    [c \in 1 .. 2 |-> [u \in Index |-> block[u % k4][u \div k4 + 1 + 4 * (c - 1)]]]

\* e8_block_apply_P, on X^4 = -1, and e8_block_norm2.
BlockApplyP(z) ==
    LET at(c, u, s) == IF u >= s THEN z[4 * c + u - s + 1] ELSE -z[4 * c + 4 + u - s + 1]
        sum(u) == at(1, u, 0) + at(1, u, 2) + at(1, u, 3)
    IN  [b \in 1 .. 8 |->
            LET u == (b - 1) % 4
            IN  IF b <= 4 THEN 2 * (at(0, u, 0) + at(0, u, 1)) + sum(u) - at(1, u, 1)
                ELSE sum(u) + at(1, u, 1)]

Dot(x, y) == x[1] * y[1] + x[2] * y[2] + x[3] * y[3] + x[4] * y[4]
             + x[5] * y[5] + x[6] * y[6] + x[7] * y[7] + x[8] * y[8]
BlockNorm2(z) == LET x == BlockApplyP(z) IN Dot(x, x)

\* E8_PINV_NUM: four times the inverse of P.
PInvNum == <<
    << 1,  1, -1,  1,  1, -3,  3, -1>>, <<-1,  1,  1, -1,  1,  1, -3,  3>>,
    << 1, -1,  1,  1, -3,  1,  1, -3>>, <<-1,  1, -1,  1,  3, -3,  1,  1>>,
    << 0,  0,  0,  0,  2,  0,  0,  2>>, << 0,  0,  0,  0, -2,  2,  0,  0>>,
    << 0,  0,  0,  0,  0, -2,  2,  0>>, << 0,  0,  0,  0,  0,  0, -2,  2>> >>

\* e8_block_solve_P_checked: the z in the coset tau with P z = x, if any.
NoBlock == <<>>
Solved(x) == [b \in 1 .. 8 |-> Dot(PInvNum[b], x)]
SolveP(x, tau) ==
    LET num == Solved(x)
        z == [b \in 1 .. 8 |-> num[b] \div 4]
    IN  IF /\ \A b \in 1 .. 8 : num[b] % 4 = 0 /\ z[b] % 2 = tau[b]
           /\ BlockApplyP(z) = x
        THEN z ELSE NoBlock

-----------------------------------------------------------------------------
(***************************************************************************)
(* From a sample to a signature.                                           *)
(***************************************************************************)
\* compute_inverse_w_schoolbook: by the inverse [G -F; -g f] of the basis.
InverseW(B, z) ==
    <<PolySub(Product(B.G, z[1]), Product(B.F, z[2])),
      PolySub(Product(B.f, z[2]), Product(B.g, z[1]))>>

\* e8_compute_inverse_w_ntt: the same in the first prime; NoVector if it is
\* not as small as it must be.
NoVector == <<>>
InverseWNtt(B, z) ==
    LET P == Primes[1]
        ni == MpPow(n, P.p - 2, P)
        basis(a) == ToMonty(Ntt(SetI32(a, P), 1), P)
        tf == basis(B.f)  tg == basis(B.g)  tF == basis(B.F)  tG == basis(B.G)
        tz == [c \in 1 .. 2 |-> Ntt(SetI32(z[c], P), 1)]
        r0 == [u \in Index |-> MpSub(Montymul(tG[u], tz[1][u], P), Montymul(tF[u], tz[2][u], P), P)]
        r1 == [u \in Index |-> MpSub(Montymul(tf[u], tz[2][u], P), Montymul(tg[u], tz[1][u], P), P)]
        back(a) == LET b == Intt(a, 1) IN [u \in Index |-> Centred(MpMul(b[u], ni, P), P)]
        w == <<back(r0), back(r1)>>
    IN  IF \A c \in 1 .. 2, u \in Index : -WLimit < w[c][u] /\ w[c][u] < WLimit
        THEN w ELSE NoVector

\* e8_sym_break: the first coefficient that is not zero, of w1 and then of w0,
\* is positive.
SymBreak(w) ==
    LET all == [j \in 0 .. 2 * n - 1 |-> IF j < n THEN w[2][j] ELSE w[1][j - n]]
        set == {j \in DOMAIN all : all[j] # 0}
    IN  set # {} => all[CHOOSE j \in set : \A l \in set : j <= l] > 0

\* compute_s_from_w: of w and -w that which passes.
NegatedOnce(w) == <<w[1], Scale(-1, w[2])>>
Negated(w) == [c \in 1 .. 2 |-> Scale(-1, w[c])]
SymmetricChoice(w) == IF SymBreak(w) THEN w ELSE Negated(w)

Integral(h, w) == \A c \in 1 .. 2, u \in Index : (h[c][u] - w[c][u]) % 2 = 0
HalfOf(h, w) == [c \in 1 .. 2 |-> [u \in Index |-> (h[c][u] - w[c][u]) \div 2]]
FitsInt16(s) == \A c \in 1 .. 2, u \in Index : s[c][u] \in -Int16Max - 1 .. Int16Max

\* e8_sig_to_w: what the receiver makes of h and s.
WOf(h, s) == [c \in 1 .. 2 |-> [u \in Index |-> h[c][u] - 2 * s[c][u]]]
=============================================================================
