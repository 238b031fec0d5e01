------------------------------- MODULE E8Ring -------------------------------
(***************************************************************************)
(* Arithmetic in Z[X]/(X^n + 1): the integer product and adjoint of        *)
(* e8/src/e8_math.c, and, modulo a prime, the Montgomery arithmetic and    *)
(* the number-theoretic transforms of e8/src/e8_ntt.c.  A polynomial is a  *)
(* function on 0 .. n - 1.                                                 *)
(***************************************************************************)
EXTENDS Integers, Sequences, FiniteSetsExt, SequencesExt

CONSTANTS
    LogN, LogMax,     \* logn, and 10: the largest
    WordBits,         \* 32
    Primes            \* E8_NTT_PRIMES: p, -1/p mod 2^32 and a root of -1

n == 2^LogN
hn == n \div 2
Index == 0 .. n - 1
R == 2^WordBits

\* What the code's comments rely on: p has one bit less than a word, and the
\* values that a word less p does not wrap are the negative ones.
ASSUME PrimeAssumption ==
    \A i \in DOMAIN Primes :
       /\ R \div 4 < Primes[i].p /\ Primes[i].p < R \div 2
       /\ (Primes[i].p * Primes[i].p0i + 1) % R = 0

ASSUME DegreeAssumption == LogN \in 2 .. LogMax /\ WordBits \in Nat \ {0}

Range0(k) == [j \in 1 .. k |-> j - 1]
SumOver(S, f(_)) == MapThenSumSet(f, S)

-----------------------------------------------------------------------------
(***************************************************************************)
(* Polynomials of integers.                                                *)
(***************************************************************************)
PolyAdd(a, b) == [u \in Index |-> a[u] + b[u]]
PolySub(a, b) == [u \in Index |-> a[u] - b[u]]
Scale(c, a) == [u \in Index |-> c * a[u]]

\* poly_mul_add, from zero: X^n is -1.
Product(a, b) ==
    [w \in Index |->
        SumOver(Index, LAMBDA u : IF u <= w THEN a[u] * b[w - u] ELSE -(a[u] * b[n + w - u]))]

\* poly_adjoint: X goes to 1/X.
Adjoint(a) == [u \in Index |-> IF u = 0 THEN a[0] ELSE -a[n - u]]

\* poly_xshift_get: X^s*a.
Shift(a, s) == [u \in Index |-> IF u >= s THEN a[u - s] ELSE -a[n + u - s]]

Inner(a, b) == SumOver(Index, LAMBDA u : a[u] * b[u])

-----------------------------------------------------------------------------
(***************************************************************************)
(* Modulo a prime P: residues in 0 .. P.p - 1.                             *)
(***************************************************************************)
\* e8_mp_montymul: a*b/R.  The product is of two words.
Montymul(a, b, P) ==
    LET z == a * b
        w == ((z % R) * P.p0i) % R
        d == (z + w * P.p) \div R - P.p
    IN  IF d < 0 THEN d + P.p ELSE d

MpAdd(a, b, P) == IF a + b >= P.p THEN a + b - P.p ELSE a + b
MpSub(a, b, P) == IF a < b THEN a - b + P.p ELSE a - b
MpMul(a, b, P) == (a * b) % P.p

\* e8_mp_pow, from the lowest bit of the exponent on.
MpPow(x, e, P) ==
    LET step(st, k) ==
            [y |-> IF (e \div 2^k) % 2 = 1 THEN MpMul(st.y, st.x, P) ELSE st.y,
             x |-> MpMul(st.x, st.x, P)]
    IN  FoldLeft(step, [y |-> 1, x |-> x], Range0(WordBits)).y

SetI32(a, P) == [u \in DOMAIN a |-> a[u] % P.p]

\* The tables' way: p is added to what is negative.
Residues(a, P) == [u \in DOMAIN a |-> IF a[u] < 0 THEN a[u] + P.p ELSE a[u]]

BitRev(x) == SumOver(0 .. LogN - 1, LAMBDA k : ((x \div 2^k) % 2) * 2^(LogN - 1 - k))

\* e8_mkgm: powers of the root, in bit-reversed order and Montgomery form.
MkGm(g, P) ==
    LET root == FoldLeft(LAMBDA x, k : Montymul(x, x, P), g, Range0(LogMax - LogN))
        powers == FoldLeft(LAMBDA s, k : Append(s, Montymul(Last(s), root, P)),
                           <<R % P.p>>, Range0(n - 1))
    IN  [u \in Index |-> powers[BitRev(u) + 1]]

GM == [i \in DOMAIN Primes |-> MkGm(Primes[i].g, Primes[i])]

\* The root's inverse, also in Montgomery form.
IGM == [i \in DOMAIN Primes |->
           LET P == Primes[i]
               r2 == MpMul(R % P.p, R % P.p, P)
           IN  MkGm(MpMul(MpPow(P.g, P.p - 2, P), r2, P), P)]

\* A layer of e8_ntt: blocks of t, of which the halves are combined.
Layer(a, lm, gm, P) ==
    LET m == 2^lm
        t == n \div m
        ht == t \div 2
    IN  [k \in DOMAIN a |->
            LET s == gm[k \div t + m]
            IN  IF k % t < ht THEN MpAdd(a[k], Montymul(a[k + ht], s, P), P)
                ELSE MpSub(a[k - ht], Montymul(a[k], s, P), P)]

Ntt(a, i) ==
    FoldLeft(LAMBDA d, lm : Layer(d, lm, GM[i], Primes[i]), a, Range0(LogN))

\* e8_intt: the layers backwards, which multiplies by n.
InvLayer(a, lm, igm, P) ==
    LET t == 2^lm
        hm == n \div (2 * t)
    IN  [k \in Index |->
            IF k % (2 * t) < t THEN MpAdd(a[k], a[k + t], P)
            ELSE Montymul(MpSub(a[k - t], a[k], P), igm[k \div (2 * t) + hm], P)]

Intt(a, i) ==
    FoldLeft(LAMBDA d, lm : InvLayer(d, lm, IGM[i], Primes[i]), a, Range0(LogN))

\* e8_poly_to_ntt_autoadj_tab: of an auto-adjoint polynomial half is enough;
\* the first layer combines a[u] with a[u + n/2] = -a[n/2 - u].
FirstHalf(a, i) ==
    LET P == Primes[i]
        s1 == GM[i][1]
    IN  [u \in 0 .. hn - 1 |->
            IF u = 0 THEN a[0] ELSE MpSub(a[u], Montymul(a[hn - u], s1, P), P)]

NttAutoadj(a, i) ==
    LET half == Residues([u \in 0 .. hn - 1 |-> a[u]], Primes[i])
    IN  FoldLeft(LAMBDA d, lm : Layer(d, lm, GM[i], Primes[i]), FirstHalf(half, i),
                 [k \in 1 .. LogN - 1 |-> k])

\* The value of adj(a) at u is that of a here.
Opposite(u) == n - 1 - u

\* To the nearest of the integers that have this residue.
Centred(x, P) == IF x > P.p \div 2 THEN x - P.p ELSE x
=============================================================================
