----------------------------- MODULE HawkLattice -----------------------------
(***************************************************************************)
(* The arithmetic of an attempt of HAWK's signer, src/hawk_sign.c: the     *)
(* target B h mod 2, by Karatsuba's multiplication of binary polynomials,  *)
(* a sample of its parities from the tables of sig_gauss(), with the norm, *)
(* and the signature that comes back from residues modulo Q.  HawkSign has *)
(* the loop around it, and its memory.  Machines with AVX2 run code of     *)
(* their own for most of it.                                               *)
(*                                                                         *)
(* A basis is [f, g, F, G], with f G - g F = 1; a vector is <<a0, a1>>,    *)
(* except the sample, whose 2n coordinates are in one array.               *)
(***************************************************************************)
EXTENDS ModQ

CONSTANTS
    HawkBases, HawkChallenges,
    Draws,                   \* what the RNG gives for 2n coordinates: [hi, lo, neg]
    TabHi, TabLo,            \* the thresholds' two parts, for even and odd in turn
    HiRows, LoRows,          \* 5, 13: the rows of AVX2's copy of the tables
    Lanes, LaneBits,         \* 16 sums, of 16 bits
    BaseBits,                \* 32: the binary multiplication that is not divided
    MaxXNorm, S1Lim          \* max_xnorm, lim

VARIABLES
    pc,
    avx2, decoded,   \* the build, and the form of the key
    key,
    h, t,            \* the challenge; the target's 2n bits
    x, xsn,          \* 2*x0 and 2*x1 of the code's comments; their norm
    w,               \* w3: 2*(f*x1 - g*x0)
    s1

vars == <<pc, avx2, decoded, key, h, t, x, xsn, w, s1>>

Coordinates == 0 .. 2 * n - 1
Flat(a, b) == [v \in Coordinates |-> IF v < n THEN a[v] ELSE b[v - n]]
FirstHalfOf(a) == [u \in Index |-> a[u]]
SecondHalfOf(a) == [u \in Index |-> a[n + u]]
ZeroPoly == [u \in Index |-> 0]

-----------------------------------------------------------------------------
(***************************************************************************)
(* Binary polynomials, of len bits and 2*len for a product.                *)
(***************************************************************************)
Part(a, from, len) == [i \in 0 .. len - 1 |-> a[from + i]]
Xor(a, b) == [i \in DOMAIN a |-> (a[i] + b[i]) % 2]
Join(a, b, len) == [i \in 0 .. 2 * len - 1 |-> IF i < len THEN a[i] ELSE b[i - len]]
XorAt(d, from, a) == [i \in DOMAIN d |-> IF i - from \in DOMAIN a THEN (d[i] + a[i - from]) % 2 ELSE d[i]]

\* bp_mul_32, and the multiplication that AVX2 machines have.
Carryless(len, a, b) ==
    [i \in 0 .. 2 * len - 1 |->
        SumOver({u \in 0 .. len - 1 : i - u \in 0 .. len - 1}, LAMBDA u : a[u] * b[i - u]) % 2]

\* bp_muladd: d + a*b, in place.
RECURSIVE BpMulAdd(_, _, _, _)
BpMulAdd(len, d, a, b) ==
    LET hl == len \div 2
        d0 == Part(d, 0, len)
        d1 == Part(d, len, len)
        a0 == Part(a, 0, hl)  a1 == Part(a, hl, hl)
        b0 == Part(b, 0, hl)  b1 == Part(b, hl, hl)
        e0 == BpMulAdd(hl, d0, a0, b0)
        e1 == BpMulAdd(hl, d1, a1, b1)
        t1 == BpMulAdd(hl, Xor(d0, d1), Xor(a0, a1), Xor(b0, b1))
    IN  IF len = BaseBits THEN Xor(d, Carryless(len, a, b))
        ELSE XorAt(Join(e0, e1, len), hl, Xor(Xor(t1, e0), e1))

NoBitsSet(len) == [i \in 0 .. len - 1 |-> 0]

\* bp_mulmod: the product modulo X^n + 1, where what is multiplied by X^(n/2)
\* is rotated.
BpMulMod(a, b) ==
    LET a0 == Part(a, 0, hn)  a1 == Part(a, hn, hn)
        b0 == Part(b, 0, hn)  b1 == Part(b, hn, hn)
        t1 == BpMulAdd(hn, NoBitsSet(n), Xor(a0, a1), Xor(b0, b1))
        d == BpMulAdd(hn, BpMulAdd(hn, NoBitsSet(n), a0, b0), a1, b1)
        cross == Xor(t1, d)
    IN  Xor(d, Join(Part(cross, hn, hn), Part(cross, 0, hn), hn))

\* AVX2's: the whole product, then its upper half on the lower.
RECURSIVE BpMul(_, _, _)
BpMul(len, a, b) ==
    LET hl == len \div 2
        a0 == Part(a, 0, hl)  a1 == Part(a, hl, hl)
        b0 == Part(b, 0, hl)  b1 == Part(b, hl, hl)
        e == BpMul(hl, a0, b0)
        f == BpMul(hl, a1, b1)
        g == BpMul(hl, Xor(a0, a1), Xor(b0, b1))
    IN  IF len = BaseBits THEN Carryless(len, a, b)
        ELSE XorAt(Join(e, f, len), hl, Xor(g, Xor(e, f)))

BpMulModAvx(a, b) ==
    LET d == BpMul(n, a, b) IN Xor(Part(d, 0, n), Part(d, n, n))

MulMod2(a, b) == IF avx2 THEN BpMulModAvx(a, b) ELSE BpMulMod(a, b)

\* extract_lowbit, and of F and G, which a key has no more than that of.
LowBits(a) == [u \in Index |-> a[u] % 2]

\* basis_m2_mul.
BasisMul2(hh) ==
    LET product(a, b) == MulMod2(a, LowBits(b))
    IN  Flat(Xor(product(hh[1], key.f), product(hh[2], key.F)),
             Xor(product(hh[1], key.g), product(hh[2], key.G)))

-----------------------------------------------------------------------------
(***************************************************************************)
(* sig_gauss: a coordinate's magnitude is the number of thresholds that    *)
(* lie above a random number of two parts; the later thresholds have no    *)
(* high part.                                                              *)
(***************************************************************************)
Threshold(tab, row, odd) ==
    LET i == 2 * row + odd + 1 IN IF i \in DOMAIN tab THEN tab[i] ELSE 0
Borrow(d, row, odd) == IF d.lo < Threshold(TabLo, row, odd) THEN 1 ELSE 0

Above(d, odd, hiRows, loRows) ==
    SumOver(0 .. hiRows - 1, LAMBDA i :
        IF d.hi - Threshold(TabHi, i, odd) - Borrow(d, i, odd) < 0 THEN 1 ELSE 0)
    + SumOver(hiRows .. loRows - 1, LAMBDA i :
        IF d.hi = 0 THEN Borrow(d, i, odd) ELSE 0)

Coordinate(d, odd) ==
    LET rows(tab) == Len(tab) \div 2
        r == 2 * (IF avx2 THEN Above(d, odd, HiRows, LoRows)
                  ELSE Above(d, odd, rows(TabHi), rows(TabLo))) + odd
    IN  IF d.neg THEN -r ELSE r

\* AVX2 adds up in lanes, which are emptied between x0 and x1.
LaneSum(a, from, to, lane) ==
    SumOver({v \in from .. to : v % Lanes = lane}, LAMBDA v : a[v] * a[v]) % 2^LaneBits
LanesKept(a) == SumOver(0 .. Lanes - 1, LAMBDA l : LaneSum(a, 0, 2 * n - 1, l))
LanesMoved(a) ==
    SumOver(0 .. Lanes - 1, LAMBDA l : LaneSum(a, 0, n - 1, l) + LaneSum(a, n, 2 * n - 1, l))

SquareNorm(a) ==
    IF avx2 THEN LanesMoved(a) ELSE SumOver(Coordinates, LAMBDA v : a[v] * a[v])

-----------------------------------------------------------------------------
(***************************************************************************)
(* An attempt.                                                             *)
(***************************************************************************)
Init ==
    /\ pc = "key"
    /\ avx2 \in BOOLEAN /\ decoded \in BOOLEAN
    /\ key \in HawkBases
    /\ h = <<ZeroPoly, ZeroPoly>> /\ t = Flat(ZeroPoly, ZeroPoly)
    /\ x = t /\ xsn = 0
    /\ w = ZeroPoly /\ s1 = ZeroPoly

\* The challenge of a salt, and its target; nothing else is left of an attempt.
MakeTarget ==
    /\ pc \in {"key", "again"}
    /\ h' \in HawkChallenges
    /\ t' = BasisMul2(h')
    /\ x' = Flat(ZeroPoly, ZeroPoly) /\ xsn' = 0 /\ w' = ZeroPoly
    /\ pc' = "target"
    /\ UNCHANGED <<avx2, decoded, key, s1>>

\* sig_gauss and sig_gauss_alt, which differ in where the numbers come from.
SigGauss ==
    /\ pc = "target"
    /\ \E d \in Draws : x' = [v \in Coordinates |-> Coordinate(d[v], t[v])]
    /\ xsn' = SquareNorm(x')
    /\ pc' = "sampled"
    /\ UNCHANGED <<avx2, decoded, key, h, t, w, s1>>

Reject ==
    /\ pc = "sampled" /\ xsn > MaxXNorm
    /\ pc' = "again"
    /\ UNCHANGED <<avx2, decoded, key, h, t, x, xsn, w, s1>>

\* w1 <- g*x0, w3 <- x1*f - w1; f and g, if they are in the buffer, and x0 are
\* widened where they are.
PolyW1 == IF decoded THEN PolySetSmall(key.g) ELSE InPlaceLow(key.g)
PolyW3 == IF decoded THEN PolySetSmall(key.f) ELSE InPlaceHigh(key.f)

Multiply ==
    /\ pc = "sampled" /\ xsn <= MaxXNorm
    /\ \E w1 \in {QNtt(PolyW1, avx2)}, x0 \in {QNtt(InPlaceHigh(FirstHalfOf(x)), avx2)},
          x1 \in {QNtt(PolySetSmall(SecondHalfOf(x)), avx2)}, f \in {QNtt(PolyW3, avx2)} :
       \E w3 \in {[u \in Index |-> ToMontyQ(
                    QSub(QMul(x1[u], f[u], avx2), QMul(w1[u], x0[u], avx2)), avx2)]} :
       \E back \in {QIntt(w3, avx2)} :
          w' = [u \in Index |-> SNorm(back[u])]
    /\ pc' = "product"
    /\ UNCHANGED <<avx2, decoded, key, h, t, x, xsn, s1>>

\* poly_symbreak: the sign of the first coefficient that is not zero.
SymBreak(a) ==
    LET set == {u \in Index : a[u] # 0}
    IN  IF set = {} THEN 0
        ELSE IF a[CHOOSE u \in set : \A v \in set : u <= v] > 0 THEN 1 ELSE -1

\* w3 is negated if it is positive; AVX2's instruction multiplies by a sign,
\* which may be zero.
Signed(a, ps) ==
    [u \in Index |-> IF avx2 THEN -ps * a[u] ELSE IF ps = 1 THEN -a[u] ELSE a[u]]

Halve ==
    /\ pc = "product"
    /\ LET z == Signed(w, SymBreak(w))
           y == [u \in Index |-> (z[u] + h[2][u]) \div 2]
       IN  IF \A u \in Index : -S1Lim <= y[u] /\ y[u] < S1Lim
           THEN pc' = "signed" /\ s1' = y
           ELSE pc' = "again" /\ s1' = s1
    /\ UNCHANGED <<avx2, decoded, key, h, t, x, xsn, w>>

Next == MakeTarget \/ SigGauss \/ Reject \/ Multiply \/ Halve

-----------------------------------------------------------------------------
(***************************************************************************)
(* Properties.                                                             *)
(***************************************************************************)
\* By definition, and in integers: B h, and the inverse of B times x.
IntegerTarget ==
    Flat(PolyAdd(Product(key.f, h[1]), Product(key.F, h[2])),
         PolyAdd(Product(key.g, h[1]), Product(key.G, h[2])))
Back0 == PolySub(Product(key.G, FirstHalfOf(x)), Product(key.F, SecondHalfOf(x)))
Back1 == PolySub(Product(key.f, SecondHalfOf(x)), Product(key.g, FirstHalfOf(x)))

\* What residues modulo Q can tell apart.
Fits(a) == \A u \in Index : 2 * a[u] \in -Q .. Q

\* The receiver, who knows h and s1, gets the second half of B^-1 x or of
\* B^-1 (-x), that which is positive as verification wants it, and there is a
\* first half with which it is the whole: the sample is in the coset of the
\* target, whichever code has made either, its norm is the one the bound was
\* applied to, and the halving is exact.  That holds as long as the product
\* fits, which nothing checks: the limit is on s1, after it was reduced.
SignatureExact ==
    /\ pc = "target" => \A v \in Coordinates : (t[v] - IntegerTarget[v]) % 2 = 0
    /\ pc = "sampled" =>
          /\ \A v \in Coordinates : (x[v] - t[v]) % 2 = 0
          /\ xsn = SumOver(Coordinates, LAMBDA v : x[v] * x[v])
    /\ pc = "signed" /\ Fits(Back1) =>
          LET w1 == [u \in Index |-> h[2][u] - 2 * s1[u]]
          IN  /\ w1 = Scale(SymBreak(Back1), Back1)
              /\ \A u \in Index : (Back0[u] - h[1][u]) % 2 = 0
=============================================================================
