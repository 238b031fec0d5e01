-------------------------------- MODULE Mp31 --------------------------------
(***************************************************************************)
(* Arithmetic modulo the small primes of src/ng_inner.h, and the           *)
(* transforms of src/ng_mp31.c.  The primes are a little less than 31 bits *)
(* long, in words of 32; products are in Montgomery's form.                *)
(***************************************************************************)
EXTENDS Integers, Sequences, FiniteSetsExt, SequencesExt

CONSTANTS
    LimbBits,      \* 31
    SmallPrimes,   \* PRIMES: p, -1/p, R^2, roots of -1, 1/(product of those before)
    LogTop         \* 10: the roots are those of this degree

Limb == 2^LimbBits
Word == 2 * Limb
Long == Word * Word

UpTo(k) == [j \in 1 .. k |-> j - 1]
Bit(x, k) == (x \div 2^k) % 2

-----------------------------------------------------------------------------
(***************************************************************************)
(* Modulo P.p, which is between 2/3 of a limb's range and all of it.       *)
(***************************************************************************)
mp_set(v, P) == (IF v < 0 THEN v + P.p ELSE v) % Word
mp_norm(x, P) == IF x > P.p \div 2 THEN x - P.p ELSE x

\* R and R/2.
mp_R(P) == Word - 2 * P.p
mp_hR(P) == Limb - P.p

mp_add(a, b, P) == IF a + b < P.p THEN a + b ELSE a + b - P.p
mp_sub(a, b, P) == IF a < b THEN a - b + P.p ELSE a - b
mp_half(a, P) == (IF a % 2 = 1 THEN a + P.p ELSE a) \div 2

\* z/2^32, from -p up; and a product, reduced so.
Montgomery(z, P) == (z + (((z % Word) * P.p0i) % Word) * P.p) \div Word - P.p
FromZero(d, P) == IF d < 0 THEN d + P.p ELSE d
mp_montymul(a, b, P) == FromZero(Montgomery(a * b, P), P)

\* a*b, for which one of them takes a factor R.
Times(a, b, P) == mp_montymul(mp_montymul(a, b, P), P.R2, P)

\* 2^(31*e), in the bits of e.
mp_Rx31(e, P) ==
    LET step(st, k) ==
            [d |-> IF Bit(e, k) = 1 THEN mp_montymul(st.d, st.x, P) ELSE st.d,
             x |-> mp_montymul(st.x, st.x, P)]
    IN  FoldLeft(step, [d |-> 1, x |-> mp_half(P.R2, P)], UpTo(LimbBits)).d

\* A binary GCD, twice as many turns as there are bits; 0 without an inverse.
mp_div(x, y, P) ==
    LET turn(st, k) ==
            LET odd == st.a % 2 = 1
                s == IF odd /\ st.a < st.b
                     THEN [a |-> st.b, b |-> st.a, u |-> st.v, v |-> st.u] ELSE st
            IN  [s EXCEPT !.a = (IF odd THEN @ - s.b ELSE @) \div 2,
                          !.u = mp_half(mp_sub(@, IF odd THEN s.v ELSE 0, P), P)]
        end == FoldLeft(turn, [a |-> y, b |-> P.p, u |-> x, v |-> 0], UpTo(2 * LimbBits))
    IN  IF end.b < 2 THEN end.v ELSE 0

-----------------------------------------------------------------------------
(***************************************************************************)
(* Transforms, of degree 2^logn.                                           *)
(***************************************************************************)
Rev(logn, x) == MapThenSumSet(LAMBDA k : Bit(x, k) * 2^(logn - 1 - k), 0 .. logn - 1)

\* Powers of a root, in bit-reversed order, from a value on.
RootPowers(logn, first, g, P) ==
    LET root == FoldLeft(LAMBDA x, j : mp_montymul(x, x, P), g, UpTo(LogTop - logn))
        powers == FoldLeft(LAMBDA s, j : Append(s, mp_montymul(Last(s), root, P)),
                           <<first>>, UpTo(2^logn - 1))
    IN  [u \in 0 .. 2^logn - 1 |-> powers[Rev(logn, u) + 1]]

mp_mkgm(logn, P) == RootPowers(logn, mp_R(P), P.g, P)
mp_mkigm(logn, P) == RootPowers(logn, mp_hR(P), P.ig, P)

mp_NTT(logn, a, gm, P) ==
    LET layer(x, lm) ==
            LET m == 2^lm
                t == 2^(logn - lm)
                ht == t \div 2
                s(k) == gm[k \div t + m]
            IN  [k \in DOMAIN x |->
                    IF k % t < ht THEN mp_add(x[k], mp_montymul(x[k + ht], s(k), P), P)
                    ELSE mp_sub(x[k - ht], mp_montymul(x[k], s(k), P), P)]
    IN  FoldLeft(layer, a, UpTo(logn))

\* Halves in every layer, in the table of the roots or by themselves.
mp_iNTT(logn, a, igm, P) ==
    LET layer(x, lm) ==
            LET t == 2^lm
                hm == 2^(logn - 1 - lm)
            IN  [k \in DOMAIN x |->
                    IF k % (2 * t) < t THEN mp_half(mp_add(x[k], x[k + t], P), P)
                    ELSE mp_montymul(mp_sub(x[k - t], x[k], P), igm[k \div (2 * t) + hm], P)]
    IN  FoldLeft(layer, a, UpTo(logn))
=============================================================================
