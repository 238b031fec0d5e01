------------------------------- MODULE ZInt31 -------------------------------
(***************************************************************************)
(* The integers of src/ng_zint31.c.  One is a sequence of limbs of 31      *)
(* bits, the lowest first, in two's complement where it has a sign; or it  *)
(* is its residues modulo the first primes of PRIMES.                      *)
(***************************************************************************)
EXTENDS Mp31

ToSigned(x, modulus) == IF x % modulus >= modulus \div 2 THEN (x % modulus) - modulus ELSE x % modulus

\* What a sequence of limbs stands for.
Unsigned(x) == FoldRight(LAMBDA w, rest : rest * Limb + w, x, 0)
Negative(x) == Last(x) >= Limb \div 2
Integer(x) == IF Negative(x) THEN Unsigned(x) - Limb^Len(x) ELSE Unsigned(x)
SignWord(x) == IF Negative(x) THEN Limb - 1 ELSE 0

-----------------------------------------------------------------------------
(***************************************************************************)
(* Limbs, with carries.                                                    *)
(***************************************************************************)
\* [x |-> limbs, cc |-> carry] of a loop over limbs in which each gives a sum.
Carried(sums) ==
    FoldLeft(LAMBDA st, s : [x |-> Append(st.x, (s + st.cc) % Limb), cc |-> (s + st.cc) \div Limb],
             [x |-> <<>>, cc |-> 0], sums)

zint_mul_small(m, x) == Carried([j \in DOMAIN m |-> m[j] * x])

\* x + s*y, a limb longer.
zint_add_mul_small(x, y, s) ==
    LET r == Carried([j \in DOMAIN x |-> x[j] + s * y[j]])
    IN  Append(r.x, r.cc)

\* From the highest limb on; a limb may be above p, but not above 2*p.
zint_mod_small_unsigned(d, P) ==
    LET z == mp_half(P.R2, P)
        below(w) == IF w < P.p THEN w ELSE w - P.p
    IN  FoldRight(LAMBDA w, x : mp_add(mp_montymul(x, z, P), below(w), P), d, 0)

zint_mod_small_signed(d, P, Rx) ==
    mp_sub(zint_mod_small_unsigned(d, P), IF Negative(d) THEN Rx ELSE 0, P)

\* x - p if x > (p - 1)/2: the highest limbs that differ decide.
zint_norm_zero(x, p) ==
    LET len == Len(x)
        half == [j \in DOMAIN p |->
                    p[j] \div 2 + (IF j < len THEN p[j + 1] % 2 ELSE 0) * (Limb \div 2)]
        differ == {j \in DOMAIN x : x[j] # half[j]}
        above == differ # {} /\ x[Max(differ)] > half[Max(differ)]
    IN  IF above THEN Carried([j \in DOMAIN x |-> x[j] - p[j]]).x ELSE x

\* The product of the first primes.
PrimeProduct(len) ==
    FoldLeft(LAMBDA q, u : LET r == zint_mul_small(q, SmallPrimes[u + 1].p) IN Append(r.x, r.cc),
             <<SmallPrimes[1].p>>, Tail(UpTo(len)))

\* The integer of some residues, of which the last ones make it longer.
zint_rebuild_CRT(xs, normalize_signed) ==
    LET step(st, u) ==
            LET P == SmallPrimes[u + 1]
                xq == zint_mod_small_unsigned(st.x, P)
                xr == mp_montymul(P.s, mp_sub(xs[u + 1], xq, P), P)
                q == zint_mul_small(st.q, P.p)
            IN  [x |-> zint_add_mul_small(st.x, st.q, xr), q |-> Append(q.x, q.cc)]
        end == FoldLeft(step, [x |-> <<xs[1]>>, q |-> <<SmallPrimes[1].p>>],
                        Tail(UpTo(Len(xs))))
    IN  IF normalize_signed THEN zint_norm_zero(end.x, end.q) ELSE end.x

zint_negate(a) ==
    FoldLeft(LAMBDA st, w : LET s == Limb - 1 - w + st.cc
                            IN  [x |-> Append(st.x, s % Limb), cc |-> s \div Limb],
             [x |-> <<>>, cc |-> 1], a).x

-----------------------------------------------------------------------------
(***************************************************************************)
(* The GCD of two odd integers with coefficients: in every round as many   *)
(* halvings as a limb has bits are made with approximations of the two and *)
(* then applied to all of their limbs.                                     *)
(***************************************************************************)
\* -1/x, by Newton's iteration.
mp_ninv31(x) ==
    LET y == FoldLeft(LAMBDA t, k : (t * ((2 - x * t) % Word)) % Word, (2 - x) % Word, UpTo(4))
    IN  (-y) % Limb

\* (a*xa + b*xb)/2^31, which is exact, without its sign.
zint_co_reduce(a, b, xa, xb) ==
    LET z == FoldLeft(LAMBDA st, j :
                 LET s == ToSigned(a[j] * xa + b[j] * xb + st.cc, Long)
                 IN  [x |-> Append(st.x, s % Limb), cc |-> s \div Limb],
                 [x |-> <<>>, cc |-> 0], [j \in DOMAIN a |-> j])
        r == Append(Tail(z.x), z.cc % Limb)
    IN  [x |-> IF z.cc < 0 THEN zint_negate(r) ELSE r, neg |-> z.cc < 0]

\* a, of which the highest limb may have the size of a word, is made less than
\* m, or m is added to it.
zint_finish_mod(a, m, neg) ==
    LET less == FoldLeft(LAMBDA cc, j : IF a[j] - m[j] - cc < 0 THEN 1 ELSE 0, 0,
                         [j \in DOMAIN a |-> j]) = 1
    IN  IF neg THEN Carried([j \in DOMAIN a |-> a[j] + m[j]]).x
        ELSE IF less THEN a
        ELSE Carried([j \in DOMAIN a |-> a[j] - m[j]]).x

\* (a*xa + b*xb)/2^31 modulo m: a multiple of m makes it exact.
zint_co_reduce_mod(a, b, m, m0i, xa, xb) ==
    LET fa == (((a[1] * (xa % Word) + b[1] * (xb % Word)) % Word) * m0i) % Limb
        z == FoldLeft(LAMBDA st, j :
                 LET s == ToSigned(a[j] * xa + b[j] * xb + m[j] * fa + st.cc, Long)
                 IN  [x |-> Append(st.x, s % Limb), cc |-> s \div Limb],
                 [x |-> <<>>, cc |-> 0], [j \in DOMAIN a |-> j])
    IN  zint_finish_mod(Append(Tail(z.x), z.cc % Word), m, z.cc < 0)

BitLength(x) == Max({0} \cup {k + 1 : k \in {i \in 0 .. LimbBits : x >= 2^i}})

\* The top and the lowest limb of a, at the place of the highest of a and b.
Approximation(a, top, s) ==
    LET high == IF top = 1 THEN 0
                ELSE IF top = 2 THEN a[2]
                ELSE ((a[top] * 2^s) % Word) + a[top - 1] \div 2^(LimbBits - s)
    IN  high * Limb + a[1]

\* The 31 halvings: two coefficients of each are in the halves of a long word.
Halvings(xa, xb) ==
    LET turn(st, k) ==
            LET odd == st.a % 2 = 1
                s == IF odd /\ st.a < st.b
                     THEN [a |-> st.b, b |-> st.a, fa |-> st.fb, fb |-> st.fa] ELSE st
            IN  [a |-> (IF odd THEN s.a - s.b ELSE s.a) \div 2, b |-> s.b,
                 fa |-> IF odd THEN (s.fa - s.fb) % Long ELSE s.fa,
                 fb |-> (2 * s.fb) % Long]
        end == FoldLeft(turn, [a |-> xa, b |-> xb, fa |-> 1, fb |-> Word], UpTo(LimbBits))
        split(fg) ==
            LET x == (fg + (Limb - 1) * (Word + 1)) % Long
            IN  [f |-> (x % Word) - (Limb - 1), g |-> (x \div Word) - (Limb - 1)]
    IN  [a |-> split(end.fa), b |-> split(end.fb)]

\* The halvings of a round, from the highest limb that a or b has.
TopLimb(a, b) == Max({1} \cup {j \in DOMAIN a : a[j] + b[j] > 0})
HalvingsFrom(a, b, top, s) == Halvings(Approximation(a, top, s), Approximation(b, top, s))
HalvingsAt(a, b, top) ==
    HalvingsFrom(a, b, top, LimbBits + 1 - Max({BitLength(a[top]), BitLength(b[top])}))

\* A pair of coefficients, with the sign of what they give.
Oriented(fg, neg) == IF neg THEN [f |-> -fg.f, g |-> -fg.g] ELSE fg

\* The other numbers of a round follow a and b.
BezoutFollow(st, a, b, fga, fgb, x, y) ==
    [a |-> a, b |-> b,
     u0 |-> zint_co_reduce_mod(st.u0, st.u1, y, mp_ninv31(y[1]), fga.f, fga.g),
     u1 |-> zint_co_reduce_mod(st.u0, st.u1, y, mp_ninv31(y[1]), fgb.f, fgb.g),
     v0 |-> zint_co_reduce_mod(st.v0, st.v1, x, mp_ninv31(x[1]), fga.f, fga.g),
     v1 |-> zint_co_reduce_mod(st.v0, st.v1, x, mp_ninv31(x[1]), fgb.f, fgb.g)]

BezoutReduced(st, a, b, h, x, y) ==
    BezoutFollow(st, a.x, b.x, Oriented(h.a, a.neg), Oriented(h.b, b.neg), x, y)

BezoutHalved(st, h, x, y) ==
    BezoutReduced(st, zint_co_reduce(st.a, st.b, h.a.f, h.a.g),
                  zint_co_reduce(st.a, st.b, h.b.f, h.b.g), h, x, y)

BezoutRound(st, x, y) ==
    BezoutHalved(st, HalvingsAt(st.a, st.b, TopLimb(st.a, st.b)), x, y)

BezoutResult(end, x, y) ==
    [ok |-> /\ end.b[1] = 1 /\ \A j \in DOMAIN x \ {1} : end.b[j] = 0
            /\ x[1] % 2 = 1 /\ y[1] % 2 = 1,
     u |-> end.u1, v |-> end.v1]

\* u and v with x*u - y*v = 1, if there are.
zint_bezout(x, y) ==
    LET zeros == [j \in DOMAIN x |-> 0]
    IN  BezoutResult(
            FoldLeft(LAMBDA st, k : BezoutRound(st, x, y),
                     [a |-> x, b |-> y, u0 |-> [zeros EXCEPT ![1] = 1], v0 |-> zeros,
                      u1 |-> y, v1 |-> [x EXCEPT ![1] = (@ - 1) % Word]],
                     UpTo(2 * Len(x) + 1)), x, y)

-----------------------------------------------------------------------------
(***************************************************************************)
(* Multiples of y, scaled.                                                 *)
(***************************************************************************)
\* A mutant: without the sign beyond the highest limb.
ShiftedUnsigned(y, scl, count) ==
    LET word(j) == IF j \in DOMAIN y THEN y[j] ELSE 0
    IN  [j \in 1 .. count |->
            ((word(j) * 2^scl) % Limb) + word(j - 1) \div 2^(LimbBits - scl)]

\* The first limbs of 2^scl*y.
Shifted(y, scl, count) ==
    LET word(j) == IF j = 0 THEN 0 ELSE IF j <= Len(y) THEN y[j] ELSE SignWord(y)
    IN  [j \in 1 .. count |->
            ((word(j) * 2^scl) % Limb) + word(j - 1) \div 2^(LimbBits - scl)]

\* x - 2^(31*sch + scl)*y, as far as x goes.
zint_sub_scaled(x, y, sch, scl) ==
    IF sch >= Len(x) THEN x
    ELSE LET ys == Shifted(y, scl, Len(x) - sch)
         IN  SubSeq(x, 1, sch) \o Carried([j \in DOMAIN ys |-> x[sch + j] - ys[j]]).x
=============================================================================
