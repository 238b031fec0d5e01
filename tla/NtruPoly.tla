------------------------------ MODULE NtruPoly ------------------------------
(***************************************************************************)
(* Polynomials of big integers, of src/ng_poly.c: modulo X^n + 1, with n a *)
(* power of two up to that of the key.  One is a function on 0 .. n - 1 to *)
(* limbs, or for each of the first primes a function to residues.          *)
(***************************************************************************)
EXTENDS FixedPoint

Degree(logn) == 0 .. 2^logn - 1

\* Modulo X^n + 1, the index and the sign of the product of X^u and X^v.
Signed(u, v, x) == IF v <= u THEN x ELSE -x

-----------------------------------------------------------------------------
(***************************************************************************)
(* From one form to another.                                               *)
(***************************************************************************)
ToNtt(logn, a, P) == mp_NTT(logn, a, mp_mkgm(logn, P), P)
FromNtt(logn, a, P) == mp_iNTT(logn, a, mp_mkigm(logn, P), P)

poly_mp_set_small(f, P) == [u \in DOMAIN f |-> mp_set(f[u], P)]
poly_mp_set(x, P) == [u \in DOMAIN x |-> mp_set(ToSigned(x[u][1], Limb), P)]
poly_mp_norm(a, P) == [u \in DOMAIN a |-> mp_norm(a[u], P) % Limb]

Residues(d, P) == [v \in DOMAIN d |-> zint_mod_small_signed(d[v], P, mp_Rx31(Len(d[v]), P))]

Rebuild(xs, normalize_signed) ==
    [v \in DOMAIN xs[1] |-> zint_rebuild_CRT([u \in DOMAIN xs |-> xs[u][v]], normalize_signed)]

\* Some limbs of every coefficient.
Limbs(x, from, to) == [u \in DOMAIN x |-> SubSeq(x[u], from, to)]

\* [ok |-> none is above the limit, d |-> the coefficients].
poly_big_to_small(a, lim) ==
    LET d == [u \in DOMAIN a |-> ToSigned(a[u], Limb)]
    IN  [ok |-> \A u \in DOMAIN d : -lim <= d[u] /\ d[u] <= lim, d |-> d]

\* The bits of the largest magnitude.
Magnitude(x) == [j \in DOMAIN x |-> IF Negative(x) THEN Limb - 1 - x[j] ELSE x[j]]
poly_max_bitlength(x) ==
    LET used(u) == {j \in DOMAIN x[u] : Magnitude(x[u])[j] # 0}
        bits(u) == {LimbBits * (j - 1) + BitLength(Magnitude(x[u])[j]) : j \in used(u)}
    IN  Max({0} \cup UNION {bits(u) : u \in DOMAIN x})

\* x/2^sc: of three limbs, the middle one of which is cut in two.
poly_big_to_fixed(x, sc) ==
    LET exact == sc % LimbBits = 0
        sch == IF exact THEN sc \div LimbBits - 1 ELSE sc \div LimbBits
        scl == IF exact THEN LimbBits ELSE sc % LimbBits
        limb(y, j) == IF j < 0 THEN 0 ELSE IF j < Len(y) THEN y[j + 1] ELSE SignWord(y)
        fixed(y) ==
            LET w0 == limb(y, sch - 1)
                w1 == limb(y, sch)
                w2 == ToSigned(limb(y, sch + 1), Limb)
            IN  fxr_of_words((w1 \div 2^scl + w2 * 2^(LimbBits - scl)) % Word,
                             (w0 \div 2^(scl - 1) + w1 * 2^(FracBits - scl)) % Word)
    IN  [u \in DOMAIN x |-> IF x[u] = <<>> THEN 0 ELSE fixed(x[u])]

-----------------------------------------------------------------------------
(***************************************************************************)
(* F - 2^sc*k*f, in three ways.                                            *)
(***************************************************************************)
Low(sc) == sc % LimbBits
High(sc) == sc \div LimbBits

\* Limb by limb, for small degrees; F changes from the limb sch on.
poly_sub_scaled(logn, F, f, k, sc) ==
    LET sch == High(sc)
        count == Len(F[0]) - sch
        fs == [v \in DOMAIN f |-> Shifted(f[v], Low(sc), count)]
        kf(u, j) == MapThenSumSet(LAMBDA v : Signed(u, v, fs[v][j] * k[(u - v) % 2^logn]), DOMAIN f)
        changed(u) == Carried([j \in 1 .. count |-> F[u][sch + j] - kf(u, j)]).x
    IN  IF count <= 0 THEN F ELSE [u \in DOMAIN F |-> SubSeq(F[u], 1, sch) \o changed(u)]

\* With transforms; f is transformed for one prime more than it has limbs.
poly_sub_scaled_ntt(logn, F, fs, k, sc) ==
    LET product(u) ==
            LET P == SmallPrimes[u]
                kt == ToNtt(logn, [v \in DOMAIN k |-> mp_set(k[v], P)], P)
            IN  FromNtt(logn, [v \in DOMAIN k |-> Times(kt[v], fs[u][v], P)], P)
        fk == Rebuild([u \in DOMAIN fs |-> product(u)], TRUE)
    IN  [u \in DOMAIN F |-> zint_sub_scaled(F[u], fk[u], High(sc), Low(sc))]

\* At depth 1, where F has one or two limbs: modulo as many primes, and with
\* f = N(f0) made from the key's f0 again.
Depth1Residues(F, P) ==
    LET z == mp_half(P.R2, P)
        low(x) == IF x < P.p THEN x ELSE x - P.p
        signed(x) == mp_set(ToSigned(x, Limb), P)
    IN  [u \in DOMAIN F |->
            IF Len(F[u]) = 1 THEN signed(F[u][1])
            ELSE mp_add(low(F[u][1]), mp_montymul(signed(F[u][2]), z, P), P)]

\* N(f) = f_e^2 - X*f_o^2, over R; X is a root and its opposite in turn.
Norm(logn, f0, gm, P) ==
    LET even == mp_NTT(logn, [v \in Degree(logn) |-> mp_set(f0[2 * v], P)], gm, P)
        odd == mp_NTT(logn, [v \in Degree(logn) |-> mp_set(f0[2 * v + 1], P)], gm, P)
        root(v) == IF v % 2 = 0 THEN gm[(2^logn + v) \div 2] ELSE P.p - gm[(2^logn + v) \div 2]
        square(x) == mp_montymul(x, x, P)
    IN  [v \in Degree(logn) |->
            mp_sub(square(even[v]), mp_montymul(square(odd[v]), root(v), P), P)]

\* 2^sc: in words, and what is left.
Scaling(sc, P) ==
    FoldLeft(LAMBDA x, m : mp_montymul(x, P.R2, P), mp_montymul(2^(sc % FracBits), P.R2, P),
             UpTo(sc \div FracBits))
Unscaling(sc, P) ==
    FoldLeft(LAMBDA x, m : mp_montymul(x, 1, P), 2^((-sc) % FracBits), UpTo(sc \div FracBits))

\* [F |-> the residues of the result, k |-> as it is for the next prime].
Depth1Step(logn, Fu, k, sc, f0, P) ==
    LET gm == mp_mkgm(logn, P)
        R3 == mp_montymul(P.R2, P.R2, P)
        scaled == [v \in DOMAIN k |-> mp_montymul(Scaling(sc, P), mp_set(k[v], P), P)]
        kt == mp_NTT(logn, scaled, gm, P)
        Ft == mp_NTT(logn, Fu, gm, P)
        ft == Norm(logn, f0, gm, P)
        back == FromNtt(logn, kt, P)
    IN  [F |-> FromNtt(logn, [v \in DOMAIN k |->
                   mp_sub(Ft[v], mp_montymul(mp_montymul(ft[v], kt[v], P), R3, P), P)], P),
         k |-> [v \in DOMAIN k |-> mp_norm(mp_montymul(Unscaling(sc, P), back[v], P), P)]]

\* From the residues modulo two primes, around zero.
Depth1Rebuild(x0, x1) ==
    LET p0 == SmallPrimes[1].p
        P == SmallPrimes[2]
        y == mp_montymul(mp_sub(x1, IF x0 < P.p THEN x0 ELSE x0 - P.p, P), P.s, P)
        z == x0 + p0 * y
        pp == p0 * P.p
        centred == IF z > pp \div 2 THEN z - pp ELSE z
    IN  <<centred % Limb, (centred \div Limb) % Limb>>

poly_sub_kf_scaled_depth1(logn, F, k, sc, f0) ==
    LET P(u) == SmallPrimes[u]
        first == Depth1Step(logn, Depth1Residues(F, P(1)), k, sc, f0, P(1))
        second == Depth1Step(logn, Depth1Residues(F, P(2)), first.k, sc, f0, P(2))
    IN  [u \in DOMAIN F |->
            IF Len(F[u]) = 1 THEN <<mp_norm(first.F[u], P(1)) % Limb>>
            ELSE Depth1Rebuild(first.F[u], second.F[u])]
=============================================================================
