----------------------------- MODULE NtruNumbers -----------------------------
(***************************************************************************)
(* The numbers of solve_NTRU() and recover_G(), src/ng_ntru.c: from f and  *)
(* g they make F and G with f*G - g*F = 1, by going down to resultants and *)
(* up again.  NtruSolver has the same steps with what memory they use and  *)
(* without the numbers.  The prime of depth 0 is the first one.  The q of  *)
(* HAWK's profiles is 1.                                                   *)
(***************************************************************************)
EXTENDS NtruPoly

CONSTANTS
    Solvings,        \* keys and profiles: [key |-> [f, g], prof |-> what is used
                     \* of ntru_profile, [small, large, window, reduce, limit]]
    FirstNttDegree,  \* values of MIN_LOGN_FGNTT, a build's
    DownScale        \* 10

VARIABLES
    pc,
    key, prof, avx2, minLogn,
    depth,
    made,            \* f and g of depth 0, 1, ..., modulo primes and transformed
    F,               \* of the last level, or of this one
    fp,              \* the level's f: plain, transformed, and 1/f in fixed point
    scale_FG,
    err, G,
    exact            \* f and g of every depth and F, in integers: for the
                     \* properties only

vars == <<pc, key, prof, avx2, minLogn, depth, made, F, fp, scale_FG, err, G, exact>>

logn == LogTop - depth
slen == prof.small[depth + 1]
llen == prof.large[depth + 1]

NoF == [u \in {0} |-> <<0>>]
NoLevel == [plain |-> <<>>, ntt |-> <<>>, inv |-> <<>>]

-----------------------------------------------------------------------------
\* In integers.
PolyTimes(lg, a, b) ==
    [u \in Degree(lg) |->
        MapThenSumSet(LAMBDA v : Signed(u, v, a[v] * b[(u - v) % 2^lg]), Degree(lg))]
Spread(lg, a) == [u \in Degree(lg) |-> IF u % 2 = 0 THEN a[u \div 2] ELSE 0]
Opposite(a) == [u \in DOMAIN a |-> IF u % 2 = 0 THEN a[u] ELSE -a[u]]
Integers(x) == [u \in DOMAIN x |-> Integer(x[u])]

\* f of the next depth: f(X)*f(-X) is a polynomial in X^2.
HalfDegree(lg, f) ==
    LET ff == PolyTimes(lg, f, Opposite(f)) IN [u \in Degree(lg - 1) |-> ff[2 * u]]

-----------------------------------------------------------------------------
(***************************************************************************)
(* Going down.                                                             *)
(***************************************************************************)
make_fg_zero ==
    LET zero(f) == <<ToNtt(LogTop, poly_mp_set_small(f, SmallPrimes[1]), SmallPrimes[1])>>
    IN  [f |-> zero(key.f), g |-> zero(key.g)]

\* N(f) has half the degree: pairs of values, for more primes than before.
PairProducts(x, P) ==
    [v \in 0 .. Cardinality(DOMAIN x) \div 2 - 1 |-> Times(x[2 * v], x[2 * v + 1], P)]

make_fg_step(lg, xs, tlen) ==
    LET plain == Rebuild([u \in DOMAIN xs |-> FromNtt(lg, xs[u], SmallPrimes[u])], TRUE)
        value(u) == IF u \in DOMAIN xs THEN xs[u]
                    ELSE ToNtt(lg, Residues(plain, SmallPrimes[u]), SmallPrimes[u])
    IN  [u \in 1 .. tlen |-> PairProducts(value(u), SmallPrimes[u])]

Init ==
    /\ pc = "solve"
    /\ \E s \in Solvings : key = s.key /\ prof = s.prof
    /\ avx2 \in BOOLEAN /\ minLogn \in FirstNttDegree
    /\ depth = 0 /\ made = <<>>
    /\ F = NoF /\ fp = NoLevel /\ scale_FG = 0
    /\ err = "none" /\ G = <<>>
    /\ exact = [f |-> <<key.f>>, g |-> <<key.g>>, F |-> <<>>]

MakeZero ==
    /\ pc = "solve"
    /\ made' = <<make_fg_zero>>
    /\ pc' = "down"
    /\ UNCHANGED <<key, prof, avx2, minLogn, depth, F, fp, scale_FG, err, G, exact>>

MakeStep ==
    /\ pc = "down" /\ depth < LogTop
    /\ LET tlen == prof.small[depth + 2]
           level == made[depth + 1]
       IN  made' = Append(made, [f |-> make_fg_step(logn, level.f, tlen),
                                 g |-> make_fg_step(logn, level.g, tlen)])
    /\ exact' = [exact EXCEPT !.f = Append(@, HalfDegree(logn, Last(@))),
                              !.g = Append(@, HalfDegree(logn, Last(@)))]
    /\ depth' = depth + 1
    /\ UNCHANGED <<pc, key, prof, avx2, minLogn, F, fp, scale_FG, err, G>>

\* Whether f has an inverse modulo the prime; the resultants are odd and have
\* no common divisor.  Of the two numbers of Bezout's relation F is the second.
Resultant(level) == Rebuild(level, FALSE)[0]
Bezout == zint_bezout(Resultant(Last(made).f), Resultant(Last(made).g))
Invertible == \A u \in Degree(LogTop) : made[1].f[1][u] # 0

SolveDeepest ==
    /\ pc = "down" /\ depth = LogTop
    /\ \E b \in {Bezout} :
          IF Invertible /\ b.ok
          THEN /\ F' = [u \in {0} |-> b.v]
               /\ exact' = [exact EXCEPT !.F = [u \in {0} |-> Unsigned(b.v)]]
               /\ depth' = depth - 1
               /\ pc' = "lift" /\ err' = err
          ELSE pc' = "failed" /\ err' = "gcd" /\ UNCHANGED <<depth, F, exact>>
    /\ UNCHANGED <<key, prof, avx2, minLogn, made, fp, scale_FG, G>>

-----------------------------------------------------------------------------
(***************************************************************************)
(* Going up: solve_NTRU_intermediate.                                      *)
(***************************************************************************)
\* F(X^2)*g(-X), transformed: the values of g go in pairs to each other's place.
TimesConjugate(Ft, gt, P) ==
    [v \in DOMAIN gt |->
        mp_montymul(gt[IF v % 2 = 0 THEN v + 1 ELSE v - 1],
                    mp_montymul(Ft[v \div 2], P.R2, P), P)]

\* What the code's comments call unreduced.
Unreduced(g) ==
    LET gplain == Rebuild([u \in DOMAIN g |-> FromNtt(logn, g[u], SmallPrimes[u])], TRUE)
        modulo(u) ==
            LET P == SmallPrimes[u]
                gt == IF u <= slen THEN g[u] ELSE ToNtt(logn, Residues(gplain, P), P)
                Ft == mp_NTT(logn - 1, Residues(F, P), mp_mkgm(logn, P), P)
            IN  FromNtt(logn, TimesConjugate(Ft, gt, P), P)
    IN  Rebuild([u \in 1 .. llen |-> modulo(u)], TRUE)

UsesNtt == depth > 1 /\ logn >= minLogn

\* f in the forms that the reduction wants it in.
rlen == IF prof.window[depth + 1] > slen THEN slen ELSE prof.window[depth + 1]
scale_fg == LimbBits * (slen - rlen)
TopOf(f) == Limbs(f, slen - rlen + 1, slen)
scale_x(f) == poly_max_bitlength(TopOf(f))
scale_t(f) == Min({LimbBits \div 2 - logn, scale_x(f)})

Level(f) ==
    LET plain == Rebuild([u \in DOMAIN f |-> FromNtt(logn, f[u], SmallPrimes[u])], TRUE)
        fixed == poly_big_to_fixed(TopOf(plain), scale_x(plain) - scale_t(plain))
        transformed(u) == ToNtt(logn, Residues(plain, SmallPrimes[u]), SmallPrimes[u])
    IN  [plain |-> plain,
         ntt |-> IF UsesNtt THEN [u \in 1 .. slen + 1 |-> transformed(u)] ELSE <<>>,
         inv |-> vect_inv_mul2e_fft(vect_FFT(logn, fixed), scale_t(plain))]

Lift ==
    /\ pc = "lift" /\ depth > 0
    /\ F' = Unreduced(made[depth + 1].g)
    /\ fp' = Level(made[depth + 1].f)
    /\ scale_FG' = LimbBits * llen
    /\ exact' = [exact EXCEPT
                    !.F = PolyTimes(logn, Spread(logn, @), Opposite(exact.g[depth + 1]))]
    /\ pc' = "reduce"
    /\ UNCHANGED <<key, prof, avx2, minLogn, depth, made, err, G>>

\* k = F/f, of which F is reduced by 2^(scale_FG - scale_fg) times k*f.
FGlen == Len(F[0])

Quotient ==
    LET tlen == scale_FG \div LimbBits
        top == Limbs(F, tlen + 1, FGlen)
        fixed == poly_big_to_fixed(top, scale_x(fp.plain) + (scale_FG % LimbBits))
        k == vect_iFFT(logn, vect_mul_fft(vect_FFT(logn, fixed), fp.inv))
    IN  [u \in DOMAIN k |-> fxr_round(k[u])]

Subtracted(k) ==
    LET sc == scale_FG - scale_fg
    IN  IF depth = 1 THEN poly_sub_kf_scaled_depth1(logn, F, k, sc, key.f)
        ELSE IF UsesNtt THEN poly_sub_scaled_ntt(logn, F, fp.ntt, k, sc)
        ELSE poly_sub_scaled(logn, F, fp.plain, k, sc)

NextScale == IF scale_FG <= scale_fg + prof.reduce THEN scale_fg ELSE scale_FG - prof.reduce

\* How long F is for a scale; the limbs that go must say no more than a sign.
LengthFor(scale) ==
    Max({slen} \cup {len \in slen .. FGlen :
                        LimbBits * (len - slen) <= scale - scale_fg + LimbBits - 1})
Redundant(x, len) ==
    \A u \in DOMAIN x : \A j \in len .. FGlen - 1 : x[u][j + 1] = SignWord(SubSeq(x[u], 1, j))

\* In integers, as far as the limbs go.
ExactAfter(k) ==
    LET sc == scale_FG - scale_fg
        room == LimbBits * FGlen - sc
        kf == PolyTimes(logn, k, exact.f[depth + 1])
        change(u) == IF room <= 0 THEN 0 ELSE (kf[u] % 2^room) * 2^sc
    IN  [u \in DOMAIN F |-> ToSigned(exact.F[u] - change(u), Limb^FGlen)]

Reduce ==
    /\ pc = "reduce"
    /\ \E k \in {Quotient} : \E x \in {Subtracted(k)} :
          LET last == scale_FG <= scale_fg
              len == IF last THEN FGlen ELSE LengthFor(NextScale)
          IN  IF Redundant(x, len)
              THEN /\ F' = Limbs(x, 1, len)
                   /\ exact' = [exact EXCEPT !.F = ExactAfter(k)]
                   /\ scale_FG' = (IF last THEN scale_FG ELSE NextScale)
                   /\ depth' = (IF last THEN depth - 1 ELSE depth)
                   /\ pc' = (IF last THEN "lift" ELSE pc)
                   /\ fp' = (IF last THEN NoLevel ELSE fp)
                   /\ err' = err
              ELSE /\ pc' = "failed" /\ err' = "reduce"
                   /\ UNCHANGED <<F, exact, scale_FG, depth, fp>>
    /\ UNCHANGED <<key, prof, avx2, minLogn, made, G>>

-----------------------------------------------------------------------------
(***************************************************************************)
(* The top: solve_NTRU_depth0, and what solve_NTRU does with its results.  *)
(* All is modulo one prime, and transformed.                               *)
(***************************************************************************)
P0 == SmallPrimes[1]
Mul0(a, b) == [u \in DOMAIN a |-> Times(a[u], b[u], P0)]
Add0(a, b) == [u \in DOMAIN a |-> mp_add(a[u], b[u], P0)]
Sub0(a, b) == [u \in DOMAIN a |-> mp_sub(a[u], b[u], P0)]
Adjoint0(a) == [u \in DOMAIN a |-> a[2^LogTop - 1 - u]]
Small0(f) == ToNtt(LogTop, poly_mp_set_small(f, P0), P0)

\* (1 + g*F)/f.
GOf(Ft, ft, gt) ==
    [u \in DOMAIN Ft |-> mp_div(mp_add(1, Times(gt[u], Ft[u], P0), P0), ft[u], P0)]

\* Around zero; AVX2 has a limit one higher.
Norm0(a) ==
    LET half == IF avx2 THEN (P0.p + 1) \div 2 ELSE P0.p \div 2
    IN  [u \in DOMAIN a |-> IF a[u] > half THEN a[u] - P0.p ELSE a[u]]

Fixed0(a) == [u \in DOMAIN a |-> fxr(Norm0(a)[u] * 2^(FracBits - DownScale))]

\* (F*adj(f) + G*adj(g))/(f*adj(f) + g*adj(g)), rounded.
Quotient0(Ft, Gt, ft, gt) ==
    LET num == Add0(Mul0(Ft, Adjoint0(ft)), Mul0(Gt, Adjoint0(gt)))
        den == Add0(Mul0(ft, Adjoint0(ft)), Mul0(gt, Adjoint0(gt)))
        fixed(a) == vect_FFT(LogTop, Fixed0(FromNtt(LogTop, a, P0)))
        k == vect_iFFT(LogTop, vect_div_autoadj_fft(fixed(num), fixed(den)))
    IN  [u \in DOMAIN k |-> fxr_round(k[u])]

SolveTop ==
    /\ pc = "lift" /\ depth = 0
    /\ \E ft \in {Small0(key.f)}, gt \in {Small0(key.g)},
          Fd \in {mp_NTT(LogTop - 1, poly_mp_set(F, P0), mp_mkgm(LogTop, P0), P0)} :
       \E Ft \in {TimesConjugate(Fd, gt, P0)} :
          IF \E u \in DOMAIN ft : ft[u] = 0
          THEN pc' = "failed" /\ err' = "reduce" /\ UNCHANGED <<F, G>>
          ELSE \E k \in {Quotient0(Ft, GOf(Ft, ft, gt), ft, gt)} :
               \E Fr \in {Sub0(Ft, Mul0(ft, ToNtt(LogTop, [u \in DOMAIN k |-> mp_set(k[u], P0)], P0)))} :
                  LET plain(a) == poly_mp_norm(FromNtt(LogTop, a, P0), P0)
                      outF == poly_big_to_small(plain(Fr), prof.limit)
                      outG == poly_big_to_small(plain(GOf(Fr, ft, gt)), prof.limit)
                  IN  IF outF.ok /\ outG.ok
                      THEN /\ F' = outF.d /\ G' = outG.d
                           /\ pc' = "solved" /\ err' = "ok"
                      ELSE /\ pc' = "failed" /\ err' = "limit" /\ UNCHANGED <<F, G>>
    /\ UNCHANGED <<key, prof, avx2, minLogn, depth, made, fp, scale_FG, exact>>

\* recover_G: from a key of which only F was kept.
RecoverG ==
    /\ pc = "solved"
    /\ \E ft \in {Small0(key.f)} :
       \E x \in {FromNtt(LogTop, GOf(Small0(F), ft, Small0(key.g)), P0)} :
          LET within(u) == mp_add(x[u], prof.limit, P0) <= 2 * prof.limit
          IN  /\ G' = [u \in DOMAIN x |-> IF within(u) THEN mp_norm(x[u], P0) ELSE 0]
              /\ pc' = IF \A u \in Degree(LogTop) : ft[u] # 0 /\ within(u)
                       THEN "recovered" ELSE "failed"
    /\ UNCHANGED <<key, prof, avx2, minLogn, depth, made, F, fp, scale_FG, err, exact>>

Next == MakeZero \/ MakeStep \/ SolveDeepest \/ Lift \/ Reduce \/ SolveTop \/ RecoverG

-----------------------------------------------------------------------------
(***************************************************************************)
(* Properties.                                                             *)
(***************************************************************************)
One == [u \in Degree(LogTop) |-> IF u = 0 THEN 1 ELSE 0]
PolyMinus(a, b) == [u \in DOMAIN a |-> a[u] - b[u]]

\* Two numbers that are odd and have no common divisor; and 1/f is needed.
Solvable(x, y) ==
    x % 2 = 1 /\ y % 2 = 1 /\ x % P0.p # 0 /\ ~ \E d \in 2 .. y : x % d = 0 /\ y % d = 0

\* A key has an F for its resultants if they allow it, and the F is of Bezout's
\* relation; a solving that ended well is not one that failed.
FirstExact ==
    LET deepest == pc = "lift" /\ depth = LogTop - 1
    IN  /\ deepest \/ err = "gcd" =>
               \E x \in {Last(exact.f)[0]}, y \in {Last(exact.g)[0]} :
                  /\ deepest <=> Solvable(x, y)
                  /\ deepest => /\ exact.F[0] \in 0 .. x
                                /\ (1 + y * exact.F[0]) % x = 0
        /\ pc = "failed" => err # "ok"

\* The limbs of F are its value, however it was computed.
LevelsExact == pc \in {"lift", "reduce"} => Integers(F) = exact.F

\* The end is a solution.
EndExact ==
    pc \in {"solved", "recovered"} =>
        PolyMinus(PolyTimes(LogTop, key.f, G), PolyTimes(LogTop, key.g, F)) = One

\* Where quotients are taken of whole numbers, and a few bits at a time, they
\* are good enough for every key to be solved that can be.
Careful == prof.reduce <= 3 /\ \A d \in 2 .. LogTop : prof.window[d] >= prof.small[d]
CarefulSolves == Careful /\ pc = "failed" => err = "gcd"

\* src/ng_ntru.c: what the solver does modulo primes, in limbs and in fixed
\* point gives integers with f*G - g*F = 1, or the reason why there are none.
NtruExact == FirstExact /\ LevelsExact /\ EndExact /\ CarefulSolves
=============================================================================
