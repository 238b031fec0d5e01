----------------------------- MODULE FixedPoint -----------------------------
(***************************************************************************)
(* The fixed-point numbers of src/ng_inner.h, and their Fourier transforms *)
(* of src/ng_fxp.c.  A number has 64 bits, of which 32 are fractional: it  *)
(* is here a signed integer of two words.  A transform of degree n is n/2  *)
(* complex numbers.                                                        *)
(***************************************************************************)
EXTENDS ZInt31

CONSTANT FixRoots      \* GM_TAB, as far as it is used: [re, im]

FracBits == LimbBits + 1
fxr(x) == ToSigned(x, Long)

fxr_of_words(high, low) == fxr(high * Word + low)
fxr_add(x, y) == fxr(x + y)
fxr_sub(x, y) == fxr(x - y)
fxr_mul2e(x, e) == fxr(x * 2^e)
fxr_div2e(x, e) == fxr(x + 2^e \div 2) \div 2^e
fxr_round(x) == fxr(x + Limb) \div Word

\* By halves: the low product is truncated, and nothing else.
fxr_mul(x, y) ==
    LET xh == x \div Word  xl == x % Word
        yh == y \div Word  yl == y % Word
    IN  fxr((xl * yl) \div Word + xl * yh + yl * xh + Word * (xh * yh))

\* Bit by bit, of magnitudes; a difference is negative if its top bit is set.
inner_fxr_div(x, y) ==
    LET ux == IF x < 0 THEN -x ELSE x
        uy == IF y < 0 THEN -y ELSE y
        fits(num) == IF (num - uy) % Long < Long \div 2 THEN 1 ELSE 0
        step(st, j) ==
            LET i == 2 * FracBits - 1 - j
                b == fits(st.num)
                next == IF i > FracBits THEN Bit(ux, i - FracBits - 1) ELSE 0
            IN  [q |-> st.q + b * 2^i, num |-> (2 * (st.num - b * uy) + next) % Long]
        end == FoldLeft(step, [q |-> 0, num |-> ux \div Limb], UpTo(2 * FracBits))
        q == end.q + fits(end.num)
    IN  fxr(IF (x < 0) = (y < 0) THEN q ELSE -q)

fxc_add(x, y) == [re |-> fxr_add(x.re, y.re), im |-> fxr_add(x.im, y.im)]
fxc_sub(x, y) == [re |-> fxr_sub(x.re, y.re), im |-> fxr_sub(x.im, y.im)]
fxc_half(x) == [re |-> fxr_div2e(x.re, 1), im |-> fxr_div2e(x.im, 1)]
fxc_conj(x) == [re |-> x.re, im |-> fxr_sub(0, x.im)]

\* With three products, of which the last is of sums.
fxc_mul(x, y) ==
    LET z0 == fxr_mul(x.re, y.re)
        z1 == fxr_mul(x.im, y.im)
        z2 == fxr_mul(fxr_add(x.re, x.im), fxr_add(y.re, y.im))
    IN  [re |-> fxr_sub(z0, z1), im |-> fxr_sub(z2, fxr_add(z0, z1))]

-----------------------------------------------------------------------------
(***************************************************************************)
(* Vectors of degree 2^logn.                                               *)
(***************************************************************************)
Halves(logn, f) ==
    LET hn == 2^(logn - 1) IN [j \in 0 .. hn - 1 |-> [re |-> f[j], im |-> f[j + hn]]]

vect_FFT(logn, f) ==
    LET layer(c, lm) ==
            LET t == 2^(logn - lm)
                ht == t \div 2
                turned(j) == fxc_mul(FixRoots[2^lm + j \div t], c[j])
            IN  [j \in DOMAIN c |-> IF j % t < ht THEN fxc_add(c[j], turned(j + ht))
                                    ELSE fxc_sub(c[j - ht], turned(j))]
    IN  FoldLeft(layer, Halves(logn, f), Tail(UpTo(logn)))

vect_iFFT(logn, a) ==
    LET layer(c, lm) ==
            LET t == 2^(logn - lm)
                ht == t \div 2
                root(j) == fxc_conj(FixRoots[2^lm + j \div t])
            IN  [j \in DOMAIN c |->
                    IF j % t < ht THEN fxc_half(fxc_add(c[j], c[j + ht]))
                    ELSE fxc_mul(root(j), fxc_half(fxc_sub(c[j - ht], c[j])))]
        end == FoldLeft(layer, a, Reverse(Tail(UpTo(logn))))
        hn == 2^(logn - 1)
    IN  [u \in 0 .. 2 * hn - 1 |-> IF u < hn THEN end[u].re ELSE end[u - hn].im]

vect_mul_fft(a, b) == [u \in DOMAIN a |-> fxc_mul(a[u], b[u])]

\* By what has no imaginary parts.
vect_div_autoadj_fft(a, b) ==
    [u \in DOMAIN a |-> [re |-> inner_fxr_div(a[u].re, b[u].re),
                         im |-> inner_fxr_div(a[u].im, b[u].re)]]

\* 2^e/a.
vect_inv_mul2e_fft(a, e) ==
    [u \in DOMAIN a |->
        LET c == fxc_conj(a[u])
            z == fxr_add(fxr_mul(c.re, c.re), fxr_mul(c.im, c.im))
        IN  [re |-> inner_fxr_div(fxr_mul2e(c.re, e), z),
             im |-> inner_fxr_div(fxr_mul2e(c.im, e), z)]]
=============================================================================
