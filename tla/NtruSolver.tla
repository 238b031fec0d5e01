----------------------------- MODULE NtruSolver -----------------------------
(***************************************************************************)
(* solve_NTRU() of src/ng_ntru.c, with make_q001() of src/ng_hawk.c, which *)
(* goes on in the same work area.  The solver goes down log n levels, at   *)
(* each of which f and g have half the degree and longer coefficients,     *)
(* solves the equation for two integers, and comes up again with an F that *)
(* it lifts and reduces at each level by the f and g of that level; these  *)
(* were saved on the way down at the end of the area, or are made again.   *)
(* Everything is at offsets that follow from tables of the lengths that    *)
(* numbers may have (ntru_profile), here those of HAWK.                    *)
(*                                                                         *)
(* Memory is a set of extents of 32-bit words, none over another.  What is *)
(* in one is a polynomial, a term, in one of the forms it takes.  Reading  *)
(* anything but a whole extent gives nothing.                              *)
(***************************************************************************)
EXTENDS Integers, Sequences, FiniteSetsExt

CONSTANT Degrees     \* log n of the keys that are made, of 8 .. 10

VARIABLES
    pc,
    logn, depth,
    level,           \* the level for which f and g have been made, so far
    mem,
    FGlen, scale     \* of the F that is being reduced: words, scale_FG in bits

vars == <<pc, logn, depth, level, mem, FGlen, scale>>

-----------------------------------------------------------------------------
(***************************************************************************)
(* The profiles.                                                           *)
(***************************************************************************)
Hawk256 == [
    small |-> <<1, 1, 1, 2, 3, 5, 9, 17, 34>>,
    large |-> <<1, 1, 2, 4, 7, 13, 26, 50>>,
    window |-> <<1, 1, 1, 2, 3, 3, 3, 4>>,
    reduce |-> 14, save |-> 2]

Hawk512 == [
    small |-> <<1, 1, 1, 2, 3, 6, 11, 21, 41, 82>>,
    large |-> <<1, 2, 3, 5, 8, 16, 31, 61, 121>>,
    window |-> <<1, 1, 1, 2, 2, 3, 3, 4, 6>>,
    reduce |-> 11, save |-> 2]

Hawk1024 == [
    small |-> <<1, 1, 2, 2, 4, 7, 13, 25, 48, 96, 191>>,
    large |-> <<1, 2, 3, 5, 10, 19, 37, 72, 143, 284>>,
    window |-> <<1, 1, 2, 2, 3, 3, 3, 4, 4, 7>>,
    reduce |-> 9, save |-> 3]

Profile == CASE logn = 8 -> Hawk256 [] logn = 9 -> Hawk512 [] OTHER -> Hawk1024

\* 1 << k.
Power(k) ==
    LET power[j \in 0 .. k] == IF j = 0 THEN 1 ELSE 2 * power[j - 1]
    IN  power[k]

N0 == Power(logn)
Degree(d) == Power(logn - d)
Small(d) == Profile.small[d + 1]        \* max_bl_small[d], and so on
Large(d) == Profile.large[d + 1]
Window(d) == Profile.window[d + 1]
Saved(d) == d < logn /\ d >= Profile.save

\* The words of f, and of g, of a level.
Length(d) == Small(d) * Degree(d)

\* What the caller has checked that tmp_len is not below.
Area == 5 * N0

\* FG_SAVE_OFFSET, and where the f and g of a level are saved below it.
SaveOffset == 5 * N0
SavedAt[d \in 0 .. logn - 1] ==
    IF d < Profile.save THEN SaveOffset ELSE SavedAt[d - 1] - 2 * Length(d)

-----------------------------------------------------------------------------
(***************************************************************************)
(* Terms; None is what comes of reading where the polynomial is not.       *)
(***************************************************************************)
None == <<>>
Known(xs) == \A k \in DOMAIN xs : xs[k] # None
Term(op, xs) == IF Known(xs) THEN <<op, xs>> ELSE None

f(d) == <<"f", d>>
g(d) == <<"g", d>>
HalfDegree(x) == IF x = None THEN None ELSE <<x[1], x[2] + 1>>    \* its norm

Bezout(x, y) == Term("bezout", <<x, y>>)
Lift(F, y) == Term("lift", <<F, y>>)                            \* F(X^2)*g'/g
Reciprocal(x) == Term("reciprocal", <<x>>)
Subtract(F, k, x) ==                                            \* F mod f
    IF k # Reciprocal(x) \/ k = None THEN None
    ELSE IF F # None /\ F[1] = "reduced" THEN (IF F[2][2] = x THEN F ELSE None)
    ELSE Term("reduced", <<F, x>>)
SolveForG(F, x, y) == Term("solve", <<F, x, y>>)                \* (1 + g*F)/f
Product(x, y, z, t) == Term("product", <<x, y, z, t>>)          \* x*adj(y) + z*adj(t)
Quotient(num, den) == Term("quotient", <<num, den>>)            \* rounded
Minus(F, k, x) == Term("minus", <<F, k, x>>)                    \* F - k*f

\* What is to be computed.
TheF[d \in 1 .. logn] ==
    IF d = logn THEN Bezout(f(d), g(d))
    ELSE Subtract(Lift(TheF[d + 1], g(d)), Reciprocal(f(d)), f(d))

Unreduced(d) == Lift(TheF[d + 1], g(d))
TopK == Quotient(Product(Unreduced(0), f(0), SolveForG(Unreduced(0), f(0), g(0)), g(0)),
                 Product(f(0), f(0), g(0), g(0)))
TopF == Minus(Unreduced(0), TopK, f(0))
TopG == SolveForG(TopF, f(0), g(0))

Q(F, G) == [q00 |-> Product(f(0), f(0), g(0), g(0)), q01 |-> Product(F, f(0), G, g(0)),
            q11 |-> Product(F, F, G, G)]

-----------------------------------------------------------------------------
(***************************************************************************)
(* Memory.                                                                 *)
(***************************************************************************)
Unset == [form |-> "junk", of |-> None]
Words(x) == [form |-> "int", of |-> x]       \* as integers, in words
NTT(x) == [form |-> "ntt", of |-> x]       \* modulo a prime for each word
FFT(x) == [form |-> "fft", of |-> x]       \* in fixed point, two words each
Bytes(x) == [form |-> "bytes", of |-> x]

At(at, len, what) == [at |-> at, len |-> len, is |-> what]
Apart(e, w) == e.at + e.len <= w.at \/ w.at + w.len <= e.at

\* Writes, one after the other: each goes over what was there, those before it
\* included.  A write that leaves the area is the end of everything in it.
Outlasts(e, writes, k) == \A j \in k .. Len(writes) : Apart(e, writes[j])
Lasting(m, writes) ==
    {e \in m : Outlasts(e, writes, 1)}
    \cup {writes[k] : k \in {j \in DOMAIN writes : Outlasts(writes[j], writes, j + 1)}}
Puts(m, writes) ==
    IF \E k \in DOMAIN writes : writes[k].at + writes[k].len > Area THEN {}
    ELSE Lasting(m, writes)

Put(m, at, len, what) == Puts(m, <<At(at, len, what)>>)

Read(m, at, len, form) ==
    LET found == {e \in m : e.at = at /\ e.len = len /\ e.is.form = form}
    IN  IF found = {} THEN None ELSE (CHOOSE e \in found : TRUE).is.of

\* memmove of f and g, one after the other.
MovePair(m, to, from, len) ==
    LET x == Read(m, from, len, "ntt")
        y == Read(m, from + len, len, "ntt")
    IN  Puts(m, <<At(to, 2 * len, Unset), At(to, len, NTT(x)), At(to + len, len, NTT(y))>>)

-----------------------------------------------------------------------------
(***************************************************************************)
(* f and g of a level: at the start of the area on the way down, and then  *)
(* behind the F of the level below.                                        *)
(***************************************************************************)
Down == depth = logn
Base == IF Down THEN 0 ELSE Length(depth + 1)

Start(k) ==
    /\ pc = "rest"
    /\ pc' = "zero" /\ logn' = k /\ depth' = k /\ level' = 0
    /\ mem' = {}
    /\ UNCHANGED <<FGlen, scale>>

\* make_fg_zero
MakeZero ==
    /\ pc = "zero"
    /\ mem' = Puts(mem, <<At(Base, N0, NTT(f(0))), At(Base + N0, N0, NTT(g(0))),
                          At(Base + 2 * N0, N0, Unset)>>)
    /\ level' = 0 /\ pc' = "step"
    /\ UNCHANGED <<logn, depth, FGlen, scale>>

\* make_fg_step: fd, gd, fs, gs, t1, and t2 only if there are further words.
MakeStep ==
    LET n == Degree(level)
        fd == Base
        gd == fd + Length(level + 1)
        fs == gd + Length(level + 1)
        gs == fs + Length(level)
        t1 == gs + Length(level)
        moved == MovePair(mem, fs, Base, Length(level))
        x == Read(moved, fs, Length(level), "ntt")
        y == Read(moved, gs, Length(level), "ntt")
        more == IF Small(level) < Small(level + 1) THEN n ELSE 0
        made == Puts(moved, <<At(t1, Max({n, Small(level)}), Unset),
                              At(t1 + n, more, Unset),
                              At(fs, Length(level), Words(x)), At(gs, Length(level), Words(y)),
                              At(fd, Length(level + 1), NTT(HalfDegree(x))),
                              At(gd, Length(level + 1), NTT(HalfDegree(y)))>>)
    IN  /\ pc = "step" /\ level < depth
        /\ level' = level + 1
        /\ mem' = IF Down /\ Saved(level')
                  THEN MovePair(made, SavedAt[level'], 0, Length(level')) ELSE made
        /\ UNCHANGED <<pc, logn, depth, FGlen, scale>>

FGMade ==
    /\ pc = "step" /\ level = depth
    /\ pc' = IF Down THEN "deepest" ELSE "move"
    /\ UNCHANGED <<logn, depth, level, mem, FGlen, scale>>

-----------------------------------------------------------------------------
\* solve_NTRU_deepest: Fp, Gp, fp, gp, and four numbers of zint_bezout.
Deepest ==
    LET len == Small(logn)
        moved == MovePair(mem, 2 * len, 0, len)
        x == Read(moved, 2 * len, len, "ntt")
        y == Read(moved, 3 * len, len, "ntt")
    IN  /\ pc = "deepest"
        /\ mem' = Puts(moved, <<At(2 * len, len, Words(x)), At(3 * len, len, Words(y)),
                                At(4 * len, 4 * len, Unset),
                                At(len, len, Unset), At(0, len, Words(Bezout(x, y)))>>)
        /\ depth' = logn - 1 /\ pc' = "fetch"
        /\ UNCHANGED <<logn, level, FGlen, scale>>

-----------------------------------------------------------------------------
(***************************************************************************)
(* solve_NTRU_intermediate.                                                *)
(***************************************************************************)
n == Degree(depth)
slen == Small(depth)
llen == Large(depth)
dlen == Small(depth + 1)
Ft == 0
ft == llen * n
gt == ft + slen * n
Fd == gt + slen * n

Fetch ==
    /\ pc = "fetch" /\ depth > 0
    /\ IF Saved(depth)
       THEN pc' = "move" /\ mem' = MovePair(mem, Base, SavedAt[depth], Length(depth))
       ELSE pc' = "zero" /\ mem' = mem
    /\ UNCHANGED <<logn, depth, level, FGlen, scale>>

\* f and g first, as F is still where they do not go.
Move ==
    LET m == MovePair(mem, ft, Base, Length(depth))
        F == Read(m, 0, Length(depth + 1), "int")
    IN  /\ pc = "move"
        /\ mem' = Put(m, Fd, Length(depth + 1), Words(F))
        /\ pc' = "lift"
        /\ UNCHANGED <<logn, depth, level, FGlen, scale>>

\* F, unreduced, modulo llen primes, and then its words; so are f and g, unless
\* slen primes are all of them, in which case g is not needed any more.
LiftF ==
    LET F == Read(mem, Fd, Length(depth + 1), "int")
        x == Read(mem, ft, slen * n, "ntt")
        y == Read(mem, gt, slen * n, "ntt")
        gm == Fd
    IN  /\ pc = "lift"
        /\ mem' = Puts(mem, <<At(gm, Max({3 * n, slen}), Unset),
                              At(ft, slen * n, Words(x)),
                              At(gt, Max({llen, slen}), Unset),
                              At(Ft, llen * n, Words(Lift(F, y)))>>)
        /\ pc' = "scale"
        /\ UNCHANGED <<logn, depth, level, FGlen, scale>>

\* The products with f are made by NTT, for which f gets a word more.
UseNTT == depth > 1 /\ logn - depth >= 4
rt3 == gt + IF UseNTT THEN n ELSE 0
rt1 == rt3 + 2 * n
t2 == rt1 + n
blen == slen - Min({Window(depth), slen})
scale_fg == 31 * blen

\* 1/f in fixed point, from its top words.
Scale ==
    LET x == Read(mem, ft, slen * n, "int")
        inverse == Put(mem, rt3, 2 * n, FFT(Reciprocal(x)))
    IN  /\ pc = "scale"
        /\ mem' = IF UseNTT
                  THEN Puts(inverse, <<At(t2, (slen + 2) * n, Unset),
                                       At(ft, (slen + 1) * n, NTT(x))>>)
                  ELSE inverse
        /\ FGlen' = llen /\ scale' = 31 * llen
        /\ pc' = "reduce"
        /\ UNCHANGED <<logn, depth, level>>

\* What of t2 is written by the three ways to subtract k*f.
SubtractRoom ==
    CASE depth = 1 -> 3 * n
      [] UseNTT -> (2 + slen + 1) * n + Max({n, slen + 1})
      [] OTHER -> 0

\* k is made of words of F from tlen on, of which there is none the first time.
\* At depth 1 F has one or two words, and with two k is taken back from the
\* first prime to the second, which is right unless its scale is a multiple of 32.
EnoughWords ==
    /\ scale \div 31 <= FGlen
    /\ depth = 1 => FGlen \in {1, 2}
    /\ depth = 1 /\ FGlen = 2 => (scale - scale_fg) % 32 # 0

Subtracted ==
    LET F == Read(mem, Ft, FGlen * n, "int")
        x == IF depth = 1 THEN HalfDegree(f(0))
             ELSE IF UseNTT THEN Read(mem, ft, (slen + 1) * n, "ntt")
             ELSE Read(mem, ft, slen * n, "int")
        k == Read(mem, rt3, 2 * n, "fft")
    IN  IF EnoughWords THEN Subtract(F, k, x) ELSE None

\* A turn, and how many words F has after it.
NextScale ==
    IF scale <= scale_fg + Profile.reduce THEN scale_fg ELSE scale - Profile.reduce

\* The words above are dropped one by one.
NextLen(s) == Min({FGlen, slen + (s - scale_fg + 30) \div 31})

Reduce ==
    LET m == Puts(mem, <<At(rt1, 2 * n, Unset), At(t2, SubtractRoom, Unset)>>)
    IN  /\ pc = "reduce"
        /\ IF scale <= scale_fg
           THEN /\ pc' = "fetch" /\ depth' = depth - 1
                /\ UNCHANGED <<FGlen, scale>>
           ELSE /\ scale' = NextScale /\ FGlen' = NextLen(scale')
                /\ UNCHANGED <<pc, depth>>
        /\ mem' = Put(m, Ft, FGlen' * n, Words(Subtracted))
        /\ UNCHANGED <<logn, level>>

-----------------------------------------------------------------------------
(***************************************************************************)
(* solve_NTRU_depth0: five polynomials of n words.                         *)
(***************************************************************************)
T(k) == (k - 1) * N0

TopLift ==
    LET F == Read(mem, T(1), N0 \div 2, "int")
        m == Puts(mem, <<At(T(4), N0, Unset), At(T(1), N0 \div 2, NTT(F)),
                         At(T(3), N0 \div 2, NTT(F)), At(T(2), N0, NTT(g(0)))>>)
        unreduced == Lift(Read(m, T(3), N0 \div 2, "ntt"), Read(m, T(2), N0, "ntt"))
    IN  /\ pc = "fetch" /\ depth = 0
        /\ mem' = Puts(m, <<At(T(1), N0, NTT(unreduced)), At(T(3), N0, NTT(f(0)))>>)
        /\ pc' = "quotient"
        /\ UNCHANGED <<logn, depth, level, FGlen, scale>>

\* Numerator and denominator go over g and f, the denominator is moved out of
\* the way of the numerator's second half, and the quotient goes over it.
TopQuotient ==
    LET F == Read(mem, T(1), N0, "ntt")
        y == Read(mem, T(2), N0, "ntt")
        x == Read(mem, T(3), N0, "ntt")
        num == Product(F, x, SolveForG(F, x, y), y)
        m1 == Puts(mem, <<At(T(2), N0, Words(num)), At(T(3), N0, Words(Product(x, x, y, y))),
                          At(T(4), N0, Unset)>>)
        m2 == Put(m1, T(4), 2 * N0, FFT(Read(m1, T(3), N0, "int")))
        m3 == Put(m2, T(5), N0, FFT(Read(m2, T(4), 2 * N0, "fft")))
        m4 == Put(m3, T(3), 2 * N0, FFT(Read(m3, T(2), N0, "int")))
    IN  /\ pc = "quotient"
        /\ mem' = Put(m4, T(2), N0, Words(Quotient(Read(m4, T(3), 2 * N0, "fft"),
                                                Read(m4, T(5), N0, "fft"))))
        /\ pc' = "subtract"
        /\ UNCHANGED <<logn, depth, level, FGlen, scale>>

TopSubtract ==
    LET m == Puts(mem, <<At(T(5), N0, Unset), At(T(3), N0, NTT(f(0))), At(T(4), N0, NTT(g(0)))>>)
        x == Read(m, T(3), N0, "ntt")
        F == Minus(Read(m, T(1), N0, "ntt"), Read(m, T(2), N0, "int"), x)
        G == SolveForG(F, x, Read(m, T(4), N0, "ntt"))
    IN  /\ pc = "subtract"
        /\ mem' = Puts(m, <<At(T(3), N0, Unset), At(T(1), N0, Words(F)), At(T(2), N0, Words(G))>>)
        /\ pc' = "bytes"
        /\ UNCHANGED <<logn, depth, level, FGlen, scale>>

\* F and G, a byte each, go behind their words and then to the start.
ToBytes ==
    LET B == N0 \div 4
        F == Read(mem, T(1), N0, "int")
        G == Read(mem, T(2), N0, "int")
        m == Puts(mem, <<At(T(3), B, Bytes(F)), At(T(3) + B, B, Bytes(G))>>)
    IN  /\ pc = "bytes"
        /\ mem' = Puts(m, <<At(0, B, Bytes(Read(m, T(3), B, "bytes"))),
                            At(B, B, Bytes(Read(m, T(3) + B, B, "bytes")))>>)
        /\ pc' = "form"
        /\ UNCHANGED <<logn, depth, level, FGlen, scale>>

-----------------------------------------------------------------------------
\* make_q001, behind F and G: the area is used to its end.
U(k) == N0 \div 2 + (k - 1) * N0

MakeForm ==
    LET B == N0 \div 4
        F == Read(mem, 0, B, "bytes")
        G == Read(mem, B, B, "bytes")
        m1 == Puts(mem, <<At(U(1), N0, Unset), At(U(2), N0, NTT(f(0))), At(U(3), N0, NTT(g(0))),
                          At(U(4), N0, NTT(F))>>)
        x == Read(m1, U(2), N0, "ntt")
        y == Read(m1, U(3), N0, "ntt")
        m2 == Puts(m1, <<At(U(5), 2 * B, NTT(Product(x, x, y, y))),
                         At(U(2), N0, NTT(Product(Read(m1, U(4), N0, "ntt"), x, G, y))),
                         At(U(4), N0, NTT(G)), At(U(3), N0, NTT(F))>>)
        q11 == Product(Read(m2, U(3), N0, "ntt"), F, Read(m2, U(4), N0, "ntt"), G)
        m3 == Puts(m2, <<At(U(3), N0, Words(q11)), At(U(1), N0, Unset),
                         At(U(4), N0, Words(Read(m2, U(5), 2 * B, "ntt"))),
                         At(U(2), N0, Words(Read(m2, U(2), N0, "ntt")))>>)
    IN  /\ pc = "form"
        /\ mem' = Puts(m3, <<At(U(1), 2 * B, Words(Read(m3, U(4), N0, "int"))),
                             At(U(1) + 2 * B, 2 * B, Words(Read(m3, U(2), N0, "int"))),
                             At(U(2), N0, Words(Read(m3, U(3), N0, "int")))>>)
        /\ pc' = "formed"
        /\ UNCHANGED <<logn, depth, level, FGlen, scale>>

-----------------------------------------------------------------------------
\* f has no inverse or the resultants have a common divisor; a word that is
\* dropped is not redundant; f has no inverse; a coefficient is off its limit.
Fail ==
    /\ \/ pc \in {"deepest", "bytes"} \/ (pc = "fetch" /\ depth = 0)
       \/ pc = "reduce" /\ scale > scale_fg /\ NextLen(NextScale) < FGlen
    /\ pc' = "failed"
    /\ UNCHANGED <<logn, depth, level, mem, FGlen, scale>>

Step ==
    \/ MakeZero \/ MakeStep \/ FGMade \/ Deepest
    \/ Fetch \/ Move \/ LiftF \/ Scale \/ Reduce
    \/ TopLift \/ TopQuotient \/ TopSubtract \/ ToBytes \/ MakeForm
    \/ Fail

\* F and G are at the start of the area, made of the f and g of each level, and
\* the public form of them and f and g is behind them.
Solved ==
    LET B == N0 \div 4
    IN  /\ Read(mem, 0, B, "bytes") = TopF /\ Read(mem, B, B, "bytes") = TopG
        /\ Read(mem, U(1), 2 * B, "int") = Q(TopF, TopG).q00
        /\ Read(mem, U(1) + 2 * B, 2 * B, "int") = Q(TopF, TopG).q01
        /\ Read(mem, U(2), N0, "int") = Q(TopF, TopG).q11

-----------------------------------------------------------------------------
(***************************************************************************)
(* The inductive invariant: the work area has what the next step reads,    *)
(* where it reads it, and no two extents of it overlap.                    *)
(***************************************************************************)
Tidy(m) ==
    /\ \A e \in m : e.at \in Nat /\ e.len \in Nat
    /\ \A e, w \in m : e = w \/ Apart(e, w)

Pair(at, d) ==
    /\ At(at, Length(d), NTT(f(d))) \in mem
    /\ At(at + Length(d), Length(d), NTT(g(d))) \in mem
SavedTo(top) == \A d \in 1 .. top : Saved(d) => Pair(SavedAt[d], d)
DeeperF == At(0, Length(depth + 1), Words(TheF[depth + 1])) \in mem
Between == depth \in 1 .. logn - 1

AtZero == Down \/ (Between /\ ~Saved(depth) /\ DeeperF)
AtStep ==
    /\ level \in 0 .. depth
    /\ Pair(Base, level)
    /\ IF Down THEN SavedTo(level) ELSE Between /\ ~Saved(depth) /\ DeeperF
AtDeepest == Down /\ Pair(0, logn) /\ SavedTo(logn - 1)
AtFetch == depth \in 0 .. logn - 1 /\ DeeperF /\ SavedTo(depth)
AtMove == Between /\ DeeperF /\ Pair(Base, depth) /\ SavedTo(depth - 1)
AtLift ==
    /\ Between /\ Pair(ft, depth) /\ SavedTo(depth - 1)
    /\ At(Fd, Length(depth + 1), Words(TheF[depth + 1])) \in mem
AtScale ==
    /\ Between /\ SavedTo(depth - 1)
    /\ At(Ft, llen * n, Words(Unreduced(depth))) \in mem
    /\ At(ft, slen * n, Words(f(depth))) \in mem

\* F has no fewer words than it is scaled by, and in the end those of f.
AtReduce ==
    /\ Between /\ SavedTo(depth - 1)
    /\ \E F \in {Unreduced(depth), TheF[depth]} : At(Ft, FGlen * n, Words(F)) \in mem
    /\ IF UseNTT THEN At(ft, (slen + 1) * n, NTT(f(depth))) \in mem
                 ELSE At(ft, slen * n, Words(f(depth))) \in mem
    /\ At(rt3, 2 * n, FFT(Reciprocal(f(depth)))) \in mem
    /\ FGlen \in slen .. llen
    /\ scale \in scale_fg .. 31 * llen /\ scale \div 31 <= FGlen
    /\ scale = scale_fg => FGlen = slen
    /\ depth = 1 => \/ scale = scale_fg
                    \/ \E turns \in 0 .. 31 * llen : scale = 31 * llen - Profile.reduce * turns

AtQuotient ==
    /\ At(T(1), N0, NTT(Unreduced(0))) \in mem
    /\ At(T(2), N0, NTT(g(0))) \in mem
    /\ At(T(3), N0, NTT(f(0))) \in mem

AtSubtract ==
    At(T(1), N0, NTT(Unreduced(0))) \in mem /\ At(T(2), N0, Words(TopK)) \in mem
AtBytes == At(T(1), N0, Words(TopF)) \in mem /\ At(T(2), N0, Words(TopG)) \in mem
AtForm ==
    /\ At(0, N0 \div 4, Bytes(TopF)) \in mem
    /\ At(N0 \div 4, N0 \div 4, Bytes(TopG)) \in mem

SolverInv ==
    /\ pc # "rest" => logn \in Degrees /\ Tidy(mem)
    /\ pc = "zero" => AtZero
    /\ pc = "step" => AtStep
    /\ pc = "deepest" => AtDeepest
    /\ pc = "fetch" => AtFetch
    /\ pc = "move" => AtMove
    /\ pc = "lift" => AtLift
    /\ pc = "scale" => AtScale
    /\ pc = "reduce" => AtReduce
    /\ pc = "quotient" => AtQuotient
    /\ pc = "subtract" => AtSubtract
    /\ pc = "bytes" => AtBytes
    /\ pc = "form" => AtForm
    /\ pc = "formed" => Solved
=============================================================================
