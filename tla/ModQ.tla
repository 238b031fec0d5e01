-------------------------------- MODULE ModQ --------------------------------
(***************************************************************************)
(* src/modq.h, with which HAWK's signer multiplies polynomials: arithmetic *)
(* modulo a prime of which zero is q, so that values are in 1 .. q.  What  *)
(* differs on machines with AVX2 is the reduction, which has the operand   *)
(* in two halves of a word.                                                *)
(***************************************************************************)
EXTENDS E8Ring

CONSTANTS
    Q, Q0I,           \* 18433, and -1/Q mod 2^32
    RootQ,            \* 19, of order 2048: a root of X^n + 1 for the largest n
    HalfBits          \* 16

HalfWord == 2^HalfBits
Word == HalfWord * HalfWord

\* The root is one of -1, and what the reduction is given, a product and no
\* more, is in the range for which it works.
ASSUME ModulusAssumption ==
    /\ Q % 2 = 1 /\ (Q * Q0I + 1) % Word = 0
    /\ Q * Q <= Word - (HalfWord - 1) * (Q - 1)

RQ == Word % Q
RQ2 == (RQ * RQ) % Q

FromZero(x) == IF x < 0 THEN x + Q ELSE x

QAdd(x, y) == Q - FromZero(Q - (x + y))
QSub(x, y) == Q - FromZero(y - x)
QHalf(x) == x \div 2 + (IF x % 2 = 1 THEN (Q + 1) \div 2 ELSE 0)

\* mq_montyred, and mq_montyred_x16 of the two halves.
MontyRed(x) ==
    LET y == (x * Q0I) % Word
    IN  ((y \div HalfWord) * Q) \div HalfWord + 1

MontyRedX16(x) ==
    LET lo == x % HalfWord
        hi == x \div HalfWord
        lo0 == Q0I % HalfWord
        y == ((lo * lo0) \div HalfWord + lo * (Q0I \div HalfWord) + hi * lo0) % HalfWord
    IN  (y * Q) \div HalfWord + 1

QMul(x, y, avx2) == IF avx2 THEN MontyRedX16(x * y) ELSE MontyRed(x * y)
ToMontyQ(x, avx2) == QMul(x, RQ2, avx2)

\* mq_set_small, and mq_snorm back.
SetSmall(x) == Q - FromZero(-x)
SNorm(x) == IF x > Q \div 2 THEN x - Q ELSE x

-----------------------------------------------------------------------------
(***************************************************************************)
(* The tables and the transforms.                                          *)
(***************************************************************************)
RevMax(x) == SumOver(0 .. LogMax - 1, LAMBDA k : ((x \div 2^k) % 2) * 2^(LogMax - 1 - k))
NonZero(x) == IF x % Q = 0 THEN Q ELSE x % Q

RootPowers ==
    FoldLeft(LAMBDA s, k : Append(s, (Last(s) * RootQ) % Q), <<1>>, Range0(2^(LogMax + 1) - 1))

\* The second table has the inverses, halved.
GMQ == [x \in Index |-> NonZero(RQ * RootPowers[RevMax(x) + 1])]
IGMQ == [x \in Index |->
            LET inverse == IF x = 0 THEN 1 ELSE RootPowers[2^(LogMax + 1) - RevMax(x) + 1]
            IN  NonZero(RQ * ((Q + 1) \div 2) * inverse)]

QLayer(a, lm, avx2) ==
    LET m == 2^lm
        t == n \div m
        ht == t \div 2
    IN  [k \in Index |->
            LET s == GMQ[k \div t + m]
            IN  IF k % t < ht THEN QAdd(a[k], QMul(a[k + ht], s, avx2))
                ELSE QSub(a[k - ht], QMul(a[k], s, avx2))]

QNtt(a, avx2) == FoldLeft(LAMBDA d, lm : QLayer(d, lm, avx2), a, Range0(LogN))

\* With the halves there is nothing to divide by in the end.
QInvLayer(a, lm, avx2) ==
    LET t == 2^lm
        hm == n \div (2 * t)
    IN  [k \in Index |->
            IF k % (2 * t) < t THEN QHalf(QAdd(a[k], a[k + t]))
            ELSE QMul(IGMQ[k \div (2 * t) + hm], QSub(a[k - t], a[k]), avx2)]

QIntt(a, avx2) == FoldLeft(LAMBDA d, lm : QInvLayer(d, lm, avx2), a, Range0(LogN))

-----------------------------------------------------------------------------
(***************************************************************************)
(* From bytes to residues of twice the size, in the memory of the bytes.   *)
(***************************************************************************)
PolySetSmall(a) == [u \in Index |-> SetSmall(a[u])]

\* A turn of the loops: two bytes, from where they are, become two words.
WidenTwo(m, from, u) ==
    [m EXCEPT ![2 * u] = SetSmall(m[from]), ![2 * u + 1] = 0,
              ![2 * u + 2] = SetSmall(m[from + 1]), ![2 * u + 3] = 0]

Evens == [j \in 1 .. hn |-> 2 * (j - 1)]
LowOrder == Reverse(Evens)
HighOrder == Evens

Bytes(a, from) == [c \in 0 .. 2 * n - 1 |-> IF c - from \in Index THEN a[c - from] ELSE 0]
WordsOf(m) == [u \in Index |-> m[2 * u]]

\* The bytes are in the lower half of the words' memory, or in the upper half.
InPlaceLow(a) ==
    WordsOf(FoldLeft(LAMBDA m, u : WidenTwo(m, u, u), Bytes(a, 0), LowOrder))
InPlaceHigh(a) ==
    WordsOf(FoldLeft(LAMBDA m, u : WidenTwo(m, n + u, u), Bytes(a, n), HighOrder))
=============================================================================
